------------------------------ MODULE Distribucion ------------------------------
(***************************************************************************)
(* The distribution of the gastos of a month among the unidades            *)
(* (internal/expensas: agruparConceptos of transiciones.go, Distribuir of  *)
(* calculo.go), whose results are the Repartos of module Liquidaciones.    *)
(*                                                                         *)
(* Distribuir is a loop over the conceptos and, in each, over the units in *)
(* the order of their codes; an iteration is a step.  It computes shares   *)
(* in float64, from a sum of coefficients, a quotient and a product that    *)
(* each may err a little, and rounds the outcome to the nearest cent: a    *)
(* share near half a cent may go to either side.                           *)
(***************************************************************************)
EXTENDS Naturals, Sequences, SequencesExt, Sumas

CONSTANTS
    NUFs,        \* number of active units; a unit is the rank of its code
    Coefs,       \* coefficients, scaled to integers
    Conceptos,   \* conceptos of the gastos
    Importes,    \* amounts of a gasto, in cents
    MaxGastos,   \* bound: gastos of the month
    Precision    \* the computed share is off by at most 1/Precision of itself:
                 \* some 2^53 / (NUFs + 3) with float64

UFs == 1..NUFs

ASSUME EntradasAssumption ==
    /\ NUFs \in Nat \ {0} /\ MaxGastos \in Nat \ {0}
    /\ Coefs \subseteq Nat /\ Importes \subseteq Nat \ {0}
    /\ Precision \in Nat \ {0}

VARIABLES
    gastos,   \* input: the gastos of the month, as ListGastos gives them
    entrada,  \* input: the units, as ListUnidades gives them
    coef,     \* input: the coefficient of each unit
    orden,    \* sortedUFs
    con,      \* the conceptos, with their amounts
    cpto,     \* the concepto and ...
    pos,      \* ... the position in orden of the next iteration
    remain,   \* what is left of the concepto
    items,    \* the items of each unit: amount by position of the concepto
    total     \* TotalCents of each unit

varsDis == <<gastos, entrada, coef, orden, con, cpto, pos, remain, items, total>>

Gasto == [concepto: Conceptos, importe: Importes]

InitDis ==
    /\ gastos \in UNION {[1..n -> Gasto] : n \in 1..MaxGastos}
    /\ entrada \in {e \in [UFs -> UFs] : \A u, v \in UFs : e[u] = e[v] => u = v}
    /\ coef \in [UFs -> Coefs]
    /\ orden = <<>> /\ con = <<>>
    /\ cpto = 1 /\ pos = 0 /\ remain = 0
    /\ items = [u \in UFs |-> <<>>]
    /\ total = [u \in UFs |-> 0]

CoefTotal == Suma(coef)

\* Where the concepto of g already is in ds.
Posiciones(ds, g) == {n \in DOMAIN ds : ds[n].concepto = g.concepto}

\* A gasto joins the concepto it is of, or begins it.
Agregar(ds, g) ==
    IF Posiciones(ds, g) = {} THEN Append(ds, g)
    ELSE [n \in DOMAIN ds |-> IF n \in Posiciones(ds, g)
                              THEN [ds[n] EXCEPT !.importe = @ + g.importe] ELSE ds[n]]

\* agruparConceptos.
AgruparConceptos(gs) == FoldLeft(Agregar, <<>>, gs)

\* sort.Slice by codigo: the same units, in the order of their codes.
PorCodigo(e) ==
    CHOOSE o \in [UFs -> UFs] :
        /\ {o[n] : n \in UFs} = {e[n] : n \in UFs}
        /\ \A n, m \in UFs : n < m => o[n] < o[m]

\* The loop goes to concepto n.
Pasar(n) ==
    /\ cpto' = n /\ pos' = 1
    /\ remain' = IF n \in DOMAIN con' THEN con'[n].importe ELSE 0

\* The checks and the preparation; without a coefficient there is no distribution.
Preparar ==
    /\ pos = 0 /\ CoefTotal > 0
    /\ orden' = PorCodigo(entrada)
    /\ con' = AgruparConceptos(gastos)
    /\ Pasar(1)
    /\ UNCHANGED <<gastos, entrada, coef, items, total>>

\* Faulty: the quotient is cut to whole cents.
Truncados(x, y) == {x \div y}

\* math.Round of the computed quotient x / y: the cents within half a cent of a
\* number that is off by at most 1/Precision of the quotient.
Redondeos(x, y) ==
    {r \in 0..(2 * x + 1) :
        /\ 2 * Precision * r * y <= 2 * Precision * x + Precision * y + 2 * x
        /\ 2 * Precision * x <= 2 * Precision * r * y + Precision * y + 2 * x}

\* No share exceeds what is left.
Recorte(r) == IF r > remain THEN remain ELSE r

\* The share of the next unit; one with coefficient 0 is skipped.
Repartir ==
    LET u == orden[pos]
    IN  /\ pos \in UFs /\ cpto \in DOMAIN con
        /\ pos' = pos + 1
        /\ IF coef[u] = 0 THEN UNCHANGED <<remain, items, total>>
           ELSE \E x \in Redondeos(con[cpto].importe * coef[u], CoefTotal) :
                   LET r == Recorte(x)
                   IN  /\ total' = [total EXCEPT ![u] = @ + r]
                       /\ items' = [items EXCEPT ![u] = Append(@, r)]
                       /\ remain' = remain - r
        /\ UNCHANGED <<gastos, entrada, coef, orden, con, cpto>>

\* The first unit of the order with a coefficient.
Primera == orden[CHOOSE n \in UFs : coef[orden[n]] > 0
                    /\ \A m \in 1..(n - 1) : coef[orden[m]] = 0]

\* Faulty: the residue is added to the first item of the unit.
ItemDelResiduoPrimero(s) == 1

\* The residue belongs to the last item of the unit.
ItemDelResiduo(s) == Len(s)

\* The items of a unit, with what is left in that one.
ConResto(s) == [s EXCEPT ![ItemDelResiduo(s)] = @ + remain]

\* What is left of the concepto goes to the first unit.
Residuo ==
    LET u == Primera
    IN  /\ pos = NUFs + 1
        /\ total' = [total EXCEPT ![u] = @ + remain]
        /\ items' = [items EXCEPT ![u] = ConResto(@)]
        /\ UNCHANGED <<gastos, entrada, coef, orden, con>>
        /\ Pasar(cpto + 1)

NextDis == Preparar \/ Repartir \/ Residuo

SpecDis == InitDis /\ [][NextDis]_varsDis

-----------------------------------------------------------------------------
(* Properties *)

Listo == pos # 0 /\ cpto > Len(con)
ItemsDe(u) == [n \in DOMAIN con |-> IF coef[u] = 0 THEN 0 ELSE items[u][n]]

\* ADR-0006: nothing is lost and nothing is made up.  The items of a concepto add
\* up to the gastos of the concepto, TotalCents of each unit to its items, and all
\* the totals to all the gastos (Distribuir keeps items and totals apart, and the
\* snapshot stores both).
SumaExacta ==
    Listo =>
        /\ \A n \in DOMAIN con :
              Suma([u \in UFs |-> ItemsDe(u)[n]])
                = Suma([m \in DOMAIN gastos |-> IF gastos[m].concepto = con[n].concepto
                                                THEN gastos[m].importe ELSE 0])
        /\ \A u \in UFs : total[u] = Suma(ItemsDe(u))
        /\ Suma(total) = Suma([m \in DOMAIN gastos |-> gastos[m].importe])

\* A unit pays its share of each concepto: within half a cent for each unit of the
\* consorcio and the error of the computed shares, never less than nothing, and
\* nothing without a coefficient.  (The clamp and the residue move cents.)
RepartoProporcional ==
    Listo =>
        \A u \in UFs, n \in DOMAIN con :
            LET parte  == Precision * (con[n].importe * coef[u])
                paga   == Precision * (ItemsDe(u)[n] * CoefTotal)
                margen == NUFs * (Precision * CoefTotal) + 2 * (con[n].importe * CoefTotal)
            IN  /\ coef[u] = 0 => items[u] = <<>>
                /\ ItemsDe(u)[n] >= 0
                /\ 2 * paga <= 2 * parte + margen
                /\ 2 * parte <= 2 * paga + margen

\* The exact share of a unit: whole cents, and what remains of the division.
Enteros(u, n) == (con[n].importe * coef[u]) \div CoefTotal
Resto(u, n)   == (con[n].importe * coef[u]) % CoefTotal
Subida(u, n)  == ItemsDe(u)[n] > Enteros(u, n)

\* What ADR-0006 and the comment of Distribuir promise, mayor resto: each unit pays
\* the whole cents of its share, and the cents that are left go one each to the
\* largest remainders, by code among equals.
MayorResto ==
    Listo =>
        \A n \in DOMAIN con, u \in UFs :
            /\ ItemsDe(u)[n] \in {Enteros(u, n), Enteros(u, n) + 1}
            /\ \A v \in UFs :
                  Subida(u, n) /\ ~Subida(v, n) =>
                      \/ Resto(u, n) > Resto(v, n)
                      \/ Resto(u, n) = Resto(v, n) /\ u < v
=============================================================================
