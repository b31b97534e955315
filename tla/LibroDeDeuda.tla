----------------------------- MODULE LibroDeDeuda -----------------------------
(***************************************************************************)
(* What liquidaciones promise, without versions, keys, transactions or     *)
(* tables: a month is settled by one liquidacion at a time; while it is    *)
(* open proposals are made for it; it becomes exigible at once, for exactly*)
(* one of them; it is announced once; cancelling it, only before the       *)
(* announcement, leaves no debt.  Module Liquidaciones implements this     *)
(* (RefinaLibro).                                                          *)
(***************************************************************************)
EXTENDS Naturals

CONSTANTS
    Liqs,       \* liquidaciones
    UFs,        \* unidades funcionales
    Periodos,   \* months
    Repartos,   \* proposals: an amount per unit
    Ninguno     \* no value

VARIABLES
    fase,       \* of each liquidacion
    mes,        \* the month of each liquidacion
    propuestas, \* of each liquidacion, what was proposed so far
    deudas,     \* what units owe: [liq, uf, monto, num], num tells two debts apart
    anuncios    \* announcements: [liq, num]

vars == <<fase, mes, propuestas, deudas, anuncios>>

Init ==
    /\ fase = [l \in Liqs |-> "nada"]
    /\ mes = [l \in Liqs |-> Ninguno]
    /\ propuestas = [l \in Liqs |-> {}]
    /\ deudas = {} /\ anuncios = {}

\* A liquidacion that has the month of another does not coexist with it.
Abrir(l, p) ==
    /\ fase[l] = "nada"
    /\ \A m \in Liqs : mes[m] = p => fase[m] = "anulada"
    /\ fase' = [fase EXCEPT ![l] = "abierta"]
    /\ mes' = [mes EXCEPT ![l] = p]
    /\ UNCHANGED <<propuestas, deudas, anuncios>>

Proponer(l, r) ==
    /\ fase[l] = "abierta"
    /\ propuestas' = [propuestas EXCEPT ![l] = @ \cup {r}]
    /\ UNCHANGED <<fase, mes, deudas, anuncios>>

\* The debts nuevas are what r proposes for l: one for each unit with an amount.
Cobra(l, r, nuevas) ==
    /\ \A d \in nuevas : d.liq = l /\ d.monto = r[d.uf] /\ d.monto > 0
    /\ \A u \in UFs : r[u] > 0 => \E d \in nuevas : d.uf = u
    /\ \A d, e \in nuevas : d.uf = e.uf => d = e

Exigir(l) ==
    /\ fase[l] = "abierta"
    /\ fase' = [fase EXCEPT ![l] = "exigible"]
    /\ deudas \subseteq deudas'
    /\ \E r \in propuestas[l] : Cobra(l, r, deudas' \ deudas)
    /\ UNCHANGED <<mes, propuestas, anuncios>>

Anunciar(l) ==
    /\ fase[l] = "exigible"
    /\ fase' = [fase EXCEPT ![l] = "anunciada"]
    /\ \E a \in anuncios' \ anuncios : a.liq = l /\ anuncios' = anuncios \cup {a}
    /\ UNCHANGED <<mes, propuestas, deudas>>

Cancelar(l) ==
    /\ fase[l] \in {"abierta", "exigible"}
    /\ fase' = [fase EXCEPT ![l] = "anulada"]
    /\ deudas' = {d \in deudas : d.liq # l}
    /\ UNCHANGED <<mes, propuestas, anuncios>>

Next == \E l \in Liqs :
    \/ \E p \in Periodos : Abrir(l, p)
    \/ \E r \in Repartos : Proponer(l, r)
    \/ Exigir(l) \/ Anunciar(l) \/ Cancelar(l)

Spec == Init /\ [][Next]_vars
=============================================================================
