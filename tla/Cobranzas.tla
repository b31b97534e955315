------------------------------ MODULE Cobranzas ------------------------------
(***************************************************************************)
(* Payments (cobranzas) of one unit and their allocation to its charges    *)
(* (internal/cobranzas/acreditacion.go, ledger.go): a payment waits in     *)
(* pendiente_revision until a treasurer, or an approved Mercado Pago       *)
(* webhook, credits it; it may then be reallocated and reverted.           *)
(*                                                                         *)
(* As in Liquidaciones, a session is one PostgreSQL transaction at READ    *)
(* COMMITTED: its reads are steps, its writes appear at its commit.  The   *)
(* handlers lock no payment, so two of them on one payment meet only at    *)
(* the primary key (payment, charge) of payment_allocations.               *)
(***************************************************************************)
EXTENDS Naturals, Sumas

CONSTANTS
    Pagos,      \* identifiers of payments, all of one unit
    NCargos,    \* number of charges of the unit, numbered oldest first
    Total,      \* amount of each charge
    Importe,    \* amount of each payment
    Corte,      \* charges 1..Corte[p] are due on the date of payment p
    Pedidos,    \* requests: [op, pago, plan]; a retry is the same request again
    Sesiones,   \* transactions that may be open at the same time
    Ninguno     \* no request; as a plan: no explicit allocations

Cargos == 1..NCargos    \* in the order of due_date, created_at, id
Ops    == {"acreditar", "webhook", "ajustar", "revertir"}

ASSUME NCargosAssumption == NCargos \in Nat
ASSUME MontosAssumption ==
    /\ Total \in [Cargos -> Nat \ {0}]
    /\ Importe \in [Pagos -> Nat \ {0}]
    /\ Corte \in [Pagos -> 0..NCargos]
ASSUME PedidosAssumption ==
    \A r \in Pedidos :
        /\ r.op \in Ops /\ r.pago \in Pagos
        /\ r.plan \in [Cargos -> Nat] \cup {Ninguno}
        /\ r.op = "webhook" => r.plan = Ninguno
        /\ r.op = "ajustar" => r.plan # Ninguno
ASSUME NingunoAssumption == Ninguno \notin Pedidos /\ Ninguno \notin [Cargos -> Nat]

VARIABLES
    pago,      \* payments.estado
    asig,      \* table payment_allocations: amount, 0 where there is no row
    emitidos,  \* charges that exist
    anulados,  \* charges left without balance by an annulment
    ses,       \* the open transactions
    desfasados \* history: payments on which a transaction committed though
               \* another one had, since it read them, and whose allocations no
               \* reallocation or reversal has replaced since on a fresh reading

vars == <<pago, asig, emitidos, anulados, ses, desfasados>>

Estados == {"inexistente", "pendiente_revision", "acreditado", "revertido"}
Pasos   == {"libre", "leer", "borrar", "borrando", "asignar", "confirmar"}
SinAsignar == [c \in Cargos |-> 0]

Sesion == [paso: Pasos, pedido: Pedidos \cup {Ninguno}, visto: Estados,
           borra: SUBSET Cargos, plan: [Cargos -> Nat],
           fresca: BOOLEAN]    \* history: nobody committed since it read

TypeOK ==
    /\ pago \in [Pagos -> Estados]
    /\ asig \in [Pagos -> [Cargos -> Nat]]
    /\ emitidos \subseteq Cargos
    /\ anulados \subseteq emitidos
    /\ ses \in [Sesiones -> Sesion]
    /\ desfasados \subseteq Pagos

SesionLibre == [paso |-> "libre", pedido |-> Ninguno, visto |-> "inexistente",
                borra |-> {}, plan |-> SinAsignar, fresca |-> TRUE]

Init ==
    /\ pago = [p \in Pagos |-> "inexistente"]
    /\ asig = [p \in Pagos |-> SinAsignar]
    /\ emitidos = {} /\ anulados = {}
    /\ ses = [w \in Sesiones |-> SesionLibre]
    /\ desfasados = {}

-----------------------------------------------------------------------------
(* Charges and payments appear *)

\* ConfirmarLiquidacion posts charges and AnularLiquidacion clears their
\* balance; nothing else changes charges.saldo_cents.
Emitir(c) ==
    /\ c \notin emitidos
    /\ emitidos' = emitidos \cup {c}
    /\ UNCHANGED <<pago, asig, anulados, ses, desfasados>>

Anular(c) ==
    /\ c \in emitidos \ anulados
    /\ anulados' = anulados \cup {c}
    /\ UNCHANGED <<pago, asig, emitidos, ses, desfasados>>

\* CreateCobranza.
CrearPago(p) ==
    /\ pago[p] = "inexistente"
    /\ pago' = [pago EXCEPT ![p] = "pendiente_revision"]
    /\ UNCHANGED <<asig, emitidos, anulados, ses, desfasados>>

SaldoDe(c) == IF c \in emitidos \ anulados THEN Total[c] ELSE 0

-----------------------------------------------------------------------------
(* The allocation *)

Filas(f) == {c \in Cargos : f[c] > 0}
Menor(a, b) == IF a < b THEN a ELSE b

\* Faulty: charges that are not due yet are paid too.
FifoSinCorte(p) ==
    LET aplicado[c \in 0..NCargos] ==
            IF c = 0 THEN 0
            ELSE aplicado[c-1] + Menor(SaldoDe(c), Importe[p] - aplicado[c-1])
    IN  [c \in Cargos |-> aplicado[c] - aplicado[c-1]]

\* buildFIFOAllocations: the open charges due on the date of the payment, oldest
\* first, each up to its balance and to what remains of the payment.
Fifo(p) ==
    LET abierto(c) == IF c <= Corte[p] THEN SaldoDe(c) ELSE 0
        aplicado[c \in 0..NCargos] ==
            IF c = 0 THEN 0
            ELSE aplicado[c-1] + Menor(abierto(c), Importe[p] - aplicado[c-1])
    IN  [c \in Cargos |-> aplicado[c] - aplicado[c-1]]

\* Faulty: the explicit sum is not compared with the payment.
ValidoSinTope(r) == r.plan # Ninguno => Filas(r.plan) \subseteq emitidos

\* buildExplicitAllocations: each charge exists (foreign key) and the sum does
\* not exceed the payment; the balance of the charges is not looked at.
Valido(r) ==
    r.plan # Ninguno =>
        /\ Filas(r.plan) \subseteq emitidos
        /\ Suma(r.plan) <= Importe[r.pago]

\* buildAllocations: no explicit allocations, or an empty list, means FIFO;
\* AjustarAsignaciones takes an empty list as it is.
Propuesta(r) ==
    IF r.plan = Ninguno \/ (r.op = "acreditar" /\ Filas(r.plan) = {})
    THEN Fifo(r.pago) ELSE r.plan

-----------------------------------------------------------------------------
(* Transactions *)

Terminar(w) == ses' = [ses EXCEPT ![w] = SesionLibre]
Seguir(w, s) == ses' = [ses EXCEPT ![w] = s]

\* A request, or a retry or second delivery of one, arrives for a payment.
Recibir(w, r) ==
    /\ ses[w].paso = "libre"
    /\ pago[r.pago] # "inexistente"
    /\ Seguir(w, [SesionLibre EXCEPT !.paso = "leer", !.pedido = r])
    /\ UNCHANGED <<pago, asig, emitidos, anulados, desfasados>>

\* AcreditarCobranza answers for a payment already credited; the webhook only
\* credits one that is pendiente_revision.
NadaQueHacer(op, estado) ==
    \/ op = "acreditar" /\ estado = "acreditado"
    \/ op = "webhook" /\ estado # "pendiente_revision"

\* GetCobranza.  The webhook reads the payment twice, and what the second read
\* adds is what this one would see later.
Leer(w) ==
    LET s == ses[w]
        estado == pago[s.pedido.pago]
    IN  /\ s.paso = "leer"
        /\ \/ NadaQueHacer(s.pedido.op, estado) /\ Terminar(w)
           \/ /\ ~NadaQueHacer(s.pedido.op, estado)
              /\ Seguir(w, [s EXCEPT !.visto = estado,
                              !.paso = IF s.pedido.op \in {"ajustar", "revertir"}
                                       THEN "borrar" ELSE "asignar"])
        /\ UNCHANGED <<pago, asig, emitidos, anulados, desfasados>>

\* Faulty: the DELETE finds no row.
FilasVisiblesNinguna(p) == {}

\* The rows a statement sees: those of committed transactions.
FilasVisibles(p) == Filas(asig[p])

\* DELETE FROM payment_allocations takes its snapshot when it starts ...
VerBorrables(w) ==
    LET s == ses[w]
    IN  /\ s.paso = "borrar"
        /\ Seguir(w, [s EXCEPT !.paso = "borrando",
                               !.borra = FilasVisibles(s.pedido.pago)])
        /\ UNCHANGED <<pago, asig, emitidos, anulados, desfasados>>

\* The rows (payment, charge) that session x has deleted or inserted and not yet
\* committed.
Tocadas(x, p) ==
    IF ses[x].paso \in {"asignar", "confirmar"} /\ ses[x].pedido.pago = p
    THEN ses[x].borra \cup Filas(ses[x].plan) ELSE {}

Esperan(w, p, filas) == \E x \in Sesiones \ {w} : Tocadas(x, p) \cap filas # {}

\* ... and then waits for the transactions that hold one of those rows.
Borrar(w) ==
    LET s == ses[w]
    IN  /\ s.paso = "borrando"
        /\ ~Esperan(w, s.pedido.pago, s.borra)
        /\ Seguir(w, [s EXCEPT !.paso = IF s.pedido.op = "revertir"
                                        THEN "confirmar" ELSE "asignar"])
        /\ UNCHANGED <<pago, asig, emitidos, anulados, desfasados>>

\* The primary key: a row that is committed and that this transaction has not
\* deleted refuses a second one (23505).
Choca(s, plan) ==
    Filas(plan) \cap (FilasVisibles(s.pedido.pago) \ s.borra) # {}

\* The INSERTs wait for transactions with a row of the same key.
Asignar(w) ==
    LET s == ses[w]
        plan == Propuesta(s.pedido)
    IN  /\ s.paso = "asignar"
        /\ ~Esperan(w, s.pedido.pago, Filas(plan))
        /\ \/ (~Valido(s.pedido) \/ Choca(s, plan)) /\ Terminar(w)
           \/ /\ Valido(s.pedido) /\ ~Choca(s, plan)
              /\ Seguir(w, [s EXCEPT !.paso = "confirmar", !.plan = plan])
        /\ UNCHANGED <<pago, asig, emitidos, anulados, desfasados>>

\* Faulty: a reverted payment gets an estado that the table does not know.
EstadoFinalAnulado(s) == IF s.pedido.op = "revertir" THEN "anulado" ELSE "acreditado"

\* Faulty: a reallocation leaves the payment in the estado it had.
EstadoFinalSinAjuste(s) ==
    CASE s.pedido.op \in {"acreditar", "webhook"} -> "acreditado"
      [] s.pedido.op = "revertir" -> "revertido"
      [] s.pedido.op = "ajustar" -> pago[s.pedido.pago]

\* UpdateCobranzaEstado has no condition on the estado it replaces;
\* AjustarAsignaciones skips it when it read acreditado.
EstadoFinal(s) ==
    CASE s.pedido.op \in {"acreditar", "webhook"} -> "acreditado"
      [] s.pedido.op = "revertir" -> "revertido"
      [] s.pedido.op = "ajustar" -> IF s.visto = "acreditado"
                                    THEN pago[s.pedido.pago] ELSE "acreditado"

\* What the commit of s does to another transaction: one on the same payment has
\* read it before, and a DELETE that waited finds the rows s deleted gone, and does
\* not see those it inserted.
Alcanza(x, s) ==
    IF x.paso \in {"libre", "leer"} \/ x.pedido.pago # s.pedido.pago THEN x
    ELSE [x EXCEPT !.fresca = FALSE,
                   !.borra = IF x.paso = "borrando" THEN @ \ s.borra ELSE @]

\* The last UPDATE and the commit.
Confirmar(w) ==
    LET s == ses[w]
        p == s.pedido.pago
    IN  /\ s.paso = "confirmar"
        /\ pago' = [pago EXCEPT ![p] = EstadoFinal(s)]
        /\ asig' = [asig EXCEPT ![p] =
                      [c \in Cargos |-> IF s.plan[c] > 0 THEN s.plan[c]
                                        ELSE IF c \in s.borra THEN 0
                                        ELSE asig[p][c]]]
        /\ ses' = [x \in Sesiones |->
                     IF x = w THEN SesionLibre ELSE Alcanza(ses[x], s)]
        /\ desfasados' =
             IF ~s.fresca THEN desfasados \cup {p}
             ELSE IF s.pedido.op \in {"ajustar", "revertir"} THEN desfasados \ {p}
             ELSE desfasados
        /\ UNCHANGED <<emitidos, anulados>>

\* Rollback: a cancelled request, a lost connection, a crash, a deadlock that
\* PostgreSQL breaks (the INSERTs of two explicit lists in opposite orders).
Abortar(w) ==
    /\ ses[w].paso # "libre"
    /\ Terminar(w)
    /\ UNCHANGED <<pago, asig, emitidos, anulados, desfasados>>

Next ==
    \/ \E c \in Cargos : Emitir(c) \/ Anular(c)
    \/ \E p \in Pagos : CrearPago(p)
    \/ \E w \in Sesiones, r \in Pedidos : Recibir(w, r)
    \/ \E w \in Sesiones :
          \/ Leer(w) \/ VerBorrables(w) \/ Borrar(w) \/ Asignar(w)
          \/ Confirmar(w) \/ Abortar(w)

Spec == Init /\ [][Next]_vars

-----------------------------------------------------------------------------
(* Properties *)

\* ADR-0007: what is allocated of a payment does not exceed it.  The sum holds
\* after any sequence of crediting, reallocating, reverting and crediting again,
\* beside any others that roll back, unless a transaction committed on a reading
\* that another commit had made stale; and then the next reallocation or reversal
\* that reads what is there restores it, since the DELETE of AjustarAsignaciones and
\* RevertirCobranza takes every row.
SumaConLecturaFresca == \A p \in Pagos \ desfasados : Suma(asig[p]) <= Importe[p]

\* A payment that waits for review pays nothing, though nothing but the order of
\* the statements of each handler ties the allocations to the estado.
PendienteSinAsignaciones ==
    \A p \in Pagos :
        pago[p] \in {"inexistente", "pendiente_revision"} => asig[p] = SinAsignar

\* Reverting a payment releases all it paid, with the same exception: a credit
\* that was under way must not survive the DELETE of RevertirCobranza.
RevertidoSinAsignaciones ==
    \A p \in Pagos \ desfasados : pago[p] = "revertido" => asig[p] = SinAsignar

\* A plan pays the oldest charges first: a charge is paid only if every older
\* one that is due is paid in full, none above its balance, and money is left
\* over only when all that is due is paid.
AntiguosPrimero(p, plan) ==
    LET abierto == [c \in Cargos |-> IF c <= Corte[p] THEN SaldoDe(c) ELSE 0]
    IN  /\ \A c \in Cargos : plan[c] <= abierto[c]
        /\ \A c, d \in Cargos : c < d /\ plan[d] > 0 => plan[c] = abierto[c]
        /\ Suma(plan) = Menor(Importe[p], Suma(abierto))

\* The loop of buildFIFOAllocations proposes such a plan whenever no explicit
\* allocation is given.
FifoPagaLoMasAntiguo ==
    [][\A w \in Sesiones :
          /\ ses[w].paso = "asignar" /\ ses'[w].paso = "confirmar"
          /\ ses[w].pedido.plan = Ninguno
          => AntiguosPrimero(ses[w].pedido.pago, ses'[w].plan)]_vars

\* ADR-0007: no charge is paid above its amount.
CargoNoExcedido ==
    \A c \in Cargos :
        Suma([p \in Pagos |-> asig[p][c]]) <= Total[c]
=============================================================================
