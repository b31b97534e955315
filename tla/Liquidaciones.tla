---------------------------- MODULE Liquidaciones ----------------------------
(***************************************************************************)
(* The life of a liquidacion (the monthly settlement of a consorcio):      *)
(* borrador -> calculada -> confirmada -> publicada, with anulada as a way *)
(* out (internal/expensas/transiciones.go, liquidacion.go) and the charges *)
(* and ledger entries it posts (internal/cuenta_corriente).                *)
(*                                                                         *)
(* Every HTTP request runs in one PostgreSQL transaction at READ COMMITTED *)
(* (txQueries, apps/api/transport/http/consorcios.go).  A session of the   *)
(* model is one such transaction.  Its reads are steps of their own, since *)
(* another session may commit between two of them; its writes stay private *)
(* to it and appear at its commit step.  Commit is merged with the UPDATE  *)
(* of the liquidaciones row that precedes it: that UPDATE takes the row    *)
(* lock, and a competing UPDATE waits for it and then re-evaluates its     *)
(* WHERE clause, which is what the guard Vigente states.  If-Match is      *)
(* compared nowhere else: any positive number is taken, a version that does*)
(* not exist yet included.                                                 *)
(***************************************************************************)
EXTENDS Naturals

CONSTANTS
    Liqs,        \* identifiers of liquidaciones
    Periodos,    \* months of one consorcio
    UFs,         \* unidades funcionales
    Repartos,    \* results Distribuir may give: total per UF (0: no charge)
    Fechas,      \* values of vencimiento_1
    Claves,      \* Idempotency-Key values
    Sesiones,    \* database transactions that may be open at the same time
    MaxVersion,  \* bound: no recalculation starts from this version on
    Ninguno      \* no value

ASSUME RepartosAssumption == Repartos \subseteq [UFs -> Nat]
ASSUME MaxVersionAssumption == MaxVersion \in Nat
ASSUME NingunoAssumption ==
    /\ Ninguno \notin Repartos /\ Ninguno \notin Claves /\ Ninguno \notin Periodos
    /\ Ninguno \notin [liq: Liqs, version: Nat]

VARIABLES
    liq,       \* table liquidaciones, with the liquidacion_unidades snapshot
    gastos,    \* what distributing the gastos of each month would give now
    cargos,    \* table charges
    asientos,  \* table account_entries
    eventos,   \* outbox events 'liquidacion.publicada'
    idem,      \* table idempotency_keys, by scope
    ses,       \* the open transactions
    (* history: read by the properties, never by a guard *)
    calculados,  \* of each liquidacion, the snapshots that were committed
    adelantadas  \* liquidaciones confirmed with an If-Match that named a later
                 \* version than the one their request had read

historia == <<calculados, adelantadas>>
vars == <<liq, gastos, cargos, asientos, eventos, idem, ses, historia>>

-----------------------------------------------------------------------------
(* Types *)

Estados == {"inexistente", "borrador", "calculada", "confirmada",
            "publicada", "anulada"}
Ambitos == {"calcular", "confirmar", "publicar"}    \* idempotency scopes
Ops     == Ambitos \cup {"anular"}
Pasos   == {"libre", "sellar", "preparar", "escribir"}

\* A charge row; lote identifies the transaction that inserted it (the version
\* the liquidacion got in it), so that posting twice gives two rows.
Cargo == [liq: Liqs, uf: UFs, lote: Nat, total: Nat, saldo: Nat, venc: Fechas]

\* A ledger entry about charge (liq, uf, lote), written at version en.
Asiento == [liq: Liqs, uf: UFs, lote: Nat, en: Nat,
            tipo: {"cargo", "reversa"}, debe: Nat, haber: Nat]

Liquidacion == [estado: Estados, version: Nat,
                periodo: Periodos \cup {Ninguno},
                venc: Fechas \cup {Ninguno},
                reparto: Repartos \cup {Ninguno}]

Sesion == [paso: Pasos, op: Ops \cup {Ninguno}, l: Liqs \cup {Ninguno},
           clave: Claves \cup {Ninguno}, exp: Nat, visto: Estados,
           venc: Fechas \cup {Ninguno}, reparto: Repartos \cup {Ninguno},
           revertir: SUBSET Cargo, adelantado: BOOLEAN]

TypeOK ==
    /\ liq \in [Liqs -> Liquidacion]
    /\ gastos \in [Periodos -> Repartos \cup {Ninguno}]
    /\ cargos \subseteq Cargo
    /\ asientos \subseteq Asiento
    /\ eventos \subseteq [liq: Liqs, en: Nat]
    /\ idem \in [Ambitos -> [Claves -> [liq: Liqs, version: Nat] \cup {Ninguno}]]
    /\ ses \in [Sesiones -> Sesion]
    /\ calculados \in [Liqs -> SUBSET Repartos]
    /\ adelantadas \subseteq Liqs

\* Values of If-Match.  Bound: the versions a transition can start from, since
\* MaxVersion may still be confirmed; a larger number finds no row either.
Versiones == 1..(MaxVersion + 1)

-----------------------------------------------------------------------------

SesionLibre == [paso |-> "libre", op |-> Ninguno, l |-> Ninguno,
                clave |-> Ninguno, exp |-> 0, visto |-> "inexistente",
                venc |-> Ninguno, reparto |-> Ninguno, revertir |-> {},
                adelantado |-> FALSE]

Inexistente == [estado |-> "inexistente", version |-> 0, periodo |-> Ninguno,
                venc |-> Ninguno, reparto |-> Ninguno]

Init ==
    /\ liq = [l \in Liqs |-> Inexistente]
    /\ gastos = [p \in Periodos |-> Ninguno]
    /\ cargos = {} /\ asientos = {} /\ eventos = {}
    /\ idem = [a \in Ambitos |-> [k \in Claves |-> Ninguno]]
    /\ ses = [w \in Sesiones |-> SesionLibre]
    /\ calculados = [l \in Liqs |-> {}] /\ adelantadas = {}

\* The transaction of w ends; the handler answers.
Terminar(w) == ses' = [ses EXCEPT ![w] = SesionLibre]

\* The transaction of w goes on with the values of s.
Seguir(w, s) == ses' = [ses EXCEPT ![w] = s]

-----------------------------------------------------------------------------
(* Operations of a single statement *)

\* Faulty: the index forgets the months already charged.
ActivaHastaCalculada(l) == liq[l].estado \in {"borrador", "calculada"}

\* The partial unique index liquidaciones_unica_activa_idx: one liquidacion
\* per month that is neither anulada nor cerrada.
Activa(l) == liq[l].estado \notin {"inexistente", "anulada"}
PeriodoLibre(p) == \A l \in Liqs : Activa(l) => liq[l].periodo # p

\* CreateLiquidacion: INSERT ... ON CONFLICT DO NOTHING.
Crear(l, p, f) ==
    /\ liq[l].estado = "inexistente"
    /\ PeriodoLibre(p)
    /\ liq' = [liq EXCEPT ![l] = [estado |-> "borrador", version |-> 1,
                                  periodo |-> p, venc |-> f,
                                  reparto |-> Ninguno]]
    /\ UNCHANGED <<gastos, cargos, asientos, eventos, idem, ses, historia>>

\* The WHERE clause of UpdateLiquidacionVencimientos.
Editable(l, v) == liq[l].estado = "borrador" /\ liq[l].version = v

\* PATCH of the due date: with another version than the current one, or once
\* calculated, the UPDATE finds no row (and the handler answers "updated" all the
\* same); the version does not change.
Patch(l, v, f) ==
    /\ liq[l].estado # "inexistente"
    /\ v \in Versiones
    /\ liq' = [liq EXCEPT ![l].venc = IF Editable(l, v) THEN f ELSE @]
    /\ UNCHANGED <<gastos, cargos, asientos, eventos, idem, ses, historia>>

\* Gastos are registered and units change at any time (CreateGasto, the
\* unidades endpoints): the next calculation of the month would give r, or find
\* no gastos or no active units (Ninguno).
CambiarGastos(p, r) ==
    /\ gastos[p] # r
    /\ gastos' = [gastos EXCEPT ![p] = r]
    /\ UNCHANGED <<liq, cargos, asientos, eventos, idem, ses, historia>>

-----------------------------------------------------------------------------
(* The transactions of calcular, confirmar, publicar and anular *)

\* Faulty: a confirmed liquidacion may be confirmed again.
AdmiteReconfirmar(op) ==
    CASE op = "calcular"  -> {"borrador", "calculada"}
      [] op = "confirmar" -> {"calculada", "confirmada"}
      [] op = "publicar"  -> {"confirmada"}
      [] op = "anular"    -> {"borrador", "calculada", "confirmada"}

\* The states an operation may start from.
Admite(op) ==
    CASE op = "calcular"  -> {"borrador", "calculada"}
      [] op = "confirmar" -> {"calculada"}
      [] op = "publicar"  -> {"confirmada"}
      [] op = "anular"    -> {"borrador", "calculada", "confirmada"}

\* A request arrives and does its first read: GetLiquidacion and the check of its
\* estado; calcular also reads the gastos and the active units, here at the same
\* moment: both change freely.  Nothing depends on the time before that read, and
\* a request refused by it leaves no trace.  parseIfMatch takes any positive
\* number: the version some answer showed, or one that does not exist yet.
Recibir(w, op, l, k, v) ==
    LET x == liq[l]
    IN  /\ ses[w].paso = "libre"
        /\ v \in Versiones
        /\ x.estado \in Admite(op)
        /\ op = "calcular" => v < MaxVersion /\ gastos[x.periodo] # Ninguno
        /\ (op = "anular") <=> (k = Ninguno)
        /\ Seguir(w, [SesionLibre EXCEPT
                         !.paso = IF op = "anular" THEN "preparar" ELSE "sellar",
                         !.op = op, !.l = l, !.clave = k, !.exp = v,
                         !.visto = x.estado, !.venc = x.venc,
                         !.reparto = IF op = "calcular"
                                     THEN gastos[x.periodo] ELSE Ninguno,
                         !.adelantado = op = "confirmar" /\ v > x.version])
        /\ UNCHANGED <<liq, gastos, cargos, asientos, eventos, idem, historia>>

\* Session x holds an uncommitted idempotency row for key k of scope a.
Sellada(x, a, k) ==
    /\ ses[x].paso \in {"preparar", "escribir"}
    /\ ses[x].op = a /\ ses[x].clave = k

\* stampIdempotency: INSERT ... ON CONFLICT DO NOTHING waits for a transaction
\* that has inserted the same key.  A committed row of another liquidacion is a
\* conflict, one of the same liquidacion answers what was stored.
Sellar(w) ==
    LET s == ses[w]
        fila == idem[s.op][s.clave]
    IN  /\ s.paso = "sellar"
        /\ \A x \in Sesiones : ~Sellada(x, s.op, s.clave)
        /\ \/ /\ fila = Ninguno
              /\ Seguir(w, [s EXCEPT !.paso = IF s.op = "confirmar"
                                              THEN "preparar" ELSE "escribir"])
           \/ fila # Ninguno /\ Terminar(w)
        /\ UNCHANGED <<liq, gastos, cargos, asientos, eventos, idem, historia>>

\* Charges of l that still have a balance.
Pendientes(l) == {c \in cargos : c.liq = l /\ c.saldo > 0}

\* The second read of a transaction: confirmar reads the snapshot of units,
\* anular the charges it will have to reverse.
Preparar(w) ==
    LET s == ses[w]
    IN  /\ s.paso = "preparar"
        /\ \/ /\ s.op = "confirmar"
              /\ Seguir(w, [s EXCEPT !.paso = "escribir",
                                     !.reparto = liq[s.l].reparto])
           \/ /\ s.op = "anular"
              /\ Seguir(w, [s EXCEPT !.paso = "escribir",
                                     !.revertir = IF s.visto = "confirmada"
                                                  THEN Pendientes(s.l) ELSE {}])
        /\ UNCHANGED <<liq, gastos, cargos, asientos, eventos, idem, historia>>

\* Faulty: the version is not compared / neither estado nor version is.
VigenteSinVersion(s) == liq[s.l].estado = s.visto
VigenteSiempre(s) == TRUE

\* The WHERE clause of TransitionLiquidacion and AnularLiquidacion.
Vigente(s) == liq[s.l].estado = s.visto /\ liq[s.l].version = s.exp

\* The version the liquidacion gets from a transition.
Siguiente(s) == liq[s.l].version + 1

\* TransitionLiquidacion and AnularLiquidacion: new estado, next version.
Transicionar(s, estado, reparto) ==
    liq' = [liq EXCEPT ![s.l].estado = estado, ![s.l].version = Siguiente(s),
                       ![s.l].reparto = reparto]

\* saveIdempotency: the stored answer is the liquidacion after the transition.
Guardar(s) ==
    idem' = [idem EXCEPT ![s.op][s.clave] = [liq |-> s.l, version |-> Siguiente(s)]]

Escribe(w, op) == ses[w].paso = "escribir" /\ ses[w].op = op /\ Vigente(ses[w])

\* CalcularLiquidacion replaces the snapshot and ends in calculada.
EscribirCalculo(w) ==
    /\ Escribe(w, "calcular")
    /\ Transicionar(ses[w], "calculada", ses[w].reparto)
    /\ Guardar(ses[w])
    /\ Terminar(w)
    /\ calculados' = [calculados EXCEPT ![ses[w].l] = @ \cup {ses[w].reparto}]
    /\ UNCHANGED <<gastos, cargos, asientos, eventos, adelantadas>>

\* toUnidadCobro: one charge due at f for every unit of the snapshot r, except
\* those with nothing to pay.
Debida(l, r, f, n) ==
    {[liq |-> l, uf |-> u, lote |-> n, total |-> r[u], saldo |-> r[u], venc |-> f]
        : u \in {x \in UFs : r[x] > 0}}

\* CreateCargos posts what the snapshot read before owes, with a debit entry for
\* each charge.
CargosNuevos(s) == Debida(s.l, s.reparto, s.venc, Siguiente(s))

AsientoDe(c) == [liq |-> c.liq, uf |-> c.uf, lote |-> c.lote, en |-> c.lote,
                 tipo |-> "cargo", debe |-> c.total, haber |-> 0]

EscribirCargos(w) ==
    LET s == ses[w]
    IN  /\ Escribe(w, "confirmar")
        /\ cargos' = cargos \cup CargosNuevos(s)
        /\ asientos' = asientos \cup {AsientoDe(c) : c \in CargosNuevos(s)}
        /\ Transicionar(s, "confirmada", liq[s.l].reparto)
        /\ Guardar(s)
        /\ Terminar(w)
        /\ adelantadas' = adelantadas \cup (IF s.adelantado THEN {s.l} ELSE {})
        /\ UNCHANGED <<gastos, eventos, calculados>>

\* PublicarLiquidacion queues the outbox event in the same transaction.
EscribirEvento(w) ==
    LET s == ses[w]
    IN  /\ Escribe(w, "publicar")
        /\ eventos' = eventos \cup {[liq |-> s.l, en |-> Siguiente(s)]}
        /\ Transicionar(s, "publicada", liq[s.l].reparto)
        /\ Guardar(s)
        /\ Terminar(w)
        /\ UNCHANGED <<gastos, cargos, asientos, historia>>

\* Faulty: the balance of a reversed charge stays.
ConSaldo(c) == c

\* Faulty: the reversal is a negative debit.
ReversaNegativa(c, v) == [liq |-> c.liq, uf |-> c.uf, lote |-> c.lote, en |-> v,
                          tipo |-> "reversa", debe |-> 0 - c.total, haber |-> 0]

\* RevertirCargo: the charge is left without balance and an entry credits its
\* total.
SinSaldo(c) == [c EXCEPT !.saldo = 0]
ReversaDe(c, v) == [liq |-> c.liq, uf |-> c.uf, lote |-> c.lote, en |-> v,
                    tipo |-> "reversa", debe |-> 0, haber |-> c.total]

EscribirAnulacion(w) ==
    LET s == ses[w]
    IN  /\ Escribe(w, "anular")
        /\ cargos' = (cargos \ s.revertir) \cup {SinSaldo(c) : c \in s.revertir}
        /\ asientos' = asientos \cup {ReversaDe(c, Siguiente(s)) : c \in s.revertir}
        /\ Transicionar(s, "anulada", liq[s.l].reparto)
        /\ Terminar(w)
        /\ UNCHANGED <<gastos, eventos, idem, historia>>

\* The transition found no row: ErrLiquidacionVersionMismatch, rollback.
Descartar(w) ==
    /\ ses[w].paso = "escribir"
    /\ ~Vigente(ses[w])
    /\ Terminar(w)
    /\ UNCHANGED <<liq, gastos, cargos, asientos, eventos, idem, historia>>

\* A cancelled request, a lost connection, a crash of the process, an error of
\* Distribuir or of a statement: the transaction is rolled back.
Abortar(w) ==
    /\ ses[w].paso # "libre"
    /\ Terminar(w)
    /\ UNCHANGED <<liq, gastos, cargos, asientos, eventos, idem, historia>>

Avanzar(w) ==
    \/ Sellar(w) \/ Preparar(w)
    \/ EscribirCalculo(w) \/ EscribirCargos(w) \/ EscribirEvento(w)
    \/ EscribirAnulacion(w) \/ Descartar(w)

Next ==
    \/ \E l \in Liqs, p \in Periodos, f \in Fechas : Crear(l, p, f)
    \/ \E l \in Liqs, f \in Fechas, v \in Versiones : Patch(l, v, f)
    \/ \E p \in Periodos, r \in Repartos \cup {Ninguno} : CambiarGastos(p, r)
    \/ \E w \in Sesiones, op \in Ops, l \in Liqs, k \in Claves \cup {Ninguno},
          v \in Versiones : Recibir(w, op, l, k, v)
    \/ \E w \in Sesiones : Avanzar(w) \/ Abortar(w)

Spec == Init /\ [][Next]_vars
-----------------------------------------------------------------------------
(* Properties *)

CargosDe(l) == {c \in cargos : c.liq = l}
Posteada(l) == liq[l].estado \in {"confirmada", "publicada"}

DeudaDe(l) ==
    Posteada(l) =>
        \E n \in 1..liq[l].version, r \in calculados[l] :
            /\ CargosDe(l) = Debida(l, r, liq[l].venc, n)
            /\ l \notin adelantadas => r = liq[l].reparto

\* The debt of a confirmed or published liquidacion comes whole from one
\* calculation that was committed for it: one charge per unit with something to
\* pay, for that total, due at vencimiento_1, whatever recalculations, PATCHes,
\* retries or second confirmations ran at the same time.  It is the calculation
\* the liquidacion keeps as its snapshot, unless the If-Match of the confirmation
\* was ahead of the version it had read (CreateCargos runs before the version is
\* compared, on a snapshot read before).
DeudaDeUnCalculo == \A l \in Liqs : DeudaDe(l)

\* What ADR-0004 promises of If-Match, that it detects the concurrent edition of
\* the draft: the debt is always the snapshot the liquidacion keeps.
DeudaSegunReparto ==
    \A l \in Liqs : Posteada(l) =>
        \E n \in 1..liq[l].version :
            CargosDe(l) = Debida(l, liq[l].reparto, liq[l].venc, n)

\* A unit is charged at most once by a liquidacion, and only one that was
\* confirmed has charges: table charges has no unique key that would say so.
CargosUnaVez ==
    /\ \A c, d \in cargos : c.liq = d.liq /\ c.uf = d.uf => c = d
    /\ \A c \in cargos : Posteada(c.liq) \/ liq[c.liq].estado = "anulada"

\* No month is owed twice: after an annulment frees the month for another
\* liquidacion, no charge of the annulled one keeps a balance.
PeriodoCobradoUnaVez ==
    \A c, d \in cargos :
        /\ c.saldo > 0 /\ d.saldo > 0
        /\ liq[c.liq].periodo = liq[d.liq].periodo
        => c.liq = d.liq

\* The ledger agrees with the charges: a charge has one debit of its total and,
\* when its balance is gone, one credit of its total; it has lost its balance
\* exactly when its liquidacion is anulada (RevertirCargo, AnularLiquidacion).
LibroCuadra ==
    /\ \A c \in cargos :
          /\ (c.saldo = 0) <=> (liq[c.liq].estado = "anulada")
          /\ {a \in asientos : a.liq = c.liq /\ a.uf = c.uf /\ a.lote = c.lote}
               = {AsientoDe(c)} \cup
                 (IF c.saldo = 0 THEN {ReversaDe(c, liq[c.liq].version)} ELSE {})
    /\ \A a \in asientos : \E c \in cargos :
          a.liq = c.liq /\ a.uf = c.uf /\ a.lote = c.lote

\* A publication is announced once, and nothing that did not commit is
\* (InsertOutboxEvent precedes the version check in the transaction).
EventoSiiPublicada ==
    \A l \in Liqs :
        {e \in eventos : e.liq = l} =
            IF liq[l].estado = "publicada"
            THEN {[liq |-> l, en |-> liq[l].version]} ELSE {}

\* An Idempotency-Key that is stored for confirmar stands for the charges that
\* exist, and one stored for publicar for the event that was queued; no two keys
\* claim the same effect.
ClaveDeUnEfecto ==
    \A k \in Claves :
        LET c == idem["confirmar"][k]
            p == idem["publicar"][k]
        IN  /\ c # Ninguno =>
                 /\ \A x \in CargosDe(c.liq) : x.lote = c.version
                 /\ \A j \in Claves : idem["confirmar"][j] # Ninguno
                       /\ idem["confirmar"][j].liq = c.liq => j = k
            /\ p # Ninguno =>
                 /\ [liq |-> p.liq, en |-> p.version] \in eventos
                 /\ \A j \in Claves : idem["publicar"][j] # Ninguno
                       /\ idem["publicar"][j].liq = p.liq => j = k

-----------------------------------------------------------------------------
(* Refinement *)

\* What each estado means to the people of the consorcio.
Fase(estado) ==
    CASE estado = "inexistente" -> "nada"
      [] estado \in {"borrador", "calculada"} -> "abierta"
      [] estado = "confirmada" -> "exigible"
      [] estado = "publicada" -> "anunciada"
      [] estado = "anulada" -> "anulada"

Deuda(c) == [liq |-> c.liq, uf |-> c.uf, monto |-> c.saldo, num |-> c.lote]

Libro == INSTANCE LibroDeDeuda WITH
    fase       <- [l \in Liqs |-> Fase(liq[l].estado)],
    mes        <- [l \in Liqs |-> liq[l].periodo],
    propuestas <- calculados,
    deudas     <- {Deuda(c) : c \in {x \in cargos : x.saldo > 0}},
    anuncios   <- {[liq |-> e.liq, num |-> e.en] : e \in eventos}

\* The transactions together do what LibroDeDeuda promises: each commit is one of
\* its steps or changes nothing of it.  In particular the charges posted are one
\* whole calculation that committed, never a mixture of two, a charge is never
\* posted twice, and nothing that was announced is cancelled.
RefinaLibro == Libro!Spec
=============================================================================
