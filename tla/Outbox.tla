-------------------------------- MODULE Outbox --------------------------------
(***************************************************************************)
(* Publication of a comunicado (internal/comunicaciones/comunicados.go),   *)
(* the outbox table, the workers that drain it (internal/outbox/outbox.go, *)
(* one in apps/api and one in apps/worker) and the fan-out of notices to   *)
(* the users of the consorcio (internal/notificaciones).                   *)
(*                                                                         *)
(* The claim is a transaction of its own; the work on each claimed event   *)
(* is another.  What a worker inserts is visible when it commits.          *)
(***************************************************************************)
EXTENDS Naturals, Sequences, FiniteSets

CONSTANTS
    Comunicados,    \* identifiers of comunicados
    Liquidaciones,  \* identifiers of liquidaciones that may be published
    Claves,         \* Idempotency-Key values
    Sesiones,       \* publication requests that may run at the same time
    Workers,        \* processes that run a worker
    NUsuarios,      \* users of the consorcio, numbered in the order of their id
    Estables,       \* users whose link to a unit is valid all the time
    Lote,           \* events a claim takes at most (25)
    Duenos,         \* workers whose database role owns the tables: no policy applies
    MaxFallas,      \* bound: crashes and database errors of a behaviour
    Ninguno         \* no value

Usuarios    == 1..NUsuarios
Recursos    == Comunicados \cup Liquidaciones
MaxIntentos == 3

ASSUME NumerosAssumption == NUsuarios \in Nat /\ Lote \in Nat \ {0} /\ MaxFallas \in Nat
ASSUME RecursosAssumption ==
    /\ Comunicados \cap Liquidaciones = {}
    /\ Estables \subseteq Usuarios
    /\ Duenos \subseteq Workers
ASSUME NingunoAssumption == Ninguno \notin Claves \cup Recursos

VARIABLES
    publicacion,  \* comunicados.estado; for a liquidacion, whether it is published
    idem,         \* idempotency_keys of scope 'comunicados.publicar'
    ses,          \* the open publication requests
    eventos,      \* table outbox_events, in the order of created_at, id
    vinculados,   \* what ListDestinatariosNotificacion returns now
    avisos,       \* table notificaciones: rows of a resource for a user
    wk,           \* the workers
    fallas        \* crashes and database errors so far

vars == <<publicacion, idem, ses, eventos, vinculados, avisos, wk, fallas>>

Evento == [recurso: Recursos, clave: Claves \cup {Ninguno},
           estado: {"pendiente", "procesando", "procesado", "fallido"},
           intentos: 0..MaxIntentos]

\* dest are the users still to be notified, nuevas those notified in the open
\* transaction.
Worker == [lote: SUBSET (1..Len(eventos)), actual: 0..Len(eventos),
           dest: SUBSET Usuarios, nuevas: SUBSET Usuarios]
Ocioso == [lote |-> {}, actual |-> 0, dest |-> {}, nuevas |-> {}]

Sesion == [paso: {"libre", "leer", "escribir"},
           c: Comunicados \cup {Ninguno}, clave: Claves \cup {Ninguno},
           visto: {"inexistente", "borrador", "publicado"}]
SesionLibre == [paso |-> "libre", c |-> Ninguno, clave |-> Ninguno,
                visto |-> "inexistente"]

TypeOK ==
    /\ publicacion \in [Recursos -> {"inexistente", "borrador", "publicado"}]
    /\ idem \in [Claves -> Comunicados \cup {Ninguno}]
    /\ ses \in [Sesiones -> Sesion]
    /\ eventos \in Seq(Evento)
    /\ Estables \subseteq vinculados /\ vinculados \subseteq Usuarios
    /\ avisos \in [Recursos -> [Usuarios -> Nat]]
    /\ wk \in [Workers -> Worker]
    /\ fallas \in 0..MaxFallas

Init ==
    /\ publicacion = [r \in Recursos |-> "inexistente"]
    /\ idem = [k \in Claves |-> Ninguno]
    /\ ses = [s \in Sesiones |-> SesionLibre]
    /\ eventos = <<>>
    /\ vinculados = Usuarios
    /\ avisos = [r \in Recursos |-> [u \in Usuarios |-> 0]]
    /\ wk = [w \in Workers |-> Ocioso]
    /\ fallas = 0

-----------------------------------------------------------------------------
(* Publication *)

EventoNuevo(r, k) ==
    [recurso |-> r, clave |-> k, estado |-> "pendiente", intentos |-> 0]

\* Create.
CrearComunicado(c) ==
    /\ publicacion[c] = "inexistente"
    /\ publicacion' = [publicacion EXCEPT ![c] = "borrador"]
    /\ UNCHANGED <<idem, ses, eventos, vinculados, avisos, wk, fallas>>

\* PublicarLiquidacion queues one event with the transition it commits (module
\* Liquidaciones, EventoSiiPublicada).
PublicarLiquidacion(l) ==
    /\ publicacion[l] = "inexistente"
    /\ publicacion' = [publicacion EXCEPT ![l] = "publicado"]
    /\ eventos' = Append(eventos, EventoNuevo(l, Ninguno))
    /\ UNCHANGED <<idem, ses, vinculados, avisos, wk, fallas>>

Seguir(s, x) ==
    /\ ses' = [ses EXCEPT ![s] = x]
    /\ UNCHANGED <<vinculados, avisos, wk, fallas>>

\* Faulty: a request does not wait for another with its key.
EnCursoNunca(k) == FALSE

\* Some request holds an uncommitted row for key k.
EnCurso(k) == \E x \in Sesiones : ses[x].paso # "libre" /\ ses[x].clave = k

\* A request to publish c, or a retry of one, arrives.  InsertIdempotencyKey waits
\* for an uncommitted row of the same key; a committed one answers what was stored,
\* or a conflict when it is of another comunicado, and leaves no trace.
Sellar(s, c, k) ==
    /\ ses[s].paso = "libre"
    /\ publicacion[c] # "inexistente"
    /\ ~EnCurso(k)
    /\ idem[k] = Ninguno
    /\ Seguir(s, [SesionLibre EXCEPT !.paso = "leer", !.c = c, !.clave = k])
    /\ UNCHANGED <<publicacion, idem, eventos>>

\* GetComunicado.
Leer(s) ==
    /\ ses[s].paso = "leer"
    /\ Seguir(s, [ses[s] EXCEPT !.paso = "escribir", !.visto = publicacion[ses[s].c]])
    /\ UNCHANGED <<publicacion, idem, eventos>>

\* PublishComunicado and InsertOutboxEvent, unless it was read as published, then
\* UpdateIdempotencyKey and commit.  The UPDATE does not look at estado again.
Escribir(s) ==
    LET x == ses[s]
    IN  /\ x.paso = "escribir"
        /\ \/ /\ x.visto # "publicado"
              /\ publicacion' = [publicacion EXCEPT ![x.c] = "publicado"]
              /\ eventos' = Append(eventos, EventoNuevo(x.c, x.clave))
           \/ /\ x.visto = "publicado"
              /\ UNCHANGED <<publicacion, eventos>>
        /\ idem' = [idem EXCEPT ![x.clave] = x.c]
        /\ Seguir(s, SesionLibre)

\* Rollback: a cancelled request, an error, a crash.
Abortar(s) ==
    /\ ses[s].paso # "libre"
    /\ Seguir(s, SesionLibre)
    /\ UNCHANGED <<publicacion, idem, eventos>>

\* PUT and DELETE /personas/{id}/usuario: a user is linked to a person of a unit,
\* and so notified of what its consorcio publishes, or no longer linked.  (The
\* dates of the link of the person to the unit have the same effect.)
Vincular(u) ==
    /\ u \notin Estables
    /\ vinculados' = vinculados \cup {u}
    /\ UNCHANGED <<publicacion, idem, ses, eventos, avisos, wk, fallas>>
Desvincular(u) ==
    /\ u \notin Estables
    /\ vinculados' = vinculados \ {u}
    /\ UNCHANGED <<publicacion, idem, ses, eventos, avisos, wk, fallas>>

-----------------------------------------------------------------------------
(* The workers *)

\* Faulty: an event in process may be claimed again.
ReclamableSiempre(e) ==
    /\ eventos[e].estado \in {"pendiente", "procesando", "fallido"}
    /\ eventos[e].intentos < MaxIntentos

\* Faulty: there is no limit of attempts / an event that failed is forgotten.
ReclamableSinTope(e) == eventos[e].estado \in {"pendiente", "fallido"}
ReclamableSoloPendiente(e) ==
    /\ eventos[e].estado = "pendiente"
    /\ eventos[e].intentos < MaxIntentos

\* The WHERE clause of claim_pending_outbox_events.  next_attempt_at only delays
\* a claim, and any claim here may come late.
Reclamable(e) ==
    /\ eventos[e].estado \in {"pendiente", "fallido"}
    /\ eventos[e].intentos < MaxIntentos

Reclamables == {e \in 1..Len(eventos) : Reclamable(e)}

\* drain: one statement claims the oldest events, up to Lote.
Reclamar(w) ==
    LET lote == {e \in Reclamables : Cardinality(Reclamables \cap 1..e) <= Lote}
    IN  /\ wk[w] = Ocioso
        /\ lote # {}
        /\ wk' = [wk EXCEPT ![w].lote = lote]
        /\ eventos' = [e \in 1..Len(eventos) |->
                         IF e \in lote
                         THEN [eventos[e] EXCEPT !.estado = "procesando", !.intentos = @ + 1]
                         ELSE eventos[e]]
        /\ UNCHANGED <<publicacion, idem, ses, vinculados, avisos, fallas>>

\* The worker leaves event e of its batch.
Soltar(w, e) == wk' = [wk EXCEPT ![w] = [Ocioso EXCEPT !.lote = wk[w].lote \ {e}]]

\* process: a transaction begins and the recipients are read.
Empezar(w, e) ==
    /\ wk[w].actual = 0 /\ e \in wk[w].lote
    /\ wk' = [wk EXCEPT ![w].actual = e, ![w].dest = vinculados]
    /\ UNCHANGED <<publicacion, idem, ses, eventos, vinculados, avisos, fallas>>

\* The PDF generator fails before any statement: markFailed commits.
FallarPDF(w, e) ==
    /\ wk[w].actual = 0 /\ e \in wk[w].lote
    /\ eventos[e].recurso \in Liquidaciones
    /\ eventos' = [eventos EXCEPT ![e].estado = "fallido"]
    /\ Soltar(w, e)
    /\ UNCHANGED <<publicacion, idem, ses, vinculados, avisos, fallas>>

Recurso(w) == eventos[wk[w].actual].recurso

\* The recipients come in the order of user_id.
Siguientes(dest) == {u \in dest : \A v \in dest : u <= v}

\* Faulty: there is no unique index.
ExisteNunca(r, u) == FALSE

\* The unique index (user, tipo, recurso): a committed row.
Existe(r, u) == avisos[r][u] > 0

\* InsertNotificacion waits for an uncommitted row with the same key.
Espera(w, u) ==
    \E x \in Workers \ {w} :
        wk[x].actual # 0 /\ Recurso(x) = Recurso(w) /\ u \in wk[x].nuevas

\* InsertNotificacion, ON CONFLICT DO NOTHING.
Avisar(w) ==
    /\ wk[w].actual # 0
    /\ w \in Duenos
    /\ \E u \in Siguientes(wk[w].dest) :
          /\ ~Espera(w, u)
          /\ wk' = [wk EXCEPT ![w].dest = @ \ {u},
                              ![w].nuevas = IF Existe(Recurso(w), u) THEN @ ELSE @ \cup {u}]
    /\ UNCHANGED <<publicacion, idem, ses, eventos, vinculados, avisos, fallas>>

\* Under a role that does not own the tables, RETURNING makes the policy
\* notificaciones_visible apply to the new row, and a worker sets no app.user_id:
\* the statement fails, and with it the UPDATE of markFailed in the same
\* transaction.  The event stays 'procesando'.
AvisarSinPermiso(w) ==
    /\ wk[w].actual # 0
    /\ w \notin Duenos
    /\ wk[w].dest # {}
    /\ Soltar(w, wk[w].actual)
    /\ UNCHANGED <<publicacion, idem, ses, eventos, vinculados, avisos, fallas>>

\* The loop over the recipients has ended.
Termino(w) == wk[w].actual # 0 /\ wk[w].dest = {}

\* MarkOutboxEventProcessed and commit.
Marcar(w) ==
    /\ Termino(w)
    /\ eventos' = [eventos EXCEPT ![wk[w].actual].estado = "procesado"]
    /\ avisos' = [avisos EXCEPT ![Recurso(w)] =
                    [u \in Usuarios |-> IF u \in wk[w].nuevas THEN @[u] + 1 ELSE @[u]]]
    /\ Soltar(w, wk[w].actual)
    /\ UNCHANGED <<publicacion, idem, ses, vinculados, fallas>>

\* Faulty: what was inserted before an error stays.
QuedanAvisos(w) == wk[w].nuevas

\* The notices that outlive a transaction that fails.
Quedan(w) == {}

\* A statement, the BEGIN or the COMMIT fails: the transaction is aborted, so
\* markFailed fails too and the event stays 'procesando'.
FallarBase(w, e) ==
    /\ fallas < MaxFallas
    /\ e \in wk[w].lote
    /\ wk[w].actual \in {0, e}
    /\ avisos' = [avisos EXCEPT ![eventos[e].recurso] =
                    [u \in Usuarios |-> IF u \in Quedan(w) THEN @[u] + 1 ELSE @[u]]]
    /\ Soltar(w, e)
    /\ fallas' = fallas + 1
    /\ UNCHANGED <<publicacion, idem, ses, eventos, vinculados>>

\* The process ends, by a crash or a shutdown that cancels its context, and
\* another takes its place: nothing remembers the batch.
Caer(w) ==
    /\ fallas < MaxFallas
    /\ wk[w] # Ocioso
    /\ wk' = [wk EXCEPT ![w] = Ocioso]
    /\ fallas' = fallas + 1
    /\ UNCHANGED <<publicacion, idem, ses, eventos, vinculados, avisos>>

\* What a worker does by itself, every second and while its batch lasts.
Trabajar(w) ==
    \/ Reclamar(w) \/ Avisar(w) \/ AvisarSinPermiso(w) \/ Marcar(w)
    \/ \E e \in wk[w].lote : Empezar(w, e) \/ FallarPDF(w, e)

Next ==
    \/ \E c \in Comunicados : CrearComunicado(c)
    \/ \E l \in Liquidaciones : PublicarLiquidacion(l)
    \/ \E s \in Sesiones, c \in Comunicados, k \in Claves : Sellar(s, c, k)
    \/ \E s \in Sesiones : Leer(s) \/ Escribir(s) \/ Abortar(s)
    \/ \E u \in Usuarios : Vincular(u) \/ Desvincular(u)
    \/ \E w \in Workers : Trabajar(w) \/ Caer(w) \/ \E e \in wk[w].lote : FallarBase(w, e)

\* The ticker of Run and the loop of drain never stop by themselves.
Spec == Init /\ [][Next]_vars /\ \A w \in Workers : WF_vars(Trabajar(w))

-----------------------------------------------------------------------------
(* Properties *)

\* An event is in the hands of one worker at most, and while it is, it is
\* 'procesando' (the claim is one statement, and nothing claims it again).
UnSoloDueno ==
    \A w \in Workers : \A e \in wk[w].lote :
        /\ eventos[e].estado = "procesando"
        /\ \A x \in Workers \ {w} : e \notin wk[x].lote

\* A user gets one notice of a publication, whatever the retries of its event and
\* though two concurrent Publish may queue two events of one comunicado
\* (migration 00029, the unique index).
AvisoUnico == \A r \in Recursos, u \in Usuarios : avisos[r][u] <= 1

\* The fan-out is all or nothing, even when it fails in the middle: a notice exists
\* only of a publication that has a processed event, and when an event is
\* 'procesado' every user linked all along has the notice.
FanOutAtomico ==
    /\ \A r \in Recursos, u \in Usuarios :
          avisos[r][u] > 0 =>
              /\ publicacion[r] = "publicado"
              /\ \E e \in 1..Len(eventos) :
                    eventos[e].recurso = r /\ eventos[e].estado = "procesado"
    /\ \A e \in 1..Len(eventos) :
          eventos[e].estado = "procesado" =>
              \A u \in Estables : avisos[eventos[e].recurso][u] > 0

\* A key queues at most one event, and none before its publication is visible
\* (Publish stamps the key before it reads the comunicado).
ClaveEncolaUnaVez ==
    /\ \A d, e \in 1..Len(eventos) :
          eventos[d].clave # Ninguno /\ eventos[d].clave = eventos[e].clave => d = e
    /\ \A e \in 1..Len(eventos) : publicacion[eventos[e].recurso] = "publicado"

Atendido(e) ==
    \/ eventos[e].estado = "procesado"
    \/ eventos[e].estado = "fallido" /\ eventos[e].intentos = MaxIntentos

\* In no hands after a crash, a failed statement or a role without permission: the
\* estado says 'procesando', no claim takes it and no dead-letter query shows it.
Abandonado(e) ==
    /\ eventos[e].estado = "procesando"
    /\ \A w \in Workers : e \notin wk[w].lote
    /\ fallas > 0 \/ Duenos # Workers

\* Every event that is queued ends processed, or failed after its last attempt, where
\* monitoring finds it, or else was abandoned by a fault: the workers never wait for
\* each other in a circle (both insert in the order of user_id), and an event that
\* keeps failing does not keep the rest from their turn (drain, Run).
EventosAtendidos ==
    \A n \in 1..(Cardinality(Claves) + Cardinality(Liquidaciones)) :
        (Len(eventos) >= n) ~> (Len(eventos) >= n /\ (Atendido(n) \/ Abandonado(n)))

-----------------------------------------------------------------------------
(* Refinement *)

\* The events that some worker works on.
EnEntrega == {wk[w].actual : w \in Workers} \ {0}

\* Who of the recipients of event n has no committed notice yet.
Faltan(n) ==
    {u \in Usuarios :
        /\ avisos[eventos[n].recurso][u] = 0
        /\ \E w \in Workers : wk[w].actual = n /\ u \in wk[w].dest \cup wk[w].nuevas}

\* Attempts, batches and the estados of an event that is not processed are nobody's
\* business.
Bz == INSTANCE Buzon WITH
    publicado  <- {r \in Recursos : publicacion[r] = "publicado"},
    cola       <- [e \in 1..Len(eventos) |-> [recurso |-> eventos[e].recurso,
                                              clave |-> eventos[e].clave]],
    entregados <- {e \in 1..Len(eventos) : eventos[e].estado = "procesado"},
    listas     <- [n \in EnEntrega |-> Faltan(n)]

\* The queue and its workers do what Buzon promises: the publication and its event
\* are one step, a commit of a worker delivers to everybody who was linked at one
\* moment and had no notice, and the claims, the inserts that wait for each other,
\* the retries, crashes and errors are seen by nobody.
RefinaBuzon == Bz!Spec
=============================================================================
