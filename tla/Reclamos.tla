------------------------------- MODULE Reclamos -------------------------------
(***************************************************************************)
(* Claims (internal/reclamos/reclamos.go): abierto, en_progreso, resuelto, *)
(* cerrado, with the history of their transitions and their messages.      *)
(*                                                                         *)
(* A transition reads the claim without a lock and writes its row of       *)
(* history and the claim later, whatever the claim is by then: two may     *)
(* start from one estado.  The INSERT takes a key-share lock, which the    *)
(* UPDATE of another transaction does not conflict with, so the UPDATE is  *)
(* the only wait and is merged with the commit.                            *)
(***************************************************************************)
EXTENDS Naturals, Sequences

CONSTANTS
    Recls,         \* identifiers of claims
    Usuarios,      \* users that may be responsible of a claim
    Tramitadores,  \* transition requests that may run at the same time
    MaxHistoria,   \* bound: no transition of a claim starts from this length on
    Nadie          \* no user, no claim

ASSUME MaxHistoriaAssumption == MaxHistoria \in Nat
ASSUME NadieAssumption == Nadie \notin Usuarios \cup Recls

VARIABLES
    reclamo,    \* table reclamos
    historia,   \* table reclamo_transiciones, in the order of commit
    adjuntos,   \* table reclamo_mensajes: claims and the documents attached
    tra         \* the open transition requests

varsRec == <<reclamo, historia, adjuntos, tra>>

Estados  == {"abierto", "en_progreso", "resuelto", "cerrado"}
Acciones == {"asignar", "en_progreso", "resolver", "cerrar", "reabrir"}

\* leidas is history: the transitions of the claim committed when it was read;
\* pide is the responsable of the request.
Transicion == [accion: Acciones, motivo: BOOLEAN, from: Estados, to: Estados,
               pide: Usuarios \cup {Nadie}, responsable: Usuarios \cup {Nadie},
               leidas: Nat]

\* A transition that has read its claim and has not written yet.
Tramite      == [r: Recls, fila: Transicion]
TramiteLibre == [r |-> Nadie]

TypeOKRec(Docs) ==
    /\ reclamo \in [Recls -> [estado: Estados \cup {"inexistente"},
                              responsable: Usuarios \cup {Nadie}]]
    /\ historia \in [Recls -> Seq(Transicion)]
    /\ adjuntos \subseteq Recls \X Docs
    /\ tra \in [Tramitadores -> Tramite \cup {TramiteLibre}]

InitRec ==
    /\ reclamo = [r \in Recls |-> [estado |-> "inexistente", responsable |-> Nadie]]
    /\ historia = [r \in Recls |-> <<>>]
    /\ adjuntos = {}
    /\ tra = [w \in Tramitadores |-> TramiteLibre]

\* Create, also from the portal (where the unidad is one of the user).
CreateReclamo(r) ==
    /\ reclamo[r].estado = "inexistente"
    /\ reclamo' = [reclamo EXCEPT ![r].estado = "abierto"]
    /\ UNCHANGED <<historia, adjuntos, tra>>

\* AddMensaje with an attachment: GetDocumento must find it.
AddMensaje(r, d, visibles) ==
    /\ reclamo[r].estado # "inexistente" /\ d \in visibles
    /\ adjuntos' = adjuntos \cup {<<r, d>>}
    /\ UNCHANGED <<reclamo, historia, tra>>

SeguirTramite(w, s) == tra' = [tra EXCEPT ![w] = s]

\* Faulty: a resolved claim gets an estado that the table does not know.
DestinosSinCheck(accion) ==
    [e \in {"abierto", "en_progreso"} |-> IF accion = "resolver" THEN "solucionado" ELSE e]

\* The table transiciones, with accionesReasignacion for asignar: the estados that
\* an action starts from, and where each leads.
Destinos(accion) ==
    CASE accion = "asignar"     -> [e \in {"abierto", "en_progreso"} |-> e]
      [] accion = "en_progreso" -> [e \in {"abierto"} |-> "en_progreso"]
      [] accion = "resolver"    -> [e \in {"abierto", "en_progreso"} |-> "resuelto"]
      [] accion = "cerrar"      -> [e \in {"abierto", "en_progreso", "resuelto"} |-> "cerrado"]
      [] accion = "reabrir"     -> [e \in {"resuelto", "cerrado"} |-> "abierto"]

\* Faulty: a request that names no responsable leaves the claim without one.
ResponsableDelPedido(x, u) == u

\* A request that names no responsable keeps the one it has read.
Responsable(x, u) == IF u = Nadie THEN x.responsable ELSE u

\* POST /reclamos/{id}/transiciones: GetReclamo and the checks of Transicionar (a
\* request that they refuse changes nothing).  Only the reason of reabrir counts.
GetReclamo(w, r, accion, motivo, u) ==
    LET x == reclamo[r]
    IN  /\ tra[w] = TramiteLibre /\ Len(historia[r]) < MaxHistoria
        /\ x.estado \in DOMAIN Destinos(accion)
        /\ accion = "asignar" => u # Nadie
        /\ accion = "reabrir" <=> motivo
        /\ SeguirTramite(w, [r |-> r, fila |->
              [accion |-> accion, motivo |-> motivo, from |-> x.estado,
               to |-> Destinos(accion)[x.estado], pide |-> u,
               responsable |-> Responsable(x, u),
               leidas |-> Len(historia[r])]])
        /\ UNCHANGED <<reclamo, historia, adjuntos>>

\* InsertReclamoTransicion, UpdateReclamoEstado and the commit.
Transicionar(w) ==
    LET s == tra[w]
    IN  /\ s # TramiteLibre
        /\ historia' = [historia EXCEPT ![s.r] = Append(@, s.fila)]
        /\ reclamo' = [reclamo EXCEPT ![s.r] = [estado |-> s.fila.to,
                                                responsable |-> s.fila.responsable]]
        /\ SeguirTramite(w, TramiteLibre)
        /\ UNCHANGED adjuntos

AbortarTramite(w) ==
    /\ tra[w] # TramiteLibre
    /\ SeguirTramite(w, TramiteLibre)
    /\ UNCHANGED <<reclamo, historia, adjuntos>>

NextRec(visibles) ==
    \/ \E r \in Recls : CreateReclamo(r) \/ \E d \in visibles : AddMensaje(r, d, visibles)
    \/ \E w \in Tramitadores, r \in Recls, a \in Acciones, m \in BOOLEAN,
          u \in Usuarios \cup {Nadie} : GetReclamo(w, r, a, m, u)
    \/ \E w \in Tramitadores : Transicionar(w) \/ AbortarTramite(w)

-----------------------------------------------------------------------------

\* What the first n transitions of r leave it as.
Tras(r, n) ==
    IF n = 0 THEN [estado |-> "abierto", responsable |-> Nadie]
    ELSE [estado |-> historia[r][n].to, responsable |-> historia[r][n].responsable]

\* The history explains the claim: the last transition left it as it is, each one
\* started from what the claim was at some time and kept its responsable unless it
\* named another, and a closed claim opens only with reabrir and a reason, except
\* by a transition that had read it before it was closed.
HistoriaFiel ==
    \A r \in Recls : reclamo[r].estado # "inexistente" =>
        /\ reclamo[r] = Tras(r, Len(historia[r]))
        /\ \A i \in 1..Len(historia[r]) :
              LET f == historia[r][i]
              IN  /\ f.leidas < i
                  /\ f.from = Tras(r, f.leidas).estado
                  /\ f.responsable = IF f.pide = Nadie
                                     THEN Tras(r, f.leidas).responsable ELSE f.pide
                  /\ Tras(r, i - 1).estado = "cerrado" =>
                        \/ f.accion = "reabrir" /\ f.motivo
                        \/ f.to = "cerrado"
                        \/ \E n \in (f.leidas + 1)..(i - 1) : historia[r][n].to = "cerrado"
=============================================================================
