--------------------------------- MODULE Buzon ---------------------------------
(***************************************************************************)
(* What publications promise to the users of a consorcio, without events,  *)
(* batches, workers, attempts or tables: a publication is one dispatch; a  *)
(* dispatch takes the list of who is linked at one moment, and either all  *)
(* of the list have the notice at once or nobody notices that it began;    *)
(* nobody gets a second notice of one publication, whatever is dispatched  *)
(* twice.  Module Outbox implements this (RefinaBuzon).                    *)
(***************************************************************************)
EXTENDS Naturals, Sequences

CONSTANTS
    Recursos,   \* what may be published
    Claves,     \* keys under which a publication may be asked for
    Usuarios,   \* users of the consorcio
    Estables,   \* users who are linked all the time
    Ninguno     \* no value

VARIABLES
    publicado,   \* what is published
    cola,        \* the dispatches: of what, and under which key
    entregados,  \* those that were delivered
    vinculados,  \* who is linked now
    listas,      \* of each dispatch that has begun, who is to get its notice
    avisos       \* notices of each publication that each user has

vars == <<publicado, cola, entregados, vinculados, listas, avisos>>

Init ==
    /\ publicado = {} /\ cola = <<>> /\ entregados = {}
    /\ vinculados = Usuarios
    /\ listas = [n \in {} |-> {}]
    /\ avisos = [r \in Recursos |-> [u \in Usuarios |-> 0]]

\* What is published and its dispatch appear together.  A key asks once; without
\* one, only what is not published is dispatched.
Publicar(r, k) ==
    /\ IF k = Ninguno THEN r \notin publicado
                      ELSE \A n \in 1..Len(cola) : cola[n].clave # k
    /\ publicado' = publicado \cup {r}
    /\ cola' = Append(cola, [recurso |-> r, clave |-> k])
    /\ UNCHANGED <<entregados, vinculados, listas, avisos>>

Cambiar(u) ==
    /\ vinculados' \in {vinculados \cup {u}, vinculados \ {u}}
    /\ UNCHANGED <<publicado, cola, entregados, listas, avisos>>

\* The list of a dispatch: who is linked and has no notice yet.
Tomar(n) ==
    /\ n \notin entregados \cup DOMAIN listas
    /\ listas' = [m \in DOMAIN listas \cup {n} |->
                    IF m = n THEN {u \in vinculados : avisos[cola[n].recurso][u] = 0}
                             ELSE listas[m]]
    /\ UNCHANGED <<publicado, cola, entregados, vinculados, avisos>>

\* Everybody on the list gets the notice, and another dispatch of the same
\* publication has nothing left to do for them.
Entregar(n) ==
    /\ n \in DOMAIN listas
    /\ entregados' = entregados \cup {n}
    /\ avisos' = [avisos EXCEPT ![cola[n].recurso] =
                    [u \in Usuarios |-> IF u \in listas[n] THEN 1 ELSE @[u]]]
    /\ listas' = [m \in DOMAIN listas \ {n} |->
                    IF cola[m].recurso = cola[n].recurso THEN listas[m] \ listas[n]
                                                         ELSE listas[m]]
    /\ UNCHANGED <<publicado, cola, vinculados>>

\* The dispatch breaks off, and leaves nothing.
Soltar(n) ==
    /\ n \in DOMAIN listas
    /\ listas' = [m \in DOMAIN listas \ {n} |-> listas[m]]
    /\ UNCHANGED <<publicado, cola, entregados, vinculados, avisos>>

Next ==
    \/ \E r \in Recursos, k \in Claves \cup {Ninguno} : Publicar(r, k)
    \/ \E u \in Usuarios \ Estables : Cambiar(u)
    \/ \E n \in 1..Len(cola) : Tomar(n) \/ Entregar(n) \/ Soltar(n)

Spec == Init /\ [][Next]_vars
=============================================================================
