------------------------------- MODULE Permisos -------------------------------
(***************************************************************************)
(* How old the roles may be on which a request is authorized: the          *)
(* middleware RequirePermission, PermissionsForClaims and the cache of     *)
(* roles and scopes (internal/identity/permissions_cache.go), in one       *)
(* process of the API, for one membership.                                 *)
(*                                                                         *)
(* Roles and scopes change in the database while requests run; a version   *)
(* number stands for their contents.  A request reads the status of the    *)
(* membership every time, and the roles and the scopes, in two statements, *)
(* only when the cache has no entry.  Time is a clock of its own.          *)
(***************************************************************************)
EXTENDS Integers

CONSTANTS
    Peticiones,  \* requests that may be open at the same time
    TTL,         \* MEMBERSHIP_CACHE_TTL; 0: no cache
    Demora,      \* the time a request may take (middleware.Timeout)
    MaxCambios,  \* bound: changes of roles or scopes
    MaxReloj,    \* bound: the clock
    Ninguno      \* no entry, no decision

ASSUME TiemposAssumption == TTL \in Nat /\ Demora \in Nat
ASSUME CotasAssumption == MaxCambios \in Nat /\ MaxReloj \in Nat
ASSUME NingunoAssumption ==
    /\ Ninguno \notin [roles: Nat, alcances: Nat, vence: Nat]
    /\ Ninguno \notin [roles: Nat, alcances: Nat] /\ Ninguno \notin Nat

VARIABLES
    reloj,     \* the time
    version,   \* the contents of membership_roles and role_scopes
    fin,       \* when each earlier version was replaced
    baja,      \* when the membership became inactive, Ninguno while it is active
    cache,     \* the entry of the membership
    pet,       \* the open requests
    decision   \* what the last step authorized a request on, if it did

vars == <<reloj, version, fin, baja, cache, pet, decision>>
base == <<version, fin, baja>>

Versiones == 0..MaxCambios
Peticion == [paso: {"libre", "estado", "cache", "roles", "alcances", "guardar"},
             inicio: Nat, roles: Versiones, alcances: Versiones]

TypeOK ==
    /\ reloj \in Nat
    /\ version \in Versiones
    /\ fin \in [Versiones -> Nat]
    /\ baja \in Nat \cup {Ninguno}
    /\ cache \in [roles: Versiones, alcances: Versiones, vence: Nat] \cup {Ninguno}
    /\ pet \in [Peticiones -> Peticion]
    /\ decision \in [roles: Versiones, alcances: Versiones] \cup {Ninguno}

Libre == [paso |-> "libre", inicio |-> 0, roles |-> 0, alcances |-> 0]

Init ==
    /\ reloj = 0
    /\ version = 0 /\ fin = [v \in Versiones |-> 0] /\ baja = Ninguno
    /\ cache = Ninguno
    /\ pet = [p \in Peticiones |-> Libre]
    /\ decision = Ninguno

Seguir(p, s) == pet' = [pet EXCEPT ![p] = s] /\ decision' = Ninguno
Negar(p) == Seguir(p, Libre)

\* The request goes on to its handler with these roles and scopes.
Autorizar(p, r, a) ==
    /\ pet' = [pet EXCEPT ![p] = Libre]
    /\ decision' = [roles |-> r, alcances |-> a]

-----------------------------------------------------------------------------
(* A request *)

\* RequireAuth accepts the access token; the token says nothing of roles.
Recibir(p) ==
    /\ pet[p].paso = "libre"
    /\ Seguir(p, [Libre EXCEPT !.paso = "estado", !.inicio = reloj])
    /\ UNCHANGED <<reloj, base, cache>>

\* membershipByID: a membership that is not active is refused.
LeerEstado(p) ==
    /\ pet[p].paso = "estado"
    /\ \/ baja = Ninguno /\ Seguir(p, [pet[p] EXCEPT !.paso = "cache"])
       \/ baja # Ninguno /\ Negar(p)
    /\ UNCHANGED <<reloj, base, cache>>

\* Faulty: the entry is still good at the moment it expires.
VigenteAlVencer == TTL > 0 /\ cache # Ninguno /\ reloj <= cache.vence

\* An entry is used strictly before it expires.
Vigente == TTL > 0 /\ cache # Ninguno /\ reloj < cache.vence

\* cache.get
Get(p) ==
    /\ pet[p].paso = "cache"
    /\ \/ Vigente /\ Autorizar(p, cache.roles, cache.alcances)
       \/ ~Vigente /\ Seguir(p, [pet[p] EXCEPT !.paso = "roles"])
    /\ UNCHANGED <<reloj, base, cache>>

ListRolesForMembership(p) ==
    /\ pet[p].paso = "roles"
    /\ Seguir(p, [pet[p] EXCEPT !.paso = "alcances", !.roles = version])
    /\ UNCHANGED <<reloj, base, cache>>

ListScopesForMembership(p) ==
    /\ pet[p].paso = "alcances"
    /\ Seguir(p, [pet[p] EXCEPT !.paso = "guardar", !.alcances = version])
    /\ UNCHANGED <<reloj, base, cache>>

\* Faulty: the time to live is negative.
EntradaSinTTL(p) == [roles |-> pet[p].roles, alcances |-> pet[p].alcances,
                     vence |-> reloj - TTL - 1]

\* cache.set counts the time to live from the moment of writing the entry, not
\* from that of reading the roles, and overwrites a newer entry.
Entrada(p) == [roles |-> pet[p].roles, alcances |-> pet[p].alcances,
               vence |-> reloj + TTL]
Set(p) ==
    /\ pet[p].paso = "guardar"
    /\ cache' = IF TTL > 0 THEN Entrada(p) ELSE cache
    /\ Autorizar(p, pet[p].roles, pet[p].alcances)
    /\ UNCHANGED <<reloj, base>>

-----------------------------------------------------------------------------
(* The environment *)

\* Membership roles and scopes, and the status of the membership, change.
CambiarRoles ==
    /\ version < MaxCambios
    /\ version' = version + 1
    /\ fin' = [fin EXCEPT ![version] = reloj]
    /\ decision' = Ninguno
    /\ UNCHANGED <<reloj, baja, cache, pet>>
CambiarEstado ==
    /\ baja' = IF baja = Ninguno THEN reloj ELSE Ninguno
    /\ decision' = Ninguno
    /\ UNCHANGED <<reloj, version, fin, cache, pet>>

\* A cancelled request.
Cancelar(p) ==
    /\ pet[p].paso # "libre"
    /\ Negar(p)
    /\ UNCHANGED <<reloj, base, cache>>

\* The process starts again, with an empty cache.
Reiniciar ==
    /\ cache' = Ninguno
    /\ pet' = [p \in Peticiones |-> Libre]
    /\ decision' = Ninguno
    /\ UNCHANGED <<reloj, base>>

\* No request has used up its time.
ATiempo == \A p \in Peticiones : pet[p].paso # "libre" => reloj < pet[p].inicio + Demora

Tic ==
    /\ reloj < MaxReloj /\ ATiempo
    /\ reloj' = reloj + 1
    /\ decision' = Ninguno
    /\ UNCHANGED <<base, cache, pet>>

Atender(p) ==
    \/ LeerEstado(p) \/ Get(p) \/ ListRolesForMembership(p)
    \/ ListScopesForMembership(p) \/ Set(p)

Next ==
    \/ \E p \in Peticiones : Recibir(p) \/ Atender(p) \/ Cancelar(p)
    \/ CambiarRoles \/ CambiarEstado \/ Reiniciar \/ Tic

Spec == Init /\ [][Next]_vars

-----------------------------------------------------------------------------
(* Properties *)

\* Until when version v was the one in the database.
Hasta(v) == IF v = version THEN reloj ELSE fin[v]

\* What a cached entry may lag behind: its time to live, and the time the request
\* that wrote it took.
Retraso == Demora + (IF TTL = 0 THEN 0 ELSE TTL - 1)

\* A request is authorized on roles and scopes that were those of the database
\* at most Retraso ago, though a slow request may put old roles in the cache
\* after they changed, and over newer ones ("el TTL corto limita la ventana de
\* staleness"); and on a membership that was active at most Demora ago, since
\* its status is never cached.
DecisionFresca ==
    decision # Ninguno =>
        /\ Hasta(decision.roles) + Retraso >= reloj
        /\ Hasta(decision.alcances) + Retraso >= reloj
        /\ baja # Ninguno => baja + Demora >= reloj
=============================================================================
