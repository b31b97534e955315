--------------------------- MODULE PermisosProofs ---------------------------
(* A request is never authorized on roles older than Retraso, nor on a       *)
(* membership that was inactive for longer than Demora, whatever the time to *)
(* live, the time a request may take and the number of requests.             *)
(*                                                                           *)
(* The argument is about Hasta(v), the moment until which version v was the  *)
(* current one: it never decreases; what a request reads was current when it *)
(* started or later; and an entry expires at most Demora + TTL after the     *)
(* contents it holds were current.                                           *)
EXTENDS Permisos, TLAPS

\* Version v exists and was still current at time t.
VigenteEn(v, t) == v \in 0..version /\ t <= Hasta(v)

\* An open request is within its time, and what it has read was true after it began.
PeticionOK(p) ==
    pet[p].paso # "libre" =>
        /\ pet[p].inicio <= reloj /\ reloj <= pet[p].inicio + Demora
        /\ pet[p].paso # "estado" /\ baja # Ninguno => pet[p].inicio <= baja
        /\ pet[p].paso \in {"alcances", "guardar"} => VigenteEn(pet[p].roles, pet[p].inicio)
        /\ pet[p].paso = "guardar" => VigenteEn(pet[p].alcances, pet[p].inicio)

\* An entry expires at most Demora + TTL after its contents were current.
EntradaOK ==
    cache # Ninguno =>
        /\ cache.vence \in Nat
        /\ VigenteEn(cache.roles, cache.vence - TTL - Demora)
        /\ VigenteEn(cache.alcances, cache.vence - TTL - Demora)

PInv ==
    /\ TypeOK
    /\ \A v \in Versiones : fin[v] <= reloj
    /\ baja # Ninguno => baja <= reloj
    /\ \A p \in Peticiones : PeticionOK(p)
    /\ EntradaOK

\* Time and versions go on, and what was current at some time stays so.
Crece ==
    /\ reloj' \in Nat /\ reloj <= reloj'
    /\ version' \in Versiones /\ version <= version'
    /\ \A v \in 0..version : Hasta(v)' \in Nat /\ Hasta(v) <= Hasta(v)'

-----------------------------------------------------------------------------
(* Facts about Hasta *)

\* The moment until which a version was current is a time that has passed.
LEMMA HastaEs ==
  ASSUME PInv
  PROVE  /\ reloj \in Nat /\ version \in Nat /\ MaxCambios \in Nat /\ version <= MaxCambios
         /\ \A v \in 0..version : v \in Versiones /\ Hasta(v) \in Nat /\ Hasta(v) <= reloj
         /\ Hasta(version) = reloj /\ version \in 0..version
<1>1. /\ reloj \in Nat /\ version \in Nat /\ MaxCambios \in Nat /\ version <= MaxCambios
      /\ 0..version \subseteq Versiones /\ version \in 0..version
  BY CotasAssumption DEF PInv, TypeOK, Versiones
<1>2. \A v \in Versiones : fin[v] \in Nat /\ fin[v] <= reloj
  BY DEF PInv, TypeOK
<1> QED BY <1>1, <1>2 DEF Hasta

\* A step that changes neither time nor versions.
LEMMA Inmovil ==
  ASSUME PInv, UNCHANGED <<reloj, version, fin>>
  PROVE  Crece /\ \A v : Hasta(v)' = Hasta(v)
<1>1. \A v : Hasta(v)' = Hasta(v)
  BY DEF Hasta
<1>2. \A v \in 0..version : Hasta(v)' \in Nat /\ Hasta(v) <= Hasta(v)'
  BY <1>1, HastaEs
<1> QED BY <1>1, <1>2, HastaEs DEF Crece, PInv, TypeOK

\* What was current at a time is still known to have been so.
LEMMA VigenteCrece ==
  ASSUME PInv, Crece, NEW v, NEW t \in Int, VigenteEn(v, t)
  PROVE  VigenteEn(v, t)'
<1>1. v \in 0..version /\ t <= Hasta(v) /\ Hasta(v) <= Hasta(v)' /\ Hasta(v)' \in Nat
  BY DEF VigenteEn, Crece
<1>2. Hasta(v) \in Nat /\ version \in Nat /\ version' \in Nat /\ version <= version'
  BY <1>1, HastaEs DEF Crece, Versiones
<1>3. v \in 0..version'
  BY <1>1, <1>2
<1> QED BY <1>1, <1>2, <1>3 DEF VigenteEn

-----------------------------------------------------------------------------
(* The invariant *)

\* What a request must know to go on as s.
Sabe(s) ==
    s.paso # "libre" =>
        /\ s.inicio <= reloj /\ reloj <= s.inicio + Demora
        /\ s.paso # "estado" /\ baja # Ninguno => s.inicio <= baja
        /\ s.paso \in {"alcances", "guardar"} => VigenteEn(s.roles, s.inicio)
        /\ s.paso = "guardar" => VigenteEn(s.alcances, s.inicio)

\* A step of one request, which may write the entry.
LEMMA PasoDePeticion ==
  ASSUME PInv, NEW p \in Peticiones, NEW s \in Peticion, Sabe(s),
         pet' = [pet EXCEPT ![p] = s], UNCHANGED <<reloj, base>>,
         cache' \in [roles: Versiones, alcances: Versiones, vence: Nat] \cup {Ninguno},
         EntradaOK',
         decision' \in [roles: Versiones, alcances: Versiones] \cup {Ninguno}
  PROVE  PInv'
<1>1. TypeOK'
  BY DEF PInv, TypeOK, base
<1>2. \A v : Hasta(v)' = Hasta(v)
  BY DEF Hasta, base
<1>3. \A v, t : VigenteEn(v, t)' <=> VigenteEn(v, t)
  BY <1>2 DEF VigenteEn, base
<1>4. \A q \in Peticiones : PeticionOK(q)'
  <2> SUFFICES ASSUME NEW q \in Peticiones PROVE PeticionOK(q)'
    OBVIOUS
  <2>1. CASE q = p
    <3>1. pet'[q] = s
      BY <2>1 DEF PInv, TypeOK
    <3> QED BY <1>3, <3>1 DEF PeticionOK, Sabe, base
  <2>2. CASE q # p
    <3>1. pet'[q] = pet[q] /\ PeticionOK(q)
      BY <2>2 DEF PInv, TypeOK
    <3> QED BY <1>3, <3>1 DEF PeticionOK, base
  <2> QED BY <2>1, <2>2
<1> QED BY <1>1, <1>4 DEF PInv, base

\* An entry that is not written is as good as it was.
LEMMA MismaEntrada ==
  ASSUME PInv, Crece, cache' = cache
  PROVE  EntradaOK'
<1> SUFFICES ASSUME cache # Ninguno
             PROVE  /\ VigenteEn(cache.roles, cache.vence - TTL - Demora)'
                    /\ VigenteEn(cache.alcances, cache.vence - TTL - Demora)'
  BY DEF EntradaOK, PInv
<1> SUFFICES ASSUME NEW c, c = cache, NEW t, t = c.vence - TTL - Demora
             PROVE  VigenteEn(c.roles, t)' /\ VigenteEn(c.alcances, t)'
  BY Zenon
<1>1. t \in Int /\ VigenteEn(c.roles, t) /\ VigenteEn(c.alcances, t)
  BY TiemposAssumption DEF PInv, EntradaOK
<1> QED BY <1>1, VigenteCrece

\* Time, changes of roles and of the membership, and restarts: what an open
\* request or the entry knows stays true.
LEMMA PasoDelEntorno ==
  ASSUME PInv, Crece, EntradaOK', TypeOK',
         \A v \in Versiones : fin'[v] <= reloj',
         baja' # Ninguno => baja' <= reloj',
         \A p \in Peticiones : pet'[p] = pet[p] \/ pet'[p] = Libre,
         \A p \in Peticiones : pet[p].paso # "libre" /\ pet'[p] = pet[p] =>
            /\ reloj' <= pet[p].inicio + Demora
            /\ baja' = baja \/ baja' = Ninguno \/ baja' = reloj
  PROVE  PInv'
<1> SUFFICES ASSUME NEW p \in Peticiones, pet'[p].paso # "libre"
             PROVE  PeticionOK(p)'
  BY DEF PInv, PeticionOK
<1>1. pet'[p] = pet[p]
  BY DEF Libre
<1> SUFFICES ASSUME NEW s, s = pet[p]
             PROVE  PeticionOK(p)'
  OBVIOUS
<1>2. s \in Peticion /\ s.inicio \in Int /\ s.inicio <= reloj /\ reloj <= reloj'
      /\ reloj \in Nat /\ reloj' \in Nat
  BY <1>1 DEF PInv, TypeOK, Peticion, PeticionOK, Crece
<1>3. s.inicio <= reloj' /\ reloj' <= s.inicio + Demora
  BY <1>1, <1>2
<1>4. s.paso # "estado" /\ baja' # Ninguno => s.inicio <= baja'
  BY <1>1, <1>2 DEF PInv, PeticionOK
<1>5. s.paso \in {"alcances", "guardar"} => VigenteEn(s.roles, s.inicio)'
  BY <1>1, <1>2, VigenteCrece DEF PInv, PeticionOK
<1>6. s.paso = "guardar" => VigenteEn(s.alcances, s.inicio)'
  BY <1>1, <1>2, VigenteCrece DEF PInv, PeticionOK
<1>7. pet'[p] = s
  BY <1>1
<1> QED BY <1>3, <1>4, <1>5, <1>6, <1>7 DEF PeticionOK, VigenteEn, Hasta

\* Every operation of a request keeps the invariant and decides on fresh contents.
LEMMA PeticionInv ==
  ASSUME PInv, NEW p \in Peticiones, Recibir(p) \/ Atender(p) \/ Cancelar(p)
  PROVE  PInv' /\ DecisionFresca'
<1>1. UNCHANGED <<reloj, base>> /\ UNCHANGED <<version, fin, baja>>
  BY DEF Recibir, Atender, Cancelar, LeerEstado, Get, ListRolesForMembership,
         ListScopesForMembership, Set, base
<1>2. Crece /\ \A v : Hasta(v)' = Hasta(v)
  BY <1>1, Inmovil
<1>3. pet[p] \in Peticion /\ PeticionOK(p) /\ reloj \in Nat /\ version \in Versiones
      /\ cache \in [roles: Versiones, alcances: Versiones, vence: Nat] \cup {Ninguno}
  BY DEF PInv, TypeOK
<1>4. Libre \in Peticion /\ Libre.paso = "libre"
  BY CotasAssumption DEF Libre, Peticion, Versiones
<1>5. ASSUME NEW s \in Peticion, Sabe(s), Seguir(p, s), cache' = cache
      PROVE  PInv' /\ DecisionFresca'
  BY <1>1, <1>2, <1>3, <1>5, MismaEntrada, PasoDePeticion DEF Seguir, DecisionFresca
<1>6. CASE Negar(p) /\ cache' = cache
  BY <1>4, <1>5, <1>6 DEF Negar, Sabe
<1>7. CASE Recibir(p)
  <2> DEFINE s == [Libre EXCEPT !.paso = "estado", !.inicio = reloj]
  <2>1. s \in Peticion /\ s.paso = "estado" /\ s.inicio = reloj
    BY <1>3, <1>4 DEF Libre, Peticion
  <2>2. Sabe(s)
    BY <1>3, <2>1, TiemposAssumption DEF Sabe
  <2> HIDE DEF s
  <2> QED BY <1>5, <1>7, <2>1, <2>2 DEF Recibir, s
<1>8. CASE LeerEstado(p)
  <2> DEFINE s == [pet[p] EXCEPT !.paso = "cache"]
  <2>1. s \in Peticion /\ s.paso = "cache" /\ s.inicio = pet[p].inicio
    BY <1>3 DEF Peticion
  <2>2. baja = Ninguno => Sabe(s)
    BY <1>3, <1>8, <2>1 DEF Sabe, PeticionOK, LeerEstado
  <2> HIDE DEF s
  <2> QED BY <1>5, <1>6, <1>8, <2>1, <2>2 DEF LeerEstado, s
<1>9. CASE ListRolesForMembership(p)
  <2> DEFINE s == [pet[p] EXCEPT !.paso = "alcances", !.roles = version]
  <2>1. s \in Peticion /\ s.paso = "alcances" /\ s.inicio = pet[p].inicio /\ s.roles = version
    BY <1>3 DEF Peticion
  <2>2. Sabe(s)
    BY <1>3, <1>9, <2>1, HastaEs DEF Sabe, PeticionOK, ListRolesForMembership, VigenteEn
  <2> HIDE DEF s
  <2> QED BY <1>5, <1>9, <2>1, <2>2 DEF ListRolesForMembership, s
<1>10. CASE ListScopesForMembership(p)
  <2> DEFINE s == [pet[p] EXCEPT !.paso = "guardar", !.alcances = version]
  <2>1. /\ s \in Peticion /\ s.paso = "guardar" /\ s.inicio = pet[p].inicio
        /\ s.roles = pet[p].roles /\ s.alcances = version
    BY <1>3 DEF Peticion
  <2>2. Sabe(s)
    BY <1>3, <1>10, <2>1, HastaEs DEF Sabe, PeticionOK, ListScopesForMembership, VigenteEn
  <2> HIDE DEF s
  <2> QED BY <1>5, <1>10, <2>1, <2>2 DEF ListScopesForMembership, s
<1>11. CASE Get(p) /\ Vigente
  <2>1. /\ pet' = [pet EXCEPT ![p] = Libre] /\ cache' = cache
        /\ decision' = [roles |-> cache.roles, alcances |-> cache.alcances]
    BY <1>11 DEF Get, Autorizar
  <2>2. /\ cache # Ninguno /\ reloj < cache.vence /\ TTL > 0 /\ cache.vence \in Nat
        /\ VigenteEn(cache.roles, cache.vence - TTL - Demora)
        /\ VigenteEn(cache.alcances, cache.vence - TTL - Demora)
    BY <1>11 DEF Vigente, PInv, EntradaOK
  <2>3. PInv'
    BY <1>1, <1>2, <1>3, <1>4, <2>1, <2>2, MismaEntrada, PasoDePeticion DEF Sabe
  <2>4. /\ Hasta(cache.roles) + Retraso >= reloj
        /\ Hasta(cache.alcances) + Retraso >= reloj
    BY <1>3, <2>2, HastaEs, TiemposAssumption DEF VigenteEn, Retraso
  <2>5. baja # Ninguno => baja + Demora >= reloj
    BY <1>3, <1>11, TiemposAssumption DEF Get, PeticionOK, PInv, TypeOK, Peticion
  <2> QED BY <1>1, <1>2, <2>1, <2>3, <2>4, <2>5 DEF DecisionFresca, Retraso
<1>12. CASE Get(p) /\ ~Vigente
  <2> DEFINE s == [pet[p] EXCEPT !.paso = "roles"]
  <2>1. s \in Peticion /\ s.paso = "roles" /\ s.inicio = pet[p].inicio
    BY <1>3 DEF Peticion
  <2>2. Sabe(s)
    BY <1>3, <1>12, <2>1 DEF Sabe, PeticionOK, Get
  <2> HIDE DEF s
  <2> QED BY <1>5, <1>12, <2>1, <2>2 DEF Get, s
<1>13. CASE Set(p)
  <2> DEFINE r == pet[p].roles
             a == pet[p].alcances
  <2>1. /\ pet' = [pet EXCEPT ![p] = Libre]
        /\ decision' = [roles |-> r, alcances |-> a]
        /\ cache' = IF TTL > 0 THEN Entrada(p) ELSE cache
    BY <1>13 DEF Set, Autorizar
  <2>2. /\ r \in Versiones /\ a \in Versiones
        /\ VigenteEn(r, pet[p].inicio) /\ VigenteEn(a, pet[p].inicio)
        /\ pet[p].inicio \in Nat /\ pet[p].inicio <= reloj /\ reloj <= pet[p].inicio + Demora
        /\ baja # Ninguno => pet[p].inicio <= baja
    BY <1>3, <1>13 DEF Set, PeticionOK, Peticion
  <2>3. /\ Hasta(r) \in Nat /\ reloj <= Hasta(r) + Demora /\ r \in 0..version
        /\ Hasta(a) \in Nat /\ reloj <= Hasta(a) + Demora /\ a \in 0..version
    BY <1>3, <2>2, HastaEs, TiemposAssumption DEF VigenteEn
  <2>4. /\ Entrada(p) \in [roles: Versiones, alcances: Versiones, vence: Nat]
        /\ Entrada(p).roles = r /\ Entrada(p).alcances = a /\ Entrada(p).vence = reloj + TTL
    BY <1>3, <2>2, TiemposAssumption DEF Entrada
  <2>5. EntradaOK'
    <3>1. CASE TTL > 0
      BY <1>1, <1>2, <1>3, <2>1, <2>3, <2>4, <3>1, TiemposAssumption DEF EntradaOK, VigenteEn
    <3>2. CASE ~(TTL > 0)
      BY <1>2, <2>1, <3>2, MismaEntrada
    <3> QED BY <3>1, <3>2
  <2>6. PInv'
    <3>1. cache' \in [roles: Versiones, alcances: Versiones, vence: Nat] \cup {Ninguno}
      BY <1>3, <2>1, <2>4
    <3>2. decision' \in [roles: Versiones, alcances: Versiones] \cup {Ninguno}
      BY <2>1, <2>2
    <3>3. Sabe(Libre)
      BY <1>4 DEF Sabe
    <3> QED BY <1>1, <1>4, <2>1, <2>5, <3>1, <3>2, <3>3, PasoDePeticion
  <2>7. Hasta(r) + Retraso >= reloj /\ Hasta(a) + Retraso >= reloj
    <3>1. Retraso \in Nat /\ Demora <= Retraso
      BY TiemposAssumption DEF Retraso
    <3>2. reloj \in Nat
      BY <1>3
    <3> QED BY <2>3, <3>1, <3>2, TiemposAssumption
  <2>8. baja # Ninguno => baja + Demora >= reloj
    BY <1>3, <2>2, TiemposAssumption DEF PInv, TypeOK
  <2> QED BY <1>1, <1>2, <2>1, <2>6, <2>7, <2>8 DEF DecisionFresca, Retraso
<1>14. CASE Cancelar(p)
  BY <1>6, <1>14 DEF Cancelar
<1> QED BY <1>7, <1>8, <1>9, <1>10, <1>11, <1>12, <1>13, <1>14 DEF Atender

\* The environment keeps the invariant and decides nothing.
LEMMA EntornoInv ==
  ASSUME PInv, CambiarRoles \/ CambiarEstado \/ Reiniciar \/ Tic
  PROVE  PInv' /\ DecisionFresca'
<1>1. decision' = Ninguno
  BY DEF CambiarRoles, CambiarEstado, Reiniciar, Tic
<1>2. \A p \in Peticiones : PeticionOK(p)
  BY DEF PInv
<1>3. CASE CambiarRoles
  <2>1. /\ version' = version + 1 /\ version + 1 \in Versiones
        /\ fin' = [fin EXCEPT ![version] = reloj] /\ fin \in [Versiones -> Nat]
        /\ version \in Versiones /\ reloj' = reloj /\ reloj \in Nat /\ version \in Nat
    BY <1>3, CotasAssumption DEF CambiarRoles, PInv, TypeOK, Versiones
  <2>2. Crece
    <3>1. \A v \in 0..version : Hasta(v)' = Hasta(v) /\ Hasta(v) \in Nat
      BY <2>1, HastaEs DEF Hasta
    <3> QED BY <2>1, <3>1 DEF Crece
  <2>3. TypeOK' /\ \A v \in Versiones : fin'[v] <= reloj'
    BY <1>3, <2>1 DEF CambiarRoles, PInv, TypeOK
  <2> QED BY <1>1, <1>2, <1>3, <2>2, <2>3, MismaEntrada, PasoDelEntorno
          DEF CambiarRoles, PeticionOK, PInv, DecisionFresca
<1>4. CASE CambiarEstado
  <2>1. UNCHANGED <<reloj, version, fin>> /\ baja' \in {Ninguno, reloj} /\ reloj \in Nat
    BY <1>4 DEF CambiarEstado, PInv, TypeOK
  <2>2. Crece
    BY <2>1, Inmovil
  <2>3. TypeOK' /\ (baja' # Ninguno => baja' <= reloj')
    BY <1>4, <2>1 DEF CambiarEstado, PInv, TypeOK
  <2> QED BY <1>1, <1>2, <1>4, <2>1, <2>2, <2>3, MismaEntrada, PasoDelEntorno
          DEF CambiarEstado, PeticionOK, PInv, DecisionFresca
<1>5. CASE Reiniciar
  <2>1. Libre \in Peticion
    BY CotasAssumption DEF Libre, Peticion, Versiones
  <2>2. UNCHANGED <<reloj, version, fin, baja>> /\ cache' = Ninguno
        /\ pet' = [p \in Peticiones |-> Libre]
    BY <1>5 DEF Reiniciar, base
  <2>3. TypeOK' /\ EntradaOK'
    BY <1>1, <2>1, <2>2 DEF PInv, TypeOK, EntradaOK
  <2>4. \A p \in Peticiones : pet'[p].paso = "libre" /\ pet'[p] = Libre
    BY <2>2 DEF Libre
  <2>5. Crece
    BY <2>2, Inmovil
  <2> QED BY <1>1, <2>2, <2>3, <2>4, <2>5, PasoDelEntorno DEF PInv, DecisionFresca
<1>6. CASE Tic
  <2>1. UNCHANGED <<version, fin, baja, cache, pet>> /\ reloj' = reloj + 1 /\ ATiempo
        /\ reloj \in Nat
    BY <1>6 DEF Tic, base, PInv, TypeOK
  <2>2. Crece
    <3>1. \A v \in 0..version : Hasta(v)' \in Nat /\ Hasta(v) <= Hasta(v)'
      BY <2>1, HastaEs DEF Hasta
    <3> QED BY <2>1, <3>1, HastaEs DEF Crece, PInv, TypeOK
  <2>3. TypeOK' /\ (\A v \in Versiones : fin'[v] <= reloj') /\ (baja' # Ninguno => baja' <= reloj')
    <3>1. TypeOK'
      BY <1>1, <2>1 DEF PInv, TypeOK
    <3>2. \A v \in Versiones : fin[v] \in Nat /\ fin[v] <= reloj
      BY DEF PInv, TypeOK
    <3> QED BY <2>1, <3>1, <3>2 DEF PInv, TypeOK
  <2>4. \A p \in Peticiones : pet[p].paso # "libre" => reloj' <= pet[p].inicio + Demora
    <3> SUFFICES ASSUME NEW p \in Peticiones, pet[p].paso # "libre"
                 PROVE  reloj' <= pet[p].inicio + Demora
      OBVIOUS
    <3>1. pet[p].inicio \in Nat
      BY DEF PInv, TypeOK, Peticion
    <3>2. reloj < pet[p].inicio + Demora
      BY <2>1 DEF ATiempo
    <3> QED BY <2>1, <3>1, <3>2, TiemposAssumption
  <2> QED BY <1>1, <2>1, <2>2, <2>3, <2>4, MismaEntrada, PasoDelEntorno DEF DecisionFresca
<1> QED BY <1>3, <1>4, <1>5, <1>6

-----------------------------------------------------------------------------
(* Theorems *)

\* PInv holds, and what is decided is fresh, in every reachable state.
LEMMA Invariante == Spec => [](PInv /\ DecisionFresca)
<1>1. Init => PInv /\ DecisionFresca
  <2> SUFFICES ASSUME Init PROVE PInv /\ DecisionFresca
    OBVIOUS
  <2>1. TypeOK
    BY CotasAssumption DEF Init, TypeOK, Libre, Peticion, Versiones
  <2>2. \A p \in Peticiones : PeticionOK(p)
    BY DEF Init, Libre, PeticionOK
  <2> QED BY <2>1, <2>2 DEF Init, PInv, EntradaOK, DecisionFresca
<1>2. PInv /\ DecisionFresca /\ [Next]_vars => (PInv /\ DecisionFresca)'
  <2> SUFFICES ASSUME PInv, DecisionFresca, [Next]_vars PROVE (PInv /\ DecisionFresca)'
    OBVIOUS
  <2>1. CASE UNCHANGED vars
    BY <2>1 DEF vars, PInv, TypeOK, PeticionOK, EntradaOK, VigenteEn, Hasta, DecisionFresca,
                Retraso
  <2> QED BY <2>1, PeticionInv, EntornoInv DEF Next
<1> QED BY <1>1, <1>2, PTL DEF Spec

\* Every reachable state is well typed.
THEOREM Tipos == Spec => []TypeOK
<1>1. PInv => TypeOK
  BY DEF PInv
<1> QED BY <1>1, Invariante, PTL

\* A request is authorized on roles and scopes of at most Retraso ago and on a
\* membership that was active at most Demora ago, though the entry counts its time
\* from when it is written and a slow request may write it over a newer one.
THEOREM SiempreFresca == Spec => []DecisionFresca
<1>1. PInv /\ DecisionFresca => DecisionFresca
  OBVIOUS
<1> QED BY <1>1, Invariante, PTL
=============================================================================
