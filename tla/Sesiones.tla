------------------------------- MODULE Sesiones -------------------------------
(***************************************************************************)
(* One user who logs in, with or without a second factor, and the refresh  *)
(* tokens that keep his sessions open (internal/identity: auth.go, mfa.go, *)
(* attempts.go, and their handlers).                                       *)
(*                                                                         *)
(* A request is a process.  Its reads outside a transaction (the count of  *)
(* failures, GetUserBy..., LookupRefreshToken) are steps of their own, and *)
(* what they saw is used by later steps; a transaction is one step, or two *)
(* when it holds the lock of a row that others want.  A family of refresh  *)
(* tokens and its session are created together and share an identifier.    *)
(***************************************************************************)
EXTENDS Naturals, FiniteSets

CONSTANTS
    Familias,    \* families of refresh tokens, with their sessions
    Tokens,      \* refresh tokens
    Secretos,    \* TOTP secrets
    Peticiones,  \* requests that may be open at the same time
    MaxFallos,   \* LoginMaxAttempts
    Ninguno      \* no value

ASSUME PeticionesAssumption == IsFiniteSet(Peticiones) /\ Peticiones # {}
ASSUME MaxFallosAssumption == MaxFallos \in Nat \ {0}
ASSUME NingunoAssumption ==
    Ninguno \notin Familias /\ Ninguno \notin Tokens /\ Ninguno \notin Secretos

VARIABLES
    usuario,    \* users.status, mfa_enabled and mfa_secret
    membresia,  \* status of the membership that the sessions carry
    fallos,     \* failed attempts of the email and IP inside the window
    desafio,    \* the client holds an mfa_token that has not expired
    sesion,     \* table sessions
    tok,        \* table refresh_tokens
    pet,        \* the open requests
    cruzadas,   \* history: families two requests used at the same time
    reusadas    \* history: families revoked because a token was used again

vars == <<usuario, membresia, fallos, desafio, sesion, tok, pet, cruzadas, reusadas>>
cuenta == <<usuario, membresia, fallos, desafio>>
historia == <<cruzadas, reusadas>>

Vivos == {"vivo", "vencido"}     \* revoked_at IS NULL; vencido: expires_at passed
Pasos == {"libre", "contar", "leer", "verificar", "abrir", "habilitar", "buscar",
          "rotar", "rotando", "familia", "revocando", "cerrar"}
Ops   == {"login", "mfa", "confirmar", "refresh", "logout"}

Peticion == [paso: Pasos, op: Ops \cup {Ninguno}, clave: BOOLEAN,
             codigo: Secretos \cup {Ninguno}, visto: Secretos \cup {Ninguno},
             tok: Tokens \cup {Ninguno}, fam: Familias \cup {Ninguno},
             borra: SUBSET Tokens]

TypeOK ==
    /\ usuario \in [activo: BOOLEAN, mfa: BOOLEAN, secreto: Secretos \cup {Ninguno}]
    /\ membresia \in {"activa", "inactiva"}
    /\ fallos \in Nat
    /\ desafio \in BOOLEAN
    /\ sesion \in [Familias -> {"libre", "abierta", "revocada"}]
    /\ tok \in [Tokens -> [estado: {"libre", "revocado"} \cup Vivos,
                           fam: Familias \cup {Ninguno}]]
    /\ pet \in [Peticiones -> Peticion]
    /\ cruzadas \subseteq Familias
    /\ reusadas \subseteq Familias

Libre == [paso |-> "libre", op |-> Ninguno, clave |-> FALSE, codigo |-> Ninguno,
          visto |-> Ninguno, tok |-> Ninguno, fam |-> Ninguno, borra |-> {}]

Init ==
    /\ usuario = [activo |-> TRUE, mfa |-> FALSE, secreto |-> Ninguno]
    /\ membresia = "activa"
    /\ fallos = 0
    /\ desafio = FALSE
    /\ sesion = [f \in Familias |-> "libre"]
    /\ tok = [t \in Tokens |-> [estado |-> "libre", fam |-> Ninguno]]
    /\ pet = [p \in Peticiones |-> Libre]
    /\ cruzadas = {} /\ reusadas = {}

Seguir(p, s) == pet' = [pet EXCEPT ![p] = s]
Terminar(p)  == Seguir(p, Libre)
Ir(p, paso)  == Seguir(p, [pet[p] EXCEPT !.paso = paso])

-----------------------------------------------------------------------------
(* Requests arrive *)

\* POST /auth/login: an unknown email is answered, and recorded, like a wrong
\* password (clave = FALSE).
RecibirLogin(p, c) ==
    /\ pet[p].paso = "libre"
    /\ Seguir(p, [Libre EXCEPT !.paso = "contar", !.op = "login", !.clave = c])
    /\ UNCHANGED <<cuenta, sesion, tok, historia>>

\* POST /auth/mfa/verify, with an mfa_token and a code of some secret.
RecibirMfaVerify(p, s) ==
    /\ pet[p].paso = "libre" /\ desafio
    /\ Seguir(p, [Libre EXCEPT !.paso = "leer", !.op = "mfa", !.codigo = s])
    /\ UNCHANGED <<cuenta, sesion, tok, historia>>

\* An access token exists: the user opened a session at some time.
TieneAcceso == \E f \in Familias : sesion[f] # "libre"

\* POST /auth/mfa/confirm, with a code of some secret.
RecibirMfaConfirm(p, s) ==
    /\ pet[p].paso = "libre" /\ TieneAcceso
    /\ Seguir(p, [Libre EXCEPT !.paso = "leer", !.op = "confirmar", !.codigo = s])
    /\ UNCHANGED <<cuenta, sesion, tok, historia>>

OtraDeLaFamilia(p, f) == \E q \in Peticiones \ {p} : pet[q].fam = f

\* POST /auth/refresh and /auth/logout, with a token the client once got: one
\* whose answer was lost, or a copy, may come again at any time.
RecibirConToken(p, op, t) ==
    LET f == tok[t].fam
    IN  /\ pet[p].paso = "libre"
        /\ op \in {"refresh", "logout"} /\ tok[t].estado # "libre"
        /\ Seguir(p, [Libre EXCEPT !.paso = "buscar", !.op = op, !.tok = t, !.fam = f])
        /\ cruzadas' = IF OtraDeLaFamilia(p, f) THEN cruzadas \cup {f} ELSE cruzadas
        /\ UNCHANGED <<cuenta, sesion, tok, reusadas>>

-----------------------------------------------------------------------------
(* Login and second factor *)

\* Faulty: a request that finds the limit reached still goes on.
ExcedidoPorUno(n) == n > MaxFallos

\* countFailures against LoginMaxAttempts.
Excedido(n) == n >= MaxFallos

\* Login counts before it reads the user, VerifyMfa after.
Contar(p) ==
    /\ pet[p].paso = "contar"
    /\ \/ Excedido(fallos) /\ Terminar(p)
       \/ /\ ~Excedido(fallos)
          /\ Ir(p, IF pet[p].op = "login" THEN "leer" ELSE "verificar")
    /\ UNCHANGED <<cuenta, sesion, tok, historia>>

\* Login reads the user, checks the password and records the attempt.
LeerLogin(p) ==
    /\ pet[p].paso = "leer" /\ pet[p].op = "login"
    /\ \/ /\ ~usuario.activo
          /\ Terminar(p) /\ UNCHANGED <<fallos, desafio>>
       \/ /\ usuario.activo /\ ~pet[p].clave
          /\ fallos' = fallos + 1
          /\ Terminar(p) /\ UNCHANGED desafio
       \/ /\ usuario.activo /\ pet[p].clave /\ usuario.mfa
          /\ desafio' = TRUE
          /\ Terminar(p) /\ UNCHANGED fallos
       \/ /\ usuario.activo /\ pet[p].clave /\ ~usuario.mfa
          /\ Ir(p, "abrir") /\ UNCHANGED <<fallos, desafio>>
    /\ UNCHANGED <<usuario, membresia, sesion, tok, historia>>

\* VerifyMfa reads the user: without an enabled secret there is nothing to verify.
LeerMfa(p) ==
    LET puede == usuario.activo /\ usuario.mfa /\ usuario.secreto # Ninguno
    IN  /\ pet[p].paso = "leer" /\ pet[p].op = "mfa"
        /\ \/ puede /\ Seguir(p, [pet[p] EXCEPT !.paso = "contar",
                                                !.visto = usuario.secreto])
           \/ ~puede /\ Terminar(p)
        /\ UNCHANGED <<cuenta, sesion, tok, historia>>

\* The code against the secret that was read.
Verificar(p) ==
    /\ pet[p].paso = "verificar"
    /\ \/ /\ pet[p].codigo = pet[p].visto
          /\ Ir(p, "abrir") /\ UNCHANGED fallos
       \/ /\ pet[p].codigo # pet[p].visto
          /\ fallos' = fallos + 1
          /\ Terminar(p)
    /\ UNCHANGED <<usuario, membresia, desafio, sesion, tok, historia>>

\* openSession: a session and the first token of a new family.
OpenSession(p, f, t) ==
    /\ pet[p].paso = "abrir"
    /\ sesion[f] = "libre" /\ tok[t].estado = "libre"
    /\ sesion' = [sesion EXCEPT ![f] = "abierta"]
    /\ tok' = [tok EXCEPT ![t] = [estado |-> "vivo", fam |-> f]]
    /\ Terminar(p)
    /\ UNCHANGED <<cuenta, historia>>

\* SetupMfa writes a new secret, over one that may be enabled.
SetupMfa(s) ==
    /\ TieneAcceso /\ usuario.secreto # s
    /\ usuario' = [usuario EXCEPT !.secreto = s]
    /\ UNCHANGED <<membresia, fallos, desafio, sesion, tok, pet, historia>>

\* ConfirmMfa reads the secret and checks the code outside the transaction ...
LeerConfirm(p) ==
    /\ pet[p].paso = "leer" /\ pet[p].op = "confirmar"
    /\ \/ pet[p].codigo = usuario.secreto /\ Ir(p, "habilitar")
       \/ pet[p].codigo # usuario.secreto /\ Terminar(p)
    /\ UNCHANGED <<cuenta, sesion, tok, historia>>

\* Faulty: EnableMfa without its condition on the secret.
HabilitaSiempre(s) == TRUE

\* The condition of EnableMfa: mfa_secret IS NOT NULL.
Habilita(s) == s # Ninguno

\* ... that enables whatever secret is there by then.
EnableMfa(p) ==
    /\ pet[p].paso = "habilitar"
    /\ usuario' = [usuario EXCEPT !.mfa = @ \/ Habilita(usuario.secreto)]
    /\ Terminar(p)
    /\ UNCHANGED <<membresia, fallos, desafio, sesion, tok, historia>>

DisableMfa ==
    /\ TieneAcceso
    /\ usuario' = [usuario EXCEPT !.mfa = FALSE, !.secreto = Ninguno]
    /\ UNCHANGED <<membresia, fallos, desafio, sesion, tok, pet, historia>>

-----------------------------------------------------------------------------
(* Refresh and logout *)

\* LookupRefreshToken and the checks on what it returned.
Buscar(p) ==
    LET e == tok[pet[p].tok].estado
    IN  /\ pet[p].paso = "buscar"
        /\ \/ pet[p].op = "refresh" /\ e = "revocado" /\ Ir(p, "familia")
           \/ pet[p].op = "refresh" /\ e = "vencido" /\ Terminar(p)
           \/ pet[p].op = "refresh" /\ e = "vivo" /\ Ir(p, "rotar")
           \/ pet[p].op = "logout" /\ e = "revocado" /\ Terminar(p)
           \/ pet[p].op = "logout" /\ e \in Vivos /\ Ir(p, "cerrar")
        /\ UNCHANGED <<cuenta, sesion, tok, historia>>

\* A request other than p has updated the row of t and not committed yet.
Retenido(p, t) ==
    \E q \in Peticiones \ {p} : pet[q].paso = "rotando" /\ pet[q].tok = t

\* RevokeRefreshToken: an UPDATE by id, which takes the row lock.
Rotar(p) ==
    /\ pet[p].paso = "rotar"
    /\ ~Retenido(p, pet[p].tok)
    /\ Ir(p, "rotando")
    /\ UNCHANGED <<cuenta, sesion, tok, historia>>

\* Faulty: the token that was used gets an estado of its own / stays live.
ReemplazarPorRotado(t, n) == [tok EXCEPT ![t].estado = "rotado",
                                         ![n] = [estado |-> "vivo", fam |-> tok[t].fam]]
ReemplazarSinRevocar(t, n) == [tok EXCEPT ![n] = [estado |-> "vivo", fam |-> tok[t].fam]]

\* Refresh replaces t by a new token n of its family.
Reemplazar(t, n) == [tok EXCEPT ![t].estado = "revocado",
                                ![n] = [estado |-> "vivo", fam |-> tok[t].fam]]

\* The rest of the transaction of Refresh: without an active membership it is
\* rolled back; the revocation of the session is not looked at.
RefreshEmite(p, n) ==
    /\ pet[p].paso = "rotando"
    /\ membresia = "activa" /\ tok[n].estado = "libre"
    /\ tok' = Reemplazar(pet[p].tok, n)
    /\ Terminar(p)
    /\ UNCHANGED <<cuenta, sesion, historia>>
RefreshSinMembresia(p) ==
    /\ pet[p].paso = "rotando"
    /\ membresia = "inactiva"
    /\ Terminar(p)
    /\ UNCHANGED <<cuenta, sesion, tok, historia>>

\* Faulty: only the token that was used again is looked for.
SoloElUsado(p) == {t \in Tokens : t = pet[p].tok /\ tok[t].estado \in Vivos}

\* The rows that RevokeTokensByFamily sees when it starts.
PorFamilia(p) ==
    {t \in Tokens : tok[t].fam = pet[p].fam /\ tok[t].estado \in Vivos}

\* revokeFamily, after a revoked token came again: the UPDATE takes its snapshot
RevokeFamily(p) ==
    /\ pet[p].paso = "familia"
    /\ Seguir(p, [pet[p] EXCEPT !.paso = "revocando", !.borra = PorFamilia(p)])
    /\ UNCHANGED <<cuenta, sesion, tok, historia>>

Revocar(ts) ==
    [t \in Tokens |-> IF t \in ts THEN [tok[t] EXCEPT !.estado = "revocado"] ELSE tok[t]]

\* ... and waits for the rows that a rotation holds; a token inserted meanwhile
\* is not among them.
RevokeTokensByFamily(p) ==
    /\ pet[p].paso = "revocando"
    /\ \A t \in pet[p].borra : ~Retenido(p, t)
    /\ tok' = Revocar(pet[p].borra)
    /\ reusadas' = reusadas \cup {pet[p].fam}
    /\ Terminar(p)
    /\ UNCHANGED <<cuenta, sesion, cruzadas>>

\* Logout revokes the token and the session in one transaction.
Logout(p) ==
    /\ pet[p].paso = "cerrar"
    /\ ~Retenido(p, pet[p].tok)
    /\ tok' = Revocar({pet[p].tok})
    /\ sesion' = [sesion EXCEPT ![pet[p].fam] = "revocada"]
    /\ Terminar(p)
    /\ UNCHANGED <<cuenta, historia>>

-----------------------------------------------------------------------------
(* The environment *)

\* A cancelled request, a timeout, a crash: its transaction is rolled back.
Abortar(p) ==
    /\ pet[p].paso # "libre"
    /\ Terminar(p)
    /\ UNCHANGED <<cuenta, sesion, tok, historia>>

\* users.status and memberships.status are changed outside this code.
CambiarUsuario ==
    /\ usuario' = [usuario EXCEPT !.activo = ~@]
    /\ UNCHANGED <<membresia, fallos, desafio, sesion, tok, pet, historia>>
CambiarMembresia ==
    /\ membresia' = IF membresia = "activa" THEN "inactiva" ELSE "activa"
    /\ UNCHANGED <<usuario, fallos, desafio, sesion, tok, pet, historia>>

\* Time: a failure leaves the window, an mfa_token or a refresh token expires.
OlvidarFallo ==
    /\ fallos > 0
    /\ fallos' = fallos - 1
    /\ UNCHANGED <<usuario, membresia, desafio, sesion, tok, pet, historia>>
VencerDesafio ==
    /\ desafio
    /\ desafio' = FALSE
    /\ UNCHANGED <<usuario, membresia, fallos, sesion, tok, pet, historia>>
VencerToken(t) ==
    /\ tok[t].estado = "vivo"
    /\ tok' = [tok EXCEPT ![t].estado = "vencido"]
    /\ UNCHANGED <<cuenta, sesion, pet, historia>>

Atender(p) ==
    \/ Contar(p) \/ LeerLogin(p) \/ LeerMfa(p) \/ Verificar(p)
    \/ LeerConfirm(p) \/ EnableMfa(p)
    \/ Buscar(p) \/ Rotar(p) \/ RefreshSinMembresia(p) \/ RevokeFamily(p)
    \/ RevokeTokensByFamily(p) \/ Logout(p)
    \/ \E f \in Familias, t \in Tokens : OpenSession(p, f, t)
    \/ \E n \in Tokens : RefreshEmite(p, n)

Next ==
    \/ \E p \in Peticiones, c \in BOOLEAN : RecibirLogin(p, c)
    \/ \E p \in Peticiones, s \in Secretos :
          RecibirMfaVerify(p, s) \/ RecibirMfaConfirm(p, s)
    \/ \E p \in Peticiones, op \in Ops, t \in Tokens : RecibirConToken(p, op, t)
    \/ \E p \in Peticiones : Atender(p) \/ Abortar(p)
    \/ \E s \in Secretos : SetupMfa(s)
    \/ DisableMfa \/ CambiarUsuario \/ CambiarMembresia
    \/ OlvidarFallo \/ VencerDesafio
    \/ \E t \in Tokens : VencerToken(t)

Spec == Init /\ [][Next]_vars

-----------------------------------------------------------------------------
(* Properties *)

\* The limit of attempts is exceeded by no more than the requests that counted
\* before any of them recorded: the count and the record are two statements, and
\* a login and a verification share the counter.
FallosAcotados == fallos <= MaxFallos + Cardinality(Peticiones) - 1

\* A user is never asked for a second factor he cannot give: MFA is enabled only
\* with a secret, though ConfirmMfa checks the secret before its transaction and
\* DisableMfa may come in between.
MfaConSecreto == usuario.mfa => usuario.secreto # Ninguno

VivosDe(f) == {t \in Tokens : tok[t].fam = f /\ tok[t].estado \in Vivos}

\* ADR-0009: each use of a refresh token invalidates it.  A family has one live
\* token at most, unless two requests used the family at the same time (Refresh
\* checks the revocation before its transaction, and its UPDATE does not).
UnVivoPorFamilia ==
    \A f \in Familias \ cruzadas : \A t, u \in VivosDe(f) : t = u

\* A session that was closed, or a family in which a used token came again, stays
\* without live tokens for ever, with the same exception.
FamiliaMuerta ==
    \A f \in Familias \ cruzadas :
        sesion[f] = "revocada" \/ f \in reusadas => VivosDe(f) = {}
=============================================================================
