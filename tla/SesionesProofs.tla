--------------------------- MODULE SesionesProofs ---------------------------
(* What Sesiones promises of the failures, the second factor and the refresh *)
(* tokens, for any number of requests, families, tokens and attempts.        *)
(*                                                                           *)
(* Failures: a request that has counted and not recorded yet is pending, and *)
(* failures and pending requests together stay under the bound.  Tokens: a   *)
(* family that is not in cruzadas has one request at a time, so what that    *)
(* request saw of the family is still so when it writes.                     *)
EXTENDS Sesiones, FiniteSetTheorems, TLAPS

-----------------------------------------------------------------------------
(* The inductive invariant *)

\* Requests that may still record a failure on the count they have seen.
Pendiente(p) == \/ pet[p].paso = "leer" /\ pet[p].op = "login"
                \/ pet[p].paso = "verificar"
Pendientes == {p \in Peticiones : Pendiente(p)}
ConFallos == fallos + Cardinality(Pendientes) + 1 <= MaxFallos + Cardinality(Peticiones)

\* A token that was issued belongs to a family with a session.
Fichas ==
    /\ \A t \in Tokens : tok[t].estado # "libre" =>
          tok[t].fam \in Familias /\ sesion[tok[t].fam] # "libre"
    /\ \A f \in reusadas : sesion[f] # "libre"

\* A request with a token carries its family; one without it carries none.
ConToken == {"buscar", "rotar", "rotando", "familia", "revocando", "cerrar"}
PetOK(p) ==
    /\ IF pet[p].paso \in ConToken
       THEN /\ pet[p].tok \in Tokens /\ tok[pet[p].tok].estado # "libre"
            /\ pet[p].fam = tok[pet[p].tok].fam
       ELSE pet[p].fam = Ninguno
    /\ \A t \in pet[p].borra : tok[t].estado # "libre" /\ tok[t].fam = pet[p].fam

\* What a request saw of a family that nobody else uses is still so.
Vigente(p) ==
    pet[p].fam \in Familias \ cruzadas =>
        /\ pet[p].paso \in {"rotar", "rotando", "cerrar"} =>
              tok[pet[p].tok].estado \in Vivos
        /\ pet[p].paso = "revocando" => VivosDe(pet[p].fam) \subseteq pet[p].borra

\* Such a family has one request at most.
Solas ==
    \A f \in Familias \ cruzadas : \A p, q \in Peticiones :
        pet[p].fam = f /\ pet[q].fam = f => p = q

Familiar ==
    /\ Fichas
    /\ \A p \in Peticiones : PetOK(p) /\ Vigente(p)
    /\ Solas
    /\ UnVivoPorFamilia
    /\ FamiliaMuerta

SInv == TypeOK /\ MfaConSecreto /\ ConFallos /\ Familiar

-----------------------------------------------------------------------------
(* Types *)

\* A step of a request puts one typed record in its place.
LEMMA SeguirTipo ==
  ASSUME TypeOK, NEW p \in Peticiones, NEW s \in Peticion, Seguir(p, s)
  PROVE  /\ pet' \in [Peticiones -> Peticion] /\ pet'[p] = s
         /\ \A q \in Peticiones : q # p => pet'[q] = pet[q]
  BY DEF TypeOK, Seguir

\* The records that requests go on with.
LEMMA Registros ==
  /\ Libre \in Peticion /\ Libre.paso = "libre" /\ Libre.fam = Ninguno
  /\ \A s \in Peticion, q \in Pasos :
        /\ [s EXCEPT !.paso = q] \in Peticion
        /\ [s EXCEPT !.paso = q].paso = q
        /\ [s EXCEPT !.paso = q].op = s.op /\ [s EXCEPT !.paso = q].codigo = s.codigo
        /\ [s EXCEPT !.paso = q].tok = s.tok /\ [s EXCEPT !.paso = q].fam = s.fam
        /\ [s EXCEPT !.paso = q].borra = s.borra
  BY DEF Libre, Peticion, Pasos, Ops

\* Ir and Terminar are such steps.
LEMMA IrTipo ==
  ASSUME TypeOK, NEW p \in Peticiones
  PROVE  /\ \A q \in Pasos : Ir(p, q) =>
              /\ pet' \in [Peticiones -> Peticion]
              /\ pet'[p].paso = q /\ pet'[p].op = pet[p].op /\ pet'[p].tok = pet[p].tok
              /\ pet'[p].fam = pet[p].fam /\ pet'[p].borra = pet[p].borra
              /\ \A x \in Peticiones : x # p => pet'[x] = pet[x]
         /\ Terminar(p) =>
              /\ pet' \in [Peticiones -> Peticion] /\ pet'[p] = Libre
              /\ \A x \in Peticiones : x # p => pet'[x] = pet[x]
<1>1. pet[p] \in Peticion
  BY DEF TypeOK
<1>2. ASSUME NEW q \in Pasos, Ir(p, q)
      PROVE  /\ pet' \in [Peticiones -> Peticion]
             /\ pet'[p].paso = q /\ pet'[p].op = pet[p].op /\ pet'[p].tok = pet[p].tok
             /\ pet'[p].fam = pet[p].fam /\ pet'[p].borra = pet[p].borra
             /\ \A x \in Peticiones : x # p => pet'[x] = pet[x]
  <2> DEFINE s == [pet[p] EXCEPT !.paso = q]
  <2>1. s \in Peticion /\ Seguir(p, s)
    BY <1>1, <1>2, Registros DEF Ir
  <2>2. /\ s.paso = q /\ s.op = pet[p].op /\ s.tok = pet[p].tok
        /\ s.fam = pet[p].fam /\ s.borra = pet[p].borra
    BY <1>1, Registros
  <2> HIDE DEF s
  <2> QED BY <2>1, <2>2, SeguirTipo
<1>3. ASSUME Terminar(p)
      PROVE  /\ pet' \in [Peticiones -> Peticion] /\ pet'[p] = Libre
             /\ \A x \in Peticiones : x # p => pet'[x] = pet[x]
  BY <1>3, Registros, SeguirTipo DEF Terminar
<1> QED BY <1>2, <1>3

\* A step of a request that changes no token, session or history, and stays with
\* the family it had or with none.
LEMMA PasoFamiliar ==
  ASSUME TypeOK, Familiar, NEW p \in Peticiones,
         pet' \in [Peticiones -> Peticion],
         pet'[p].fam \in {pet[p].fam, Ninguno},
         \A x \in Peticiones : x # p => pet'[x] = pet[x],
         UNCHANGED <<sesion, tok, cruzadas, reusadas>>,
         PetOK(p)', Vigente(p)'
  PROVE  Familiar'
<1>1. \A x \in Peticiones : PetOK(x)' /\ Vigente(x)'
  BY DEF Familiar, PetOK, Vigente, VivosDe
<1>2. Solas'
  BY NingunoAssumption DEF Familiar, Solas
<1> QED BY <1>1, <1>2 DEF Familiar, Fichas, UnVivoPorFamilia, FamiliaMuerta, VivosDe

\* In particular one that ends the request,
LEMMA TerminarFamiliar ==
  ASSUME TypeOK, Familiar, NEW p \in Peticiones, Terminar(p),
         UNCHANGED <<sesion, tok, cruzadas, reusadas>>
  PROVE  Familiar' /\ pet' \in [Peticiones -> Peticion]
<1>1. /\ pet' \in [Peticiones -> Peticion] /\ pet'[p] = Libre
      /\ \A x \in Peticiones : x # p => pet'[x] = pet[x]
  BY IrTipo
<1>2. PetOK(p)' /\ Vigente(p)'
  BY <1>1, NingunoAssumption, Registros DEF PetOK, Vigente, ConToken, Libre
<1>3. pet'[p].fam = Ninguno
  BY <1>1, Registros
<1> QED BY <1>1, <1>2, <1>3, PasoFamiliar

\* or one that goes on where the token is not looked at.
LEMMA IrFamiliar ==
  ASSUME TypeOK, Familiar, NEW p \in Peticiones, NEW q \in Pasos, Ir(p, q),
         pet[p].paso \in ConToken <=> q \in ConToken,
         pet[p].fam \in Familias \ cruzadas =>
            /\ q \in {"rotar", "rotando", "cerrar"} => tok[pet[p].tok].estado \in Vivos
            /\ q # "revocando",
         UNCHANGED <<sesion, tok, cruzadas, reusadas>>
  PROVE  Familiar' /\ pet' \in [Peticiones -> Peticion]
<1>1. /\ pet' \in [Peticiones -> Peticion]
      /\ pet'[p].paso = q /\ pet'[p].tok = pet[p].tok
      /\ pet'[p].fam = pet[p].fam /\ pet'[p].borra = pet[p].borra
      /\ \A x \in Peticiones : x # p => pet'[x] = pet[x]
  BY IrTipo
<1>2. PetOK(p)'
  BY <1>1 DEF PetOK, Familiar
<1>3. Vigente(p)'
  BY <1>1 DEF Vigente, VivosDe
<1> QED BY <1>1, <1>2, <1>3, PasoFamiliar

-----------------------------------------------------------------------------
(* Tokens and families *)

\* A request arrives: it saw nothing yet, and if its family was in use it is noted.
LEMMA RecibirFamiliar ==
  ASSUME TypeOK, Familiar, NEW p \in Peticiones, NEW s \in Peticion, Seguir(p, s),
         pet[p].paso = "libre", s.paso \in {"contar", "leer", "buscar"}, s.borra = {},
         s.paso # "buscar" => s.fam = Ninguno /\ cruzadas' = cruzadas,
         s.paso = "buscar" =>
            /\ s.tok \in Tokens /\ tok[s.tok].estado # "libre" /\ s.fam = tok[s.tok].fam
            /\ cruzadas' = IF OtraDeLaFamilia(p, s.fam) THEN cruzadas \cup {s.fam}
                                                       ELSE cruzadas,
         UNCHANGED <<cuenta, sesion, tok, reusadas>>
  PROVE  TypeOK' /\ Familiar'
<1>1. /\ pet' \in [Peticiones -> Peticion] /\ pet'[p] = s
      /\ \A x \in Peticiones : x # p => pet'[x] = pet[x]
  BY SeguirTipo
<1>2. cruzadas \subseteq cruzadas' /\ cruzadas' \subseteq Familias
  BY DEF TypeOK, Familiar, Fichas
<1>3. PetOK(p)' /\ Vigente(p)'
  BY <1>1 DEF PetOK, Vigente, ConToken
<1>4. \A x \in Peticiones : x # p => PetOK(x)' /\ Vigente(x)'
  BY <1>1, <1>2 DEF Familiar, PetOK, Vigente, VivosDe
<1>5. Solas'
  <2> SUFFICES ASSUME NEW f \in Familias \ cruzadas', NEW a \in Peticiones, NEW b \in Peticiones,
                      pet'[a].fam = f, pet'[b].fam = f, a # b
               PROVE  FALSE
    BY DEF Solas
  <2>1. CASE a # p /\ b # p
    BY <1>1, <1>2, <2>1 DEF Familiar, Solas
  <2>2. CASE a = p \/ b = p
    <3>1. PICK c \in Peticiones : c # p /\ pet[c].fam = f /\ s.fam = f
      BY <1>1, <2>2
    <3>2. s.paso = "buscar" /\ OtraDeLaFamilia(p, s.fam)
      BY <3>1, NingunoAssumption DEF OtraDeLaFamilia
    <3> QED BY <3>1, <3>2
  <2> QED BY <2>1, <2>2
<1>6. TypeOK'
  BY <1>1, <1>2 DEF TypeOK, cuenta
<1>7. UnVivoPorFamilia' /\ FamiliaMuerta' /\ Fichas'
  BY <1>2 DEF Familiar, UnVivoPorFamilia, FamiliaMuerta, VivosDe, Fichas
<1> QED BY <1>3, <1>4, <1>5, <1>6, <1>7 DEF Familiar

\* Tokens of the family f change by the hand of the request p, which ends; what is
\* asked of the new tokens is asked of f alone, and only if nobody else uses it.
LEMMA EscribirFamiliar ==
  ASSUME TypeOK, Familiar, NEW p \in Peticiones, NEW f \in Familias, Terminar(p),
         UNCHANGED <<cuenta, cruzadas>>,
         sesion' \in [Familias -> {"libre", "abierta", "revocada"}],
         tok' \in [Tokens -> [estado: {"libre", "revocado"} \cup Vivos,
                              fam: Familias \cup {Ninguno}]],
         reusadas' \subseteq reusadas \cup {f},
         \A t \in Tokens : /\ tok[t].estado # "libre" =>
                              tok'[t].estado # "libre" /\ tok'[t].fam = tok[t].fam
                           /\ tok'[t] # tok[t] =>
                              tok'[t].fam = f /\ tok'[t].estado # "libre",
         \A g \in Familias : g # f => sesion'[g] = sesion[g],
         sesion'[f] # "libre",
         \A x \in Peticiones : x # p /\ pet[x].fam = f => f \in cruzadas,
         f \notin cruzadas =>
            /\ \A t, u \in VivosDe(f)' : t = u
            /\ sesion'[f] = "revocada" \/ f \in reusadas' => VivosDe(f)' = {}
  PROVE  TypeOK' /\ Familiar'
<1>1. /\ pet' \in [Peticiones -> Peticion] /\ pet'[p] = Libre
      /\ \A x \in Peticiones : x # p => pet'[x] = pet[x]
  BY IrTipo
<1>2. TypeOK'
  BY <1>1 DEF TypeOK, cuenta
<1>3. Fichas'
  <2>1. \A t \in Tokens : tok'[t].estado # "libre" =>
           tok'[t].fam \in Familias /\ sesion'[tok'[t].fam] # "libre"
    BY DEF Familiar, Fichas
  <2>2. \A g \in reusadas' : sesion'[g] # "libre"
    BY DEF Familiar, Fichas, TypeOK
  <2> QED BY <2>1, <2>2 DEF Fichas
<1>4. PetOK(p)' /\ Vigente(p)'
  BY <1>1, NingunoAssumption, Registros DEF PetOK, Vigente, ConToken, Libre
<1>5. \A g \in Familias : g # f => VivosDe(g)' = VivosDe(g)
  <2> SUFFICES ASSUME NEW g \in Familias, g # f, NEW t \in Tokens
               PROVE  /\ tok'[t].fam = g /\ tok'[t].estado \in Vivos
                            <=> tok[t].fam = g /\ tok[t].estado \in Vivos
    BY DEF VivosDe
  <2>1. CASE tok'[t] = tok[t]
    BY <2>1
  <2>2. CASE tok'[t] # tok[t]
    BY <2>2 DEF Vivos
  <2> QED BY <2>1, <2>2
<1>6. ASSUME NEW x \in Peticiones, x # p PROVE PetOK(x)' /\ Vigente(x)'
  <2>1. pet'[x] = pet[x] /\ PetOK(x) /\ Vigente(x) /\ pet[x] \in Peticion
    BY <1>1, <1>6 DEF Familiar, TypeOK
  <2>2. PetOK(x)'
    BY <2>1 DEF PetOK, Peticion
  <2>3. ASSUME pet[x].fam \in Familias \ cruzadas
        PROVE  /\ pet[x].paso \in {"rotar", "rotando", "cerrar"} =>
                    tok'[pet[x].tok].estado \in Vivos
               /\ pet[x].paso = "revocando" => VivosDe(pet[x].fam)' \subseteq pet[x].borra
    <3>1. pet[x].fam # f
      BY <1>6, <2>3
    <3>2. pet[x].paso = "revocando" => VivosDe(pet[x].fam)' \subseteq pet[x].borra
      BY <1>5, <2>1, <2>3, <3>1 DEF Vigente
    <3>3. ASSUME pet[x].paso \in {"rotar", "rotando", "cerrar"}
          PROVE  tok'[pet[x].tok] = tok[pet[x].tok] /\ tok[pet[x].tok].estado \in Vivos
      BY <2>1, <2>3, <3>1, <3>3 DEF PetOK, Vigente, ConToken
    <3> QED BY <3>2, <3>3
  <2>4. Vigente(x)'
    BY <2>1, <2>3 DEF Vigente, VivosDe
  <2> QED BY <2>2, <2>4
<1>7. Solas'
  BY <1>1, NingunoAssumption, Registros DEF Familiar, Solas
<1>8. UnVivoPorFamilia'
  <2> SUFFICES ASSUME NEW g \in Familias \ cruzadas
               PROVE  \A t, u \in VivosDe(g)' : t = u
    BY DEF UnVivoPorFamilia, VivosDe
  <2> QED BY <1>5 DEF Familiar, UnVivoPorFamilia
<1>9. FamiliaMuerta'
  <2> SUFFICES ASSUME NEW g \in Familias \ cruzadas,
                      sesion'[g] = "revocada" \/ g \in reusadas'
               PROVE  VivosDe(g)' = {}
    BY DEF FamiliaMuerta, VivosDe
  <2> QED BY <1>5 DEF Familiar, FamiliaMuerta
<1> QED BY <1>2, <1>3, <1>4, <1>6, <1>7, <1>8, <1>9 DEF Familiar

\* A step that leaves the requests and the tokens alone.
LEMMA CuentaFamiliar ==
  ASSUME Familiar, UNCHANGED <<sesion, tok, pet, cruzadas, reusadas>>
  PROVE  Familiar'
  BY DEF Familiar, Fichas, PetOK, Vigente, Solas, UnVivoPorFamilia, FamiliaMuerta, VivosDe

\* The steps that write tokens.
LEMMA EscriturasInv ==
  ASSUME TypeOK, Familiar, NEW p \in Peticiones,
         \/ \E f \in Familias, t \in Tokens : OpenSession(p, f, t)
         \/ \E n \in Tokens : RefreshEmite(p, n)
         \/ RevokeTokensByFamily(p)
         \/ Logout(p)
  PROVE  TypeOK' /\ Familiar'
<1> DEFINE Fila == [estado: {"libre", "revocado"} \cup Vivos, fam: Familias \cup {Ninguno}]
<1>0. /\ pet[p] \in Peticion /\ PetOK(p) /\ Vigente(p) /\ tok \in [Tokens -> Fila]
      /\ sesion \in [Familias -> {"libre", "abierta", "revocada"}]
  BY DEF TypeOK, Familiar
<1>1. ASSUME NEW f \in Familias, NEW t \in Tokens, OpenSession(p, f, t)
      PROVE  TypeOK' /\ Familiar'
  <2>1. \A u \in Tokens : tok[u].estado # "libre" => tok[u].fam # f
    BY <1>1 DEF OpenSession, Familiar, Fichas
  <2>2. f \notin reusadas
    BY <1>1 DEF OpenSession, Familiar, Fichas
  <2>3. \A x \in Peticiones : pet[x].fam # f
    BY <2>1, NingunoAssumption DEF Familiar, PetOK
  <2>4. /\ tok' \in [Tokens -> Fila] /\ tok'[t].estado = "vivo" /\ tok'[t].fam = f
        /\ \A u \in Tokens : u # t => tok'[u] = tok[u]
        /\ tok[t].estado = "libre"
    BY <1>0, <1>1 DEF OpenSession, Vivos
  <2>5. VivosDe(f)' \subseteq {t}
    BY <2>1, <2>4 DEF VivosDe, Vivos
  <2>6. /\ sesion' \in [Familias -> {"libre", "abierta", "revocada"}] /\ sesion'[f] = "abierta"
        /\ \A g \in Familias : g # f => sesion'[g] = sesion[g]
    BY <1>0, <1>1 DEF OpenSession
  <2> QED BY <1>1, <2>2, <2>3, <2>4, <2>5, <2>6, EscribirFamiliar DEF OpenSession, historia
<1>2. ASSUME NEW n \in Tokens, RefreshEmite(p, n) PROVE TypeOK' /\ Familiar'
  <2>0. PICK t, f : t = pet[p].tok /\ f = pet[p].fam
    OBVIOUS
  <2>1. /\ t \in Tokens /\ tok[t].estado # "libre" /\ f = tok[t].fam
        /\ f \in Familias /\ sesion[f] # "libre"
    BY <1>0, <2>0, <1>2 DEF RefreshEmite, PetOK, ConToken, Familiar, Fichas
  <2>2. n # t /\ tok[n].estado = "libre"
    BY <1>2, <2>1 DEF RefreshEmite
  <2>3. /\ tok' \in [Tokens -> Fila]
        /\ tok'[t].estado = "revocado" /\ tok'[t].fam = f
        /\ tok'[n].estado = "vivo" /\ tok'[n].fam = f
        /\ \A u \in Tokens : u # t /\ u # n => tok'[u] = tok[u]
    BY <1>0, <2>0, <1>2, <2>1, <2>2 DEF RefreshEmite, Reemplazar, Vivos
  <2>4. \A x \in Peticiones : x # p /\ pet[x].fam = f => f \in cruzadas
    BY <2>0, <2>1 DEF Familiar, Solas
  <2>5. ASSUME f \notin cruzadas
        PROVE  /\ VivosDe(f)' \subseteq {n}
               /\ sesion[f] # "revocada" /\ f \notin reusadas
    <3>1. t \in VivosDe(f)
      BY <1>0, <2>0, <1>2, <2>1, <2>5 DEF RefreshEmite, Vigente, VivosDe
    <3>2. VivosDe(f) \subseteq {t}
      BY <2>1, <2>5, <3>1 DEF Familiar, UnVivoPorFamilia
    <3>3. VivosDe(f)' \subseteq {n}
      BY <2>3, <3>2 DEF VivosDe, Vivos
    <3>4. sesion[f] # "revocada" /\ f \notin reusadas
      BY <2>1, <2>5, <3>1 DEF Familiar, FamiliaMuerta
    <3> QED BY <3>3, <3>4
  <2>6. UNCHANGED <<cuenta, sesion, cruzadas, reusadas>> /\ Terminar(p)
    BY <1>2 DEF RefreshEmite, historia
  <2> QED BY <1>0, <2>0, <2>1, <2>2, <2>3, <2>4, <2>5, <2>6, EscribirFamiliar
<1>3. ASSUME RevokeTokensByFamily(p) PROVE TypeOK' /\ Familiar'
  <2>0. PICK f, b : f = pet[p].fam /\ b = pet[p].borra
    OBVIOUS
  <2>1. /\ f \in Familias /\ sesion[f] # "libre" /\ b \subseteq Tokens
        /\ \A t \in b : tok[t].estado # "libre" /\ tok[t].fam = f
    BY <1>0, <2>0, <1>3 DEF RevokeTokensByFamily, PetOK, ConToken, Familiar, Fichas, Peticion
  <2>2. /\ tok' \in [Tokens -> Fila]
        /\ \A t \in Tokens : IF t \in b
             THEN tok'[t].estado = "revocado" /\ tok'[t].fam = tok[t].fam
             ELSE tok'[t] = tok[t]
    BY <1>0, <2>0, <1>3 DEF RevokeTokensByFamily, Revocar
  <2>3. \A x \in Peticiones : x # p /\ pet[x].fam = f => f \in cruzadas
    BY <2>0, <2>1 DEF Familiar, Solas
  <2>4. f \notin cruzadas => VivosDe(f)' = {}
    BY <1>0, <2>0, <1>3, <2>1, <2>2 DEF RevokeTokensByFamily, Vigente, VivosDe, Vivos
  <2>5. /\ UNCHANGED <<cuenta, sesion, cruzadas>> /\ reusadas' \subseteq reusadas \cup {f}
        /\ Terminar(p)
    BY <1>3, <2>0 DEF RevokeTokensByFamily
  <2> QED BY <1>0, <2>0, <2>1, <2>2, <2>3, <2>4, <2>5, EscribirFamiliar
<1>4. ASSUME Logout(p) PROVE TypeOK' /\ Familiar'
  <2>0. PICK t, f : t = pet[p].tok /\ f = pet[p].fam
    OBVIOUS
  <2>1. /\ t \in Tokens /\ tok[t].estado # "libre" /\ f = tok[t].fam
        /\ f \in Familias /\ sesion[f] # "libre"
    BY <1>0, <2>0, <1>4 DEF Logout, PetOK, ConToken, Familiar, Fichas
  <2>2. /\ tok' \in [Tokens -> Fila]
        /\ tok'[t].estado = "revocado" /\ tok'[t].fam = f
        /\ \A u \in Tokens : u # t => tok'[u] = tok[u]
    BY <1>0, <2>0, <1>4, <2>1 DEF Logout, Revocar
  <2>3. \A x \in Peticiones : x # p /\ pet[x].fam = f => f \in cruzadas
    BY <2>0, <2>1 DEF Familiar, Solas
  <2>4. ASSUME f \notin cruzadas PROVE VivosDe(f)' = {}
    <3>1. t \in VivosDe(f)
      BY <1>0, <2>0, <1>4, <2>1, <2>4 DEF Logout, Vigente, VivosDe
    <3>2. VivosDe(f) \subseteq {t}
      BY <2>1, <2>4, <3>1 DEF Familiar, UnVivoPorFamilia
    <3> QED BY <2>2, <3>2 DEF VivosDe, Vivos
  <2>5. /\ sesion' \in [Familias -> {"libre", "abierta", "revocada"}]
        /\ sesion'[f] = "revocada"
        /\ \A g \in Familias : g # f => sesion'[g] = sesion[g]
    BY <1>0, <2>0, <1>4, <2>1 DEF Logout
  <2>6. UNCHANGED <<cuenta, cruzadas, reusadas>> /\ Terminar(p)
    BY <1>4 DEF Logout, historia
  <2> QED BY <1>0, <2>0, <2>1, <2>2, <2>3, <2>4, <2>5, <2>6, EscribirFamiliar
<1> QED BY <1>1, <1>2, <1>3, <1>4

\* The updates of the user's row.
LEMMA Usuarios ==
  ASSUME usuario \in [activo: BOOLEAN, mfa: BOOLEAN, secreto: Secretos \cup {Ninguno}]
  PROVE  LET Tipo == [activo: BOOLEAN, mfa: BOOLEAN, secreto: Secretos \cup {Ninguno}]
         IN  /\ \A s \in Secretos : [usuario EXCEPT !.secreto = s] \in Tipo
             /\ [usuario EXCEPT !.mfa = @ \/ Habilita(usuario.secreto)] \in Tipo
             /\ [usuario EXCEPT !.mfa = FALSE, !.secreto = Ninguno] \in Tipo
             /\ [usuario EXCEPT !.activo = ~@] \in Tipo
  BY DEF Habilita

\* Types and families through every step, one case per operation.
LEMMA FamiliarInv ==
  ASSUME TypeOK, Familiar, [Next]_vars
  PROVE  TypeOK' /\ Familiar'
<1>0. /\ \A p \in Peticiones : pet[p] \in Peticion /\ PetOK(p) /\ Vigente(p)
      /\ usuario \in [activo: BOOLEAN, mfa: BOOLEAN, secreto: Secretos \cup {Ninguno}]
  BY DEF TypeOK, Familiar
<1>1. CASE UNCHANGED vars
  BY <1>1, CuentaFamiliar DEF vars, TypeOK
<1>2. ASSUME NEW p \in Peticiones, NEW c \in BOOLEAN, RecibirLogin(p, c)
      PROVE  TypeOK' /\ Familiar'
  <2>1. PICK s : s = [Libre EXCEPT !.paso = "contar", !.op = "login", !.clave = c]
    OBVIOUS
  <2>2. s \in Peticion /\ s.paso = "contar" /\ s.fam = Ninguno /\ s.borra = {}
    BY <2>1 DEF Libre, Peticion, Pasos, Ops
  <2>3. Seguir(p, s) /\ pet[p].paso = "libre" /\ UNCHANGED <<cuenta, sesion, tok, historia>>
    BY <1>2, <2>1 DEF RecibirLogin
  <2> QED BY <2>2, <2>3, RecibirFamiliar DEF historia
<1>3. ASSUME NEW p \in Peticiones, NEW x \in Secretos,
             RecibirMfaVerify(p, x) \/ RecibirMfaConfirm(p, x)
      PROVE  TypeOK' /\ Familiar'
  <2>1. PICK s, op : /\ op \in {"mfa", "confirmar"}
                     /\ s = [Libre EXCEPT !.paso = "leer", !.op = op, !.codigo = x]
                     /\ Seguir(p, s) /\ pet[p].paso = "libre"
                     /\ UNCHANGED <<cuenta, sesion, tok, historia>>
    BY <1>3 DEF RecibirMfaVerify, RecibirMfaConfirm
  <2>2. s \in Peticion /\ s.paso = "leer" /\ s.fam = Ninguno /\ s.borra = {}
    BY <2>1 DEF Libre, Peticion, Pasos, Ops
  <2> QED BY <2>1, <2>2, RecibirFamiliar DEF historia
<1>4. ASSUME NEW p \in Peticiones, NEW op \in Ops, NEW t \in Tokens, RecibirConToken(p, op, t)
      PROVE  TypeOK' /\ Familiar'
  <2>1. PICK s : s = [Libre EXCEPT !.paso = "buscar", !.op = op, !.tok = t, !.fam = tok[t].fam]
    OBVIOUS
  <2>2. tok[t].fam \in Familias \cup {Ninguno}
    BY DEF TypeOK
  <2>3. /\ s \in Peticion /\ s.paso = "buscar" /\ s.fam = tok[t].fam /\ s.tok = t
        /\ s.borra = {}
    BY <2>1, <2>2 DEF Libre, Peticion, Pasos, Ops
  <2>4. /\ Seguir(p, s) /\ pet[p].paso = "libre" /\ tok[t].estado # "libre"
        /\ cruzadas' = IF OtraDeLaFamilia(p, s.fam) THEN cruzadas \cup {s.fam} ELSE cruzadas
        /\ UNCHANGED <<cuenta, sesion, tok, reusadas>>
    BY <1>4, <2>1, <2>3 DEF RecibirConToken
  <2> QED BY <2>3, <2>4, RecibirFamiliar
<1>5. ASSUME NEW p \in Peticiones, Contar(p) \/ LeerConfirm(p)
      PROVE  TypeOK' /\ Familiar'
  <2>1. UNCHANGED <<cuenta, sesion, tok, historia>>
    BY <1>5 DEF Contar, LeerConfirm
  <2>2. \/ Terminar(p)
        \/ \E q \in {"leer", "verificar", "habilitar"} :
              Ir(p, q) /\ pet[p].paso \notin ConToken
    BY <1>5 DEF Contar, LeerConfirm, ConToken
  <2>3. Familiar' /\ pet' \in [Peticiones -> Peticion]
    BY <2>1, <2>2, TerminarFamiliar, IrFamiliar DEF historia, Pasos, ConToken
  <2> QED BY <2>1, <2>3 DEF TypeOK, cuenta, historia
<1>6. ASSUME NEW p \in Peticiones, LeerLogin(p) \/ Verificar(p) \/ EnableMfa(p)
      PROVE  TypeOK' /\ Familiar'
  <2>1. UNCHANGED <<membresia, sesion, tok, historia>>
    BY <1>6 DEF LeerLogin, Verificar, EnableMfa
  <2>2. Terminar(p) \/ (Ir(p, "abrir") /\ pet[p].paso \notin ConToken)
    BY <1>6 DEF LeerLogin, Verificar, EnableMfa, ConToken
  <2>3. Familiar' /\ pet' \in [Peticiones -> Peticion]
    BY <2>1, <2>2, TerminarFamiliar, IrFamiliar DEF historia, Pasos, ConToken
  <2>4. fallos' \in Nat
    BY <1>6 DEF LeerLogin, Verificar, EnableMfa, TypeOK
  <2>6. desafio' \in BOOLEAN
    <3>1. desafio' = desafio \/ desafio' = TRUE
      BY <1>6, Zenon DEF LeerLogin, Verificar, EnableMfa
    <3> QED BY <3>1 DEF TypeOK
  <2>5. usuario' \in [activo: BOOLEAN, mfa: BOOLEAN, secreto: Secretos \cup {Ninguno}]
    BY <1>0, <1>6, Usuarios DEF LeerLogin, Verificar, EnableMfa
  <2> QED BY <2>1, <2>3, <2>4, <2>5, <2>6 DEF TypeOK, historia
<1>7. ASSUME NEW p \in Peticiones, LeerMfa(p) PROVE TypeOK' /\ Familiar'
  <2>1. UNCHANGED <<cuenta, sesion, tok, historia>>
    BY <1>7 DEF LeerMfa
  <2>2. CASE Terminar(p)
    BY <2>1, <2>2, TerminarFamiliar DEF TypeOK, cuenta, historia
  <2>3. CASE ~Terminar(p)
    <3>1. PICK s : s = [pet[p] EXCEPT !.paso = "contar", !.visto = usuario.secreto]
      OBVIOUS
    <3>2. /\ s \in Peticion /\ s.paso = "contar" /\ s.fam = pet[p].fam
          /\ s.borra = pet[p].borra
      BY <1>0, <3>1 DEF Peticion, Pasos
    <3>3. Seguir(p, s) /\ pet[p].paso = "leer"
      BY <1>7, <2>3, <3>1 DEF LeerMfa
    <3>4. /\ pet' \in [Peticiones -> Peticion] /\ pet'[p] = s
          /\ \A q \in Peticiones : q # p => pet'[q] = pet[q]
      BY <3>2, <3>3, SeguirTipo
    <3>5. PetOK(p)' /\ Vigente(p)'
      BY <1>0, <2>1, <3>2, <3>3, <3>4 DEF PetOK, Vigente, ConToken
    <3> QED BY <2>1, <3>2, <3>4, <3>5, PasoFamiliar DEF TypeOK, cuenta, historia
  <2> QED BY <2>2, <2>3
<1>8. ASSUME NEW p \in Peticiones, Buscar(p) \/ Rotar(p) PROVE TypeOK' /\ Familiar'
  <2>1. UNCHANGED <<cuenta, sesion, tok, historia>>
    BY <1>8 DEF Buscar, Rotar
  <2>2. \/ Terminar(p)
        \/ /\ pet[p].paso \in ConToken
           /\ \/ Ir(p, "familia")
              \/ \E q \in {"rotar", "rotando", "cerrar"} :
                    /\ Ir(p, q)
                    /\ pet[p].fam \in Familias \ cruzadas => tok[pet[p].tok].estado \in Vivos
    BY <1>0, <1>8 DEF Buscar, Rotar, ConToken, Vivos, Vigente
  <2>3. Familiar' /\ pet' \in [Peticiones -> Peticion]
    <3>1. CASE Terminar(p)
      BY <2>1, <3>1, TerminarFamiliar DEF historia
    <3>2. CASE ~Terminar(p)
      <4>1. PICK q \in {"familia", "rotar", "rotando", "cerrar"} :
               /\ Ir(p, q) /\ pet[p].paso \in ConToken
               /\ q = "familia" \/ (pet[p].fam \in Familias \ cruzadas =>
                                      tok[pet[p].tok].estado \in Vivos)
        BY <2>2, <3>2
      <4>2. q \in Pasos /\ q \in ConToken /\ q # "revocando"
        BY DEF Pasos, ConToken
      <4> QED BY <2>1, <4>1, <4>2, IrFamiliar DEF historia
    <3> QED BY <3>1, <3>2
  <2> QED BY <2>1, <2>3 DEF TypeOK, cuenta, historia
<1>9. ASSUME NEW p \in Peticiones, RefreshSinMembresia(p) \/ Abortar(p)
      PROVE  TypeOK' /\ Familiar'
  <2>1. Terminar(p) /\ UNCHANGED <<cuenta, sesion, tok, historia>>
    BY <1>9 DEF RefreshSinMembresia, Abortar
  <2> QED BY <2>1, TerminarFamiliar DEF TypeOK, cuenta, historia
<1>10. ASSUME NEW p \in Peticiones, RevokeFamily(p) PROVE TypeOK' /\ Familiar'
  <2>1. PICK s : s = [pet[p] EXCEPT !.paso = "revocando", !.borra = PorFamilia(p)]
    OBVIOUS
  <2>2. PorFamilia(p) \subseteq Tokens
    BY DEF PorFamilia
  <2>3. /\ s \in Peticion /\ s.paso = "revocando" /\ s.fam = pet[p].fam
        /\ s.tok = pet[p].tok /\ s.borra = PorFamilia(p)
    BY <1>0, <2>1, <2>2 DEF Peticion, Pasos
  <2>4. Seguir(p, s) /\ pet[p].paso = "familia" /\ UNCHANGED <<cuenta, sesion, tok, historia>>
    BY <1>10, <2>1 DEF RevokeFamily
  <2>5. /\ pet' \in [Peticiones -> Peticion] /\ pet'[p] = s
        /\ \A q \in Peticiones : q # p => pet'[q] = pet[q]
    BY <2>3, <2>4, SeguirTipo
  <2>6. PetOK(p)'
    BY <1>0, <2>3, <2>4, <2>5 DEF PetOK, ConToken, PorFamilia, Vivos
  <2>7. Vigente(p)'
    BY <2>3, <2>4, <2>5 DEF Vigente, PorFamilia, VivosDe
  <2> QED BY <2>3, <2>4, <2>5, <2>6, <2>7, PasoFamiliar DEF TypeOK, cuenta, historia
<1>11. ASSUME NEW p \in Peticiones,
              \/ \E f \in Familias, t \in Tokens : OpenSession(p, f, t)
              \/ \E n \in Tokens : RefreshEmite(p, n)
              \/ RevokeTokensByFamily(p)
              \/ Logout(p)
       PROVE  TypeOK' /\ Familiar'
  BY <1>11, EscriturasInv
<1>12. ASSUME \/ \E s \in Secretos : SetupMfa(s)
              \/ DisableMfa \/ CambiarUsuario \/ CambiarMembresia
              \/ OlvidarFallo \/ VencerDesafio
       PROVE  TypeOK' /\ Familiar'
  <2>1. UNCHANGED <<sesion, tok, pet, historia>>
    BY <1>12 DEF SetupMfa, DisableMfa, CambiarUsuario, CambiarMembresia, OlvidarFallo,
                 VencerDesafio
  <2>2. membresia' \in {"activa", "inactiva"} /\ fallos' \in Nat
    BY <1>12 DEF SetupMfa, DisableMfa, CambiarUsuario, CambiarMembresia, OlvidarFallo,
                 VencerDesafio, TypeOK
  <2>4. desafio' \in BOOLEAN
    <3>1. desafio' = desafio \/ desafio' = FALSE
      BY <1>12, Zenon DEF SetupMfa, DisableMfa, CambiarUsuario, CambiarMembresia,
                          OlvidarFallo, VencerDesafio
    <3> QED BY <3>1 DEF TypeOK
  <2>3. usuario' \in [activo: BOOLEAN, mfa: BOOLEAN, secreto: Secretos \cup {Ninguno}]
    BY <1>0, <1>12, Usuarios DEF SetupMfa, DisableMfa, CambiarUsuario, CambiarMembresia,
                 OlvidarFallo, VencerDesafio
  <2> QED BY <2>1, <2>2, <2>3, <2>4, CuentaFamiliar DEF TypeOK, historia
<1>13. ASSUME NEW t \in Tokens, VencerToken(t) PROVE TypeOK' /\ Familiar'
  <2>1. /\ tok' \in [Tokens -> [estado: {"libre", "revocado"} \cup Vivos,
                               fam: Familias \cup {Ninguno}]]
        /\ \A u \in Tokens : /\ tok'[u].fam = tok[u].fam
                             /\ tok'[u].estado \in Vivos <=> tok[u].estado \in Vivos
                             /\ tok'[u].estado = "libre" <=> tok[u].estado = "libre"
    BY <1>13 DEF VencerToken, TypeOK, Vivos
  <2>2. UNCHANGED <<cuenta, sesion, pet, historia>>
    BY <1>13 DEF VencerToken
  <2>3. \A f \in Familias : VivosDe(f)' = VivosDe(f)
    BY <2>1 DEF VivosDe
  <2>4. \A p \in Peticiones : PetOK(p)' /\ Vigente(p)'
    <3> SUFFICES ASSUME NEW p \in Peticiones PROVE PetOK(p)' /\ Vigente(p)'
      OBVIOUS
    <3>1. PetOK(p)'
      BY <1>0, <2>1, <2>2 DEF PetOK, Peticion
    <3>2. pet[p].paso \in {"rotar", "rotando", "cerrar"} => pet[p].tok \in Tokens
      BY <1>0 DEF PetOK, ConToken
    <3>3. Vigente(p)'
      BY <1>0, <2>1, <2>2, <2>3, <3>2 DEF Vigente, historia, VivosDe
    <3> QED BY <3>1, <3>3
  <2>5. TypeOK' /\ Fichas' /\ Solas'
    BY <2>1, <2>2 DEF TypeOK, cuenta, historia, Familiar, Fichas, Solas
  <2>6. UnVivoPorFamilia' /\ FamiliaMuerta'
    BY <2>1, <2>2 DEF Familiar, UnVivoPorFamilia, FamiliaMuerta, VivosDe, historia
  <2> QED BY <2>4, <2>5, <2>6 DEF Familiar
<1> QED BY <1>1, <1>2, <1>3, <1>4, <1>5, <1>6, <1>7, <1>8, <1>9, <1>10, <1>11, <1>12, <1>13
        DEF Next, Atender

-----------------------------------------------------------------------------
(* Second factor *)

\* Every write of the user's row keeps a secret under an enabled MFA.
LEMMA SecretoInv ==
  ASSUME TypeOK, MfaConSecreto, [Next]_vars
  PROVE  MfaConSecreto'
<1>1. usuario \in [activo: BOOLEAN, mfa: BOOLEAN, secreto: Secretos \cup {Ninguno}]
  BY DEF TypeOK
<1>2. CASE UNCHANGED usuario
  BY <1>2 DEF MfaConSecreto
<1>3. ASSUME NEW s \in Secretos, SetupMfa(s) PROVE MfaConSecreto'
  BY <1>1, <1>3, NingunoAssumption DEF SetupMfa, MfaConSecreto
<1>4. CASE DisableMfa
  BY <1>1, <1>4 DEF DisableMfa, MfaConSecreto
<1>5. ASSUME NEW p \in Peticiones, EnableMfa(p) PROVE MfaConSecreto'
  <2>1. usuario'.secreto = usuario.secreto
    BY <1>1, <1>5 DEF EnableMfa
  <2>2. usuario'.mfa = (usuario.mfa \/ usuario.secreto # Ninguno)
    BY <1>1, <1>5 DEF EnableMfa, Habilita
  <2> QED BY <2>1, <2>2 DEF MfaConSecreto
<1>6. CASE CambiarUsuario
  BY <1>1, <1>6 DEF CambiarUsuario, MfaConSecreto
<1>7. \/ UNCHANGED usuario \/ DisableMfa \/ CambiarUsuario
      \/ \E s \in Secretos : SetupMfa(s)
      \/ \E p \in Peticiones : EnableMfa(p)
  BY Zenon DEF Next, Atender, vars, cuenta, RecibirLogin, RecibirMfaVerify, RecibirMfaConfirm,
     RecibirConToken, Contar, LeerLogin, LeerMfa, Verificar, LeerConfirm, Buscar, Rotar,
     RefreshSinMembresia, RevokeFamily, RevokeTokensByFamily, Logout, OpenSession,
     RefreshEmite, Abortar, CambiarMembresia, OlvidarFallo, VencerDesafio, VencerToken
<1> QED BY <1>2, <1>3, <1>4, <1>5, <1>6, <1>7

-----------------------------------------------------------------------------
(* Failures *)

\* A request that goes where nothing is left to fail is not pending any more.
LEMMA SinPendiente ==
  ASSUME TypeOK, NEW p \in Peticiones,
         \/ Terminar(p)
         \/ \E q \in Pasos \ {"leer", "verificar"} : Ir(p, q)
         \/ \E s \in Peticion :
               /\ Seguir(p, s)
               /\ s.paso \in {"contar", "leer", "buscar", "revocando"}
               /\ s.paso = "leer" => s.op # "login"
  PROVE  Pendientes' \subseteq Pendientes \ {p}
<1>1. /\ \A x \in Peticiones : x # p => pet'[x] = pet[x]
      /\ ~(pet'[p].paso = "leer" /\ pet'[p].op = "login") /\ pet'[p].paso # "verificar"
  <2>1. CASE Terminar(p)
    BY <2>1, IrTipo, Registros
  <2>2. ASSUME NEW q \in Pasos \ {"leer", "verificar"}, Ir(p, q) 
        PROVE  /\ \A x \in Peticiones : x # p => pet'[x] = pet[x]
               /\ ~(pet'[p].paso = "leer" /\ pet'[p].op = "login")
               /\ pet'[p].paso # "verificar"
    BY <2>2, IrTipo
  <2>3. ASSUME NEW s \in Peticion, Seguir(p, s),
               s.paso \in {"contar", "leer", "buscar", "revocando"},
               s.paso = "leer" => s.op # "login"
        PROVE  /\ \A x \in Peticiones : x # p => pet'[x] = pet[x]
               /\ ~(pet'[p].paso = "leer" /\ pet'[p].op = "login")
               /\ pet'[p].paso # "verificar"
    BY <2>3, SeguirTipo
  <2> QED BY <2>1, <2>2, <2>3
<1> QED BY <1>1 DEF Pendientes, Pendiente

\* A step gives up pending requests without failures, or lets one more pass while
\* the limit is not reached, or turns one pending request into a failure.
LEMMA FallosInv ==
  ASSUME TypeOK, ConFallos, [Next]_vars, TypeOK'
  PROVE  ConFallos'
<1>0. /\ fallos \in Nat /\ fallos' \in Nat /\ MaxFallos \in Nat
      /\ \A p \in Peticiones : pet[p] \in Peticion
  BY MaxFallosAssumption DEF TypeOK
<1>1. /\ IsFiniteSet(Pendientes) /\ IsFiniteSet(Pendientes')
      /\ Cardinality(Pendientes) \in Nat /\ Cardinality(Pendientes') \in Nat
      /\ Cardinality(Peticiones) \in Nat
      /\ Cardinality(Pendientes') <= Cardinality(Peticiones)
  BY PeticionesAssumption, FS_Subset, FS_CardinalityType DEF Pendientes
<1>2. ASSUME fallos' <= fallos, Pendientes' \subseteq Pendientes PROVE ConFallos'
  <2>1. Cardinality(Pendientes') <= Cardinality(Pendientes)
    BY <1>1, <1>2, FS_Subset
  <2> QED BY <1>0, <1>1, <1>2, <2>1 DEF ConFallos
<1>3. ASSUME UNCHANGED fallos, fallos < MaxFallos PROVE ConFallos'
  BY <1>0, <1>1, <1>3 DEF ConFallos
<1>4. ASSUME NEW p \in Pendientes, fallos' = fallos + 1, Pendientes' \subseteq Pendientes \ {p}
      PROVE  ConFallos'
  <2>1. /\ IsFiniteSet(Pendientes \ {p})
        /\ Cardinality(Pendientes \ {p}) = Cardinality(Pendientes) - 1
    BY <1>1, <1>4, FS_RemoveElement
  <2>2. Cardinality(Pendientes') <= Cardinality(Pendientes) - 1
    BY <1>4, <2>1, FS_Subset
  <2> QED BY <1>0, <1>1, <1>4, <2>2 DEF ConFallos
<1>5. CASE UNCHANGED <<fallos, pet>>
  <2>1. Pendientes' = Pendientes
    BY <1>5 DEF Pendientes, Pendiente
  <2> QED BY <1>0, <1>2, <1>5, <2>1
<1>6. ASSUME NEW p \in Peticiones, UNCHANGED fallos, Pendientes' \subseteq Pendientes \ {p}
      PROVE  ConFallos'
  BY <1>0, <1>2, <1>6
<1>7. ASSUME NEW p \in Peticiones, Contar(p) PROVE ConFallos'
  <2>1. UNCHANGED fallos
    BY <1>7 DEF Contar, cuenta
  <2>2. CASE Terminar(p)
    BY <1>6, <2>1, <2>2, SinPendiente
  <2>3. CASE ~Terminar(p)
    BY <1>0, <1>3, <1>7, <2>1, <2>3 DEF Contar, Excedido
  <2> QED BY <2>2, <2>3
<1>8. ASSUME NEW p \in Peticiones, LeerLogin(p) \/ Verificar(p) PROVE ConFallos'
  <2>1. Terminar(p) \/ Ir(p, "abrir")
    BY <1>8 DEF LeerLogin, Verificar
  <2>2. Pendientes' \subseteq Pendientes \ {p}
    BY <2>1, SinPendiente DEF Pasos
  <2>3. p \in Pendientes
    BY <1>8 DEF LeerLogin, Verificar, Pendientes, Pendiente
  <2>4. UNCHANGED fallos \/ fallos' = fallos + 1
    BY <1>8 DEF LeerLogin, Verificar
  <2> QED BY <1>4, <1>6, <2>2, <2>3, <2>4
<1>9. ASSUME NEW p \in Peticiones,
             \/ LeerMfa(p) \/ LeerConfirm(p) \/ EnableMfa(p) \/ Buscar(p) \/ Rotar(p)
             \/ RefreshSinMembresia(p) \/ RevokeTokensByFamily(p)
             \/ Logout(p) \/ Abortar(p)
             \/ \E f \in Familias, t \in Tokens : OpenSession(p, f, t)
             \/ \E n \in Tokens : RefreshEmite(p, n)
      PROVE  ConFallos'
  <2>1. UNCHANGED fallos
    BY <1>9 DEF LeerMfa, LeerConfirm, EnableMfa, Buscar, Rotar, RefreshSinMembresia,
       RevokeTokensByFamily, Logout, Abortar, OpenSession, RefreshEmite, cuenta
  <2>2. \/ Terminar(p) \/ LeerMfa(p)
        \/ \E q \in {"habilitar", "familia", "rotar", "rotando", "cerrar"} : Ir(p, q)
    BY <1>9 DEF LeerConfirm, EnableMfa, Buscar, Rotar, RefreshSinMembresia,
       RevokeTokensByFamily, Logout, Abortar, OpenSession, RefreshEmite
  <2>3. CASE LeerMfa(p) /\ ~Terminar(p)
    <3>1. PICK s : s = [pet[p] EXCEPT !.paso = "contar", !.visto = usuario.secreto]
      OBVIOUS
    <3>2. s \in Peticion /\ s.paso = "contar"
      <4>1. pet[p] \in Peticion /\ usuario.secreto \in Secretos \cup {Ninguno}
        BY <1>0 DEF TypeOK
      <4> QED BY <3>1, <4>1 DEF Peticion, Pasos
    <3>3. Seguir(p, s)
      BY <2>3, <3>1 DEF LeerMfa
    <3>4. Pendientes' \subseteq Pendientes \ {p}
      BY <1>0, <3>2, <3>3, SinPendiente
    <3> QED BY <1>6, <2>1, <3>4
  <2>4. CASE ~LeerMfa(p) \/ Terminar(p)
    <3>1. ASSUME NEW q \in {"habilitar", "familia", "rotar", "rotando", "cerrar"}, Ir(p, q)
          PROVE  Pendientes' \subseteq Pendientes \ {p}
      <4>1. q \in Pasos /\ q # "contar" /\ q # "verificar" /\ q # "leer"
        BY <3>1 DEF Pasos
      <4> QED BY <3>1, <4>1, SinPendiente
    <3>2. Pendientes' \subseteq Pendientes \ {p}
      BY <2>2, <2>4, <3>1, SinPendiente
    <3> QED BY <1>6, <2>1, <3>2
  <2> QED BY <2>3, <2>4
<1>10. ASSUME NEW p \in Peticiones, RevokeFamily(p) PROVE ConFallos'
  <2>1. PICK s : s = [pet[p] EXCEPT !.paso = "revocando", !.borra = PorFamilia(p)]
    OBVIOUS
  <2>2. s \in Peticion /\ s.paso = "revocando"
    BY <1>0, <2>1 DEF Peticion, Pasos, PorFamilia
  <2> QED BY <1>6, <1>10, <2>1, <2>2, SinPendiente DEF RevokeFamily, cuenta
<1>11. ASSUME NEW p \in Peticiones, NEW c \in BOOLEAN, RecibirLogin(p, c) PROVE ConFallos'
  <2>1. PICK s : s = [Libre EXCEPT !.paso = "contar", !.op = "login", !.clave = c]
    OBVIOUS
  <2>2. s \in Peticion /\ s.paso = "contar"
    BY <2>1 DEF Libre, Peticion, Pasos, Ops
  <2> QED BY <1>6, <1>11, <2>1, <2>2, SinPendiente DEF RecibirLogin, cuenta
<1>12. ASSUME NEW p \in Peticiones, NEW x \in Secretos,
              RecibirMfaVerify(p, x) \/ RecibirMfaConfirm(p, x)
       PROVE  ConFallos'
  <2>1. PICK s, op : /\ op \in {"mfa", "confirmar"}
                     /\ s = [Libre EXCEPT !.paso = "leer", !.op = op, !.codigo = x]
                     /\ Seguir(p, s) /\ UNCHANGED cuenta
    BY <1>12 DEF RecibirMfaVerify, RecibirMfaConfirm
  <2>2. s \in Peticion /\ s.paso = "leer" /\ s.op # "login"
    BY <2>1 DEF Libre, Peticion, Pasos, Ops
  <2> QED BY <1>6, <2>1, <2>2, SinPendiente DEF cuenta
<1>13. ASSUME NEW p \in Peticiones, NEW op \in Ops, NEW t \in Tokens, RecibirConToken(p, op, t)
       PROVE  ConFallos'
  <2>1. PICK s : s = [Libre EXCEPT !.paso = "buscar", !.op = op, !.tok = t, !.fam = tok[t].fam]
    OBVIOUS
  <2>2. tok[t].fam \in Familias \cup {Ninguno}
    BY DEF TypeOK
  <2>3. s \in Peticion /\ s.paso = "buscar"
    BY <2>1, <2>2 DEF Libre, Peticion, Pasos, Ops
  <2> QED BY <1>6, <1>13, <2>1, <2>3, SinPendiente DEF RecibirConToken, cuenta
<1>14. CASE OlvidarFallo
  <2>1. Pendientes' = Pendientes
    BY <1>14 DEF OlvidarFallo, Pendientes, Pendiente
  <2> QED BY <1>0, <1>2, <1>14, <2>1 DEF OlvidarFallo
<1>15. \/ \E s \in Secretos : SetupMfa(s)
       \/ DisableMfa \/ CambiarUsuario \/ CambiarMembresia \/ VencerDesafio
       \/ \E t \in Tokens : VencerToken(t)
       \/ UNCHANGED vars
       => UNCHANGED <<fallos, pet>>
  BY DEF SetupMfa, DisableMfa, CambiarUsuario, CambiarMembresia, VencerDesafio, VencerToken,
     vars, cuenta
<1> QED BY <1>5, <1>7, <1>8, <1>9, <1>10, <1>11, <1>12, <1>13, <1>14, <1>15 DEF Next, Atender

-----------------------------------------------------------------------------
(* Theorems *)

\* Nothing has happened yet.
LEMMA Inicio == Init => SInv
<1> SUFFICES ASSUME Init PROVE SInv
  OBVIOUS
<1>1. TypeOK /\ MfaConSecreto
  BY Registros DEF Init, TypeOK, MfaConSecreto
<1>2. Pendientes = {}
  BY DEF Init, Pendientes, Pendiente, Libre
<1>3. Cardinality(Pendientes) = 0 /\ Cardinality(Peticiones) \in Nat
      /\ Cardinality(Peticiones) # 0
  BY <1>2, PeticionesAssumption, FS_EmptySet, FS_CardinalityType
<1>4. ConFallos
  BY <1>3, MaxFallosAssumption DEF Init, ConFallos
<1>5. Familiar
  BY NingunoAssumption, Registros
     DEF Init, Familiar, Fichas, PetOK, Vigente, Solas, UnVivoPorFamilia, FamiliaMuerta,
         VivosDe, Vivos, Libre, ConToken
<1> QED BY <1>1, <1>4, <1>5 DEF SInv

\* The inductive invariant, of every behaviour.
THEOREM InvarianteSesiones == Spec => []SInv
<1>1. SInv /\ [Next]_vars => SInv'
  BY FamiliarInv, SecretoInv, FallosInv DEF SInv
<1> QED BY Inicio, <1>1, PTL DEF Spec

\* Every variable keeps its type.
THEOREM Tipos == Spec => []TypeOK
<1>1. SInv => TypeOK
  BY DEF SInv
<1> QED BY InvarianteSesiones, <1>1, PTL

\* LoginMaxAttempts is exceeded by the open requests but one, at most.
THEOREM LimiteDeFallos == Spec => []FallosAcotados
<1>1. SInv => FallosAcotados
  <2> SUFFICES ASSUME SInv PROVE FallosAcotados
    OBVIOUS
  <2>1. /\ Cardinality(Pendientes) \in Nat /\ Cardinality(Peticiones) \in Nat
        /\ fallos \in Nat /\ MaxFallos \in Nat
    BY PeticionesAssumption, MaxFallosAssumption, FS_Subset, FS_CardinalityType
       DEF Pendientes, SInv, TypeOK
  <2> QED BY <2>1 DEF SInv, ConFallos, FallosAcotados
<1> QED BY InvarianteSesiones, <1>1, PTL

\* MFA is never enabled without a secret.
THEOREM SiempreConSecreto == Spec => []MfaConSecreto
<1>1. SInv => MfaConSecreto
  BY DEF SInv
<1> QED BY InvarianteSesiones, <1>1, PTL

\* A family that requests use one at a time has one live token at most.
THEOREM UsoUnico == Spec => []UnVivoPorFamilia
<1>1. SInv => UnVivoPorFamilia
  BY DEF SInv, Familiar
<1> QED BY InvarianteSesiones, <1>1, PTL

\* Such a family, once closed or caught in reuse, has no live token any more.
THEOREM MuertaParaSiempre == Spec => []FamiliaMuerta
<1>1. SInv => FamiliaMuerta
  BY DEF SInv, Familiar
<1> QED BY InvarianteSesiones, <1>1, PTL
=============================================================================
