-------------------------- MODULE MercadoPagoProofs --------------------------
(* The type invariant of MercadoPago, that a payment and its intent always    *)
(* agree on the checkout, and that only a checkout that a retry replaced can  *)
(* lose its approval, for any number of payments, checkouts and requests.     *)
(*                                                                            *)
(* What they rest on: a checkout belongs to the one session that opened it    *)
(* until that session commits, and no webhook is about it before.             *)
EXTENDS MercadoPago, TLAPS

\* The steps of a session that has opened a checkout and not committed it.
Abriendo == {"anotar", "intento"}
\* The steps of a webhook, and the estados of a checkout it may be about.
Avisando == {"buscar", "leer", "acreditar", "estado"}
Vistas   == {"mostrada", "pagada"}

\* What a session knows at each of its steps.
SesOK(s) ==
    /\ s.paso \in {"sellar", "insertar"} \/ s.nuevo => s.clave \in Claves /\ s.datos \in Datos
    /\ s.paso \in {"cobrar", "anotar", "intento", "leer", "acreditar", "estado"} =>
          s.pago \in Pagos
    /\ s.paso \in Abriendo =>
          s.pref \in Prefs /\ pref[s.pref].estado = "abierta" /\ pref[s.pref].pago \in Pagos
    /\ s.paso \in Avisando =>
          s.pref \in Prefs /\ s.status \in Avisos /\ pref[s.pref].estado \in Vistas

UnaSolaAbre ==
    \A w, x \in Sesiones :
        ses[w].paso \in Abriendo /\ ses[x].paso \in Abriendo /\ ses[w].pref = ses[x].pref
        => w = x

MInv ==
    /\ TypeOK
    /\ \A w \in Sesiones : SesOK(ses[w])
    /\ UnaSolaAbre
    /\ \A n \in Prefs : pref[n].estado \in Vistas => pref[n].pago \in Pagos
    /\ \A n \in perdidas : pref[n].estado \in Vistas /\ \A p \in Pagos : pago[p].pref # n
    /\ PagoConSuIntento

\* A row of each table (as in TypeOK).
FilaPref == [estado: {"libre", "abierta", "mostrada", "pagada"},
             pago: Pagos \cup {Ninguno}, avisada: BOOLEAN]
FilaPago == [estado: {"inexistente", "pendiente_revision", "acreditado", "revertido"},
             datos: Datos \cup {Ninguno}, pref: Prefs \cup {Ninguno}]
FilaIntento == [pref: Prefs \cup {Ninguno}, status: Admitidos]

\* What updating one column gives.
LEMMA Columnas ==
  /\ \A f \in FilaPref :
        /\ [f EXCEPT !.avisada = TRUE] \in FilaPref
        /\ [f EXCEPT !.avisada = TRUE].estado = f.estado
        /\ [f EXCEPT !.avisada = TRUE].pago = f.pago
        /\ \A p \in Pagos : [f EXCEPT !.estado = "abierta", !.pago = p] \in FilaPref
        /\ \A e \in Vistas : [f EXCEPT !.estado = e] \in FilaPref
  /\ \A f \in FilaPago :
        /\ \A e \in {"acreditado", "revertido"} :
              [f EXCEPT !.estado = e] \in FilaPago /\ [f EXCEPT !.estado = e].pref = f.pref
        /\ \A n \in Prefs : [f EXCEPT !.pref = n] \in FilaPago
  /\ \A f \in FilaIntento, st \in Admitidos :
        [f EXCEPT !.status = st] \in FilaIntento /\ [f EXCEPT !.status = st].pref = f.pref
  BY DEF FilaPref, FilaPago, FilaIntento, Vistas

\* TypeOK, with those rows, before and after a step.
Tablas ==
    /\ idem \in [Claves -> Pagos \cup {Ninguno}]
    /\ pago \in [Pagos -> FilaPago]
    /\ intento \in [Pagos -> FilaIntento]
    /\ pref \in [Prefs -> FilaPref]
LEMMA Tipado ==
  /\ TypeOK => Tablas
  /\ TypeOK' <=> Tablas' /\ ses' \in [Sesiones -> Sesion] /\ perdidas' \subseteq Prefs
                /\ fallas' \in 0..MaxFallas
  BY DEF TypeOK, Tablas, FilaPref, FilaPago, FilaIntento

\* A step that opens no checkout and ties none to a payment.
LEMMA SinCheckout ==
  ASSUME MInv, TypeOK',
         \A p \in Pagos : pago'[p].pref = pago[p].pref /\ intento'[p].pref = intento[p].pref,
         \A n \in Prefs : /\ pref'[n].pago = pref[n].pago
                          /\ \/ pref'[n].estado = pref[n].estado
                             \/ pref'[n].estado \in Vistas /\ pref[n].estado \in Vistas,
         \A w \in Sesiones : ses'[w] = ses[w] \/ SesOK(ses'[w]),
         \A w \in Sesiones : ses'[w].paso \in Abriendo =>
            ses[w].paso \in Abriendo /\ ses'[w].pref = ses[w].pref,
         \A n \in perdidas' \ perdidas :
            pref[n].estado \in Vistas /\ \A p \in Pagos : pago[p].pref # n
  PROVE  MInv'
<1>1. \A w \in Sesiones : SesOK(ses[w])' /\ SesOK(ses'[w])
  <2> SUFFICES ASSUME NEW w \in Sesiones PROVE SesOK(ses[w])' /\ SesOK(ses'[w])
    OBVIOUS
  <2>1. SesOK(ses'[w])
    BY DEF MInv
  <2> QED BY <2>1 DEF SesOK, Vistas, Abriendo, Avisando
<1>2. UnaSolaAbre'
  BY DEF MInv, UnaSolaAbre
<1>3. \A n \in perdidas' : n \in Prefs
  BY DEF TypeOK
<1>4. \A n \in Prefs : /\ pref[n].estado \in Vistas => pref'[n].estado \in Vistas
                       /\ pref'[n].estado \in Vistas => pref[n].estado \in Vistas
  OBVIOUS
<1>5. \A n \in Prefs : pref'[n].estado \in Vistas => pref'[n].pago \in Pagos
  BY <1>4 DEF MInv
<1>6. \A n \in perdidas' : pref'[n].estado \in Vistas /\ \A p \in Pagos : pago'[p].pref # n
  BY <1>3, <1>4 DEF MInv
<1>7. PagoConSuIntento'
  BY DEF MInv, PagoConSuIntento
<1> QED BY <1>1, <1>2, <1>5, <1>6, <1>7 DEF MInv

\* The session that ends or goes on is the only one that changes.
LEMMA PasoDeSesion ==
  ASSUME MInv, NEW w \in Sesiones, NEW s \in Sesion, Seguir(w, s)
  PROVE  /\ ses' \in [Sesiones -> Sesion] /\ ses'[w] = s
         /\ \A x \in Sesiones : x # w => ses'[x] = ses[x]
  BY DEF MInv, TypeOK, Seguir

\* The session of no request.
LEMMA Libre == SesionLibre \in Sesion /\ SesionLibre.paso = "libre" /\ SesOK(SesionLibre)
  BY DEF SesionLibre, Sesion, SesOK, Abriendo, Avisando

\* A step of w that writes no table and opens no checkout.
LEMMA SoloSesion ==
  ASSUME MInv, NEW w \in Sesiones, NEW s \in Sesion, Seguir(w, s), SesOK(s),
         s.paso \in Abriendo => ses[w].paso \in Abriendo /\ s.pref = ses[w].pref,
         UNCHANGED <<tablas, pref, perdidas>>, fallas' \in 0..MaxFallas
  PROVE  MInv'
<1>1. TypeOK'
  BY PasoDeSesion DEF MInv, TypeOK, tablas
<1> QED BY <1>1, PasoDeSesion, SinCheckout DEF tablas, MInv

-----------------------------------------------------------------------------
(* Each operation *)

\* Requests and webhooks arrive.
LEMMA RecibirInv ==
  ASSUME MInv, NEW w \in Sesiones,
         \/ \E r \in Pedidos : RecibirAlta(w, r)
         \/ \E n \in Prefs, st \in Avisos : RecibirWebhook(w, n, st)
  PROVE  MInv'
<1>1. fallas \in 0..MaxFallas
  BY DEF MInv, TypeOK
<1>2. ASSUME NEW r \in Pedidos, RecibirAlta(w, r) PROVE MInv'
  <2> DEFINE s == [SesionLibre EXCEPT !.paso = "sellar", !.clave = r[1], !.datos = r[2]]
  <2>1. r[1] \in Claves /\ r[2] \in Datos
    BY DatosAssumption
  <2>2. s \in Sesion /\ SesOK(s) /\ s.paso = "sellar"
    BY <2>1 DEF SesionLibre, Sesion, SesOK, Abriendo, Avisando
  <2> HIDE DEF s
  <2> QED BY <1>1, <1>2, <2>2, SoloSesion DEF RecibirAlta, Abriendo, s
<1>3. ASSUME NEW n \in Prefs, NEW st \in Avisos, RecibirWebhook(w, n, st) PROVE MInv'
  <2> DEFINE s == [SesionLibre EXCEPT !.paso = "buscar", !.pref = n, !.status = st]
  <2>1. s \in Sesion /\ SesOK(s) /\ s.paso = "buscar"
    BY <1>3 DEF RecibirWebhook, SesionLibre, Sesion, SesOK, Abriendo, Avisando, Vistas
  <2> HIDE DEF s
  <2> QED BY <1>1, <1>3, <2>1, SoloSesion DEF RecibirWebhook, Abriendo, s
<1> QED BY <1>2, <1>3

\* The steps of a creation before its commit, and the end of any request.
LEMMA AltaInv ==
  ASSUME MInv, NEW w \in Sesiones,
         Sellar(w) \/ Insertar(w) \/ Anotar(w) \/ Leer(w) \/ Acreditar(w) \/ Abortar(w)
  PROVE  MInv'
<1> SUFFICES ASSUME NEW s, s = ses[w] PROVE MInv'
  OBVIOUS
<1>1. s \in Sesion /\ SesOK(s) /\ fallas \in 0..MaxFallas
  BY DEF MInv, TypeOK
<1>2. ASSUME Terminar(w), UNCHANGED <<tablas, pref, perdidas>>, fallas' \in 0..MaxFallas
      PROVE  MInv'
  BY <1>2, Libre, SoloSesion DEF Terminar, Abriendo
<1>3. CASE Sellar(w)
  <2> DEFINE p == idem[s.clave]
  <2>1. p \in Pagos \cup {Ninguno}
    BY <1>1, <1>3 DEF Sellar, SesOK, MInv, TypeOK
  <2>2. ASSUME NEW t, t = [s EXCEPT !.paso = "insertar", !.nuevo = TRUE]
        PROVE  t \in Sesion /\ SesOK(t) /\ t.paso = "insertar"
    BY <1>1, <1>3, <2>2 DEF Sellar, Sesion, SesOK, Abriendo, Avisando
  <2>3. ASSUME NEW t, t = [SesionLibre EXCEPT !.paso = "cobrar", !.pago = p], p # Ninguno
        PROVE  t \in Sesion /\ SesOK(t) /\ t.paso = "cobrar"
    BY <2>1, <2>3 DEF SesionLibre, Sesion, SesOK, Abriendo, Avisando
  <2> QED BY <1>1, <1>2, <1>3, <2>2, <2>3, SoloSesion DEF Sellar, Abriendo
<1>4. CASE Insertar(w)
  <2>1. ASSUME NEW p \in Pagos, NEW t, t = [s EXCEPT !.paso = "cobrar", !.pago = p]
        PROVE  t \in Sesion /\ SesOK(t) /\ t.paso = "cobrar"
    BY <1>1, <1>4, <2>1 DEF Insertar, Sesion, SesOK, Abriendo, Avisando
  <2> QED BY <1>1, <1>2, <1>4, <2>1, SoloSesion DEF Insertar, Primero, Abriendo
<1>5. CASE Anotar(w)
  <2>1. ASSUME NEW t, t = [s EXCEPT !.paso = "intento"]
        PROVE  t \in Sesion /\ SesOK(t) /\ t.pref = s.pref
    BY <1>1, <1>5, <2>1 DEF Anotar, Sesion, SesOK, Abriendo, Avisando
  <2> QED BY <1>1, <1>5, <2>1, SoloSesion DEF Anotar, Abriendo
<1>6. CASE Leer(w)
  <2>1. ASSUME NEW t, NEW q \in {"acreditar", "estado"}, t = [s EXCEPT !.paso = q]
        PROVE  t \in Sesion /\ SesOK(t) /\ t.paso = q
    BY <1>1, <1>6, <2>1 DEF Leer, Sesion, SesOK, Abriendo, Avisando
  <2>2. PICK q \in {"acreditar", "estado"} : Seguir(w, [s EXCEPT !.paso = q])
    BY <1>6 DEF Leer
  <2> QED BY <1>1, <1>6, <2>1, <2>2, SoloSesion DEF Leer, Abriendo
<1>7. CASE Acreditar(w)
  <2>1. ASSUME NEW t, t = [s EXCEPT !.paso = "estado", !.acredita = TRUE]
        PROVE  t \in Sesion /\ SesOK(t) /\ t.paso = "estado"
    BY <1>1, <1>7, <2>1 DEF Acreditar, Sesion, SesOK, Abriendo, Avisando
  <2> QED BY <1>1, <1>2, <1>7, <2>1, SoloSesion DEF Acreditar, Abriendo
<1>8. CASE Abortar(w)
  <2>1. fallas' \in 0..MaxFallas
    BY <1>1, <1>8, CotasAssumption DEF Abortar
  <2> QED BY <1>2, <1>8, <2>1 DEF Abortar
<1> QED BY <1>3, <1>4, <1>5, <1>6, <1>7, <1>8

\* CreateCheckout opens a preference that no session has and no webhook is about.
LEMMA CreateCheckoutInv ==
  ASSUME MInv, NEW w \in Sesiones, CreateCheckout(w)
  PROVE  MInv'
<1> SUFFICES ASSUME NEW s, s = ses[w] PROVE MInv'
  OBVIOUS
<1>1. s \in Sesion /\ SesOK(s) /\ s.paso = "cobrar" /\ s.pago \in Pagos
      /\ fallas \in 0..MaxFallas
  BY DEF MInv, TypeOK, CreateCheckout, SesOK
<1>2. CASE Terminar(w) /\ UNCHANGED pref
  BY <1>1, <1>2, Libre, SoloSesion DEF CreateCheckout, Terminar, Abriendo
<1>3. ASSUME NEW n \in Prefs, pref[n].estado = "libre", NEW t,
             t = [s EXCEPT !.paso = "anotar", !.pref = n], Seguir(w, t),
             pref' = [pref EXCEPT ![n].estado = "abierta", ![n].pago = s.pago]
      PROVE  MInv'
  <2>1. /\ t \in Sesion /\ t.paso = "anotar" /\ t.pref = n /\ t.pago = s.pago
        /\ t.nuevo = s.nuevo /\ t.clave = s.clave /\ t.datos = s.datos
    BY <1>1, <1>3 DEF Sesion
  <2>2. /\ pref'[n].estado = "abierta" /\ pref'[n].pago = s.pago
        /\ \A m \in Prefs \ {n} : pref'[m] = pref[m]
    BY <1>3 DEF MInv, TypeOK
  <2>3. UNCHANGED <<tablas, perdidas, fallas>>
    BY DEF CreateCheckout
  <2>4. TypeOK'
    <3>1. [pref[n] EXCEPT !.estado = "abierta", !.pago = s.pago] \in FilaPref
      BY <1>1, Columnas, Tipado DEF MInv, Tablas
    <3>2. pref' \in [Prefs -> FilaPref]
      BY <1>3, <3>1, Tipado DEF MInv, Tablas
    <3> QED BY <1>3, <2>1, <2>3, <3>2, Tipado, PasoDeSesion DEF MInv, TypeOK, tablas, Tablas
  <2>5. ses'[w] = t /\ \A x \in Sesiones \ {w} : ses'[x] = ses[x] /\ SesOK(ses[x])
    BY <1>3, <2>1, PasoDeSesion DEF MInv
  <2>6. \A x \in Sesiones \ {w} : ses[x].paso \in Abriendo => ses[x].pref # n
    BY <1>3, <2>5 DEF SesOK
  <2>7. \A x \in Sesiones : SesOK(ses[x])'
    <3> SUFFICES ASSUME NEW x \in Sesiones, NEW z, z = ses'[x] PROVE SesOK(z)'
      BY DEF SesOK
    <3>1. CASE x = w
      BY <1>1, <2>1, <2>2, <2>5, <3>1 DEF SesOK, Abriendo, Avisando
    <3>2. CASE x # w
      <4>1. z = ses[x] /\ SesOK(z)
        BY <2>5, <3>2
      <4>2. z.paso \in Abriendo \cup Avisando => z.pref \in Prefs \ {n}
        BY <1>3, <2>6, <3>2, <4>1 DEF SesOK, Vistas
      <4> QED BY <2>2, <4>1, <4>2 DEF SesOK
    <3> QED BY <3>1, <3>2
  <2>8. UnaSolaAbre'
    BY <2>1, <2>5, <2>6 DEF MInv, UnaSolaAbre
  <2>9. /\ \A m \in Prefs : pref'[m].estado \in Vistas => pref'[m].pago \in Pagos
        /\ \A m \in perdidas' : pref'[m].estado \in Vistas
                                /\ \A p \in Pagos : pago'[p].pref # m
    BY <1>3, <2>2, <2>3 DEF MInv, TypeOK, Vistas, tablas
  <2> QED BY <2>3, <2>4, <2>7, <2>8, <2>9 DEF MInv, PagoConSuIntento, tablas, SesOK
<1> QED BY <1>2, <1>3 DEF CreateCheckout, Primero

\* The commit of a creation, or of a retry of one, ties the payment and its intent to
\* the checkout that it opened.
LEMMA ConfirmarAltaInv ==
  ASSUME MInv, NEW w \in Sesiones, ConfirmarAlta(w)
  PROVE  MInv'
<1> SUFFICES ASSUME NEW s, s = ses[w], NEW p, p = s.pago, NEW n, n = s.pref PROVE MInv'
  OBVIOUS
<1>1. /\ s \in Sesion /\ SesOK(s) /\ s.paso = "intento" /\ p \in Pagos /\ n \in Prefs
      /\ pref[n].estado = "abierta" /\ pref[n].pago \in Pagos
      /\ s.nuevo => s.clave \in Claves /\ s.datos \in Datos
  BY DEF MInv, TypeOK, ConfirmarAlta, SesOK, Abriendo
<1>2. /\ pago' = [pago EXCEPT ![p] =
                    IF s.nuevo THEN [estado |-> "pendiente_revision",
                                     datos |-> s.datos, pref |-> n]
                    ELSE [@ EXCEPT !.pref = n]]
      /\ intento' = [intento EXCEPT ![p] = [pref |-> n, status |-> "created"]]
      /\ idem' = IF s.nuevo THEN [idem EXCEPT ![s.clave] = p] ELSE idem
      /\ pref' = [pref EXCEPT ![n].estado = "mostrada"]
      /\ Seguir(w, SesionLibre) /\ UNCHANGED <<perdidas, fallas>>
  BY DEF ConfirmarAlta, Intento, Terminar
<1>3. /\ pago'[p].pref = n /\ intento'[p].pref = n
      /\ \A q \in Pagos \ {p} : pago'[q] = pago[q] /\ intento'[q] = intento[q]
  BY <1>1, <1>2 DEF MInv, TypeOK
<1>4. /\ pref'[n].estado = "mostrada" /\ pref'[n].pago = pref[n].pago
      /\ \A m \in Prefs \ {n} : pref'[m] = pref[m]
  BY <1>1, <1>2 DEF MInv, TypeOK
<1>5. /\ ses' \in [Sesiones -> Sesion] /\ ses'[w] = SesionLibre
      /\ \A x \in Sesiones \ {w} : ses'[x] = ses[x] /\ SesOK(ses[x])
  BY <1>2, Libre, PasoDeSesion DEF MInv
<1>6. TypeOK'
  <2>1. pago' \in [Pagos -> FilaPago]
    <3>1. s.nuevo => [estado |-> "pendiente_revision", datos |-> s.datos, pref |-> n] \in FilaPago
      BY <1>1 DEF FilaPago
    <3>2. [pago[p] EXCEPT !.pref = n] \in FilaPago
      BY <1>1, Columnas, Tipado DEF MInv, Tablas
    <3>3. CASE s.nuevo
      BY <1>2, <3>1, <3>3, Tipado DEF MInv, Tablas
    <3>4. CASE ~s.nuevo
      BY <1>2, <3>2, <3>4, Tipado DEF MInv, Tablas
    <3> QED BY <3>3, <3>4
  <2>2. intento' \in [Pagos -> FilaIntento]
    BY <1>1, <1>2, Tipado DEF MInv, Tablas, FilaIntento, Admitidos
  <2>3. idem' \in [Claves -> Pagos \cup {Ninguno}]
    BY <1>1, <1>2 DEF MInv, TypeOK
  <2>4. pref' \in [Prefs -> FilaPref]
    BY <1>1, <1>2, Columnas, Tipado DEF MInv, Tablas, Vistas
  <2> QED BY <1>2, <1>5, <2>1, <2>2, <2>3, <2>4, Tipado DEF MInv, TypeOK, Tablas
<1>7. \A x \in Sesiones \ {w} : ses[x].paso \in Abriendo => ses[x].pref # n
  BY <1>1 DEF MInv, UnaSolaAbre, Abriendo
<1>8. \A x \in Sesiones : SesOK(ses[x])'
  <2> SUFFICES ASSUME NEW x \in Sesiones, NEW z, z = ses'[x] PROVE SesOK(z)'
    BY DEF SesOK
  <2>1. CASE x = w
    BY <1>5, <2>1, Libre DEF SesOK, Abriendo, Avisando, SesionLibre
  <2>2. CASE x # w
    BY <1>4, <1>5, <1>7, <2>2 DEF SesOK, Vistas
  <2> QED BY <2>1, <2>2
<1>9. UnaSolaAbre'
  BY <1>5, Libre DEF MInv, UnaSolaAbre, Abriendo
<1>10. \A m \in perdidas' : /\ pref'[m].estado \in Vistas
                            /\ \A q \in Pagos : pago'[q].pref # m
  <2>1. \A m \in perdidas : m # n /\ m \in Prefs
    BY <1>1 DEF MInv, TypeOK, Vistas
  <2> QED BY <1>2, <1>3, <1>4, <2>1 DEF MInv
<1>11. \A m \in Prefs : pref'[m].estado \in Vistas => pref'[m].pago \in Pagos
  BY <1>1, <1>4 DEF MInv
<1>12. PagoConSuIntento'
  BY <1>3 DEF MInv, PagoConSuIntento
<1> QED BY <1>6, <1>8, <1>9, <1>10, <1>11, <1>12 DEF MInv, SesOK

\* Answering 200 only marks the approval as delivered.
LEMMA ResponderEs ==
  ASSUME MInv, NEW w \in Sesiones, NEW n \in Prefs, Responder(w, n)
  PROVE  /\ pref' \in [Prefs -> FilaPref]
         /\ \A m \in Prefs : pref'[m].estado = pref[m].estado /\ pref'[m].pago = pref[m].pago
         /\ ses' \in [Sesiones -> Sesion] /\ ses'[w] = SesionLibre
         /\ \A x \in Sesiones : x # w => ses'[x] = ses[x]
<1>1. Seguir(w, SesionLibre)
  BY DEF Responder, Terminar
<1>2. pref' = pref \/ pref' = [pref EXCEPT ![n].avisada = TRUE]
  BY DEF Responder
<1>3. pref \in [Prefs -> FilaPref]
  BY Tipado DEF MInv, Tablas
<1>4. [pref[n] EXCEPT !.avisada = TRUE] \in FilaPref
      /\ [pref[n] EXCEPT !.avisada = TRUE].estado = pref[n].estado
      /\ [pref[n] EXCEPT !.avisada = TRUE].pago = pref[n].pago
  BY <1>3, Columnas
<1> QED BY <1>1, <1>2, <1>3, <1>4, Libre, PasoDeSesion

\* A webhook finds the payment of its checkout, or loses the approval of one that no
\* intent has.
LEMMA BuscarInv ==
  ASSUME MInv, NEW w \in Sesiones, Buscar(w)
  PROVE  MInv'
<1> SUFFICES ASSUME NEW s, s = ses[w], NEW n, n = s.pref PROVE MInv'
  OBVIOUS
<1>1. /\ s \in Sesion /\ SesOK(s) /\ s.paso = "buscar" /\ n \in Prefs /\ s.status \in Avisos
      /\ pref[n].estado \in Vistas /\ fallas \in 0..MaxFallas
  BY DEF MInv, TypeOK, Buscar, SesOK, Avisando
<1>2. ASSUME NEW p \in PorPreferencia(n), NEW q \in {"leer", "estado"},
             Seguir(w, [s EXCEPT !.pago = p, !.paso = q]), UNCHANGED <<pref, perdidas>>
      PROVE  MInv'
  <2>1. ASSUME NEW t, t = [s EXCEPT !.pago = p, !.paso = q]
        PROVE  t \in Sesion /\ SesOK(t) /\ t.paso = q
    BY <1>1, <2>1 DEF PorPreferencia, Sesion, SesOK, Abriendo, Avisando
  <2> QED BY <1>1, <1>2, <2>1, SoloSesion DEF Buscar, Abriendo
<1>3. CASE PorPreferencia(n) = {} /\ Responder(w, n)
           /\ perdidas' = IF s.status = "approved" THEN perdidas \cup {n} ELSE perdidas
  <2>1. \A p \in Pagos : pago[p].pref # n
    BY <1>3 DEF PorPreferencia, MInv, PagoConSuIntento
  <2>2. TypeOK'
    BY <1>1, <1>3, ResponderEs, Tipado DEF Buscar, MInv, TypeOK, Tablas, tablas
  <2> QED BY <1>1, <1>3, <2>1, <2>2, ResponderEs, Libre, SinCheckout
          DEF Buscar, tablas, Abriendo
<1> QED BY <1>2, <1>3 DEF Buscar

\* The commit of a webhook changes the status of the intent, or nothing of it.
LEMMA ConfirmarWebhookInv ==
  ASSUME MInv, NEW w \in Sesiones, ConfirmarWebhook(w)
  PROVE  MInv'
<1> SUFFICES ASSUME NEW s, s = ses[w], NEW p, p = s.pago, NEW n, n = s.pref PROVE MInv'
  OBVIOUS
<1>1. /\ s \in Sesion /\ SesOK(s) /\ n \in Prefs /\ p \in Pagos /\ s.status \in Avisos
      /\ fallas \in 0..MaxFallas /\ UNCHANGED <<idem, perdidas, fallas>>
  BY DEF MInv, TypeOK, ConfirmarWebhook, SesOK, Avisando
<1>2. CASE Terminar(w) /\ UNCHANGED <<pago, intento, pref>>
  BY <1>1, <1>2, Libre, SoloSesion DEF Terminar, Abriendo, tablas
<1>3. CASE /\ intento[p].pref = n => s.status \in Admitidos
           /\ pago' = IF s.acredita THEN [pago EXCEPT ![p].estado = "acreditado"] ELSE pago
           /\ intento' = IF intento[p].pref = n THEN [intento EXCEPT ![p].status = s.status]
                                                ELSE intento
           /\ Responder(w, n)
  <2>1. /\ pago' \in [Pagos -> FilaPago]
        /\ \A q \in Pagos : pago'[q].pref = pago[q].pref
    <3>1. /\ [pago[p] EXCEPT !.estado = "acreditado"] \in FilaPago
          /\ [pago[p] EXCEPT !.estado = "acreditado"].pref = pago[p].pref
      BY <1>1, Columnas, Tipado DEF MInv, Tablas
    <3>2. pago' = pago \/ pago' = [pago EXCEPT ![p] = [pago[p] EXCEPT !.estado = "acreditado"]]
      BY <1>3
    <3>3. CASE pago' = pago
      BY <3>3, Tipado DEF MInv, Tablas
    <3>4. CASE pago' = [pago EXCEPT ![p] = [pago[p] EXCEPT !.estado = "acreditado"]]
      BY <1>1, <3>1, <3>4, Tipado DEF MInv, Tablas
    <3> QED BY <3>2, <3>3, <3>4
  <2>2. /\ intento' \in [Pagos -> FilaIntento]
        /\ \A q \in Pagos : intento'[q].pref = intento[q].pref
    <3>1. CASE intento[p].pref = n
      <4>1. /\ [intento[p] EXCEPT !.status = s.status] \in FilaIntento
            /\ [intento[p] EXCEPT !.status = s.status].pref = intento[p].pref
        BY <1>1, <1>3, <3>1, Columnas, Tipado DEF MInv, Tablas
      <4>2. intento' = [intento EXCEPT ![p] = [intento[p] EXCEPT !.status = s.status]]
        BY <1>3, <3>1
      <4> QED BY <1>1, <4>1, <4>2, Tipado DEF MInv, Tablas
    <3>2. CASE intento[p].pref # n
      BY <1>3, <3>2, Tipado DEF MInv, Tablas
    <3> QED BY <3>1, <3>2
  <2>3. TypeOK'
    BY <1>1, <1>3, <2>1, <2>2, ResponderEs, Tipado DEF MInv, TypeOK, Tablas
  <2> QED BY <1>1, <1>3, <2>1, <2>2, <2>3, ResponderEs, Libre, SinCheckout DEF Abriendo
<1> QED BY <1>2, <1>3 DEF ConfirmarWebhook

\* The user pays, a treasurer decides.
LEMMA OtrosInv ==
  ASSUME MInv, \/ \E n \in Prefs : Pagar(n)
               \/ \E p \in Pagos, e \in {"acreditado", "revertido"} : Tesoreria(p, e)
  PROVE  MInv'
<1>1. ASSUME NEW n \in Prefs, Pagar(n) PROVE MInv'
  <2>1. /\ pref' \in [Prefs -> FilaPref]
        /\ pref[n].estado = "mostrada" /\ pref'[n].estado = "pagada"
        /\ pref'[n].pago = pref[n].pago
        /\ \A m \in Prefs \ {n} : pref'[m] = pref[m]
    <3>1. [pref[n] EXCEPT !.estado = "pagada"] \in FilaPref
      BY Columnas, Tipado DEF MInv, Tablas, Vistas
    <3> QED BY <1>1, <3>1, Tipado DEF Pagar, MInv, Tablas
  <2>2. TypeOK'
    BY <1>1, <2>1, Tipado DEF Pagar, MInv, TypeOK, Tablas, tablas
  <2>3. \A m \in Prefs : /\ pref'[m].pago = pref[m].pago
                         /\ \/ pref'[m].estado = pref[m].estado
                            \/ pref'[m].estado \in Vistas /\ pref[m].estado \in Vistas
    BY <2>1 DEF Vistas
  <2> QED BY <1>1, <2>2, <2>3, SinCheckout DEF Pagar, tablas, MInv
<1>2. ASSUME NEW p \in Pagos, NEW e \in {"acreditado", "revertido"}, Tesoreria(p, e)
      PROVE  MInv'
  <2>1. /\ pago' \in [Pagos -> FilaPago]
        /\ \A q \in Pagos : pago'[q].pref = pago[q].pref
    <3>1. [pago[p] EXCEPT !.estado = e] \in FilaPago
          /\ [pago[p] EXCEPT !.estado = e].pref = pago[p].pref
      BY Columnas, Tipado DEF MInv, Tablas
    <3> QED BY <1>2, <3>1, Tipado DEF Tesoreria, MInv, Tablas
  <2>2. TypeOK'
    BY <1>2, <2>1, Tipado DEF Tesoreria, MInv, TypeOK, Tablas
  <2> QED BY <1>2, <2>1, <2>2, SinCheckout DEF Tesoreria, MInv
<1> QED BY <1>1, <1>2

-----------------------------------------------------------------------------
(* Theorems *)

\* MInv holds in every reachable state.
LEMMA Invariante == Spec => []MInv
<1>1. Init => MInv
  <2> SUFFICES ASSUME Init PROVE MInv
    OBVIOUS
  <2>1. TypeOK
    BY Libre, CotasAssumption DEF Init, TypeOK, Admitidos
  <2>2. \A w \in Sesiones : SesOK(ses[w]) /\ ses[w].paso = "libre"
    BY Libre DEF Init
  <2>3. UnaSolaAbre
    BY <2>2 DEF UnaSolaAbre, Abriendo
  <2> QED BY <2>1, <2>2, <2>3 DEF Init, MInv, PagoConSuIntento, Vistas
<1>2. MInv /\ [Next]_vars => MInv'
  <2> SUFFICES ASSUME MInv, [Next]_vars PROVE MInv'
    OBVIOUS
  <2>1. CASE UNCHANGED vars
    <3>1. TypeOK'
      BY <2>1 DEF vars, MInv, TypeOK
    <3> QED BY <2>1, <3>1, SinCheckout DEF vars, MInv
  <2> QED BY <2>1, RecibirInv, AltaInv, CreateCheckoutInv, ConfirmarAltaInv, BuscarInv,
             ConfirmarWebhookInv, OtrosInv DEF Next, Avanzar
<1> QED BY <1>1, <1>2, PTL DEF Spec

\* Every reachable state is well typed.
THEOREM Tipos == Spec => []TypeOK
<1>1. MInv => TypeOK
  BY DEF MInv
<1> QED BY <1>1, Invariante, PTL

\* A payment shows the checkout its intent knows, though retries of one key and
\* webhooks run beside each other (CreatePspIntent ON CONFLICT DO UPDATE).
THEOREM CheckoutComun == Spec => []PagoConSuIntento
<1>1. MInv => PagoConSuIntento
  BY DEF MInv
<1> QED BY <1>1, Invariante, PTL

\* An approval is answered and forgotten only for a checkout that a retry of the
\* creation replaced: never for the one that the payment shows.
THEOREM PerdidasReemplazadas == Spec => []PerdidaSoloReemplazada
<1>1. MInv => PerdidaSoloReemplazada
  BY DEF MInv, TypeOK, PerdidaSoloReemplazada
<1> QED BY <1>1, Invariante, PTL
=============================================================================
