------------------------------ MODULE MercadoPago ------------------------------
(***************************************************************************)
(* A payment by Mercado Pago: its creation under an idempotency key, the   *)
(* checkout that is opened at Mercado Pago inside the same transaction,    *)
(* and the webhooks that report what became of it (cobranzas.go,           *)
(* mercadopago.go and mercadopago_webhook.go of internal/cobranzas).       *)
(*                                                                         *)
(* A session is one transaction: its reads are steps, its writes appear at *)
(* its commit, and from its UPDATE of a payment to its commit it holds     *)
(* that row.  What is done at Mercado Pago cannot be rolled back.  The     *)
(* crediting itself, and what the treasurers do, is module Cobranzas.      *)
(***************************************************************************)
EXTENDS Naturals

CONSTANTS
    Claves,     \* Idempotency-Key values
    Datos,      \* contents of a payment
    Referencia, \* the referencia in those contents, Ninguno when it is null
    Pedidos,    \* the requests, a key and its contents; a retry is the same one
    NPagos,     \* bound: payments, numbered in the order they are created
    NPrefs,     \* bound: preferences (checkouts) at Mercado Pago, numbered likewise
    Sesiones,   \* transactions that may be open at the same time
    MaxFallas,  \* bound: requests cut short in a behaviour
    Ninguno     \* no value

Pagos == 1..NPagos
Prefs == 1..NPrefs

ASSUME DatosAssumption ==
    /\ DOMAIN Referencia = Datos
    /\ Pedidos \subseteq Claves \X Datos
ASSUME CotasAssumption == NPagos \in Nat /\ NPrefs \in Nat /\ MaxFallas \in Nat
ASSUME NingunoAssumption == Ninguno \notin Claves \cup Datos \cup Pagos \cup Prefs

VARIABLES
    idem,     \* idempotency_keys of scope 'cobranzas.create': the payment stored
    pago,     \* table payments
    intento,  \* table psp_intents, one row per payment at most
    pref,     \* the preferences at Mercado Pago
    ses,      \* the open transactions
    perdidas, \* history: preferences with an approval that found no intent
    fallas    \* requests cut short so far

vars == <<idem, pago, intento, pref, ses, perdidas, fallas>>
tablas == <<idem, pago, intento>>

\* The CHECK of psp_intents.status, and what Mercado Pago may report.
Admitidos == {"created", "approved", "rejected", "pending", "cancelled"}
Avisos    == {"approved", "pending", "authorized"}

Sesion == [paso: {"libre", "sellar", "insertar", "cobrar", "anotar", "intento",
                  "buscar", "leer", "acreditar", "estado"},
           clave: Claves \cup {Ninguno}, datos: Datos \cup {Ninguno}, nuevo: BOOLEAN,
           pago: Pagos \cup {Ninguno}, pref: Prefs \cup {Ninguno},
           status: Avisos \cup {Ninguno}, acredita: BOOLEAN]

TypeOK ==
    /\ idem \in [Claves -> Pagos \cup {Ninguno}]
    /\ pago \in [Pagos -> [estado: {"inexistente", "pendiente_revision", "acreditado",
                                    "revertido"},
                           datos: Datos \cup {Ninguno}, pref: Prefs \cup {Ninguno}]]
    /\ intento \in [Pagos -> [pref: Prefs \cup {Ninguno}, status: Admitidos]]
    /\ pref \in [Prefs -> [estado: {"libre", "abierta", "mostrada", "pagada"},
                           pago: Pagos \cup {Ninguno}, avisada: BOOLEAN]]
    /\ ses \in [Sesiones -> Sesion]
    /\ perdidas \subseteq Prefs
    /\ fallas \in 0..MaxFallas

SesionLibre == [paso |-> "libre", clave |-> Ninguno, datos |-> Ninguno, nuevo |-> FALSE,
                pago |-> Ninguno, pref |-> Ninguno, status |-> Ninguno,
                acredita |-> FALSE]

Init ==
    /\ idem = [k \in Claves |-> Ninguno]
    /\ pago = [p \in Pagos |->
                 [estado |-> "inexistente", datos |-> Ninguno, pref |-> Ninguno]]
    /\ intento = [p \in Pagos |-> [pref |-> Ninguno, status |-> "created"]]
    /\ pref = [n \in Prefs |-> [estado |-> "libre", pago |-> Ninguno, avisada |-> FALSE]]
    /\ ses = [w \in Sesiones |-> SesionLibre]
    /\ perdidas = {} /\ fallas = 0

Seguir(w, s) == ses' = [ses EXCEPT ![w] = s]
Terminar(w)  == Seguir(w, SesionLibre)

-----------------------------------------------------------------------------
(* Creation *)

\* POST .../cobranzas/mercado-pago, or a retry of one.
RecibirAlta(w, r) ==
    /\ ses[w].paso = "libre"
    /\ Seguir(w, [SesionLibre EXCEPT !.paso = "sellar", !.clave = r[1], !.datos = r[2]])
    /\ UNCHANGED <<tablas, pref, perdidas, fallas>>

\* Sessions other than w with an uncommitted row in idempotency_keys.
Creando(w) == {x \in Sesiones \ {w} : ses[x].nuevo}

\* stampIdempotency: waits for an uncommitted row of the key; a committed one of
\* the same request answers its payment, and the checkout is opened all the same.
Sellar(w) ==
    LET s == ses[w]
        p == idem[s.clave]
    IN  /\ s.paso = "sellar"
        /\ \A x \in Creando(w) : ses[x].clave # s.clave
        /\ \/ p = Ninguno /\ Seguir(w, [s EXCEPT !.paso = "insertar", !.nuevo = TRUE])
           \/ /\ p # Ninguno /\ pago[p].datos = s.datos
              /\ Seguir(w, [SesionLibre EXCEPT !.paso = "cobrar", !.pago = p])
           \/ p # Ninguno /\ pago[p].datos # s.datos /\ Terminar(w)
        /\ UNCHANGED <<tablas, pref, perdidas, fallas>>

\* An identifier that no table, transaction or preference has.
Fresco(p) ==
    /\ pago[p].estado = "inexistente"
    /\ \A x \in Sesiones : ses[x].pago # p
    /\ \A n \in Prefs : pref[n].pago # p

\* The next number, if one is left.
Primero(libres) == {i \in libres : \A j \in libres : i <= j}

MismaRef(d, e) ==
    d # Ninguno /\ e # Ninguno /\ Referencia[d] = Referencia[e] /\ Referencia[d] # Ninguno

\* Some committed payment has the referencia of d.
RefUsada(d) == \E p \in Pagos : MismaRef(d, pago[p].datos)

\* CreateCobranza: the unique index of referencia waits, and then refuses (as the
\* model does when it has no identifier left).
Insertar(w) ==
    LET s == ses[w]
    IN  /\ s.paso = "insertar"
        /\ \A x \in Creando(w) : ses[x].pago # Ninguno => ~MismaRef(s.datos, ses[x].datos)
        /\ \/ (RefUsada(s.datos) \/ \A p \in Pagos : ~Fresco(p)) /\ Terminar(w)
           \/ /\ ~RefUsada(s.datos)
              /\ \E p \in Primero({p \in Pagos : Fresco(p)}) :
                    Seguir(w, [s EXCEPT !.paso = "cobrar", !.pago = p])
        /\ UNCHANGED <<tablas, pref, perdidas, fallas>>

\* CreateCheckout: each call opens a new preference at Mercado Pago, or fails.
CreateCheckout(w) ==
    LET s == ses[w]
    IN  /\ s.paso = "cobrar"
        /\ \/ \E n \in Primero({n \in Prefs : pref[n].estado = "libre"}) :
                 /\ pref' = [pref EXCEPT ![n].estado = "abierta", ![n].pago = s.pago]
                 /\ Seguir(w, [s EXCEPT !.paso = "anotar", !.pref = n])
           \/ Terminar(w) /\ UNCHANGED pref
        /\ UNCHANGED <<tablas, perdidas, fallas>>

\* The sessions that hold the row of payment p.
Retienen(p) ==
    {x \in Sesiones : /\ ses[x].pago = p
                      /\ \/ ses[x].paso = "intento"
                         \/ ses[x].paso = "estado" /\ ses[x].acredita}

\* UpdateCobranzaMercadoPago takes the row of the payment.
Anotar(w) ==
    /\ ses[w].paso = "anotar"
    /\ Retienen(ses[w].pago) = {}
    /\ Seguir(w, [ses[w] EXCEPT !.paso = "intento"])
    /\ UNCHANGED <<tablas, pref, perdidas, fallas>>

\* Faulty: ON CONFLICT DO NOTHING.
IntentoPrimero(p, n) == IF intento[p].pref = Ninguno
                        THEN [pref |-> n, status |-> "created"] ELSE intento[p]

\* Faulty: a status that the CHECK does not admit.
IntentoNuevo(p, n) == [pref |-> n, status |-> "nuevo"]

\* CreatePspIntent: ON CONFLICT (payment) DO UPDATE, with its status.
Intento(p, n) == [pref |-> n, status |-> "created"]

\* CreatePspIntent and the commit; the answer carries the checkout URL.
ConfirmarAlta(w) ==
    LET s == ses[w]
        p == s.pago
    IN  /\ s.paso = "intento"
        /\ pago' = [pago EXCEPT ![p] =
                      IF s.nuevo THEN [estado |-> "pendiente_revision",
                                       datos |-> s.datos, pref |-> s.pref]
                      ELSE [@ EXCEPT !.pref = s.pref]]
        /\ intento' = [intento EXCEPT ![p] = Intento(p, s.pref)]
        /\ idem' = IF s.nuevo THEN [idem EXCEPT ![s.clave] = p] ELSE idem
        /\ pref' = [pref EXCEPT ![s.pref].estado = "mostrada"]
        /\ Terminar(w)
        /\ UNCHANGED <<perdidas, fallas>>

-----------------------------------------------------------------------------
(* Mercado Pago *)

\* The user pays a checkout whose URL he was given.
Pagar(n) ==
    /\ pref[n].estado = "mostrada"
    /\ pref' = [pref EXCEPT ![n].estado = "pagada"]
    /\ UNCHANGED <<tablas, ses, perdidas, fallas>>

\* POST /webhooks/mercado-pago.  Statuses come in any order, and an approval again
\* and again until it is answered 200.
RecibirWebhook(w, n, st) ==
    /\ ses[w].paso = "libre"
    /\ pref[n].estado \in {"mostrada", "pagada"}
    /\ st = "approved" => pref[n].estado = "pagada" /\ ~pref[n].avisada
    /\ Seguir(w, [SesionLibre EXCEPT !.paso = "buscar", !.pref = n, !.status = st])
    /\ UNCHANGED <<tablas, pref, perdidas, fallas>>

-----------------------------------------------------------------------------
(* The webhook *)

\* Answered 200: Mercado Pago does not deliver this approval again.
Responder(w, n) ==
    /\ pref' = IF ses[w].status = "approved" THEN [pref EXCEPT ![n].avisada = TRUE] ELSE pref
    /\ Terminar(w)

\* Faulty: only an intent that no webhook has touched is found.
PorPreferenciaNueva(n) == {p \in Pagos : intento[p].pref = n /\ intento[p].status = "created"}

\* find_psp_intent_by_preference_id
PorPreferencia(n) == {p \in Pagos : intento[p].pref = n}

\* A preference without an intent is answered 200, processed = false.
Buscar(w) ==
    LET s == ses[w]
    IN  /\ s.paso = "buscar"
        /\ \/ \E p \in PorPreferencia(s.pref) :
                 /\ Seguir(w, [s EXCEPT !.pago = p,
                                 !.paso = IF s.status = "approved" THEN "leer" ELSE "estado"])
                 /\ UNCHANGED <<pref, perdidas>>
           \/ /\ PorPreferencia(s.pref) = {}
              /\ Responder(w, s.pref)
              /\ perdidas' = IF s.status = "approved" THEN perdidas \cup {s.pref} ELSE perdidas
        /\ UNCHANGED <<tablas, fallas>>

\* Faulty: an estado that payments never have.
PorAcreditarOtro(e) == e = "pendiente"

\* Only a payment under review is credited by a webhook.
PorAcreditar(e) == e = "pendiente_revision"

\* GetCobranza.
Leer(w) ==
    LET s == ses[w]
    IN  /\ s.paso = "leer"
        /\ Seguir(w, [s EXCEPT !.paso = IF PorAcreditar(pago[s.pago].estado)
                                        THEN "acreditar" ELSE "estado"])
        /\ UNCHANGED <<tablas, pref, perdidas, fallas>>

\* AcreditarCobranza up to its UPDATE of the payment.  When another transaction
\* has credited it meanwhile, their allocations may clash (23505).
Acreditar(w) ==
    LET s == ses[w]
    IN  /\ s.paso = "acreditar"
        /\ Retienen(s.pago) = {}
        /\ \/ Seguir(w, [s EXCEPT !.paso = "estado", !.acredita = TRUE])
           \/ pago[s.pago].estado # "pendiente_revision" /\ Terminar(w)
        /\ UNCHANGED <<tablas, pref, perdidas, fallas>>

\* UpdatePspIntentStatus, by preference, and the commit: the intent may have got
\* another preference since it was found, and then no row is updated.  A status
\* outside the CHECK makes the request fail.
ConfirmarWebhook(w) ==
    LET s == ses[w]
        p == s.pago
        suyo == intento[p].pref = s.pref
    IN  /\ s.paso = "estado"
        /\ \/ /\ suyo => s.status \in Admitidos
              /\ pago' = IF s.acredita THEN [pago EXCEPT ![p].estado = "acreditado"] ELSE pago
              /\ intento' = IF suyo THEN [intento EXCEPT ![p].status = s.status] ELSE intento
              /\ Responder(w, s.pref)
           \/ /\ suyo /\ s.status \notin Admitidos
              /\ Terminar(w)
              /\ UNCHANGED <<pago, intento, pref>>
        /\ UNCHANGED <<idem, perdidas, fallas>>

-----------------------------------------------------------------------------
(* The rest *)

\* A treasurer credits or reverts the payment (module Cobranzas).
Tesoreria(p, e) ==
    /\ pago[p].estado # "inexistente"
    /\ Retienen(p) = {}
    /\ e \in {"acreditado", "revertido"}
    /\ pago' = [pago EXCEPT ![p].estado = e]
    /\ UNCHANGED <<idem, intento, pref, ses, perdidas, fallas>>

\* A cancelled request, an error of Mercado Pago, a crash: the tables are rolled
\* back, an open preference stays.
Abortar(w) ==
    /\ fallas < MaxFallas
    /\ ses[w].paso # "libre"
    /\ Terminar(w)
    /\ fallas' = fallas + 1
    /\ UNCHANGED <<tablas, pref, perdidas>>

Avanzar(w) ==
    \/ Sellar(w) \/ Insertar(w) \/ CreateCheckout(w) \/ Anotar(w) \/ ConfirmarAlta(w)
    \/ Buscar(w) \/ Leer(w) \/ Acreditar(w) \/ ConfirmarWebhook(w)

Next ==
    \/ \E w \in Sesiones, r \in Pedidos : RecibirAlta(w, r)
    \/ \E w \in Sesiones, n \in Prefs, st \in Avisos : RecibirWebhook(w, n, st)
    \/ \E w \in Sesiones : Avanzar(w) \/ Abortar(w)
    \/ \E n \in Prefs : Pagar(n)
    \/ \E p \in Pagos, e \in {"acreditado", "revertido"} : Tesoreria(p, e)

\* A request that was received is worked on; Mercado Pago does not give up an
\* approval before it is answered, and the server always takes one more request
\* (strong fairness: the bound on open sessions is the model's).
Spec ==
    /\ Init /\ [][Next]_vars
    /\ \A w \in Sesiones : WF_vars(Avanzar(w))
    /\ \A n \in Prefs : SF_vars(\E w \in Sesiones : RecibirWebhook(w, n, "approved"))

-----------------------------------------------------------------------------
(* Properties *)

\* The payment shows the checkout that its intent knows, though a retry with the
\* same key opens another one and may run beside a webhook or a second retry.
PagoConSuIntento == \A p \in Pagos : pago[p].pref = intento[p].pref

\* The approval of a checkout is lost (answered 200, processed = false) only when
\* a retry replaced that checkout: never for the one the payment shows.
PerdidaSoloReemplazada ==
    \A n \in perdidas : pago[pref[n].pago].pref # n

\* What was paid on the checkout that the payment shows is credited in the end,
\* with webhooks repeated, out of order and cut short (spec-2026-09-28: "si el
\* estado es approved, acredita la cobranza con el flujo de dominio existente").
PagadoSeAcredita ==
    \A n \in Prefs :
        pref[n].estado = "pagada" ~>
            \E p \in Pagos : /\ pref[n].pago = p
                             /\ \/ pago[p].estado \in {"acreditado", "revertido"}
                                \/ pago[p].pref # n
=============================================================================
