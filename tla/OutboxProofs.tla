----------------------------- MODULE OutboxProofs -----------------------------
(* The queue of events and the notices, for any number of comunicados,       *)
(* liquidaciones, requests, workers, users, crashes and database errors.     *)
(*                                                                           *)
(* A key is free until the request that stamped it commits, so it queues one *)
(* event.  An event that a worker holds is 'procesando' and is held by that  *)
(* worker alone; what its open transaction has inserted nobody else inserts, *)
(* and whoever was linked all along is still to be notified, or was.         *)
EXTENDS Outbox, SequenceTheorems, TLAPS

-----------------------------------------------------------------------------
(* The inductive invariant *)

\* A request that stamped its key is the only one, and the key is not taken yet.
SelloOK(s) ==
    /\ ses[s].paso # "libre" => ses[s].c \in Comunicados /\ ses[s].clave \in Claves
    /\ ses[s].paso \in {"leer", "escribir"} =>
         /\ idem[ses[s].clave] = Ninguno
         /\ \A x \in Sesiones \ {s} :
               ses[x].paso \in {"leer", "escribir"} => ses[x].clave # ses[s].clave

PubInv ==
    /\ ClaveEncolaUnaVez
    /\ \A s \in Sesiones : SelloOK(s)
    /\ \A e \in 1..Len(eventos) :
          eventos[e].clave # Ninguno => idem[eventos[e].clave] # Ninguno

\* What a worker has done of the event it works on.
TrabajoOK(w) ==
    IF wk[w].actual = 0
    THEN wk[w].nuevas = {}
    ELSE /\ wk[w].actual \in wk[w].lote
         /\ \A u \in wk[w].nuevas : avisos[Recurso(w)][u] = 0
         /\ \A u \in Estables : \/ u \in wk[w].dest \/ u \in wk[w].nuevas
                                \/ avisos[Recurso(w)][u] > 0

\* Two open transactions insert different notices.
NuevasDistintas ==
    \A w, x \in Workers :
        w # x /\ wk[w].actual # 0 /\ wk[x].actual # 0 /\ Recurso(w) = Recurso(x)
        => wk[w].nuevas \cap wk[x].nuevas = {}

FanInv ==
    /\ UnSoloDueno
    /\ AvisoUnico
    /\ FanOutAtomico
    /\ \A w \in Workers : TrabajoOK(w)
    /\ NuevasDistintas

OInv == TypeOK /\ PubInv /\ FanInv

-----------------------------------------------------------------------------
(* Events and workers as data *)

\* A new event comes last and leaves the rest alone.
LEMMA AgregarEvento ==
  ASSUME eventos \in Seq(Evento), NEW x \in Evento, eventos' = Append(eventos, x)
  PROVE  /\ eventos' \in Seq(Evento) /\ Len(eventos) \in Nat /\ Len(eventos') = Len(eventos) + 1
         /\ eventos'[Len(eventos')] = x
         /\ \A e \in 1..Len(eventos) : e \in 1..Len(eventos') /\ eventos'[e] = eventos[e]
         /\ \A e \in 1..Len(eventos') : e \in 1..Len(eventos) \/ e = Len(eventos')
  <1> HIDE DEF Evento
  <1> QED OBVIOUS

LEMMA EventoTipo ==
  \A r \in Recursos, k \in Claves \cup {Ninguno} :
     /\ EventoNuevo(r, k) \in Evento /\ EventoNuevo(r, k).recurso = r
     /\ EventoNuevo(r, k).clave = k /\ EventoNuevo(r, k).estado = "pendiente"
  BY DEF EventoNuevo, Evento, MaxIntentos

\* An event changes of estado and keeps what it is about.
LEMMA CambiarEvento ==
  ASSUME eventos \in Seq(Evento), NEW e \in 1..Len(eventos),
         NEW q \in {"procesado", "fallido"}, eventos' = [eventos EXCEPT ![e].estado = q]
  PROVE  /\ eventos' \in Seq(Evento) /\ Len(eventos') = Len(eventos)
         /\ eventos'[e].estado = q
         /\ \A d \in 1..Len(eventos) : /\ eventos'[d].recurso = eventos[d].recurso
                                       /\ eventos'[d].clave = eventos[d].clave
                                       /\ d # e => eventos'[d] = eventos[d]
<1>1. \A x \in Evento : /\ [x EXCEPT !.estado = q] \in Evento
                        /\ [x EXCEPT !.estado = q].estado = q
                        /\ [x EXCEPT !.estado = q].recurso = x.recurso
                        /\ [x EXCEPT !.estado = q].clave = x.clave
  BY DEF Evento
<1> HIDE DEF Evento
<1>2. eventos[e] \in Evento /\ eventos' = [eventos EXCEPT ![e] = [eventos[e] EXCEPT !.estado = q]]
  OBVIOUS
<1>3. PICK y : y = [eventos[e] EXCEPT !.estado = q]
  OBVIOUS
<1>4. /\ y \in Evento /\ y.estado = q /\ y.recurso = eventos[e].recurso
      /\ y.clave = eventos[e].clave /\ eventos' = [eventos EXCEPT ![e] = y]
  BY <1>1, <1>2, <1>3
<1>5. eventos' \in Seq(Evento) /\ Len(eventos') = Len(eventos)
  BY <1>4
<1>6. eventos'[e] = y /\ \A d \in 1..Len(eventos) : d # e => eventos'[d] = eventos[d]
  BY <1>4
<1> QED BY <1>4, <1>5, <1>6

\* A function on 1..n is a sequence of length n.
LEMMA FuncionSeq ==
  ASSUME NEW S, NEW n \in Nat, NEW f \in [1..n -> S]
  PROVE  f \in Seq(S) /\ Len(f) = n
  OBVIOUS

\* The claim counts one attempt more of an event.
LEMMA ReclamarUno ==
  ASSUME NEW x \in Evento, x.intentos < MaxIntentos
  PROVE  LET y == [x EXCEPT !.estado = "procesando", !.intentos = @ + 1]
         IN  /\ y \in Evento /\ y.recurso = x.recurso /\ y.clave = x.clave
             /\ y.estado = "procesando"
<1>1. x.intentos + 1 \in 0..3 /\ MaxIntentos = 3
  BY DEF Evento, MaxIntentos
<1> QED BY <1>1 DEF Evento

\* It does so of each event of the batch.
LEMMA ReclamarEventos ==
  ASSUME eventos \in Seq(Evento), NEW lote \in SUBSET Reclamables
  PROVE  eventos' = [e \in 1..Len(eventos) |->
                       IF e \in lote
                       THEN [eventos[e] EXCEPT !.estado = "procesando", !.intentos = @ + 1]
                       ELSE eventos[e]]
         => /\ eventos' \in Seq(Evento) /\ Len(eventos') = Len(eventos)
            /\ \A d \in 1..Len(eventos) :
                  /\ eventos'[d].recurso = eventos[d].recurso
                  /\ eventos'[d].clave = eventos[d].clave
                  /\ IF d \in lote THEN eventos'[d].estado = "procesando"
                                   ELSE eventos'[d] = eventos[d]
<1> DEFINE F == [e \in 1..Len(eventos) |->
                   IF e \in lote
                   THEN [eventos[e] EXCEPT !.estado = "procesando", !.intentos = @ + 1]
                   ELSE eventos[e]]
<1>1. Len(eventos) \in Nat /\ \A d \in 1..Len(eventos) : eventos[d] \in Evento
  BY ElementOfSeq, LenProperties
<1>2. ASSUME NEW d \in 1..Len(eventos)
      PROVE  /\ F[d] \in Evento
             /\ F[d].recurso = eventos[d].recurso
             /\ F[d].clave = eventos[d].clave
             /\ IF d \in lote THEN F[d].estado = "procesando" ELSE F[d] = eventos[d]
  <2>1. CASE d \in lote
    <3>1. eventos[d].intentos < MaxIntentos
      BY <2>1 DEF Reclamables, Reclamable
    <3>2. F[d] = [eventos[d] EXCEPT !.estado = "procesando", !.intentos = @ + 1]
      BY <2>1
    <3> HIDE DEF F
    <3> QED BY <1>1, <2>1, <3>1, <3>2, ReclamarUno
  <2>2. CASE d \notin lote
    <3>1. F[d] = eventos[d]
      BY <2>2
    <3> HIDE DEF F
    <3> QED BY <1>1, <2>2, <3>1
  <2> QED BY <2>1, <2>2
<1>3. F = [d \in 1..Len(eventos) |-> F[d]]
  OBVIOUS
<1> HIDE DEF F
<1>4. F \in [1..Len(eventos) -> Evento]
  BY <1>2, <1>3
<1>5. F \in Seq(Evento) /\ Len(F) = Len(eventos)
  BY <1>1, <1>4, FuncionSeq
<1>6. eventos' = F => /\ eventos' \in Seq(Evento) /\ Len(eventos') = Len(eventos)
                      /\ \A d \in 1..Len(eventos) :
                            /\ eventos'[d].recurso = eventos[d].recurso
                            /\ eventos'[d].clave = eventos[d].clave
                            /\ IF d \in lote THEN eventos'[d].estado = "procesando"
                                             ELSE eventos'[d] = eventos[d]
  BY <1>2, <1>5
<1> QED BY <1>6 DEF F

\* The fields of a worker.
LEMMA CamposWorker ==
  \A x \in Worker :
     /\ x.lote \subseteq 1..Len(eventos) /\ x.actual \in 0..Len(eventos)
     /\ x.dest \subseteq Usuarios /\ x.nuevas \subseteq Usuarios
     /\ \A b \in SUBSET (1..Len(eventos)) :
           LET y == [x EXCEPT !.lote = b]
           IN  y \in Worker /\ y.lote = b /\ y.actual = x.actual /\ y.nuevas = x.nuevas
     /\ \A e \in 0..Len(eventos), d \in SUBSET Usuarios :
           LET y == [x EXCEPT !.actual = e, !.dest = d]
           IN  /\ y \in Worker /\ y.lote = x.lote /\ y.actual = e /\ y.dest = d
               /\ y.nuevas = x.nuevas
     /\ \A d, n \in SUBSET Usuarios :
           LET y == [x EXCEPT !.dest = d, !.nuevas = n]
           IN  /\ y \in Worker /\ y.lote = x.lote /\ y.actual = x.actual /\ y.dest = d
               /\ y.nuevas = n
  BY DEF Worker

LEMMA OciosoTipo ==
  ASSUME Len(eventos) \in Nat
  PROVE  /\ Ocioso \in Worker /\ Ocioso.lote = {} /\ Ocioso.actual = 0 /\ Ocioso.nuevas = {}
         /\ \A b \in SUBSET (1..Len(eventos)) :
               LET y == [Ocioso EXCEPT !.lote = b]
               IN  y \in Worker /\ y.lote = b /\ y.actual = 0 /\ y.nuevas = {}
  BY DEF Ocioso, Worker

-----------------------------------------------------------------------------
(* Steps of a worker *)

\* The notices and the events that worker w leaves behind when its record becomes s:
\* an event it holds or claims is in no other hands, an event it finishes has
\* reached everyone, and the only notices that appear are those it had inserted.
LEMMA PasoTrabajo ==
  ASSUME TypeOK, FanInv, PubInv, NEW w \in Workers, NEW s \in Worker,
         wk' = [wk EXCEPT ![w] = s], UNCHANGED publicacion,
         Len(eventos') = Len(eventos),
         \A d \in 1..Len(eventos) :
            /\ eventos'[d].recurso = eventos[d].recurso
            /\ d \notin wk[w].lote \cup s.lote => eventos'[d] = eventos[d]
            /\ d \in s.lote => /\ eventos'[d].estado = "procesando"
                               /\ d \in wk[w].lote \/ eventos[d].estado # "procesando"
            /\ eventos[d].estado = "procesado" => eventos'[d].estado = "procesado"
            /\ eventos'[d].estado = "procesado" =>
                 \/ eventos[d].estado = "procesado"
                 \/ \A u \in Estables : avisos'[eventos[d].recurso][u] > 0,
         avisos' \in [Recursos -> [Usuarios -> Nat]],
         \A r \in Recursos, u \in Usuarios :
            \/ avisos'[r][u] = avisos[r][u]
            \/ /\ wk[w].actual # 0 /\ r = Recurso(w) /\ u \in wk[w].nuevas
               /\ avisos[r][u] = 0 /\ avisos'[r][u] = 1
               /\ eventos'[wk[w].actual].estado = "procesado",
         s.actual = 0 => s.nuevas = {},
         s.actual # 0 =>
            /\ s.actual \in s.lote /\ UNCHANGED avisos
            /\ \A u \in s.nuevas : avisos[eventos[s.actual].recurso][u] = 0
            /\ \A u \in Estables : \/ u \in s.dest \/ u \in s.nuevas
                                   \/ avisos[eventos[s.actual].recurso][u] > 0
            /\ \A x \in Workers \ {w} :
                  wk[x].actual # 0 /\ Recurso(x) = eventos[s.actual].recurso
                  => s.nuevas \cap wk[x].nuevas = {}
  PROVE  FanInv'
<1>1. /\ eventos \in Seq(Evento) /\ Len(eventos) \in Nat
      /\ \A d \in 1..Len(eventos) : eventos[d].recurso \in Recursos
  <2>1. eventos \in Seq(Evento)
    BY DEF TypeOK
  <2>2. \A d \in 1..Len(eventos) : eventos[d] \in Evento
    BY <2>1, ElementOfSeq
  <2>3. \A e \in Evento : e.recurso \in Recursos
    BY DEF Evento
  <2> QED BY <2>1, <2>2, <2>3, LenProperties
<1>2. /\ \A x \in Workers : /\ wk[x].lote \subseteq 1..Len(eventos)
                            /\ wk[x].actual \in 0..Len(eventos)
                            /\ wk[x].nuevas \subseteq Usuarios
      /\ s.lote \subseteq 1..Len(eventos) /\ s.nuevas \subseteq Usuarios
      /\ wk'[w] = s /\ \A x \in Workers \ {w} : wk'[x] = wk[x]
      /\ Estables \subseteq Usuarios
  <2>1. wk \in [Workers -> Worker]
    BY DEF TypeOK
  <2>2. wk'[w] = s /\ \A x \in Workers \ {w} : wk'[x] = wk[x]
    BY <2>1
  <2>3. \A x \in Worker : x.lote \subseteq 1..Len(eventos) /\ x.actual \in 0..Len(eventos)
                        /\ x.nuevas \subseteq Usuarios
    BY CamposWorker
  <2> QED BY <2>1, <2>2, <2>3, RecursosAssumption
<1>3. UnSoloDueno'
  <2>1. ASSUME NEW x \in Workers, NEW e \in wk'[x].lote
        PROVE  /\ e \in 1..Len(eventos) /\ eventos'[e].estado = "procesando"
               /\ \A y \in Workers \ {x} : e \notin wk'[y].lote
    <3>1. CASE x = w
      <4>1. e \in s.lote /\ e \in 1..Len(eventos)
        BY <1>2, <2>1, <3>1
      <4>2. eventos'[e].estado = "procesando"
        BY <4>1
      <4>3. \A y \in Workers \ {x} : e \notin wk[y].lote
        BY <3>1, <4>1 DEF FanInv, UnSoloDueno
      <4> QED BY <1>2, <3>1, <4>1, <4>2, <4>3
    <3>2. CASE x # w
      <4>1. e \in wk[x].lote /\ e \in 1..Len(eventos) /\ eventos[e].estado = "procesando"
        BY <1>2, <2>1, <3>2 DEF FanInv, UnSoloDueno
      <4>2. e \notin wk[w].lote
        BY <3>2, <4>1 DEF FanInv, UnSoloDueno
      <4>3. e \notin s.lote
        BY <4>1, <4>2
      <4>4. eventos'[e] = eventos[e]
        BY <4>1, <4>2, <4>3
      <4>5. \A y \in Workers \ {x} : e \notin wk'[y].lote
        BY <1>2, <4>1, <4>3 DEF FanInv, UnSoloDueno
      <4> QED BY <4>1, <4>4, <4>5
    <3> QED BY <3>1, <3>2
  <2> QED BY <2>1 DEF UnSoloDueno
<1>4. AvisoUnico'
  <2> SUFFICES ASSUME NEW r \in Recursos, NEW u \in Usuarios PROVE avisos'[r][u] <= 1
    BY DEF AvisoUnico
  <2>1. avisos[r][u] <= 1
    BY DEF FanInv, AvisoUnico
  <2> QED BY <2>1
<1>5. FanOutAtomico'
  <2>1. ASSUME NEW r \in Recursos, NEW u \in Usuarios, avisos'[r][u] > 0
        PROVE  /\ publicacion[r] = "publicado"
               /\ \E e \in 1..Len(eventos) :
                     eventos'[e].recurso = r /\ eventos'[e].estado = "procesado"
    <3>1. CASE avisos'[r][u] = avisos[r][u]
      <4>1. /\ publicacion[r] = "publicado"
            /\ \E e \in 1..Len(eventos) :
                  eventos[e].recurso = r /\ eventos[e].estado = "procesado"
        BY <2>1, <3>1 DEF FanInv, FanOutAtomico
      <4> QED BY <4>1
    <3>2. CASE avisos'[r][u] # avisos[r][u]
      <4>1. /\ wk[w].actual # 0 /\ r = eventos[wk[w].actual].recurso
            /\ eventos'[wk[w].actual].estado = "procesado"
        BY <3>2 DEF Recurso
      <4>2. wk[w].actual \in 1..Len(eventos)
        BY <1>1, <1>2, <4>1
      <4>3. publicacion[r] = "publicado"
        BY <4>1, <4>2 DEF PubInv, ClaveEncolaUnaVez
      <4> QED BY <4>1, <4>2, <4>3
    <3> QED BY <3>1, <3>2
  <2>2. ASSUME NEW e \in 1..Len(eventos), eventos'[e].estado = "procesado", NEW u \in Estables
        PROVE  avisos'[eventos'[e].recurso][u] > 0
    <3>1. eventos'[e].recurso = eventos[e].recurso /\ eventos[e].recurso \in Recursos
          /\ u \in Usuarios
      BY <1>1, <1>2
    <3>2. CASE eventos[e].estado = "procesado"
      <4>1. avisos[eventos[e].recurso][u] > 0
        BY <3>2 DEF FanInv, FanOutAtomico
      <4> QED BY <3>1, <4>1
    <3>3. CASE eventos[e].estado # "procesado"
      BY <2>2, <3>1, <3>3
    <3> QED BY <3>2, <3>3
  <2> QED BY <2>1, <2>2 DEF FanOutAtomico
<1>6. ASSUME NEW x \in Workers \ {w}, wk[x].actual # 0
      PROVE  /\ wk'[x] = wk[x] /\ wk[x].actual \in wk[x].lote
             /\ eventos'[wk[x].actual].recurso = Recurso(x) /\ Recurso(x) \in Recursos
             /\ \A u \in wk[x].nuevas : u \in Usuarios /\ avisos'[Recurso(x)][u] = 0
             /\ \A u \in Estables : \/ u \in wk[x].dest \/ u \in wk[x].nuevas
                                    \/ avisos'[Recurso(x)][u] > 0
  <2>1. /\ wk[x].actual \in wk[x].lote /\ wk[x].actual \in 1..Len(eventos)
        /\ \A u \in wk[x].nuevas : avisos[Recurso(x)][u] = 0
        /\ \A u \in Estables : \/ u \in wk[x].dest \/ u \in wk[x].nuevas
                               \/ avisos[Recurso(x)][u] > 0
    BY <1>2, <1>6 DEF FanInv, TrabajoOK
  <2>2. eventos'[wk[x].actual].recurso = Recurso(x) /\ Recurso(x) \in Recursos
    BY <1>1, <2>1 DEF Recurso
  <2>3. ASSUME NEW u \in wk[x].nuevas PROVE u \in Usuarios /\ avisos'[Recurso(x)][u] = 0
    <3>1. wk[w].actual # 0 /\ Recurso(x) = Recurso(w) => u \notin wk[w].nuevas
      BY <1>6, <2>3 DEF FanInv, NuevasDistintas
    <3>2. u \in Usuarios /\ avisos[Recurso(x)][u] = 0 /\ Recurso(x) \in Recursos
      BY <1>2, <2>1, <2>2, <2>3
    <3>3. PICK r : r = Recurso(x)
      OBVIOUS
    <3>4. avisos'[r][u] = avisos[r][u]
      BY <3>1, <3>2, <3>3
    <3> QED BY <3>2, <3>3, <3>4
  <2>4. \A u \in Estables : avisos[Recurso(x)][u] > 0 => avisos'[Recurso(x)][u] > 0
    BY <1>2, <2>2
  <2> QED BY <1>2, <2>1, <2>2, <2>3, <2>4
<1>7. \A x \in Workers : TrabajoOK(x)'
  <2>1. TrabajoOK(w)'
    BY <1>2 DEF TrabajoOK, Recurso
  <2>2. ASSUME NEW x \in Workers \ {w} PROVE TrabajoOK(x)'
    <3>1. CASE wk[x].actual = 0
      BY <1>2, <3>1 DEF FanInv, TrabajoOK
    <3>2. CASE wk[x].actual # 0
      BY <1>6, <3>2 DEF TrabajoOK, Recurso
    <3> QED BY <3>1, <3>2
  <2> QED BY <2>1, <2>2
<1>8. NuevasDistintas'
  <2>1. ASSUME s.actual # 0 PROVE eventos'[s.actual].recurso = eventos[s.actual].recurso
    BY <1>2, <2>1
  <2>2. ASSUME NEW x \in Workers \ {w}, s.actual # 0, wk[x].actual # 0,
               eventos'[s.actual].recurso = eventos'[wk[x].actual].recurso
        PROVE  s.nuevas \cap wk[x].nuevas = {}
    BY <1>6, <2>1, <2>2
  <2>3. ASSUME NEW x \in Workers \ {w}, NEW y \in Workers \ {w}, x # y,
               wk[x].actual # 0, wk[y].actual # 0,
               eventos'[wk[x].actual].recurso = eventos'[wk[y].actual].recurso
        PROVE  wk[x].nuevas \cap wk[y].nuevas = {}
    BY <1>6, <2>3 DEF FanInv, NuevasDistintas
  <2> QED BY <1>2, <2>2, <2>3 DEF NuevasDistintas, Recurso
<1> QED BY <1>3, <1>4, <1>5, <1>7, <1>8 DEF FanInv

-----------------------------------------------------------------------------
(* Steps of a publication *)

\* A step that leaves events, notices and workers alone.
LEMMA SinTrabajo ==
  ASSUME FanInv, UNCHANGED <<eventos, avisos, wk>>,
         \A r \in Recursos : publicacion[r] = "publicado" => publicacion'[r] = "publicado"
  PROVE  FanInv'
<1>1. UnSoloDueno' /\ AvisoUnico' /\ FanOutAtomico'
  BY DEF FanInv, UnSoloDueno, AvisoUnico, FanOutAtomico
<1>2. (\A w \in Workers : TrabajoOK(w)') /\ NuevasDistintas'
  BY DEF FanInv, TrabajoOK, NuevasDistintas, Recurso
<1> QED BY <1>1, <1>2 DEF FanInv

\* An event is queued, which no worker holds.
LEMMA Encolar ==
  ASSUME TypeOK, FanInv, NEW r \in Recursos, NEW k \in Claves \cup {Ninguno},
         eventos' = Append(eventos, EventoNuevo(r, k)),
         publicacion' = [publicacion EXCEPT ![r] = "publicado"],
         UNCHANGED <<avisos, wk>>
  PROVE  /\ FanInv' /\ eventos' \in Seq(Evento) /\ wk' \in [Workers -> Worker']
         /\ publicacion' \in [Recursos -> {"inexistente", "borrador", "publicado"}]
<1>1. PICK x : x = EventoNuevo(r, k)
  OBVIOUS
<1>2. x \in Evento /\ x.recurso = r /\ x.clave = k /\ x.estado = "pendiente"
  BY <1>1, EventoTipo
<1>3. eventos \in Seq(Evento) /\ wk \in [Workers -> Worker]
  BY DEF TypeOK
<1>4. /\ eventos' \in Seq(Evento) /\ Len(eventos) \in Nat /\ Len(eventos') = Len(eventos) + 1
      /\ eventos'[Len(eventos')] = x
      /\ \A e \in 1..Len(eventos) : e \in 1..Len(eventos') /\ eventos'[e] = eventos[e]
      /\ \A e \in 1..Len(eventos') : e \in 1..Len(eventos) \/ e = Len(eventos')
  BY <1>1, <1>2, <1>3, AgregarEvento
<1>5. /\ publicacion' \in [Recursos -> {"inexistente", "borrador", "publicado"}]
      /\ \A c \in Recursos : publicacion[c] = "publicado" => publicacion'[c] = "publicado"
  BY DEF TypeOK
<1>6. wk' \in [Workers -> Worker']
  <2>1. \A y \in Worker : y \in Worker'
    <3>1. 1..Len(eventos) \subseteq 1..Len(eventos') /\ 0..Len(eventos) \subseteq 0..Len(eventos')
      BY <1>4
    <3> QED BY <3>1 DEF Worker
  <2> QED BY <1>3, <2>1
<1>7. \A w \in Workers : /\ wk[w].lote \subseteq 1..Len(eventos)
                         /\ wk[w].actual \in 0..Len(eventos)
  <2>1. \A y \in Worker : y.lote \subseteq 1..Len(eventos) /\ y.actual \in 0..Len(eventos)
    BY CamposWorker
  <2> QED BY <1>3, <2>1
<1>8. UnSoloDueno' /\ AvisoUnico'
  BY <1>4, <1>7 DEF FanInv, UnSoloDueno, AvisoUnico
<1>9. FanOutAtomico'
  <2>1. ASSUME NEW c \in Recursos, NEW u \in Usuarios, avisos[c][u] > 0
        PROVE  /\ publicacion'[c] = "publicado"
               /\ \E e \in 1..Len(eventos') :
                     eventos'[e].recurso = c /\ eventos'[e].estado = "procesado"
    <3>1. /\ publicacion[c] = "publicado"
          /\ \E e \in 1..Len(eventos) :
                eventos[e].recurso = c /\ eventos[e].estado = "procesado"
      BY <2>1 DEF FanInv, FanOutAtomico
    <3> QED BY <1>4, <1>5, <3>1
  <2>2. ASSUME NEW e \in 1..Len(eventos'), eventos'[e].estado = "procesado", NEW u \in Estables
        PROVE  avisos[eventos'[e].recurso][u] > 0
    <3>1. e \in 1..Len(eventos) /\ eventos'[e] = eventos[e]
      BY <1>2, <1>4, <2>2
    <3> QED BY <2>2, <3>1 DEF FanInv, FanOutAtomico
  <2> QED BY <2>1, <2>2 DEF FanOutAtomico
<1>10. \A w \in Workers : wk[w].actual # 0 => eventos'[wk[w].actual] = eventos[wk[w].actual]
  BY <1>4, <1>7
<1>11. ASSUME NEW w \in Workers PROVE TrabajoOK(w)'
  <2>1. CASE wk[w].actual = 0
    BY <2>1 DEF FanInv, TrabajoOK
  <2>2. CASE wk[w].actual # 0
    <3>1. Recurso(w)' = Recurso(w)
      BY <1>10, <2>2 DEF Recurso
    <3> QED BY <2>2, <3>1 DEF FanInv, TrabajoOK
  <2> QED BY <2>1, <2>2
<1>12. NuevasDistintas'
  BY <1>10 DEF FanInv, NuevasDistintas, Recurso
<1> QED BY <1>4, <1>5, <1>6, <1>8, <1>9, <1>11, <1>12 DEF FanInv

\* The commit of a publication that was not read as published: its key was free.
LEMMA EncolarConClave ==
  ASSUME TypeOK, PubInv, NEW s \in Sesiones, ses[s].paso = "escribir",
         publicacion' = [publicacion EXCEPT ![ses[s].c] = "publicado"],
         eventos' = Append(eventos, EventoNuevo(ses[s].c, ses[s].clave)),
         idem' = [idem EXCEPT ![ses[s].clave] = ses[s].c],
         ses' = [ses EXCEPT ![s] = SesionLibre]
  PROVE  PubInv'
<1>1. PICK c, k : c = ses[s].c /\ k = ses[s].clave
  OBVIOUS
<1>2. /\ c \in Comunicados /\ k \in Claves /\ c \in Recursos /\ c # Ninguno
      /\ idem[k] = Ninguno /\ k # Ninguno
      /\ \A x \in Sesiones \ {s} : ses[x].paso \in {"leer", "escribir"} => ses[x].clave # k
  BY <1>1, NingunoAssumption DEF PubInv, SelloOK, Recursos
<1>3. /\ idem'[k] = c /\ \A j \in Claves : j # k => idem'[j] = idem[j]
      /\ publicacion'[c] = "publicado"
      /\ \A r \in Recursos : publicacion[r] = "publicado" => publicacion'[r] = "publicado"
      /\ ses'[s].paso = "libre" /\ \A x \in Sesiones \ {s} : ses'[x] = ses[x]
  BY <1>1, <1>2 DEF TypeOK, SesionLibre
<1>4. PICK y : y = EventoNuevo(c, k)
  OBVIOUS
<1>5. y \in Evento /\ y.recurso = c /\ y.clave = k
  BY <1>2, <1>4, EventoTipo
<1>6. /\ Len(eventos) \in Nat /\ Len(eventos') = Len(eventos) + 1
      /\ eventos'[Len(eventos')] = y
      /\ \A e \in 1..Len(eventos) : e \in 1..Len(eventos') /\ eventos'[e] = eventos[e]
      /\ \A e \in 1..Len(eventos') : e \in 1..Len(eventos) \/ e = Len(eventos')
  BY <1>1, <1>4, <1>5, AgregarEvento DEF TypeOK
<1>7. \A e \in 1..Len(eventos) : /\ eventos[e].clave # k
                                /\ eventos[e].clave \in Claves \cup {Ninguno}
                                /\ eventos[e].recurso \in Recursos
  <2>1. \A e \in 1..Len(eventos) : eventos[e] \in Evento
    BY ElementOfSeq DEF TypeOK
  <2>2. \A e \in Evento : e.clave \in Claves \cup {Ninguno} /\ e.recurso \in Recursos
    BY DEF Evento
  <2> QED BY <1>2, <2>1, <2>2 DEF PubInv
<1>8. ClaveEncolaUnaVez'
  <2>1. ASSUME NEW d \in 1..Len(eventos'), NEW e \in 1..Len(eventos'),
               eventos'[d].clave # Ninguno, eventos'[d].clave = eventos'[e].clave
        PROVE  d = e
    <3>1. CASE d \in 1..Len(eventos) /\ e \in 1..Len(eventos)
      BY <1>6, <2>1, <3>1 DEF PubInv, ClaveEncolaUnaVez
    <3>2. CASE d = Len(eventos') \/ e = Len(eventos')
      BY <1>5, <1>6, <1>7, <2>1, <3>2
    <3> QED BY <1>6, <3>1, <3>2
  <2>2. ASSUME NEW e \in 1..Len(eventos') PROVE publicacion'[eventos'[e].recurso] = "publicado"
    <3>1. CASE e \in 1..Len(eventos)
      BY <1>3, <1>6, <1>7, <3>1 DEF PubInv, ClaveEncolaUnaVez
    <3>2. CASE e = Len(eventos')
      BY <1>3, <1>5, <1>6, <3>2
    <3> QED BY <1>6, <3>1, <3>2
  <2> QED BY <2>1, <2>2 DEF ClaveEncolaUnaVez
<1>9. ASSUME NEW x \in Sesiones PROVE SelloOK(x)'
  BY <1>2, <1>3 DEF PubInv, SelloOK
<1>10. ASSUME NEW e \in 1..Len(eventos'), eventos'[e].clave # Ninguno
       PROVE  idem'[eventos'[e].clave] # Ninguno
  <2>1. CASE e \in 1..Len(eventos)
    BY <1>3, <1>6, <1>7, <1>10, <2>1 DEF PubInv
  <2>2. CASE e = Len(eventos')
    BY <1>2, <1>3, <1>5, <1>6, <2>2
  <2> QED BY <1>6, <2>1, <2>2
<1> QED BY <1>8, <1>9, <1>10 DEF PubInv

\* The rest of a publication: rows of ses, and a key that is already known.
LEMMA SinEncolar ==
  ASSUME PubInv, UNCHANGED <<eventos, idem>>, NEW s \in Sesiones, NEW x,
         ses = [y \in Sesiones |-> ses[y]], ses' = [ses EXCEPT ![s] = x],
         x.paso # "libre" => x.c \in Comunicados /\ x.clave \in Claves,
         x.paso \in {"leer", "escribir"} =>
            /\ idem[x.clave] = Ninguno
            /\ \A y \in Sesiones \ {s} :
                  ses[y].paso \in {"leer", "escribir"} => ses[y].clave # x.clave,
         \A r \in Recursos : publicacion[r] = "publicado" => publicacion'[r] = "publicado",
         eventos \in Seq(Evento)
  PROVE  PubInv'
<1>1. ses'[s] = x /\ \A y \in Sesiones \ {s} : ses'[y] = ses[y]
  OBVIOUS
<1>2. ASSUME NEW y \in Sesiones PROVE SelloOK(y)'
  BY <1>1 DEF PubInv, SelloOK
<1>3. \A e \in 1..Len(eventos) : eventos[e].recurso \in Recursos
  <2>1. \A e \in 1..Len(eventos) : eventos[e] \in Evento
    BY ElementOfSeq
  <2> QED BY <2>1 DEF Evento
<1>4. ClaveEncolaUnaVez'
  BY <1>3 DEF PubInv, ClaveEncolaUnaVez
<1> QED BY <1>2, <1>4 DEF PubInv

\* A worker publishes nothing.
LEMMA TrabajoSinPublicar ==
  ASSUME PubInv, UNCHANGED <<publicacion, idem, ses>>, Len(eventos') = Len(eventos),
         \A d \in 1..Len(eventos) : /\ eventos'[d].recurso = eventos[d].recurso
                                   /\ eventos'[d].clave = eventos[d].clave
  PROVE  PubInv'
<1>1. \A s \in Sesiones : SelloOK(s)'
  BY DEF PubInv, SelloOK
<1>2. ClaveEncolaUnaVez'
  BY DEF PubInv, ClaveEncolaUnaVez
<1> QED BY <1>1, <1>2 DEF PubInv

\* The parts of OInv that a step of a worker needs.
LEMMA Partes ==
  ASSUME OInv
  PROVE  /\ TypeOK /\ PubInv /\ FanInv /\ eventos \in Seq(Evento) /\ Len(eventos) \in Nat
         /\ wk \in [Workers -> Worker] /\ avisos \in [Recursos -> [Usuarios -> Nat]]
         /\ \A w \in Workers : wk[w] \in Worker /\ TrabajoOK(w)
         /\ \A w \in Workers : \A e \in wk[w].lote :
               e \in 1..Len(eventos) /\ eventos[e].estado = "procesando"
         /\ \A e \in 1..Len(eventos) : eventos[e].recurso \in Recursos
<1>1. TypeOK /\ PubInv /\ FanInv
  BY DEF OInv
<1>2. eventos \in Seq(Evento) /\ wk \in [Workers -> Worker]
      /\ avisos \in [Recursos -> [Usuarios -> Nat]]
  BY <1>1 DEF TypeOK
<1>3. Len(eventos) \in Nat /\ \A e \in 1..Len(eventos) : eventos[e] \in Evento
  BY <1>2, ElementOfSeq, LenProperties
<1>4. \A e \in Evento : e.recurso \in Recursos
  BY DEF Evento
<1>5. \A w \in Workers : wk[w] \in Worker /\ TrabajoOK(w)
  BY <1>1, <1>2 DEF FanInv
<1>6. \A w \in Workers : \A e \in wk[w].lote :
         e \in 1..Len(eventos) /\ eventos[e].estado = "procesando"
  BY <1>1, <1>5, CamposWorker DEF FanInv, UnSoloDueno
<1> QED BY <1>1, <1>2, <1>3, <1>4, <1>5, <1>6

\* What is left to show of a worker's step, once PasoTrabajo applies.
LEMMA TrabajoTipo ==
  ASSUME OInv, NEW w \in Workers, NEW s \in Worker, wk' = [wk EXCEPT ![w] = s],
         UNCHANGED <<publicacion, idem, ses, vinculados>>,
         eventos' \in Seq(Evento), Len(eventos') = Len(eventos),
         \A d \in 1..Len(eventos) : /\ eventos'[d].recurso = eventos[d].recurso
                                   /\ eventos'[d].clave = eventos[d].clave,
         avisos' \in [Recursos -> [Usuarios -> Nat]], fallas' \in 0..MaxFallas,
         FanInv'
  PROVE  OInv'
<1>1. Worker' = Worker
  BY DEF Worker
<1>2. wk' \in [Workers -> Worker]
  BY Partes
<1>3. TypeOK'
  BY <1>1, <1>2, Partes DEF TypeOK
<1>4. PubInv'
  BY Partes, TrabajoSinPublicar
<1> QED BY <1>3, <1>4 DEF OInv

-----------------------------------------------------------------------------
(* The actions of a worker *)

\* The worker leaves event e without a trace: an error before or in its transaction.
LEMMA SoltarInv ==
  ASSUME OInv, NEW w \in Workers, NEW s \in Worker, wk' = [wk EXCEPT ![w] = s],
         s.lote \subseteq wk[w].lote, s.actual = 0, s.nuevas = {},
         UNCHANGED <<publicacion, idem, ses, vinculados, eventos, avisos>>,
         fallas' \in 0..MaxFallas
  PROVE  OInv'
<1>1. FanInv'
  BY Partes, PasoTrabajo
<1> QED BY <1>1, Partes, TrabajoTipo

LEMMA ReclamarInv ==
  ASSUME OInv, NEW w \in Workers, Reclamar(w)
  PROVE  OInv'
<1>1. PICK lote \in SUBSET Reclamables :
         /\ wk' = [wk EXCEPT ![w].lote = lote]
         /\ eventos' = [e \in 1..Len(eventos) |->
                          IF e \in lote
                          THEN [eventos[e] EXCEPT !.estado = "procesando", !.intentos = @ + 1]
                          ELSE eventos[e]]
  BY DEF Reclamar
<1>2. /\ eventos' \in Seq(Evento) /\ Len(eventos') = Len(eventos)
      /\ \A d \in 1..Len(eventos) :
            /\ eventos'[d].recurso = eventos[d].recurso
            /\ eventos'[d].clave = eventos[d].clave
            /\ IF d \in lote THEN eventos'[d].estado = "procesando"
                             ELSE eventos'[d] = eventos[d]
  BY <1>1, Partes, ReclamarEventos
<1>3. /\ wk[w] = Ocioso /\ UNCHANGED <<publicacion, idem, ses, vinculados, avisos, fallas>>
      /\ lote \subseteq 1..Len(eventos)
      /\ \A e \in lote : eventos[e].estado \in {"pendiente", "fallido"}
  BY DEF Reclamar, Reclamables, Reclamable
<1>4. PICK s : s = [wk[w] EXCEPT !.lote = lote]
  OBVIOUS
<1>5. s \in Worker /\ s.lote = lote /\ s.actual = 0 /\ s.nuevas = {}
  BY <1>3, <1>4, Partes, OciosoTipo
<1>6. wk' = [wk EXCEPT ![w] = s]
  BY <1>1, <1>4
<1>7. FanInv'
  BY <1>2, <1>3, <1>5, <1>6, Partes, PasoTrabajo
<1>8. fallas' \in 0..MaxFallas
  BY <1>3, Partes DEF TypeOK
<1> QED BY <1>2, <1>3, <1>5, <1>6, <1>7, <1>8, Partes, TrabajoTipo

LEMMA EmpezarInv ==
  ASSUME OInv, NEW w \in Workers, NEW e \in wk[w].lote, Empezar(w, e)
  PROVE  OInv'
<1>1. PICK s : s = [wk[w] EXCEPT !.actual = e, !.dest = vinculados]
  OBVIOUS
<1>2. /\ wk' = [wk EXCEPT ![w] = s] /\ wk[w].actual = 0
      /\ UNCHANGED <<publicacion, idem, ses, eventos, vinculados, avisos, fallas>>
  BY <1>1 DEF Empezar
<1>3. /\ e \in 1..Len(eventos) /\ wk[w].nuevas = {} /\ vinculados \subseteq Usuarios
      /\ Estables \subseteq vinculados /\ fallas \in 0..MaxFallas
  BY <1>2, Partes DEF TrabajoOK, TypeOK
<1>4. /\ s \in Worker /\ s.lote = wk[w].lote /\ s.actual = e /\ s.dest = vinculados
      /\ s.nuevas = {}
  <2>1. wk[w] \in Worker /\ e \in 0..Len(eventos)
    BY <1>3, Partes
  <2> QED BY <1>1, <1>3, <2>1 DEF Worker
<1>5. FanInv'
  BY <1>2, <1>3, <1>4, Partes, PasoTrabajo
<1> QED BY <1>2, <1>3, <1>4, <1>5, Partes, TrabajoTipo

LEMMA FallarPDFInv ==
  ASSUME OInv, NEW w \in Workers, NEW e \in wk[w].lote, FallarPDF(w, e)
  PROVE  OInv'
<1>1. PICK s : s = [Ocioso EXCEPT !.lote = wk[w].lote \ {e}]
  OBVIOUS
<1>2. /\ wk' = [wk EXCEPT ![w] = s] /\ wk[w].actual = 0
      /\ eventos' = [eventos EXCEPT ![e].estado = "fallido"]
      /\ UNCHANGED <<publicacion, idem, ses, vinculados, avisos, fallas>>
  BY <1>1 DEF FallarPDF, Soltar
<1>3. /\ wk[w].lote \subseteq 1..Len(eventos) /\ fallas \in 0..MaxFallas
      /\ e \in 1..Len(eventos) /\ eventos[e].estado = "procesando"
  BY Partes DEF TypeOK
<1>4. s \in Worker /\ s.lote = wk[w].lote \ {e} /\ s.actual = 0 /\ s.nuevas = {}
  BY <1>1, <1>3, Partes, OciosoTipo
<1>5. /\ eventos' \in Seq(Evento) /\ Len(eventos') = Len(eventos)
      /\ eventos'[e].estado = "fallido"
      /\ \A d \in 1..Len(eventos) : /\ eventos'[d].recurso = eventos[d].recurso
                                    /\ eventos'[d].clave = eventos[d].clave
                                    /\ d # e => eventos'[d] = eventos[d]
  BY <1>2, <1>3, Partes, CambiarEvento
<1>6. \A d \in 1..Len(eventos) :
         /\ eventos'[d].recurso = eventos[d].recurso
         /\ d \notin wk[w].lote \cup s.lote => eventos'[d] = eventos[d]
         /\ d \in s.lote => /\ eventos'[d].estado = "procesando"
                            /\ d \in wk[w].lote \/ eventos[d].estado # "procesando"
         /\ eventos[d].estado = "procesado" => eventos'[d].estado = "procesado"
         /\ eventos'[d].estado = "procesado" =>
              \/ eventos[d].estado = "procesado"
              \/ \A u \in Estables : avisos'[eventos[d].recurso][u] > 0
  BY <1>3, <1>4, <1>5, Partes
<1>7. FanInv'
  BY <1>2, <1>4, <1>5, <1>6, Partes, PasoTrabajo
<1> QED BY <1>2, <1>3, <1>4, <1>5, <1>7, Partes, TrabajoTipo

LEMMA AvisarInv ==
  ASSUME OInv, NEW w \in Workers, Avisar(w)
  PROVE  OInv'
<1>1. PICK u \in Siguientes(wk[w].dest) :
         /\ ~Espera(w, u)
         /\ wk' = [wk EXCEPT ![w].dest = @ \ {u},
                             ![w].nuevas = IF Existe(Recurso(w), u) THEN @ ELSE @ \cup {u}]
  BY DEF Avisar
<1>2. PICK d, n : /\ d = wk[w].dest \ {u}
                  /\ n = IF Existe(Recurso(w), u) THEN wk[w].nuevas ELSE wk[w].nuevas \cup {u}
  OBVIOUS
<1>3. PICK s : s = [wk[w] EXCEPT !.dest = d, !.nuevas = n]
  OBVIOUS
<1>4. wk' = [wk EXCEPT ![w] = s]
  BY <1>1, <1>2, <1>3
<1>5. /\ wk[w].actual # 0 /\ wk[w].actual \in wk[w].lote /\ wk[w].actual \in 1..Len(eventos)
      /\ Recurso(w) = eventos[wk[w].actual].recurso /\ Recurso(w) \in Recursos
      /\ \A v \in wk[w].nuevas : avisos[Recurso(w)][v] = 0
      /\ \A v \in Estables : \/ v \in wk[w].dest \/ v \in wk[w].nuevas
                             \/ avisos[Recurso(w)][v] > 0
      /\ UNCHANGED <<publicacion, idem, ses, eventos, vinculados, avisos, fallas>>
  BY Partes DEF Avisar, TrabajoOK, Recurso
<1>6. u \in wk[w].dest /\ u \in Usuarios /\ wk[w].dest \subseteq Usuarios
      /\ wk[w].nuevas \subseteq Usuarios
  BY Partes, CamposWorker DEF Siguientes
<1>7. /\ s \in Worker /\ s.lote = wk[w].lote /\ s.actual = wk[w].actual /\ s.dest = d
      /\ s.nuevas = n
  <2>1. wk[w] \in Worker /\ d \subseteq Usuarios /\ n \subseteq Usuarios
    BY <1>2, <1>6, Partes
  <2> QED BY <1>3, <2>1 DEF Worker
<1>8. avisos[Recurso(w)][u] \in Nat /\ (~Existe(Recurso(w), u) => avisos[Recurso(w)][u] = 0)
  BY <1>5, <1>6, Partes DEF Existe
<1>9. /\ \A v \in n : avisos[Recurso(w)][v] = 0
      /\ \A v \in Estables : v \in d \/ v \in n \/ avisos[Recurso(w)][v] > 0
  BY <1>2, <1>5, <1>8 DEF Existe
<1>10. ASSUME NEW x \in Workers \ {w}, wk[x].actual # 0, Recurso(x) = Recurso(w)
       PROVE  n \cap wk[x].nuevas = {}
  <2>1. u \notin wk[x].nuevas
    BY <1>1, <1>10 DEF Espera
  <2>2. wk[w].nuevas \cap wk[x].nuevas = {}
    BY <1>5, <1>10, Partes DEF FanInv, NuevasDistintas
  <2> QED BY <1>2, <2>1, <2>2
<1>11. FanInv'
  BY <1>4, <1>5, <1>7, <1>9, <1>10, Partes, PasoTrabajo
<1>12. fallas' \in 0..MaxFallas
  BY <1>5, Partes DEF TypeOK
<1> QED BY <1>4, <1>5, <1>7, <1>11, <1>12, Partes, TrabajoTipo

\* The commit of a worker: its event, and the notices it had inserted.
Comprometido(w, e, r, s) ==
    /\ wk' = [wk EXCEPT ![w] = s] /\ wk[w].dest = {} /\ e # 0
    /\ UNCHANGED <<publicacion, idem, ses, vinculados, fallas>>
    /\ e \in wk[w].lote /\ e \in 1..Len(eventos) /\ wk[w].lote \subseteq 1..Len(eventos)
    /\ eventos[e].estado = "procesando" /\ r = eventos[e].recurso /\ r \in Recursos
    /\ \A u \in wk[w].nuevas : avisos[r][u] = 0
    /\ \A u \in Estables : u \in wk[w].nuevas \/ avisos[r][u] > 0
    /\ Estables \subseteq Usuarios /\ fallas \in 0..MaxFallas
    /\ s \in Worker /\ s.lote = wk[w].lote \ {e} /\ s.actual = 0 /\ s.nuevas = {}
    /\ eventos' \in Seq(Evento) /\ Len(eventos') = Len(eventos)
    /\ eventos'[e].estado = "procesado"
    /\ \A d \in 1..Len(eventos) : /\ eventos'[d].recurso = eventos[d].recurso
                                  /\ eventos'[d].clave = eventos[d].clave
                                  /\ d # e => eventos'[d] = eventos[d]
    /\ \A u \in Usuarios : avisos'[r][u] = IF u \in wk[w].nuevas THEN 1 ELSE avisos[r][u]
    /\ \A x \in Recursos : x # r => avisos'[x] = avisos[x]
    /\ avisos' \in [Recursos -> [Usuarios -> Nat]]

LEMMA MarcarEs ==
  ASSUME OInv, NEW w \in Workers, Marcar(w)
  PROVE  \A e, r, s : e = wk[w].actual /\ r = Recurso(w)
                     /\ s = [Ocioso EXCEPT !.lote = wk[w].lote \ {e}]
                     => Comprometido(w, e, r, s)
<1> SUFFICES ASSUME NEW e, e = wk[w].actual, NEW r, r = Recurso(w),
                    NEW s, s = [Ocioso EXCEPT !.lote = wk[w].lote \ {e}]
             PROVE  Comprometido(w, e, r, s)
  OBVIOUS
<1>1. /\ wk' = [wk EXCEPT ![w] = s] /\ wk[w].dest = {} /\ e # 0
      /\ eventos' = [eventos EXCEPT ![e].estado = "procesado"]
      /\ avisos' = [avisos EXCEPT ![r] =
                      [u \in Usuarios |-> IF u \in wk[w].nuevas THEN @[u] + 1 ELSE @[u]]]
      /\ UNCHANGED <<publicacion, idem, ses, vinculados, fallas>>
  BY DEF Marcar, Termino, Soltar
<1>2. /\ e \in wk[w].lote /\ e \in 1..Len(eventos) /\ wk[w].lote \subseteq 1..Len(eventos)
      /\ eventos[e].estado = "procesando" /\ r = eventos[e].recurso /\ r \in Recursos
      /\ \A u \in wk[w].nuevas : avisos[r][u] = 0
      /\ \A u \in Estables : u \in wk[w].nuevas \/ avisos[r][u] > 0
      /\ Estables \subseteq Usuarios /\ fallas \in 0..MaxFallas
  BY <1>1, Partes, RecursosAssumption DEF TrabajoOK, Recurso, TypeOK
<1>3. s \in Worker /\ s.lote = wk[w].lote \ {e} /\ s.actual = 0 /\ s.nuevas = {}
  BY <1>2, Partes, OciosoTipo
<1>4. /\ eventos' \in Seq(Evento) /\ Len(eventos') = Len(eventos)
      /\ eventos'[e].estado = "procesado"
      /\ \A d \in 1..Len(eventos) : /\ eventos'[d].recurso = eventos[d].recurso
                                    /\ eventos'[d].clave = eventos[d].clave
                                    /\ d # e => eventos'[d] = eventos[d]
  BY <1>1, <1>2, Partes, CambiarEvento
<1>5. /\ \A u \in Usuarios : avisos'[r][u] = IF u \in wk[w].nuevas THEN 1 ELSE avisos[r][u]
      /\ \A x \in Recursos : x # r => avisos'[x] = avisos[x]
      /\ avisos' \in [Recursos -> [Usuarios -> Nat]]
  BY <1>1, <1>2, Partes
<1> QED BY <1>1, <1>2, <1>3, <1>4, <1>5 DEF Comprometido

LEMMA MarcarInv ==
  ASSUME OInv, NEW w \in Workers, Marcar(w)
  PROVE  OInv'
<1>1. PICK e, r : e = wk[w].actual /\ r = Recurso(w)
  OBVIOUS
<1>2. PICK s : Comprometido(w, e, r, s)
  BY <1>1, MarcarEs
<1>3. /\ wk' = [wk EXCEPT ![w] = s] /\ wk[w].dest = {} /\ e # 0
      /\ UNCHANGED <<publicacion, idem, ses, vinculados, fallas>>
  BY <1>2 DEF Comprometido
<1>4. /\ e \in wk[w].lote /\ e \in 1..Len(eventos) /\ wk[w].lote \subseteq 1..Len(eventos)
      /\ eventos[e].estado = "procesando" /\ r = eventos[e].recurso /\ r \in Recursos
      /\ \A u \in wk[w].nuevas : avisos[r][u] = 0
      /\ \A u \in Estables : u \in wk[w].nuevas \/ avisos[r][u] > 0
      /\ Estables \subseteq Usuarios /\ fallas \in 0..MaxFallas
  BY <1>2 DEF Comprometido
<1>5. s \in Worker /\ s.lote = wk[w].lote \ {e} /\ s.actual = 0 /\ s.nuevas = {}
  BY <1>2 DEF Comprometido
<1>6. /\ eventos' \in Seq(Evento) /\ Len(eventos') = Len(eventos)
      /\ eventos'[e].estado = "procesado"
      /\ \A d \in 1..Len(eventos) : /\ eventos'[d].recurso = eventos[d].recurso
                                    /\ eventos'[d].clave = eventos[d].clave
                                    /\ d # e => eventos'[d] = eventos[d]
  BY <1>2 DEF Comprometido
<1>7. /\ \A u \in Usuarios : avisos'[r][u] = IF u \in wk[w].nuevas THEN 1 ELSE avisos[r][u]
      /\ \A x \in Recursos : x # r => avisos'[x] = avisos[x]
      /\ avisos' \in [Recursos -> [Usuarios -> Nat]]
  BY <1>2 DEF Comprometido
<1>8. \A u \in Estables : avisos'[r][u] > 0
  BY <1>4, <1>7
<1>9. \A x \in Recursos, u \in Usuarios :
         \/ avisos'[x][u] = avisos[x][u]
         \/ /\ wk[w].actual # 0 /\ x = Recurso(w) /\ u \in wk[w].nuevas
            /\ avisos[x][u] = 0 /\ avisos'[x][u] = 1
            /\ eventos'[wk[w].actual].estado = "procesado"
  <2>1. eventos'[wk[w].actual].estado = "procesado" /\ wk[w].actual # 0
    BY <1>1, <1>3, <1>6
  <2>2. ASSUME NEW x \in Recursos, NEW u \in Usuarios, x # r PROVE avisos'[x][u] = avisos[x][u]
    BY <1>7, <2>2
  <2>3. ASSUME NEW u \in Usuarios, u \notin wk[w].nuevas PROVE avisos'[r][u] = avisos[r][u]
    BY <1>7, <2>3
  <2>4. ASSUME NEW u \in Usuarios, u \in wk[w].nuevas
        PROVE  avisos[r][u] = 0 /\ avisos'[r][u] = 1
    BY <1>4, <1>7, <2>4
  <2> QED BY <1>1, <2>1, <2>2, <2>3, <2>4, Zenon
<1>10. \A d \in 1..Len(eventos) :
         /\ eventos'[d].recurso = eventos[d].recurso
         /\ d \notin wk[w].lote \cup s.lote => eventos'[d] = eventos[d]
         /\ d \in s.lote => /\ eventos'[d].estado = "procesando"
                            /\ d \in wk[w].lote \/ eventos[d].estado # "procesando"
         /\ eventos[d].estado = "procesado" => eventos'[d].estado = "procesado"
         /\ eventos'[d].estado = "procesado" =>
              \/ eventos[d].estado = "procesado"
              \/ \A u \in Estables : avisos'[eventos[d].recurso][u] > 0
  BY <1>4, <1>5, <1>6, <1>8, Partes
<1>11. FanInv'
  BY <1>3, <1>5, <1>6, <1>7, <1>9, <1>10, Partes, PasoTrabajo
<1> QED BY <1>3, <1>4, <1>5, <1>6, <1>7, <1>11, Partes, TrabajoTipo

\* Failures, without permission, of the database, of the process: the worker lets an
\* event or its batch go, and the tables stay as they were.
LEMMA FallasEs ==
  ASSUME OInv, NEW w \in Workers,
         AvisarSinPermiso(w) \/ Caer(w) \/ \E e \in wk[w].lote : FallarBase(w, e)
  PROVE  /\ \E s \in Worker : /\ wk' = [wk EXCEPT ![w] = s] /\ s.lote \subseteq wk[w].lote
                             /\ s.actual = 0 /\ s.nuevas = {}
         /\ UNCHANGED <<publicacion, idem, ses, vinculados, eventos, avisos>>
<1>1. PICK s, b : /\ wk' = [wk EXCEPT ![w] = s] /\ b \subseteq wk[w].lote
                  /\ s = Ocioso \/ s = [Ocioso EXCEPT !.lote = b]
  <2>1. CASE Caer(w)
    <3>1. wk' = [wk EXCEPT ![w] = Ocioso]
      BY <2>1 DEF Caer
    <3> QED BY <3>1
  <2>2. ASSUME NEW e, Soltar(w, e)
        PROVE  \E x, c : /\ wk' = [wk EXCEPT ![w] = x] /\ c \subseteq wk[w].lote
                         /\ x = Ocioso \/ x = [Ocioso EXCEPT !.lote = c]
    <3>1. PICK c : c = wk[w].lote \ {e}
      OBVIOUS
    <3>2. wk' = [wk EXCEPT ![w] = [Ocioso EXCEPT !.lote = c]] /\ c \subseteq wk[w].lote
      BY <2>2, <3>1 DEF Soltar
    <3> QED BY <3>2
  <2>3. Caer(w) \/ \E e : Soltar(w, e)
    BY DEF AvisarSinPermiso, FallarBase
  <2> QED BY <2>1, <2>2, <2>3
<1>2. /\ s \in Worker /\ s.lote \subseteq wk[w].lote /\ s.actual = 0 /\ s.nuevas = {}
  <2>1. b \subseteq 1..Len(eventos)
    BY <1>1, Partes
  <2>2. CASE s = Ocioso
    BY <2>2, Partes, OciosoTipo
  <2>3. CASE s = [Ocioso EXCEPT !.lote = b]
    BY <1>1, <2>1, <2>3, Partes, OciosoTipo
  <2> QED BY <1>1, <2>2, <2>3
<1>3. avisos' = avisos
  <2>1. CASE AvisarSinPermiso(w) \/ Caer(w)
    BY <2>1 DEF AvisarSinPermiso, Caer
  <2>2. ASSUME NEW e \in wk[w].lote, FallarBase(w, e) PROVE avisos' = avisos
    <3>1. PICK r \in Recursos : r = eventos[e].recurso
      BY Partes
    <3>2. avisos' = [avisos EXCEPT ![r] = [u \in Usuarios |-> avisos[r][u]]]
      BY <2>2, <3>1 DEF FallarBase, Quedan
    <3>3. avisos[r] = [u \in Usuarios |-> avisos[r][u]]
      BY Partes
    <3> QED BY <3>2, <3>3, Partes
  <2> QED BY <2>1, <2>2
<1>4. UNCHANGED <<publicacion, idem, ses, vinculados, eventos>>
  BY DEF AvisarSinPermiso, Caer, FallarBase
<1> QED BY <1>1, <1>2, <1>3, <1>4

LEMMA FallasInv ==
  ASSUME OInv, NEW w \in Workers,
         AvisarSinPermiso(w) \/ Caer(w) \/ \E e \in wk[w].lote : FallarBase(w, e)
  PROVE  OInv'
<1>1. PICK s \in Worker : /\ wk' = [wk EXCEPT ![w] = s] /\ s.lote \subseteq wk[w].lote
                          /\ s.actual = 0 /\ s.nuevas = {}
  BY FallasEs
<1>2. UNCHANGED <<publicacion, idem, ses, vinculados, eventos, avisos>>
  BY FallasEs
<1>3. fallas' \in 0..MaxFallas
  <2>1. fallas \in 0..MaxFallas /\ MaxFallas \in Nat
    BY Partes, NumerosAssumption DEF TypeOK
  <2>2. fallas' = fallas \/ (fallas < MaxFallas /\ fallas' = fallas + 1)
    BY DEF AvisarSinPermiso, Caer, FallarBase
  <2> QED BY <2>1, <2>2
<1> QED BY <1>1, <1>2, <1>3, SoltarInv

-----------------------------------------------------------------------------
(* The actions of a request, and of the rest of the system *)

\* The records that a request goes on with.
LEMMA Solicitudes ==
  /\ SesionLibre \in Sesion /\ SesionLibre.paso = "libre"
  /\ \A x \in Sesion, v \in {"inexistente", "borrador", "publicado"} :
        LET y == [x EXCEPT !.paso = "escribir", !.visto = v]
        IN  y \in Sesion /\ y.paso = "escribir" /\ y.c = x.c /\ y.clave = x.clave
  BY DEF SesionLibre, Sesion

\* A step of a request that queues nothing.
LEMMA SolicitudInv ==
  ASSUME OInv, NEW s \in Sesiones, NEW x \in Sesion, Seguir(s, x),
         UNCHANGED <<publicacion, eventos>>,
         x.paso # "libre" => x.c \in Comunicados /\ x.clave \in Claves,
         x.paso \in {"leer", "escribir"} =>
            /\ idem[x.clave] = Ninguno
            /\ \A y \in Sesiones \ {s} :
                  ses[y].paso \in {"leer", "escribir"} => ses[y].clave # x.clave,
         UNCHANGED idem
  PROVE  OInv'
<1>1. ses \in [Sesiones -> Sesion] /\ ses' = [ses EXCEPT ![s] = x]
      /\ UNCHANGED <<vinculados, avisos, wk, fallas>>
  BY Partes DEF Seguir, TypeOK
<1>2. TypeOK'
  BY <1>1, Partes DEF TypeOK, Worker
<1>3. PubInv'
  BY <1>1, Partes, SinEncolar
<1>4. FanInv'
  BY <1>1, Partes, SinTrabajo
<1> QED BY <1>2, <1>3, <1>4 DEF OInv

LEMMA EscribirInv ==
  ASSUME OInv, NEW s \in Sesiones, Escribir(s)
  PROVE  OInv'
<1>1. PICK c, k : c = ses[s].c /\ k = ses[s].clave
  OBVIOUS
<1>2. /\ c \in Comunicados /\ c \in Recursos /\ k \in Claves /\ ses[s].paso = "escribir"
      /\ idem[k] = Ninguno
      /\ \A y \in Sesiones \ {s} : ses[y].paso \in {"leer", "escribir"} => ses[y].clave # k
      /\ ses \in [Sesiones -> Sesion] /\ idem \in [Claves -> Comunicados \cup {Ninguno}]
  BY <1>1, Partes DEF Escribir, PubInv, SelloOK, Recursos, TypeOK
<1>3. /\ idem' = [idem EXCEPT ![k] = c] /\ ses' = [ses EXCEPT ![s] = SesionLibre]
      /\ UNCHANGED <<vinculados, avisos, wk, fallas>>
  BY <1>1 DEF Escribir, Seguir
<1>4. /\ idem' \in [Claves -> Comunicados \cup {Ninguno}] /\ ses' \in [Sesiones -> Sesion]
      /\ idem'[k] = c /\ \A j \in Claves : j # k => idem'[j] = idem[j]
  BY <1>2, <1>3, Solicitudes
<1>5. CASE ses[s].visto # "publicado"
  <2>1. /\ publicacion' = [publicacion EXCEPT ![c] = "publicado"]
        /\ eventos' = Append(eventos, EventoNuevo(c, k))
    BY <1>1, <1>5 DEF Escribir
  <2>2. /\ FanInv' /\ eventos' \in Seq(Evento) /\ wk' \in [Workers -> Worker']
        /\ publicacion' \in [Recursos -> {"inexistente", "borrador", "publicado"}]
    BY <1>2, <1>3, <2>1, Partes, Encolar
  <2>3. PubInv'
    BY <1>1, <1>2, <1>3, <2>1, Partes, EncolarConClave
  <2>4. TypeOK'
    BY <1>3, <1>4, <2>2, Partes DEF TypeOK
  <2> QED BY <2>2, <2>3, <2>4 DEF OInv
<1>6. CASE ses[s].visto = "publicado"
  <2>1. UNCHANGED <<publicacion, eventos>>
    BY <1>6 DEF Escribir
  <2>2. FanInv'
    BY <1>3, <2>1, Partes, SinTrabajo
  <2>3. TypeOK'
    BY <1>3, <1>4, <2>1, Partes DEF TypeOK, Worker
  <2>4. PubInv'
    <3>1. /\ ses'[s].paso = "libre" /\ \A y \in Sesiones \ {s} : ses'[y] = ses[y]
      BY <1>2, <1>3, Solicitudes
    <3>2. ASSUME NEW y \in Sesiones PROVE SelloOK(y)'
      <4>1. CASE y = s
        BY <3>1, <4>1 DEF SelloOK
      <4>2. CASE y # s
        <5>1. SelloOK(y) /\ ses'[y] = ses[y]
          BY <3>1, <4>2, Partes DEF PubInv
        <5>2. ses[y].paso \in {"leer", "escribir"} => idem'[ses[y].clave] = Ninguno
          BY <1>2, <1>4, <4>2, <5>1 DEF SelloOK
        <5>3. \A x \in Sesiones : ses'[x].paso \in {"leer", "escribir"} => ses'[x] = ses[x]
          BY <3>1
        <5> QED BY <5>1, <5>2, <5>3 DEF SelloOK
      <4> QED BY <4>1, <4>2
    <3>3. ClaveEncolaUnaVez'
      BY <2>1, Partes DEF PubInv, ClaveEncolaUnaVez
    <3>4. c # Ninguno
      BY <1>2, NingunoAssumption
    <3>5. ASSUME NEW e \in 1..Len(eventos), eventos[e].clave # Ninguno
          PROVE  idem'[eventos[e].clave] # Ninguno
      <4>1. eventos[e].clave \in Claves /\ idem[eventos[e].clave] # Ninguno
        <5>1. eventos[e] \in Evento
          BY Partes, ElementOfSeq
        <5> QED BY <3>5, <5>1, Partes DEF Evento, PubInv
      <4> QED BY <1>4, <3>4, <4>1
    <3> QED BY <2>1, <3>2, <3>3, <3>5 DEF PubInv
  <2> QED BY <2>2, <2>3, <2>4 DEF OInv
<1> QED BY <1>5, <1>6

LEMMA PublicarLiquidacionInv ==
  ASSUME OInv, NEW l \in Liquidaciones, PublicarLiquidacion(l)
  PROVE  OInv'
<1>1. /\ publicacion' = [publicacion EXCEPT ![l] = "publicado"]
      /\ eventos' = Append(eventos, EventoNuevo(l, Ninguno))
      /\ UNCHANGED <<idem, ses, vinculados, avisos, wk, fallas>>
      /\ l \in Recursos /\ Ninguno \in Claves \cup {Ninguno}
  BY DEF PublicarLiquidacion, Recursos
<1>2. /\ FanInv' /\ eventos' \in Seq(Evento) /\ wk' \in [Workers -> Worker']
      /\ publicacion' \in [Recursos -> {"inexistente", "borrador", "publicado"}]
  BY <1>1, Partes, Encolar
<1>3. TypeOK'
  BY <1>1, <1>2, Partes DEF TypeOK
<1>4. PICK x : x = EventoNuevo(l, Ninguno)
  OBVIOUS
<1>5. x \in Evento /\ x.recurso = l /\ x.clave = Ninguno
  BY <1>1, <1>4, EventoTipo
<1>6. /\ eventos'[Len(eventos')] = x
      /\ \A e \in 1..Len(eventos) : eventos'[e] = eventos[e]
      /\ \A e \in 1..Len(eventos') : e \in 1..Len(eventos) \/ e = Len(eventos')
  BY <1>1, <1>4, <1>5, Partes, AgregarEvento
<1>7. /\ publicacion'[l] = "publicado"
      /\ \A r \in Recursos : publicacion[r] = "publicado" => publicacion'[r] = "publicado"
  BY <1>1, Partes DEF TypeOK
<1>8. \A s \in Sesiones : SelloOK(s)'
  BY <1>1, Partes DEF PubInv, SelloOK
<1>9. ClaveEncolaUnaVez'
  <2>1. ASSUME NEW d \in 1..Len(eventos'), NEW e \in 1..Len(eventos'),
               eventos'[d].clave # Ninguno, eventos'[d].clave = eventos'[e].clave
        PROVE  d = e
    <3>1. d \in 1..Len(eventos) /\ e \in 1..Len(eventos)
      BY <1>5, <1>6, <2>1
    <3> QED BY <1>6, <2>1, <3>1, Partes DEF PubInv, ClaveEncolaUnaVez
  <2>2. ASSUME NEW e \in 1..Len(eventos') PROVE publicacion'[eventos'[e].recurso] = "publicado"
    <3>1. CASE e \in 1..Len(eventos)
      BY <1>6, <1>7, <3>1, Partes DEF PubInv, ClaveEncolaUnaVez
    <3>2. CASE e = Len(eventos')
      BY <1>5, <1>6, <1>7, <3>2
    <3> QED BY <1>6, <3>1, <3>2
  <2> QED BY <2>1, <2>2 DEF ClaveEncolaUnaVez
<1>10. ASSUME NEW e \in 1..Len(eventos'), eventos'[e].clave # Ninguno
       PROVE  idem'[eventos'[e].clave] # Ninguno
  <2>1. e \in 1..Len(eventos)
    BY <1>5, <1>6, <1>10
  <2> QED BY <1>1, <1>6, <1>10, <2>1, Partes DEF PubInv
<1>11. PubInv'
  BY <1>8, <1>9, <1>10 DEF PubInv
<1> QED BY <1>2, <1>3, <1>11 DEF OInv

\* OInv through every step.
LEMMA OutboxInv == OInv /\ [Next]_vars => OInv'
<1> SUFFICES ASSUME OInv, [Next]_vars PROVE OInv'
  OBVIOUS
<1>1. CASE UNCHANGED vars
  <2>1. UNCHANGED <<publicacion, idem, ses, eventos, vinculados, avisos, wk, fallas>>
    BY <1>1 DEF vars
  <2>2. TypeOK' /\ FanInv'
    BY <2>1, Partes, SinTrabajo DEF TypeOK, Worker
  <2>3. PubInv'
    BY <2>1, Partes, TrabajoSinPublicar
  <2> QED BY <2>2, <2>3 DEF OInv
<1>2. ASSUME NEW c \in Comunicados, CrearComunicado(c) PROVE OInv'
  <2>1. /\ publicacion' \in [Recursos -> {"inexistente", "borrador", "publicado"}]
        /\ \A r \in Recursos : publicacion[r] = "publicado" => publicacion'[r] = "publicado"
        /\ UNCHANGED <<idem, ses, eventos, vinculados, avisos, wk, fallas>>
    BY <1>2, Partes DEF CrearComunicado, TypeOK, Recursos
  <2>2. TypeOK' /\ FanInv'
    BY <2>1, Partes, SinTrabajo DEF TypeOK, Worker
  <2>3. PubInv'
    BY <2>1, Partes DEF PubInv, SelloOK, ClaveEncolaUnaVez
  <2> QED BY <2>2, <2>3 DEF OInv
<1>3. ASSUME NEW s \in Sesiones, NEW c \in Comunicados, NEW k \in Claves, Sellar(s, c, k)
      PROVE  OInv'
  <2>1. PICK x : x = [SesionLibre EXCEPT !.paso = "leer", !.c = c, !.clave = k]
    OBVIOUS
  <2>2. x \in Sesion /\ x.paso = "leer" /\ x.c = c /\ x.clave = k
    BY <2>1 DEF SesionLibre, Sesion
  <2>3. /\ Seguir(s, x) /\ UNCHANGED <<publicacion, idem, eventos>>
        /\ idem[k] = Ninguno /\ ~EnCurso(k)
    BY <1>3, <2>1 DEF Sellar
  <2>4. \A y \in Sesiones \ {s} : ses[y].paso \in {"leer", "escribir"} => ses[y].clave # k
    BY <2>3 DEF EnCurso
  <2> QED BY <2>2, <2>3, <2>4, SolicitudInv
<1>4. ASSUME NEW s \in Sesiones, Seguir(s, SesionLibre), UNCHANGED <<publicacion, idem, eventos>>
      PROVE  OInv'
  BY <1>4, Solicitudes, SolicitudInv
<1>6. ASSUME NEW s \in Sesiones, Leer(s) PROVE OInv'
  <2>1. PICK x : x = [ses[s] EXCEPT !.paso = "escribir", !.visto = publicacion[ses[s].c]]
    OBVIOUS
  <2>2. /\ Seguir(s, x) /\ UNCHANGED <<publicacion, idem, eventos>> /\ ses[s].paso = "leer"
    BY <1>6, <2>1 DEF Leer
  <2>3. SelloOK(s) /\ ses[s] \in Sesion
    BY Partes DEF PubInv, TypeOK
  <2>4. publicacion[ses[s].c] \in {"inexistente", "borrador", "publicado"}
    BY <2>2, <2>3, Partes DEF SelloOK, TypeOK, Recursos
  <2>5. x \in Sesion /\ x.paso = "escribir" /\ x.c = ses[s].c /\ x.clave = ses[s].clave
    BY <2>1, <2>3, <2>4 DEF Sesion
  <2> QED BY <2>2, <2>3, <2>5, SolicitudInv DEF SelloOK
<1>7. ASSUME NEW s \in Sesiones, Abortar(s) PROVE OInv'
  BY <1>4, <1>7 DEF Abortar
<1>8. ASSUME NEW u \in Usuarios, Vincular(u) \/ Desvincular(u) PROVE OInv'
  <2>1. UNCHANGED <<publicacion, idem, ses, eventos, avisos, wk, fallas>>
    BY <1>8 DEF Vincular, Desvincular
  <2>2. Estables \subseteq vinculados' /\ vinculados' \subseteq Usuarios
    BY <1>8, Partes DEF Vincular, Desvincular, TypeOK
  <2>3. TypeOK' /\ FanInv'
    BY <2>1, <2>2, Partes, SinTrabajo DEF TypeOK, Worker
  <2>4. PubInv'
    BY <2>1, Partes, TrabajoSinPublicar
  <2> QED BY <2>3, <2>4 DEF OInv
<1>9. ASSUME NEW w \in Workers, Trabajar(w) \/ Caer(w) \/ \E e \in wk[w].lote : FallarBase(w, e)
      PROVE  OInv'
  BY <1>9, ReclamarInv, AvisarInv, MarcarInv, EmpezarInv, FallarPDFInv, FallasInv DEF Trabajar
<1> QED BY <1>1, <1>2, <1>3, <1>6, <1>7, <1>8, <1>9, EscribirInv, PublicarLiquidacionInv
        DEF Next

-----------------------------------------------------------------------------
(* Theorems *)

\* The inductive invariant, of every behaviour.
THEOREM InvarianteOutbox == Spec => []OInv
<1>1. Init => OInv
  <2> SUFFICES ASSUME Init PROVE OInv
    OBVIOUS
  <2>1. eventos = <<>> /\ Len(eventos) = 0 /\ 1..Len(eventos) = {} /\ eventos \in Seq(Evento)
    BY EmptySeq DEF Init
  <2>2. \A w \in Workers : wk[w] = Ocioso
    BY DEF Init
  <2>3. /\ Ocioso \in Worker /\ Ocioso.lote = {} /\ Ocioso.actual = 0 /\ Ocioso.nuevas = {}
    BY <2>1, OciosoTipo
  <2>4. TypeOK
    <3>1. wk \in [Workers -> Worker]
      BY <2>3 DEF Init
    <3>2. ses \in [Sesiones -> Sesion]
      BY Solicitudes DEF Init
    <3>3. fallas \in 0..MaxFallas /\ Estables \subseteq vinculados /\ vinculados \subseteq Usuarios
      BY RecursosAssumption, NumerosAssumption DEF Init
    <3> QED BY <2>1, <3>1, <3>2, <3>3 DEF Init, TypeOK
  <2>5. PubInv
    BY <2>1, Solicitudes DEF Init, PubInv, ClaveEncolaUnaVez, SelloOK
  <2>6. FanInv
    BY <2>1, <2>2, <2>3
       DEF Init, FanInv, UnSoloDueno, AvisoUnico, FanOutAtomico, TrabajoOK, NuevasDistintas
  <2> QED BY <2>4, <2>5, <2>6 DEF OInv
<1> QED BY <1>1, OutboxInv, PTL DEF Spec

\* Every variable keeps its type.
THEOREM Tipos == Spec => []TypeOK
<1>1. OInv => TypeOK
  BY DEF OInv
<1> QED BY InvarianteOutbox, <1>1, PTL

\* Two workers never hold one event, and a held event is 'procesando'.
THEOREM DuenoUnico == Spec => []UnSoloDueno
<1>1. OInv => UnSoloDueno
  BY DEF OInv, FanInv
<1> QED BY InvarianteOutbox, <1>1, PTL

\* A user never gets a second notice of a publication.
THEOREM UnAvisoPorPublicacion == Spec => []AvisoUnico
<1>1. OInv => AvisoUnico
  BY DEF OInv, FanInv
<1> QED BY InvarianteOutbox, <1>1, PTL

\* The fan-out of an event is all or nothing.
THEOREM TodoONada == Spec => []FanOutAtomico
<1>1. OInv => FanOutAtomico
  BY DEF OInv, FanInv
<1> QED BY InvarianteOutbox, <1>1, PTL

\* A key queues one event at most, and queued events are of published resources.
THEOREM UnEventoPorClave == Spec => []ClaveEncolaUnaVez
<1>1. OInv => ClaveEncolaUnaVez
  BY DEF OInv, PubInv
<1> QED BY InvarianteOutbox, <1>1, PTL

-----------------------------------------------------------------------------
(* The refinement: what Buzon reads of the tables and of the workers *)

Publicado == {r \in Recursos : publicacion[r] = "publicado"}
Cola == [e \in 1..Len(eventos) |-> [recurso |-> eventos[e].recurso,
                                    clave |-> eventos[e].clave]]
Entregados == {e \in 1..Len(eventos) : eventos[e].estado = "procesado"}
Listas == [n \in EnEntrega |-> Faltan(n)]

\* A worker that works on an event is the only one that does.
LEMMA UnoSolo ==
  ASSUME OInv, NEW w \in Workers, NEW e \in wk[w].lote
  PROVE  /\ e \in 1..Len(eventos) /\ eventos[e].estado = "procesando" /\ e # 0
         /\ \A x \in Workers \ {w} : wk[x].actual # e
<1>1. e \in 1..Len(eventos) /\ eventos[e].estado = "procesando" /\ e # 0
  BY Partes
<1>2. ASSUME NEW x \in Workers \ {w} PROVE wk[x].actual # e
  <2>1. e \notin wk[x].lote
    BY Partes DEF FanInv, UnSoloDueno
  <2>2. wk[x].actual # 0 => wk[x].actual \in wk[x].lote
    BY Partes DEF TrabajoOK
  <2> QED BY <1>1, <2>1, <2>2
<1> QED BY <1>1, <1>2

\* The recipients of an event in hand are those of its worker.
LEMMA FaltanDe ==
  ASSUME OInv, NEW w \in Workers, wk[w].actual # 0
  PROVE  /\ wk[w].actual \in EnEntrega /\ wk[w].actual \in 1..Len(eventos)
         /\ Recurso(w) \in Recursos
         /\ Faltan(wk[w].actual) = {u \in wk[w].dest \cup wk[w].nuevas :
                                      avisos[Recurso(w)][u] = 0}
<1>1. /\ wk[w].actual \in wk[w].lote
      /\ wk[w].dest \subseteq Usuarios /\ wk[w].nuevas \subseteq Usuarios
  BY Partes, CamposWorker DEF TrabajoOK
<1>2. /\ wk[w].actual \in 1..Len(eventos)
      /\ \A x \in Workers \ {w} : wk[x].actual # wk[w].actual
  BY <1>1, UnoSolo
<1> QED BY <1>1, <1>2, Partes DEF EnEntrega, Faltan, Recurso

\* Who of the recipients of event n has no notice after a step.
Restan(n) ==
    {u \in Usuarios :
        /\ avisos'[eventos[n].recurso][u] = 0
        /\ \E x \in Workers : wk[x].actual = n /\ u \in wk[x].dest \cup wk[x].nuevas}

\* When the record of worker w becomes s, the events in the hands of the others stay
\* there, with their recipients but for those who got a notice.
Sucesor(w, s) ==
    /\ wk' = [wk EXCEPT ![w] = s]
    /\ s.actual # 0 => s.actual \in wk[w].lote
    /\ Len(eventos') = Len(eventos)
    /\ \A d \in 1..Len(eventos) : eventos'[d].recurso = eventos[d].recurso

\* No other worker works on what worker w works on, or will.
LEMMA Ajenos ==
  ASSUME OInv, NEW w \in Workers, NEW s, Sucesor(w, s)
  PROVE  /\ wk'[w] = s /\ \A x \in Workers \ {w} : wk'[x] = wk[x]
         /\ \A x \in Workers : wk[x].actual # 0 => wk[x].actual \in wk[x].lote
         /\ \A x \in Workers \ {w} :
               wk[x].actual # 0 => wk[x].actual # s.actual /\ wk[x].actual # wk[w].actual
<1>1. wk'[w] = s /\ \A x \in Workers \ {w} : wk'[x] = wk[x]
  BY Partes DEF Sucesor
<1>2. \A x \in Workers : wk[x].actual # 0 => wk[x].actual \in wk[x].lote
  BY Partes DEF TrabajoOK
<1>3. ASSUME NEW x \in Workers \ {w}, wk[x].actual # 0
      PROVE  wk[x].actual # s.actual /\ wk[x].actual # wk[w].actual
  BY <1>2, <1>3, UnoSolo DEF Sucesor
<1> QED BY <1>1, <1>2, <1>3

LEMMA ManosDe ==
  ASSUME OInv, NEW w \in Workers, NEW s, Sucesor(w, s)
  PROVE  /\ EnEntrega' = (EnEntrega \ {wk[w].actual}) \cup ({s.actual} \ {0})
         /\ \A n \in EnEntrega : n \in 1..Len(eventos)
<1>1. EnEntrega' = (EnEntrega \ {wk[w].actual}) \cup ({s.actual} \ {0})
  <2>1. ASSUME NEW n \in EnEntrega' PROVE n \in (EnEntrega \ {wk[w].actual}) \cup ({s.actual} \ {0})
    BY <2>1, Ajenos DEF EnEntrega
  <2>2. ASSUME NEW n \in EnEntrega \ {wk[w].actual} PROVE n \in EnEntrega'
    BY <2>2, Ajenos DEF EnEntrega
  <2>3. s.actual # 0 => s.actual \in EnEntrega'
    BY Ajenos DEF EnEntrega
  <2> QED BY <2>1, <2>2, <2>3
<1>2. \A n \in EnEntrega : n \in 1..Len(eventos)
  BY Ajenos, Partes DEF EnEntrega
<1> QED BY <1>1, <1>2

LEMMA ManosAjenas ==
  ASSUME OInv, NEW w \in Workers, NEW s, Sucesor(w, s),
         NEW n \in EnEntrega, n # wk[w].actual
  PROVE  n # s.actual /\ Faltan(n)' = Restan(n)
<1>1. PICK y \in Workers \ {w} : n = wk[y].actual /\ n # 0
  BY DEF EnEntrega
<1>2. n # s.actual /\ eventos'[n].recurso = eventos[n].recurso
  <2>1. n # s.actual
    BY <1>1, Ajenos
  <2>2. n \in 1..Len(eventos)
    BY ManosDe
  <2> QED BY <2>1, <2>2 DEF Sucesor
<1>3. \A u : (\E x \in Workers : wk'[x].actual = n /\ u \in wk'[x].dest \cup wk'[x].nuevas)
         <=> (\E x \in Workers : wk[x].actual = n /\ u \in wk[x].dest \cup wk[x].nuevas)
  BY <1>2, Ajenos
<1> QED BY <1>2, <1>3 DEF Faltan, Restan

LEMMA ManosPropias ==
  ASSUME OInv, NEW w \in Workers, NEW s, Sucesor(w, s), s.actual # 0
  PROVE  Faltan(s.actual)' = {u \in Usuarios :
                    /\ avisos'[eventos[s.actual].recurso][u] = 0
                    /\ u \in s.dest \cup s.nuevas}
<1>1. s.actual \in wk[w].lote /\ s.actual \in 1..Len(eventos)
      /\ eventos'[s.actual].recurso = eventos[s.actual].recurso
  BY UnoSolo DEF Sucesor
<1>2. \A x \in Workers \ {w} : wk'[x].actual # s.actual
  BY Ajenos
<1>3. \A u : (\E x \in Workers : wk'[x].actual = s.actual /\ u \in wk'[x].dest \cup wk'[x].nuevas)
         <=> u \in s.dest \cup s.nuevas
  BY <1>2, Ajenos
<1> QED BY <1>1, <1>3 DEF Faltan

\* A step of a worker that commits no notice: what Buzon reads of the tables stays,
\* and so do the events in the hands of the others.
Silencio(w, s) ==
    /\ wk' = [wk EXCEPT ![w] = s]
    /\ s.actual # 0 => s.actual \in wk[w].lote
    /\ UNCHANGED <<publicacion, vinculados, avisos>>
    /\ Len(eventos') = Len(eventos)
    /\ \A d \in 1..Len(eventos) :
          /\ eventos'[d].recurso = eventos[d].recurso
          /\ eventos'[d].clave = eventos[d].clave
          /\ eventos'[d].estado = "procesado" <=> eventos[d].estado = "procesado"

LEMMA SilencioEs ==
  ASSUME OInv, NEW w \in Workers, NEW s, Silencio(w, s)
  PROVE  /\ Publicado' = Publicado /\ Cola' = Cola /\ Entregados' = Entregados
         /\ EnEntrega' = (EnEntrega \ {wk[w].actual}) \cup ({s.actual} \ {0})
         /\ \A n \in EnEntrega \ {wk[w].actual} : n # s.actual /\ Faltan(n)' = Faltan(n)
         /\ s.actual # 0 =>
               Faltan(s.actual)' = {u \in Usuarios :
                    /\ avisos[eventos[s.actual].recurso][u] = 0
                    /\ u \in s.dest \cup s.nuevas}
<1>1. Sucesor(w, s) /\ avisos' = avisos
  BY DEF Silencio, Sucesor
<1>2. Publicado' = Publicado /\ Cola' = Cola /\ Entregados' = Entregados
  BY DEF Silencio, Publicado, Cola, Entregados
<1>3. EnEntrega' = (EnEntrega \ {wk[w].actual}) \cup ({s.actual} \ {0})
  BY <1>1, ManosDe
<1>4. ASSUME NEW n \in EnEntrega \ {wk[w].actual} PROVE n # s.actual /\ Faltan(n)' = Faltan(n)
  <2>1. n # s.actual /\ Faltan(n)' = Restan(n)
    BY <1>1, <1>4, ManosAjenas
  <2> QED BY <1>1, <2>1 DEF Faltan, Restan
<1>5. s.actual # 0 =>
         Faltan(s.actual)' = {u \in Usuarios :
                    /\ avisos'[eventos[s.actual].recurso][u] = 0
                    /\ u \in s.dest \cup s.nuevas}
  BY <1>1, ManosPropias
<1> QED BY <1>1, <1>2, <1>3, <1>4, <1>5

\* The worker goes on with its event, or with its batch: Buzon does not move.
LEMMA QuietoBuzon ==
  ASSUME OInv, NEW w \in Workers, NEW s, Silencio(w, s), s.actual = wk[w].actual,
         s.actual # 0 =>
            \A u \in Usuarios :
               avisos[Recurso(w)][u] = 0 =>
                  (u \in s.dest \cup s.nuevas <=> u \in wk[w].dest \cup wk[w].nuevas)
  PROVE  UNCHANGED Bz!vars
<1>1. EnEntrega' = EnEntrega
  <2>1. s.actual # 0 => s.actual \in EnEntrega
    BY FaltanDe
  <2>2. 0 \notin EnEntrega
    BY DEF EnEntrega
  <2>3. EnEntrega' = (EnEntrega \ {wk[w].actual}) \cup ({s.actual} \ {0})
    BY SilencioEs
  <2> QED BY <2>1, <2>2, <2>3
<1>2. ASSUME NEW n \in EnEntrega PROVE Faltan(n)' = Faltan(n)
  <2>1. CASE n # wk[w].actual
    BY <2>1, SilencioEs
  <2>2. CASE n = wk[w].actual
    <3>1. s.actual # 0 /\ n = s.actual /\ Recurso(w) = eventos[n].recurso
      BY <2>2 DEF EnEntrega, Recurso
    <3>2. Faltan(n)' = {u \in Usuarios : avisos[eventos[n].recurso][u] = 0
                                         /\ u \in s.dest \cup s.nuevas}
      BY <3>1, SilencioEs
    <3>3. Faltan(n) = {u \in wk[w].dest \cup wk[w].nuevas : avisos[Recurso(w)][u] = 0}
      BY <2>2, <3>1, FaltanDe
    <3>4. wk[w].dest \subseteq Usuarios /\ wk[w].nuevas \subseteq Usuarios
      BY Partes, CamposWorker
    <3> QED BY <3>1, <3>2, <3>3, <3>4
  <2> QED BY <2>1, <2>2
<1>3. Listas' = Listas
  BY <1>1, <1>2 DEF Listas
<1>4. vinculados' = vinculados /\ avisos' = avisos
  BY DEF Silencio
<1> QED BY <1>3, <1>4, SilencioEs DEF Bz!vars, Publicado, Cola, Entregados, Listas

\* The transaction of its event ends without a commit.
LEMMA SoltarBuzon ==
  ASSUME OInv, NEW w \in Workers, NEW s, Silencio(w, s), wk[w].actual # 0, s.actual = 0
  PROVE  Bz!Soltar(wk[w].actual)
<1>1. PICK n : n = wk[w].actual
  OBVIOUS
<1>2. n \in EnEntrega /\ EnEntrega' = EnEntrega \ {n}
  <2>1. n \in EnEntrega
    BY <1>1, FaltanDe
  <2> QED BY <1>1, <2>1, SilencioEs
<1>3. Listas' = [m \in EnEntrega \ {n} |-> Listas[m]] /\ DOMAIN Listas = EnEntrega
  <2>1. \A m \in EnEntrega \ {n} : Faltan(m)' = Faltan(m)
    BY <1>1, SilencioEs
  <2> QED BY <1>2, <2>1 DEF Listas
<1>4. vinculados' = vinculados /\ avisos' = avisos
  BY DEF Silencio
<1> QED BY <1>1, <1>2, <1>3, <1>4, SilencioEs
        DEF Bz!Soltar, Publicado, Cola, Entregados, Listas

\* The recipients of an event are read.
LEMMA TomarBuzon ==
  ASSUME OInv, NEW w \in Workers, NEW e \in wk[w].lote, NEW s, Silencio(w, s),
         wk[w].actual = 0, s.actual = e, s.dest = vinculados, s.nuevas = {}
  PROVE  e \in 1..Len(eventos) /\ Bz!Tomar(e)
<1>1. /\ e \in 1..Len(eventos) /\ e # 0 /\ eventos[e].estado = "procesando"
      /\ \A x \in Workers \ {w} : wk[x].actual # e
  BY UnoSolo
<1>2. e \notin Entregados /\ e \notin EnEntrega
  BY <1>1 DEF Entregados, EnEntrega
<1>3. EnEntrega' = EnEntrega \cup {e}
  <2>1. 0 \notin EnEntrega
    BY DEF EnEntrega
  <2> QED BY <1>1, <2>1, SilencioEs
<1>4. Cola[e].recurso = eventos[e].recurso
  BY <1>1 DEF Cola
<1>5. Faltan(e)' = {u \in vinculados : avisos[Cola[e].recurso][u] = 0}
  <2>1. Faltan(e)' = {u \in Usuarios : avisos[eventos[e].recurso][u] = 0
                                       /\ u \in s.dest \cup s.nuevas}
    BY <1>1, SilencioEs
  <2>2. vinculados \subseteq Usuarios
    BY Partes DEF TypeOK
  <2> QED BY <1>4, <2>1, <2>2
<1>6. Listas' = [m \in EnEntrega \cup {e} |->
                   IF m = e THEN {u \in vinculados : avisos[Cola[e].recurso][u] = 0}
                            ELSE Listas[m]]
      /\ DOMAIN Listas = EnEntrega
  <2>1. \A m \in EnEntrega : m # e /\ Faltan(m)' = Faltan(m)
    <3>1. 0 \notin EnEntrega
      BY DEF EnEntrega
    <3> QED BY <1>2, <3>1, SilencioEs
  <2> QED BY <1>2, <1>3, <1>5, <2>1 DEF Listas
<1>7. vinculados' = vinculados /\ avisos' = avisos
  BY DEF Silencio
<1> QED BY <1>1, <1>2, <1>6, <1>7, SilencioEs
        DEF Bz!Tomar, Publicado, Cola, Entregados, Listas

\* A worker commits: everybody on the list of its event has the notice, and nobody
\* else.
LEMMA EntregarBuzon ==
  ASSUME OInv, NEW w \in Workers, Marcar(w)
  PROVE  \E n \in 1..Len(eventos) : Bz!Entregar(n)
<1>1. PICK e, r, s : e = wk[w].actual /\ r = Recurso(w) /\ Comprometido(w, e, r, s)
  BY MarcarEs
<1>2. /\ wk' = [wk EXCEPT ![w] = s] /\ wk[w].dest = {} /\ e # 0 /\ s.actual = 0
      /\ UNCHANGED <<publicacion, vinculados>> /\ e \in 1..Len(eventos)
      /\ r = eventos[e].recurso /\ r \in Recursos
      /\ Len(eventos') = Len(eventos) /\ eventos'[e].estado = "procesado"
      /\ \A d \in 1..Len(eventos) : /\ eventos'[d].recurso = eventos[d].recurso
                                    /\ eventos'[d].clave = eventos[d].clave
                                    /\ d # e => eventos'[d] = eventos[d]
  BY <1>1 DEF Comprometido
<1>3. Sucesor(w, s)
  BY <1>2 DEF Sucesor
<1>4. /\ \A u \in wk[w].nuevas : avisos[r][u] = 0
      /\ \A u \in Usuarios : avisos'[r][u] = IF u \in wk[w].nuevas THEN 1 ELSE avisos[r][u]
      /\ \A x \in Recursos : x # r => avisos'[x] = avisos[x]
      /\ avisos' \in [Recursos -> [Usuarios -> Nat]]
  BY <1>1 DEF Comprometido
<1>5. e \in EnEntrega /\ Faltan(e) = wk[w].nuevas
  <2>1. e \in EnEntrega /\ Faltan(e) = {u \in wk[w].dest \cup wk[w].nuevas : avisos[r][u] = 0}
    BY <1>1, <1>2, FaltanDe
  <2> QED BY <1>2, <1>4, <2>1
<1>6. Publicado' = Publicado /\ Cola' = Cola /\ Entregados' = Entregados \cup {e}
  BY <1>2 DEF Publicado, Cola, Entregados
<1>7. /\ Cola[e].recurso = r
      /\ \A n \in EnEntrega : n \in 1..Len(eventos) /\ Cola[n].recurso = eventos[n].recurso
      /\ EnEntrega' = EnEntrega \ {e}
  <2>1. /\ EnEntrega' = (EnEntrega \ {e}) \cup ({s.actual} \ {0})
        /\ \A n \in EnEntrega : n \in 1..Len(eventos)
    BY <1>1, <1>2, <1>3, ManosDe
  <2> QED BY <1>2, <2>1 DEF Cola
<1>8. avisos' = [avisos EXCEPT ![r] = [u \in Usuarios |-> IF u \in Faltan(e) THEN 1 ELSE @[u]]]
  <2>1. avisos'[r] \in [Usuarios -> Nat] /\ avisos \in [Recursos -> [Usuarios -> Nat]]
    BY <1>2, <1>4, Partes
  <2>2. avisos'[r] = [u \in Usuarios |-> IF u \in Faltan(e) THEN 1 ELSE avisos[r][u]]
    BY <1>4, <1>5, <2>1
  <2>3. PICK f : f = avisos'[r]
    OBVIOUS
  <2>4. avisos' = [avisos EXCEPT ![r] = f]
    BY <1>2, <1>4, <2>1, <2>3
  <2> QED BY <1>2, <2>1, <2>2, <2>3, <2>4
<1>9. ASSUME NEW n \in EnEntrega \ {e}
      PROVE  Faltan(n)' = IF eventos[n].recurso = r THEN Faltan(n) \ Faltan(e) ELSE Faltan(n)
  <2>1. Faltan(n)' = Restan(n)
    BY <1>1, <1>3, <1>9, ManosAjenas
  <2>2. n \in 1..Len(eventos) /\ eventos[n].recurso \in Recursos
    BY <1>7, Partes
  <2>3. CASE eventos[n].recurso # r
    BY <1>4, <2>1, <2>2, <2>3 DEF Faltan, Restan
  <2>4. CASE eventos[n].recurso = r
    <3>1. \A u \in Usuarios : avisos'[r][u] = 0 <=> avisos[r][u] = 0 /\ u \notin Faltan(e)
      BY <1>4, <1>5
    <3>2. \A u : u \in Faltan(n)' <=> u \in Faltan(n) /\ u \notin Faltan(e)
      BY <2>1, <2>4, <3>1 DEF Faltan, Restan
    <3> QED BY <2>4, <3>2
  <2> QED BY <2>3, <2>4
<1>10. Listas' = [m \in EnEntrega \ {e} |->
                   IF Cola[m].recurso = Cola[e].recurso THEN Listas[m] \ Listas[e]
                                                        ELSE Listas[m]]
      /\ DOMAIN Listas = EnEntrega /\ Listas[e] = Faltan(e)
  BY <1>5, <1>7, <1>9 DEF Listas
<1>11. vinculados' = vinculados
  BY <1>2
<1>12. Bz!Entregar(e)
  BY <1>5, <1>6, <1>7, <1>8, <1>10, <1>11
     DEF Bz!Entregar, Publicado, Cola, Entregados, Listas
<1> QED BY <1>2, <1>12

\* A failure leaves the list of its event, if there was one, and nothing else.
LEMMA FallasBuzon ==
  ASSUME OInv, NEW w \in Workers,
         AvisarSinPermiso(w) \/ Caer(w) \/ \E e \in wk[w].lote : FallarBase(w, e)
  PROVE  UNCHANGED Bz!vars \/ \E n \in 1..Len(eventos) : Bz!Soltar(n)
<1>1. PICK s \in Worker : wk' = [wk EXCEPT ![w] = s] /\ s.actual = 0
  BY FallasEs
<1>2. UNCHANGED <<publicacion, vinculados, eventos, avisos>>
  BY FallasEs
<1>3. Silencio(w, s)
  BY <1>1, <1>2 DEF Silencio
<1>4. CASE wk[w].actual = 0
  BY <1>1, <1>3, <1>4, QuietoBuzon
<1>5. CASE wk[w].actual # 0
  <2>1. wk[w].actual \in 1..Len(eventos)
    BY <1>5, FaltanDe
  <2> QED BY <1>1, <1>3, <1>5, <2>1, SoltarBuzon
<1> QED BY <1>4, <1>5

\* Every step of a worker.
LEMMA TrabajarBuzon ==
  ASSUME OInv, NEW w \in Workers, Trabajar(w)
  PROVE  UNCHANGED Bz!vars
         \/ \E n \in 1..Len(eventos) : Bz!Tomar(n) \/ Bz!Entregar(n) \/ Bz!Soltar(n)
<1>1. CASE Reclamar(w)
  <2>1. PICK lote \in SUBSET Reclamables :
           /\ wk' = [wk EXCEPT ![w].lote = lote]
           /\ eventos' = [e \in 1..Len(eventos) |->
                            IF e \in lote
                            THEN [eventos[e] EXCEPT !.estado = "procesando", !.intentos = @ + 1]
                            ELSE eventos[e]]
    BY <1>1 DEF Reclamar
  <2>2. /\ Len(eventos') = Len(eventos)
        /\ \A d \in 1..Len(eventos) :
              /\ eventos'[d].recurso = eventos[d].recurso
              /\ eventos'[d].clave = eventos[d].clave
              /\ IF d \in lote THEN eventos'[d].estado = "procesando"
                               ELSE eventos'[d] = eventos[d]
    BY <2>1, Partes, ReclamarEventos
  <2>3. /\ wk[w] = Ocioso /\ UNCHANGED <<publicacion, vinculados, avisos>>
        /\ \A e \in lote : eventos[e].estado \in {"pendiente", "fallido"}
        /\ lote \subseteq 1..Len(eventos)
    BY <1>1 DEF Reclamar, Reclamables, Reclamable
  <2>4. PICK s : s = [wk[w] EXCEPT !.lote = lote]
    OBVIOUS
  <2>5. s.actual = 0 /\ wk[w].actual = 0
    BY <2>3, <2>4, Partes, OciosoTipo
  <2>6. wk' = [wk EXCEPT ![w] = s]
    BY <2>1, <2>4
  <2>7. Silencio(w, s)
    BY <2>2, <2>3, <2>5, <2>6 DEF Silencio
  <2> QED BY <2>5, <2>7, QuietoBuzon
<1>2. CASE Avisar(w)
  <2>1. PICK u \in Siguientes(wk[w].dest) :
           wk' = [wk EXCEPT ![w].dest = @ \ {u},
                            ![w].nuevas = IF Existe(Recurso(w), u) THEN @ ELSE @ \cup {u}]
    BY <1>2 DEF Avisar
  <2>2. PICK d, n : /\ d = wk[w].dest \ {u}
                    /\ n = IF Existe(Recurso(w), u) THEN wk[w].nuevas
                                                    ELSE wk[w].nuevas \cup {u}
    OBVIOUS
  <2>3. PICK s : s = [wk[w] EXCEPT !.dest = d, !.nuevas = n]
    OBVIOUS
  <2>4. wk' = [wk EXCEPT ![w] = s] /\ UNCHANGED <<publicacion, eventos, vinculados, avisos>>
    BY <1>2, <2>1, <2>2, <2>3 DEF Avisar
  <2>5. /\ wk[w].actual # 0 /\ wk[w].actual \in wk[w].lote /\ u \in wk[w].dest
        /\ wk[w].dest \subseteq Usuarios /\ wk[w].nuevas \subseteq Usuarios /\ wk[w] \in Worker
    BY <1>2, Partes, CamposWorker DEF Avisar, TrabajoOK, Siguientes
  <2>6. s.actual = wk[w].actual /\ s.dest = d /\ s.nuevas = n
    BY <2>2, <2>3, <2>5 DEF Worker
  <2>7. Silencio(w, s)
    BY <2>4, <2>5, <2>6 DEF Silencio
  <2>8. \A v \in Usuarios : avisos[Recurso(w)][v] = 0 =>
           (v \in s.dest \cup s.nuevas <=> v \in wk[w].dest \cup wk[w].nuevas)
    BY <2>2, <2>5, <2>6 DEF Existe
  <2> QED BY <2>6, <2>7, <2>8, QuietoBuzon
<1>3. CASE AvisarSinPermiso(w)
  BY <1>3, FallasBuzon
<1>4. CASE Marcar(w)
  BY <1>4, EntregarBuzon
<1>5. ASSUME NEW e \in wk[w].lote, Empezar(w, e)
      PROVE  e \in 1..Len(eventos) /\ Bz!Tomar(e)
  <2>1. PICK s : s = [wk[w] EXCEPT !.actual = e, !.dest = vinculados]
    OBVIOUS
  <2>2. /\ wk' = [wk EXCEPT ![w] = s] /\ wk[w].actual = 0
        /\ UNCHANGED <<publicacion, eventos, vinculados, avisos>>
    BY <1>5, <2>1 DEF Empezar
  <2>3. wk[w] \in Worker /\ wk[w].nuevas = {}
    BY <2>2, Partes DEF TrabajoOK
  <2>4. s.actual = e /\ s.dest = vinculados /\ s.nuevas = {}
    BY <2>1, <2>3 DEF Worker
  <2>5. Silencio(w, s)
    BY <2>2, <2>4 DEF Silencio
  <2> QED BY <2>2, <2>4, <2>5, TomarBuzon
<1>6. ASSUME NEW e \in wk[w].lote, FallarPDF(w, e) PROVE UNCHANGED Bz!vars
  <2>1. PICK s : s = [Ocioso EXCEPT !.lote = wk[w].lote \ {e}]
    OBVIOUS
  <2>2. /\ wk' = [wk EXCEPT ![w] = s] /\ wk[w].actual = 0
        /\ eventos' = [eventos EXCEPT ![e].estado = "fallido"]
        /\ UNCHANGED <<publicacion, vinculados, avisos>>
    BY <1>6, <2>1 DEF FallarPDF, Soltar
  <2>3. e \in 1..Len(eventos) /\ eventos[e].estado = "procesando"
    BY Partes
  <2>4. s.actual = 0
    BY <2>1 DEF Ocioso
  <2>5. /\ Len(eventos') = Len(eventos)
        /\ eventos'[e].estado = "fallido"
        /\ \A d \in 1..Len(eventos) : /\ eventos'[d].recurso = eventos[d].recurso
                                      /\ eventos'[d].clave = eventos[d].clave
                                      /\ d # e => eventos'[d] = eventos[d]
    BY <2>2, <2>3, Partes, CambiarEvento
  <2>6. Silencio(w, s)
    BY <2>2, <2>3, <2>4, <2>5 DEF Silencio
  <2> QED BY <2>2, <2>4, <2>6, QuietoBuzon
<1> QED BY <1>1, <1>2, <1>3, <1>4, <1>5, <1>6 DEF Trabajar

\* What is queued, as a sequence.
LEMMA ColaTipo ==
  ASSUME eventos \in Seq(Evento)
  PROVE  /\ Cola \in Seq([recurso : Recursos, clave : Claves \cup {Ninguno}])
         /\ Len(Cola) = Len(eventos) /\ Len(eventos) \in Nat
<1>1. Len(eventos) \in Nat /\ \A e \in 1..Len(eventos) : eventos[e] \in Evento
  BY ElementOfSeq, LenProperties
<1>2. \A x \in Evento : x.recurso \in Recursos /\ x.clave \in Claves \cup {Ninguno}
  BY DEF Evento
<1>3. Cola \in [1..Len(eventos) -> [recurso : Recursos, clave : Claves \cup {Ninguno}]]
  BY <1>1, <1>2 DEF Cola
<1> QED BY <1>1, <1>3, FuncionSeq

\* A publication is queued.
LEMMA PublicarBuzon ==
  ASSUME OInv, NEW r \in Recursos, NEW k \in Claves \cup {Ninguno},
         eventos' = Append(eventos, EventoNuevo(r, k)),
         publicacion' = [publicacion EXCEPT ![r] = "publicado"],
         UNCHANGED <<vinculados, avisos, wk>>,
         IF k = Ninguno THEN publicacion[r] # "publicado"
                        ELSE \A e \in 1..Len(eventos) : eventos[e].clave # k
  PROVE  Bz!Publicar(r, k)
<1>1. PICK y : y = EventoNuevo(r, k)
  OBVIOUS
<1>2. y \in Evento /\ y.recurso = r /\ y.clave = k /\ y.estado = "pendiente"
  BY <1>1, EventoTipo
<1>3. /\ eventos' \in Seq(Evento) /\ Len(eventos) \in Nat /\ Len(eventos') = Len(eventos) + 1
      /\ eventos'[Len(eventos')] = y
      /\ \A e \in 1..Len(eventos) : e \in 1..Len(eventos') /\ eventos'[e] = eventos[e]
      /\ \A e \in 1..Len(eventos') : e \in 1..Len(eventos) \/ e = Len(eventos')
  BY <1>1, <1>2, Partes, AgregarEvento
<1>4. Publicado' = Publicado \cup {r}
  BY Partes DEF Publicado, TypeOK
<1>5. PICK T, z : /\ T = [recurso : Recursos, clave : Claves \cup {Ninguno}]
                  /\ z = [recurso |-> r, clave |-> k]
  OBVIOUS
<1>6. /\ z \in T /\ Cola \in Seq(T) /\ Len(Cola) = Len(eventos)
      /\ Cola' \in Seq(T) /\ Len(Cola') = Len(eventos')
  <2>1. z \in T
    BY <1>5
  <2>2. Cola \in Seq(T) /\ Len(Cola) = Len(eventos)
    BY <1>5, ColaTipo, Partes
  <2>3. Cola' \in Seq(T) /\ Len(Cola') = Len(eventos')
    <3>1. /\ Len(eventos') \in Nat /\ \A e \in 1..Len(eventos') : eventos'[e] \in Evento
      BY <1>3, ElementOfSeq, LenProperties
    <3>2. \A x \in Evento : x.recurso \in Recursos /\ x.clave \in Claves \cup {Ninguno}
      BY DEF Evento
    <3>3. Cola' \in [1..Len(eventos') -> T]
      BY <1>5, <3>1, <3>2 DEF Cola
    <3> QED BY <3>1, <3>3, FuncionSeq
  <2> QED BY <2>1, <2>2, <2>3
<1>7. Cola' = Append(Cola, z)
  <2>1. /\ Append(Cola, z) \in Seq(T) /\ Len(Append(Cola, z)) = Len(Cola) + 1
        /\ \A i \in 1..Len(Cola) + 1 :
              Append(Cola, z)[i] = IF i <= Len(Cola) THEN Cola[i] ELSE z
    BY <1>6, AppendProperties
  <2>2. ASSUME NEW i \in 1..Len(eventos') PROVE Cola'[i] = IF i <= Len(Cola) THEN Cola[i] ELSE z
    <3>1. CASE i \in 1..Len(eventos)
      BY <1>3, <1>6, <3>1 DEF Cola
    <3>2. CASE i = Len(eventos')
      BY <1>2, <1>3, <1>5, <1>6, <3>2 DEF Cola
    <3> QED BY <1>3, <3>1, <3>2
  <2>3. PICK q : q = Append(Cola, z)
    OBVIOUS
  <2>4. /\ q \in Seq(T) /\ Len(q) = Len(eventos')
        /\ \A i \in 1..Len(eventos') : q[i] = IF i <= Len(Cola) THEN Cola[i] ELSE z
    BY <1>3, <1>6, <2>1, <2>3
  <2>5. Cola' = q
    BY <1>6, <2>2, <2>4, SeqEqual
  <2> QED BY <2>3, <2>5
<1>8. Entregados' = Entregados
  <2>1. ASSUME NEW e PROVE e \in Entregados' <=> e \in Entregados
    BY <1>2, <1>3 DEF Entregados
  <2> QED BY <2>1
<1>9. EnEntrega' = EnEntrega
  BY DEF EnEntrega
<1>10. Listas' = Listas
  <2>1. ASSUME NEW n \in EnEntrega PROVE Faltan(n)' = Faltan(n)
    <3>1. n \in 1..Len(eventos)
      BY Partes DEF EnEntrega, TrabajoOK
    <3>2. eventos'[n] = eventos[n]
      BY <1>3, <3>1
    <3> QED BY <3>2 DEF Faltan
  <2> QED BY <1>9, <2>1 DEF Listas
<1>11. IF k = Ninguno THEN r \notin Publicado
                      ELSE \A n \in 1..Len(Cola) : Cola[n].clave # k
  BY <1>6 DEF Publicado, Cola
<1> QED BY <1>4, <1>5, <1>7, <1>8, <1>10, <1>11
        DEF Bz!Publicar, Publicado, Cola, Entregados, Listas

\* Steps that Buzon does not see: the queue, the workers and the notices stay, and
\* so does what is published.
LEMMA CallaBuzon ==
  ASSUME UNCHANGED <<eventos, avisos, wk>>, Publicado' = Publicado
  PROVE  /\ Cola' = Cola /\ Entregados' = Entregados /\ Listas' = Listas
         /\ UNCHANGED vinculados => UNCHANGED Bz!vars
<1>1. Cola' = Cola /\ Entregados' = Entregados
  BY DEF Cola, Entregados
<1>2. Listas' = Listas
  BY DEF Listas, EnEntrega, Faltan
<1> QED BY <1>1, <1>2 DEF Bz!vars, Publicado, Cola, Entregados, Listas

\* Every step is one of Buzon, or none.
LEMMA PasoBuzon == OInv /\ [Next]_vars => [Bz!Next]_Bz!vars
<1> SUFFICES ASSUME OInv, [Next]_vars PROVE Bz!Next \/ UNCHANGED Bz!vars
  OBVIOUS
<1>1. ASSUME NEW n \in 1..Len(eventos), Bz!Tomar(n) \/ Bz!Entregar(n) \/ Bz!Soltar(n)
      PROVE  Bz!Next
  BY <1>1, ColaTipo, Partes DEF Bz!Next, Cola
<1>2. ASSUME NEW r \in Recursos, NEW k \in Claves \cup {Ninguno}, Bz!Publicar(r, k)
      PROVE  Bz!Next
  BY <1>2 DEF Bz!Next
<1>3. CASE UNCHANGED vars
  <2>1. UNCHANGED <<publicacion, eventos, vinculados, avisos, wk>>
    BY <1>3 DEF vars
  <2>2. Publicado' = Publicado
    BY <2>1 DEF Publicado
  <2> QED BY <2>1, <2>2, CallaBuzon
<1>4. ASSUME NEW c \in Comunicados, CrearComunicado(c) PROVE UNCHANGED Bz!vars
  <2>1. UNCHANGED <<eventos, vinculados, avisos, wk>>
    BY <1>4 DEF CrearComunicado
  <2>2. Publicado' = Publicado
    BY <1>4, Partes DEF CrearComunicado, Publicado, TypeOK
  <2> QED BY <2>1, <2>2, CallaBuzon
<1>5. ASSUME NEW l \in Liquidaciones, PublicarLiquidacion(l) PROVE Bz!Next
  <2>1. l \in Recursos /\ Ninguno \in Claves \cup {Ninguno}
    BY DEF Recursos
  <2>2. Bz!Publicar(l, Ninguno)
    BY <1>5, <2>1, PublicarBuzon DEF PublicarLiquidacion
  <2> QED BY <1>2, <2>1, <2>2
<1>6. ASSUME NEW s \in Sesiones,
             \/ \E c \in Comunicados, k \in Claves : Sellar(s, c, k)
             \/ Leer(s) \/ Abortar(s)
      PROVE  UNCHANGED Bz!vars
  <2>1. UNCHANGED <<publicacion, eventos, vinculados, avisos, wk>>
    BY <1>6 DEF Sellar, Leer, Abortar, Seguir
  <2>2. Publicado' = Publicado
    BY <2>1 DEF Publicado
  <2> QED BY <2>1, <2>2, CallaBuzon
<1>7. ASSUME NEW s \in Sesiones, Escribir(s) PROVE Bz!Next \/ UNCHANGED Bz!vars
  <2>1. PICK c, k : c = ses[s].c /\ k = ses[s].clave
    OBVIOUS
  <2>2. /\ c \in Recursos /\ k \in Claves /\ idem[k] = Ninguno /\ k # Ninguno
        /\ UNCHANGED <<vinculados, avisos, wk>>
    BY <1>7, <2>1, Partes, NingunoAssumption DEF Escribir, Seguir, PubInv, SelloOK, Recursos
  <2>3. CASE ses[s].visto # "publicado"
    <3>1. /\ publicacion' = [publicacion EXCEPT ![c] = "publicado"]
          /\ eventos' = Append(eventos, EventoNuevo(c, k))
      BY <1>7, <2>1, <2>3 DEF Escribir
    <3>2. \A e \in 1..Len(eventos) : eventos[e].clave # k
      BY <2>2, Partes DEF PubInv
    <3>3. Bz!Publicar(c, k)
      BY <2>2, <3>1, <3>2, PublicarBuzon
    <3> QED BY <1>2, <2>2, <3>3
  <2>4. CASE ses[s].visto = "publicado"
    <3>1. UNCHANGED <<publicacion, eventos>>
      BY <1>7, <2>4 DEF Escribir
    <3>2. Publicado' = Publicado
      BY <3>1 DEF Publicado
    <3> QED BY <2>2, <3>1, <3>2, CallaBuzon
  <2> QED BY <2>3, <2>4
<1>8. ASSUME NEW u \in Usuarios, Vincular(u) \/ Desvincular(u) PROVE Bz!Next
  <2>1. UNCHANGED <<publicacion, eventos, avisos, wk>> /\ u \in Usuarios \ Estables
        /\ vinculados' \in {vinculados \cup {u}, vinculados \ {u}}
    BY <1>8 DEF Vincular, Desvincular
  <2>2. Publicado' = Publicado
    BY <2>1 DEF Publicado
  <2>3. Bz!Cambiar(u)
    BY <2>1, <2>2, CallaBuzon DEF Bz!Cambiar, Publicado, Cola, Entregados, Listas
  <2> QED BY <2>1, <2>3 DEF Bz!Next
<1>9. ASSUME NEW w \in Workers, Trabajar(w) \/ Caer(w) \/ \E e \in wk[w].lote : FallarBase(w, e)
      PROVE  Bz!Next \/ UNCHANGED Bz!vars
  BY <1>1, <1>9, TrabajarBuzon, FallasBuzon
<1> QED BY <1>3, <1>4, <1>5, <1>6, <1>7, <1>8, <1>9 DEF Next

\* Publications, their keys, the claims and batches of the workers, the retries and
\* the faults do what Buzon promises: what is published is dispatched, and whoever was
\* linked when a dispatch took its list has the notice once it is delivered.
THEOREM RefinamientoBuzon == Spec => RefinaBuzon
<1>1. Init => Bz!Init
  <2> SUFFICES ASSUME Init PROVE Bz!Init
    OBVIOUS
  <2>1. eventos = <<>> /\ 1..Len(eventos) = {} /\ \A w \in Workers : wk[w].actual = 0
    BY DEF Init, Ocioso
  <2>2. Publicado = {} /\ Entregados = {} /\ EnEntrega = {}
    BY <2>1 DEF Init, Publicado, Entregados, EnEntrega
  <2>3. Cola = <<>>
    <3>1. Cola \in Seq([recurso : Recursos, clave : Claves \cup {Ninguno}]) /\ Len(Cola) = 0
      BY <2>1, ColaTipo, EmptySeq
    <3> QED BY <3>1, EmptySeq
  <2>4. Listas = [n \in {} |-> {}]
    BY <2>2 DEF Listas
  <2> QED BY <2>2, <2>3, <2>4 DEF Init, Bz!Init, Publicado, Cola, Entregados, Listas
<1> QED BY <1>1, PasoBuzon, InvarianteOutbox, PTL DEF Spec, RefinaBuzon, Bz!Spec

\* A notice is never taken back, and it appears in no step but the one that completes
\* an event of its publication, for somebody on the list of that event.
AvisosFirmes ==
    /\ Publicado \subseteq Publicado' /\ Entregados \subseteq Entregados'
    /\ \A r \in Recursos, u \in Usuarios :
          \/ avisos'[r][u] = avisos[r][u]
          \/ /\ avisos[r][u] = 0 /\ avisos'[r][u] = 1
             /\ \E n \in Entregados' \ Entregados : eventos[n].recurso = r /\ u \in Faltan(n)

\* What a transaction inserts before it commits, and whatever an attempt left when it
\* failed, is nobody's notice.
THEOREM LoAvisadoQueda == Spec => [][AvisosFirmes]_vars
<1>1. OInv /\ [Next]_vars => AvisosFirmes
  <2> SUFFICES ASSUME OInv, [Next]_vars PROVE AvisosFirmes
    OBVIOUS
  <2>1. Bz!Next \/ UNCHANGED Bz!vars
    BY PasoBuzon
  <2>2. CASE /\ Publicado \subseteq Publicado' /\ Entregados' = Entregados /\ avisos' = avisos
    BY <2>2 DEF AvisosFirmes
  <2>3. ASSUME NEW n, Bz!Entregar(n) PROVE AvisosFirmes
    <3>1. /\ n \in EnEntrega /\ Entregados' = Entregados \cup {n} /\ Publicado' = Publicado
          /\ avisos' = [avisos EXCEPT ![Cola[n].recurso] =
                          [u \in Usuarios |-> IF u \in Listas[n] THEN 1 ELSE @[u]]]
      BY <2>3 DEF Bz!Entregar, Publicado, Cola, Entregados, Listas
    <3>2. PICK w \in Workers : n = wk[w].actual /\ n # 0
      BY <3>1 DEF EnEntrega
    <3>3. n \in wk[w].lote
      BY <3>2, Partes DEF TrabajoOK
    <3>4. n \in 1..Len(eventos) /\ eventos[n].estado = "procesando"
      BY <3>3, UnoSolo
    <3>5. n \in Entregados' \ Entregados /\ Listas[n] = Faltan(n)
      BY <3>1, <3>4 DEF Entregados, Listas
    <3>6. PICK r \in Recursos : r = eventos[n].recurso /\ Cola[n].recurso = r
      BY <3>4, Partes DEF Cola
    <3>7. /\ \A x \in Recursos : x # r => avisos'[x] = avisos[x]
          /\ \A u \in Usuarios : avisos'[r][u] = IF u \in Faltan(n) THEN 1 ELSE avisos[r][u]
      BY <3>1, <3>5, <3>6, Partes
    <3>8. \A u \in Faltan(n) : avisos[r][u] = 0
      BY <3>6 DEF Faltan
    <3>9. ASSUME NEW x \in Recursos, NEW u \in Usuarios, avisos'[x][u] # avisos[x][u]
          PROVE  x = r /\ u \in Faltan(n) /\ avisos[x][u] = 0 /\ avisos'[x][u] = 1
      BY <3>7, <3>8, <3>9
    <3> QED BY <3>1, <3>5, <3>6, <3>9 DEF AvisosFirmes
  <2>4. CASE UNCHANGED Bz!vars
    BY <2>2, <2>4 DEF Bz!vars, Publicado, Entregados
  <2>5. ASSUME NEW r, NEW k, Bz!Publicar(r, k) PROVE AvisosFirmes
    BY <2>2, <2>5 DEF Bz!Publicar, Publicado, Entregados
  <2>6. ASSUME NEW u, Bz!Cambiar(u) PROVE AvisosFirmes
    BY <2>2, <2>6 DEF Bz!Cambiar, Publicado, Entregados
  <2>7. ASSUME NEW n, Bz!Tomar(n) \/ Bz!Soltar(n) PROVE AvisosFirmes
    BY <2>2, <2>7 DEF Bz!Tomar, Bz!Soltar, Publicado, Entregados
  <2> QED BY <2>1, <2>3, <2>4, <2>5, <2>6, <2>7 DEF Bz!Next
<1> QED BY <1>1, InvarianteOutbox, PTL DEF Spec
=============================================================================
