--------------------------- MODULE TramitesProofs ---------------------------
(* The type invariant of Tramites, that a download address never gives what  *)
(* the scanner rejected, and that the history of a claim explains it, for    *)
(* any number of documents, claims and requests.                             *)
EXTENDS Tramites, TLAPS

-----------------------------------------------------------------------------
(* Documents *)

\* An open download saw an upload of a committed document, and has the verdict of
\* the object as long as nothing else was uploaded.
DescargaOK(w) ==
    des[w].paso # "libre" =>
        /\ des[w].doc \in documento
        /\ des[w].copia \in 1..subidas[des[w].doc]
        /\ subidas[des[w].doc] = des[w].copia =>
             des[w].dictamen = Scan(objeto[des[w].doc])

DInv ==
    /\ TypeOKDoc
    /\ \A d \in Docs : objeto[d] = "ausente" <=> subidas[d] = 0
    /\ \A w \in Descargas : DescargaOK(w)
    /\ \A u \in urls : u.copia <= subidas[u.doc]
    /\ DescargaEscaneada

\* A step of a download touches only its own request and, at most, the addresses.
LEMMA DescargaInv ==
  ASSUME DInv, NEW w \in Descargas, NEW s \in Descarga, SeguirDescarga(w, s),
         s.paso # "libre" =>
            /\ s.doc \in documento /\ s.copia \in 1..subidas[s.doc]
            /\ subidas[s.doc] = s.copia => s.dictamen = Scan(objeto[s.doc]),
         urls' \subseteq [doc: documento, copia: 1..MaxSubidas],
         \A u \in urls' \ urls : /\ u.copia <= subidas[u.doc]
                                 /\ Escaner = "mock" /\ subidas[u.doc] = u.copia =>
                                       objeto[u.doc] = "sano"
  PROVE  DInv'
<1>1. TypeOKDoc'
  BY DEF DInv, TypeOKDoc, SeguirDescarga
<1>2. \A x \in Descargas : DescargaOK(x)'
  BY DEF DInv, TypeOKDoc, SeguirDescarga, DescargaOK, Scan
<1>3. DescargaEscaneada' /\ \A u \in urls' : u.copia <= subidas'[u.doc]
  BY DEF DInv, SeguirDescarga, DescargaEscaneada
<1> QED BY <1>1, <1>2, <1>3 DEF DInv, SeguirDescarga

\* Uploads and downloads keep DInv: one case per operation of the service.
LEMMA DocumentosInv == DInv /\ (NextDoc \/ UNCHANGED varsDoc) => DInv'
<1> SUFFICES ASSUME DInv, NextDoc \/ UNCHANGED varsDoc PROVE DInv'
  OBVIOUS
<1>1. CASE UNCHANGED varsDoc
  BY <1>1 DEF DInv, varsDoc, TypeOKDoc, DescargaOK, DescargaEscaneada, Scan
<1>2. ASSUME NEW d \in Docs, CreateUploadIntent(d) PROVE DInv'
  <2>1. TypeOKDoc'
    BY <1>2 DEF CreateUploadIntent, DInv, TypeOKDoc
  <2>2. \A w \in Descargas : DescargaOK(w)'
    BY <1>2 DEF CreateUploadIntent, DInv, DescargaOK, Scan
  <2> QED BY <1>2, <2>1, <2>2 DEF CreateUploadIntent, DInv, DescargaEscaneada
<1>3. ASSUME NEW d \in Docs, NEW c \in Contenidos, Subir(d, c) PROVE DInv'
  <2>1. /\ subidas \in [Docs -> Nat] /\ MaxSubidas \in Nat
        /\ subidas'[d] = subidas[d] + 1
        /\ \A e \in Docs : e # d => subidas'[e] = subidas[e] /\ objeto'[e] = objeto[e]
    BY <1>3, MaxSubidasAssumption DEF Subir, DInv, TypeOKDoc
  <2>2. TypeOKDoc'
    BY <1>3, <2>1 DEF Subir, DInv, TypeOKDoc, Contenidos
  <2>3. \A e \in Docs : objeto'[e] = "ausente" <=> subidas'[e] = 0
    BY <1>3, <2>1 DEF Subir, DInv, TypeOKDoc, Contenidos
  <2>4. \A w \in Descargas : DescargaOK(w)'
    <3> SUFFICES ASSUME NEW w \in Descargas, des[w].paso # "libre"
                 PROVE  /\ des[w].copia \in 1..subidas'[des[w].doc]
                        /\ subidas'[des[w].doc] = des[w].copia =>
                             des[w].dictamen = Scan(objeto'[des[w].doc])
      BY <1>3 DEF Subir, DescargaOK, Scan, DInv
    <3>1. /\ des[w].doc \in Docs /\ des[w].copia \in Nat
          /\ des[w].copia \in 1..subidas[des[w].doc]
          /\ subidas[des[w].doc] = des[w].copia =>
               des[w].dictamen = Scan(objeto[des[w].doc])
      BY DEF DInv, TypeOKDoc, DescargaOK
    <3>2. CASE des[w].doc = d
      BY <2>1, <3>1, <3>2
    <3>3. CASE des[w].doc # d
      BY <2>1, <3>1, <3>3
    <3> QED BY <3>2, <3>3
  <2>5. \A u \in urls : u.copia \in Nat /\ u.doc \in Docs /\ u.copia <= subidas[u.doc]
    BY DEF DInv, TypeOKDoc
  <2>6. DescargaEscaneada' /\ \A u \in urls' : u.copia <= subidas'[u.doc]
    BY <1>3, <2>1, <2>5 DEF Subir, DInv, DescargaEscaneada
  <2> QED BY <2>2, <2>3, <2>4, <2>6 DEF DInv
<1>4. CASE Vencer
  <2>1. TypeOKDoc' /\ urls' \subseteq urls
    BY <1>4 DEF Vencer, DInv, TypeOKDoc
  <2>2. \A w \in Descargas : DescargaOK(w)'
    BY <1>4 DEF Vencer, DInv, DescargaOK, Scan
  <2> QED BY <1>4, <2>1, <2>2 DEF Vencer, DInv, DescargaEscaneada
<1>5. ASSUME NEW w \in Descargas, NEW d \in Docs, ScanAndUpdate(w, d) PROVE DInv'
  <2> DEFINE s == [paso |-> "actualizar", doc |-> d, copia |-> subidas[d],
                   dictamen |-> Scan(objeto[d])]
  <2>1. s \in Descarga /\ subidas[d] \in 1..subidas[d]
    BY <1>5 DEF ScanAndUpdate, Descarga, Scan, DInv, TypeOKDoc
  <2> QED BY <1>5, <2>1, DescargaInv DEF ScanAndUpdate, DInv, TypeOKDoc
<1>6. ASSUME NEW w \in Descargas, UpdateDocumentoScanResult(w) PROVE DInv'
  <2> DEFINE s == [des[w] EXCEPT !.paso = "firmar"]
  <2>1. /\ s \in Descarga /\ s.doc = des[w].doc /\ s.copia = des[w].copia
        /\ s.dictamen = des[w].dictamen
    BY DEF DInv, TypeOKDoc, Descarga
  <2>2. DescargaOK(w) /\ des[w].paso # "libre"
    BY <1>6 DEF DInv, UpdateDocumentoScanResult
  <2> HIDE DEF s
  <2> QED BY <1>6, <2>1, <2>2, DescargaInv
          DEF UpdateDocumentoScanResult, DescargaOK, DInv, TypeOKDoc, s
<1>7. ASSUME NEW w \in Descargas, PresignGet(w) PROVE DInv'
  <2>1. DescargaLibre \in Descarga /\ DescargaLibre.paso = "libre"
    BY DEF DescargaLibre, Descarga
  <2>2. DescargaOK(w) /\ des[w].paso # "libre" /\ des[w] \in Descarga
    BY <1>7 DEF DInv, PresignGet, TypeOKDoc
  <2>3. des[w].copia <= subidas[des[w].doc] /\ des[w].copia \in 1..MaxSubidas
    BY <2>2, MaxSubidasAssumption DEF DescargaOK, DInv, TypeOKDoc, Descarga
  <2>4. \A u \in urls' \ urls : u = [doc |-> des[w].doc, copia |-> des[w].copia]
                                /\ des[w].dictamen # "en_cuarentena"
    BY <1>7 DEF PresignGet, Releido
  <2>5. urls' \subseteq [doc: documento, copia: 1..MaxSubidas]
    BY <2>2, <2>3, <2>4 DEF DescargaOK, DInv, TypeOKDoc
  <2>6. Escaner = "mock" /\ subidas[des[w].doc] = des[w].copia
        /\ des[w].dictamen # "en_cuarentena" => objeto[des[w].doc] = "sano"
    <3>1. des[w].doc \in Docs /\ subidas[des[w].doc] \in Nat /\ des[w].copia \in 1..subidas[des[w].doc]
      BY <2>2 DEF DescargaOK, DInv, TypeOKDoc
    <3>2. objeto[des[w].doc] \in {"sano", "infectado"}
      BY <3>1 DEF DInv, TypeOKDoc, Contenidos
    <3> QED BY <2>2, <3>2 DEF DescargaOK, Scan
  <2> QED BY <1>7, <2>1, <2>3, <2>4, <2>5, <2>6, DescargaInv DEF PresignGet
<1>8. ASSUME NEW w \in Descargas, AbortarDescarga(w) PROVE DInv'
  <2>1. DescargaLibre \in Descarga /\ DescargaLibre.paso = "libre"
    BY DEF DescargaLibre, Descarga
  <2> QED BY <1>8, <2>1, DescargaInv DEF AbortarDescarga, DInv, TypeOKDoc
<1> QED BY <1>1, <1>2, <1>3, <1>4, <1>5, <1>6, <1>7, <1>8 DEF NextDoc

-----------------------------------------------------------------------------
(* Claims *)

\* A row of history that was prepared when its claim had n transitions.
FilaFiel(r, f) ==
    /\ f.from = Tras(r, f.leidas).estado
    /\ f.responsable = IF f.pide = Nadie THEN Tras(r, f.leidas).responsable ELSE f.pide
    /\ f.from = "cerrado" => f.to = "cerrado" \/ (f.accion = "reabrir" /\ f.motivo)

\* An open transition has prepared a row that is true of the history it read.
TramiteOK(w) ==
    tra[w] # TramiteLibre =>
        /\ reclamo[tra[w].r].estado # "inexistente"
        /\ tra[w].fila.leidas <= Len(historia[tra[w].r])
        /\ FilaFiel(tra[w].r, tra[w].fila)

RInv ==
    /\ TypeOKRec(Docs)
    /\ \A r \in Recls : reclamo[r].estado = "inexistente" =>
          historia[r] = <<>> /\ reclamo[r].responsable = Nadie
    /\ \A w \in Tramitadores : TramiteOK(w)
    /\ HistoriaFiel

\* Where an action leads: only reabrir takes a claim out of cerrado.
LEMMA DestinosSon ==
  ASSUME NEW a \in Acciones, NEW e \in DOMAIN Destinos(a)
  PROVE  Destinos(a)[e] \in Estados /\ (e = "cerrado" => a = "reabrir")
<1>1. CASE a = "asignar"
  BY <1>1 DEF Destinos, Estados
<1>2. CASE a = "en_progreso"
  BY <1>2 DEF Destinos, Estados
<1>3. CASE a = "resolver"
  BY <1>3 DEF Destinos, Estados
<1>4. CASE a = "cerrar"
  BY <1>4 DEF Destinos, Estados
<1>5. CASE a = "reabrir"
  BY <1>5 DEF Destinos, Estados
<1> QED BY <1>1, <1>2, <1>3, <1>4, <1>5 DEF Acciones

\* A prepared row is a record of the table.
LEMMA TramiteEs ==
  ASSUME RInv, NEW w \in Tramitadores, tra[w] # TramiteLibre
  PROVE  tra[w] \in Tramite /\ tra[w].r \in Recls /\ tra[w].fila \in Transicion
  BY DEF RInv, TypeOKRec, Tramite

\* HistoriaFiel, row by row.
FilaEn(r, i) ==
    LET f == historia[r][i]
    IN  /\ f.leidas < i
        /\ f.from = Tras(r, f.leidas).estado
        /\ f.responsable = IF f.pide = Nadie
                           THEN Tras(r, f.leidas).responsable ELSE f.pide
        /\ Tras(r, i - 1).estado = "cerrado" =>
              \/ f.accion = "reabrir" /\ f.motivo
              \/ f.to = "cerrado"
              \/ \E n \in (f.leidas + 1)..(i - 1) : historia[r][n].to = "cerrado"
ReclamoFiel(r) ==
    /\ reclamo[r] = Tras(r, Len(historia[r]))
    /\ \A i \in 1..Len(historia[r]) : FilaEn(r, i)

\* The two forms are the same, before and after a step.
LEMMA PorReclamo ==
  /\ HistoriaFiel <=> \A r \in Recls : reclamo[r].estado # "inexistente" => ReclamoFiel(r)
  /\ HistoriaFiel' <=>
       \A r \in Recls : reclamo'[r].estado # "inexistente" => ReclamoFiel(r)'
  BY Zenon DEF HistoriaFiel, ReclamoFiel, FilaEn

\* What a claim with its history leaves alone stays as true as it was.
LEMMA MismoReclamo ==
  ASSUME NEW r \in Recls, historia'[r] = historia[r]
  PROVE  /\ \A n : Tras(r, n)' = Tras(r, n)
         /\ reclamo'[r] = reclamo[r] /\ ReclamoFiel(r) => ReclamoFiel(r)'
<1>1. \A n : Tras(r, n)' = Tras(r, n)
  BY DEF Tras
<1>2. \A i : FilaEn(r, i)' <=> FilaEn(r, i)
  BY <1>1 DEF FilaEn
<1> QED BY <1>1, <1>2 DEF ReclamoFiel

\* Creating a claim starts its empty history.
LEMMA CreateReclamoInv ==
  ASSUME RInv, NEW r \in Recls, CreateReclamo(r)
  PROVE  RInv'
<1>1. TypeOKRec(Docs)'
  BY DEF RInv, TypeOKRec, CreateReclamo, Estados
<1>2. /\ reclamo'[r] = [estado |-> "abierto", responsable |-> Nadie]
      /\ \A q \in Recls \ {r} : reclamo'[q] = reclamo[q]
      /\ historia' = historia /\ tra' = tra /\ historia[r] = <<>>
  BY DEF RInv, TypeOKRec, CreateReclamo
<1>3. \A w \in Tramitadores : TramiteOK(w)'
  BY <1>2, TramiteEs DEF RInv, TramiteOK, FilaFiel, Tras
<1>4. ReclamoFiel(r)'
  BY <1>2 DEF ReclamoFiel, Tras
<1>5. HistoriaFiel'
  BY <1>2, <1>4, MismoReclamo, PorReclamo DEF RInv
<1> QED BY <1>1, <1>2, <1>3, <1>5 DEF RInv

\* GetReclamo prepares a row that is true of the history it reads.
LEMMA GetReclamoInv ==
  ASSUME RInv, NEW w \in Tramitadores, NEW r \in Recls, NEW a \in Acciones,
         NEW m \in BOOLEAN, NEW u \in Usuarios \cup {Nadie}, GetReclamo(w, r, a, m, u)
  PROVE  RInv'
<1> DEFINE x == reclamo[r]
           fila == [accion |-> a, motivo |-> m, from |-> x.estado,
                    to |-> Destinos(a)[x.estado], pide |-> u,
                    responsable |-> Responsable(x, u), leidas |-> Len(historia[r])]
<1> SUFFICES ASSUME NEW f, f = fila PROVE RInv'
  OBVIOUS
<1>1. /\ x.estado \in Estados \cup {"inexistente"} /\ x.responsable \in Usuarios \cup {Nadie}
      /\ historia[r] \in Seq(Transicion) /\ Len(historia[r]) \in Nat
  BY DEF RInv, TypeOKRec
<1>2. Destinos(a)[x.estado] \in Estados /\ (x.estado = "cerrado" => a = "reabrir")
      /\ x.estado \in Estados
  <2>1. x.estado \in DOMAIN Destinos(a)
    BY DEF GetReclamo
  <2>2. DOMAIN Destinos(a) \subseteq Estados
    BY DEF Destinos, Acciones, Estados
  <2> QED BY <2>1, <2>2, DestinosSon
<1>3. f \in Transicion
  BY <1>1, <1>2 DEF Transicion, Responsable
<1>4. tra' = [tra EXCEPT ![w] = [r |-> r, fila |-> f]]
  BY DEF GetReclamo, SeguirTramite
<1>5. [r |-> r, fila |-> f] \in Tramite
  BY <1>3 DEF Tramite
<1>6. x = Tras(r, Len(historia[r])) /\ x.estado # "inexistente"
  BY <1>2, PorReclamo DEF RInv, ReclamoFiel, Estados
<1>7. FilaFiel(r, f)
  BY <1>2, <1>6 DEF FilaFiel, Responsable, GetReclamo
<1>8. UNCHANGED <<reclamo, historia, adjuntos>> /\ f.leidas = Len(historia[r])
  BY DEF GetReclamo
<1> HIDE DEF fila
<1>9. TypeOKRec(Docs)'
  BY <1>4, <1>5, <1>8 DEF RInv, TypeOKRec
<1>10. \A v \in Tramitadores : TramiteOK(v)'
  <2> SUFFICES ASSUME NEW v \in Tramitadores PROVE TramiteOK(v)'
    OBVIOUS
  <2>1. CASE v = w
    <3>1. tra'[w].r = r /\ tra'[w].fila = f
      BY <1>4, <1>5 DEF RInv, TypeOKRec
    <3>2. FilaFiel(r, f)'
      BY <1>7, <1>8 DEF FilaFiel, Tras
    <3> QED BY <1>1, <1>6, <1>8, <2>1, <3>1, <3>2 DEF TramiteOK
  <2>2. CASE v # w
    BY <1>4, <1>8, <2>2 DEF RInv, TypeOKRec, TramiteOK, FilaFiel, Tras
  <2> QED BY <2>1, <2>2
<1> QED BY <1>8, <1>9, <1>10, MismoReclamo, PorReclamo DEF RInv

\* Transicionar appends its row, whatever the claim has become since it was read.
LEMMA TransicionarInv ==
  ASSUME RInv, NEW w \in Tramitadores, Transicionar(w)
  PROVE  RInv'
<1> SUFFICES ASSUME NEW r, r = tra[w].r, NEW f, f = tra[w].fila,
                    NEW n, n = Len(historia[r])
             PROVE  RInv'
  OBVIOUS
<1>1. tra[w] # TramiteLibre /\ r \in Recls /\ f \in Transicion /\ TramiteOK(w)
  BY TramiteEs DEF Transicionar, RInv
<1>2. /\ historia[r] \in Seq(Transicion) /\ n \in Nat
      /\ f.leidas \in Nat /\ f.leidas <= n /\ FilaFiel(r, f)
      /\ reclamo[r].estado # "inexistente" /\ ReclamoFiel(r)
  <2>1. historia[r] \in Seq(Transicion) /\ n \in Nat /\ f.leidas \in Nat
    <3>1. historia[r] \in Seq(Transicion)
      BY <1>1 DEF RInv, TypeOKRec
    <3>2. f.leidas \in Nat
      BY <1>1 DEF Transicion
    <3> QED BY <3>1, <3>2
  <2>2. f.leidas <= n /\ FilaFiel(r, f) /\ reclamo[r].estado # "inexistente"
    BY <1>1 DEF TramiteOK
  <2>3. ReclamoFiel(r)
    BY <1>1, <2>2, PorReclamo DEF RInv
  <2> QED BY <2>1, <2>2, <2>3
<1>3. /\ historia' = [historia EXCEPT ![r] = Append(@, f)]
      /\ reclamo' = [reclamo EXCEPT ![r] = [estado |-> f.to,
                                            responsable |-> f.responsable]]
      /\ tra' = [tra EXCEPT ![w] = TramiteLibre] /\ adjuntos' = adjuntos
  BY DEF Transicionar, SeguirTramite
<1>4. TypeOKRec(Docs)'
  <2>1. [estado |-> f.to, responsable |-> f.responsable]
          \in [estado: Estados \cup {"inexistente"}, responsable: Usuarios \cup {Nadie}]
    BY <1>1 DEF Transicion
  <2>2. Append(historia[r], f) \in Seq(Transicion)
    BY <1>1, <1>2
  <2> QED BY <1>3, <2>1, <2>2 DEF RInv, TypeOKRec
<1>5. /\ historia'[r] = Append(historia[r], f) /\ Len(historia'[r]) = n + 1
      /\ historia'[r][n + 1] = f
      /\ \A i \in 1..n : historia'[r][i] = historia[r][i]
      /\ reclamo'[r] = [estado |-> f.to, responsable |-> f.responsable]
      /\ \A q \in Recls \ {r} : reclamo'[q] = reclamo[q] /\ historia'[q] = historia[q]
  BY <1>1, <1>2, <1>3 DEF RInv, TypeOKRec
<1>6. \A i \in 0..n : Tras(r, i)' = Tras(r, i)
  BY <1>2, <1>5 DEF Tras
<1>7. ReclamoFiel(r)'
  <2>1. reclamo'[r] = Tras(r, Len(historia[r]))'
    BY <1>2, <1>5 DEF Tras
  <2>2. ASSUME NEW i \in 1..n PROVE FilaEn(r, i)'
    <3>1. FilaEn(r, i) /\ historia[r][i].leidas \in Nat
      <4>1. historia[r][i] \in Transicion
        BY <1>2
      <4> QED BY <1>2, <4>1 DEF ReclamoFiel, Transicion
    <3>2. historia[r][i].leidas \in 0..n /\ i - 1 \in 0..n /\ i \in Nat
      BY <1>2, <3>1 DEF FilaEn
    <3>3. /\ historia'[r][i] = historia[r][i]
          /\ \A m \in (historia[r][i].leidas + 1)..(i - 1) : historia'[r][m] = historia[r][m]
      BY <1>2, <1>5, <3>1, <3>2
    <3> QED BY <1>6, <3>1, <3>2, <3>3 DEF FilaEn
  <2>3. FilaEn(r, n + 1)'
    <3>1. Tras(r, f.leidas)' = Tras(r, f.leidas) /\ Tras(r, n)' = Tras(r, n)
      BY <1>2, <1>6
    <3>2. f.leidas < n + 1 /\ (n + 1) - 1 = n
      BY <1>2
    <3>3. Tras(r, n).estado = "cerrado" =>
              \/ f.accion = "reabrir" /\ f.motivo
              \/ f.to = "cerrado"
              \/ \E m \in (f.leidas + 1)..n : historia'[r][m].to = "cerrado"
      <4>1. CASE f.leidas = n
        BY <1>2, <4>1 DEF FilaFiel
      <4>2. CASE f.leidas < n
        <5>1. n \in (f.leidas + 1)..n /\ n # 0 /\ historia'[r][n] = historia[r][n]
          BY <1>2, <1>5, <4>2
        <5>2. Tras(r, n).estado = historia[r][n].to
          BY <5>1 DEF Tras
        <5> QED BY <5>1, <5>2
      <4> QED BY <1>2, <4>1, <4>2
    <3>4. /\ f.from = Tras(r, f.leidas)'.estado
          /\ f.responsable = IF f.pide = Nadie
                             THEN Tras(r, f.leidas)'.responsable ELSE f.pide
      BY <1>2, <3>1 DEF FilaFiel
    <3>5. Tras(r, (n + 1) - 1)' = Tras(r, n)
      BY <3>1, <3>2
    <3> QED BY <1>5, <3>2, <3>3, <3>4, <3>5 DEF FilaEn
  <2>4. \A i \in 1..(n + 1) : i \in 1..n \/ i = n + 1
    BY <1>2
  <2> QED BY <1>5, <2>1, <2>2, <2>3, <2>4 DEF ReclamoFiel
<1>8. HistoriaFiel'
  BY <1>1, <1>5, <1>7, MismoReclamo, PorReclamo DEF RInv
<1>9. \A v \in Tramitadores : TramiteOK(v)'
  <2> SUFFICES ASSUME NEW v \in Tramitadores, tra'[v] # TramiteLibre
               PROVE  TramiteOK(v)'
    BY DEF TramiteOK
  <2>1. v # w /\ tra'[v] = tra[v]
    BY <1>3 DEF RInv, TypeOKRec
  <2> SUFFICES ASSUME NEW s, s = tra[v]
               PROVE  /\ reclamo'[s.r].estado # "inexistente"
                      /\ s.fila.leidas <= Len(historia'[s.r])
                      /\ FilaFiel(s.r, s.fila)'
    BY <2>1 DEF TramiteOK, FilaFiel, Tras
  <2>2. s.r \in Recls /\ TramiteOK(v) /\ s.fila.leidas \in Nat
    BY <2>1, TramiteEs DEF RInv, Transicion
  <2>3. CASE s.r = r
    <3>1. s.fila.leidas \in 0..n /\ FilaFiel(r, s.fila)
      BY <1>2, <2>1, <2>2, <2>3 DEF TramiteOK
    <3>2. reclamo'[r].estado # "inexistente"
      BY <1>1, <1>5 DEF Transicion, Estados
    <3>3. Tras(r, s.fila.leidas)' = Tras(r, s.fila.leidas)
      BY <1>6, <3>1
    <3>4. s.fila.leidas <= Len(historia'[r])
      BY <1>2, <1>5, <3>1
    <3> QED BY <2>3, <3>1, <3>2, <3>3, <3>4 DEF FilaFiel
  <2>4. CASE s.r # r
    BY <1>5, <2>1, <2>2, <2>4 DEF TramiteOK, FilaFiel, Tras
  <2> QED BY <2>3, <2>4
<1>10. \A q \in Recls : reclamo'[q].estado = "inexistente" =>
          historia'[q] = <<>> /\ reclamo'[q].responsable = Nadie
  BY <1>1, <1>5 DEF RInv, Transicion, Estados
<1> QED BY <1>4, <1>8, <1>9, <1>10 DEF RInv

\* Claims keep RInv: one case per operation.
LEMMA ReclamosInv == RInv /\ DInv /\ (NextRec(documento) \/ UNCHANGED varsRec) => RInv'
<1> SUFFICES ASSUME RInv, DInv, NextRec(documento) \/ UNCHANGED varsRec PROVE RInv'
  OBVIOUS
<1>1. ASSUME UNCHANGED <<reclamo, historia>>, TypeOKRec(Docs)',
             \A w \in Tramitadores : tra'[w] = tra[w] \/ tra'[w] = TramiteLibre
      PROVE  RInv'
  <2>1. \A w \in Tramitadores : TramiteOK(w)'
    BY <1>1 DEF RInv, TramiteOK, FilaFiel, Tras
  <2> QED BY <1>1, <2>1, MismoReclamo, PorReclamo DEF RInv
<1>2. CASE UNCHANGED varsRec
  BY <1>1, <1>2 DEF varsRec, RInv, TypeOKRec
<1>3. ASSUME NEW r \in Recls, NEW d \in documento, AddMensaje(r, d, documento) PROVE RInv'
  <2>1. d \in Docs
    BY DEF DInv, TypeOKDoc
  <2> QED BY <1>1, <1>3, <2>1 DEF AddMensaje, RInv, TypeOKRec
<1>4. ASSUME NEW w \in Tramitadores, AbortarTramite(w) PROVE RInv'
  BY <1>1, <1>4 DEF AbortarTramite, SeguirTramite, RInv, TypeOKRec
<1> QED BY <1>2, <1>3, <1>4, CreateReclamoInv, GetReclamoInv, TransicionarInv DEF NextRec

-----------------------------------------------------------------------------
(* Theorems *)

\* DInv and RInv hold in every reachable state.
LEMMA Invariantes == Spec => [](DInv /\ RInv)
<1>1. Init => DInv
  BY MaxSubidasAssumption DEF Init, InitDoc, DInv, TypeOKDoc, DescargaOK, DescargaLibre,
     Descarga, DescargaEscaneada
<1>2. Init => RInv
  BY DEF Init, InitRec, RInv, TypeOKRec, TramiteOK, HistoriaFiel
<1>3. DInv /\ RInv /\ [Next]_vars => (DInv /\ RInv)'
  <2> SUFFICES ASSUME DInv, RInv, [Next]_vars PROVE (DInv /\ RInv)'
    OBVIOUS
  <2>1. (NextDoc \/ UNCHANGED varsDoc) /\ (NextRec(documento) \/ UNCHANGED varsRec)
    BY DEF Next, vars
  <2> QED BY <2>1, DocumentosInv, ReclamosInv
<1> QED BY <1>1, <1>2, <1>3, PTL DEF Spec

\* Every reachable state is well typed: in particular a message only attaches
\* documents that exist.
THEOREM Tipos == Spec => []TypeOK
<1>1. DInv /\ RInv => TypeOK
  BY DEF DInv, RInv, TypeOK
<1> QED BY <1>1, Invariantes, PTL

\* A download address never gives infected content to whom the scanner reads for,
\* unless the client uploaded again: the verdict is the one of the request itself,
\* though no verdict is ever committed (GetDocumentDownloadUrl ends in a rollback).
THEOREM SiempreEscaneada == Spec => []DescargaEscaneada
<1>1. DInv => DescargaEscaneada
  BY DEF DInv
<1> QED BY <1>1, Invariantes, PTL

\* The history of a claim explains what it is, though transitions read it without
\* a lock and any number of them may start from one estado.
THEOREM SiempreFiel == Spec => []HistoriaFiel
<1>1. RInv => HistoriaFiel
  BY DEF RInv
<1> QED BY <1>1, Invariantes, PTL
=============================================================================
