------------------------------ MODULE Documentos ------------------------------
(***************************************************************************)
(* Documents (internal/documentos/service.go): the row is written with a   *)
(* signed PUT address, the client uploads the object by itself, and each   *)
(* download is scanned before a signed GET address is given.               *)
(*                                                                         *)
(* The only UPDATE of antivirus runs in a request that always ends in a    *)
(* rollback (GetDocumentDownloadUrl), so every committed row stays         *)
(* 'pendiente' and a verdict is seen by its own transaction alone.         *)
(***************************************************************************)
EXTENDS Naturals

CONSTANTS
    Docs,         \* identifiers of documents
    Descargas,    \* download requests that may run at the same time
    Escaner,      \* SCAN_DRIVER: "mock" or "none"
    MaxSubidas,   \* bound: uploads of one object
    NingunDoc     \* no document

ASSUME EscanerAssumption == Escaner \in {"mock", "none"}
ASSUME MaxSubidasAssumption == MaxSubidas \in Nat
ASSUME NingunDocAssumption == NingunDoc \notin Docs

VARIABLES
    documento,  \* table documentos: the committed rows
    puts,       \* documents whose PUT address has not expired
    objeto,     \* the bucket: what is stored under the key of each document
    subidas,    \* history: uploads of each object so far
    urls,       \* GET addresses that have not expired, with the upload scanned
    des         \* the open download requests

varsDoc == <<documento, puts, objeto, subidas, urls, des>>

Contenidos == {"sano", "infectado"}

Descarga == [paso: {"libre", "actualizar", "firmar"},
             doc: Docs \cup {NingunDoc}, copia: Nat,
             dictamen: {"pendiente", "limpio", "en_cuarentena"}]
DescargaLibre == [paso |-> "libre", doc |-> NingunDoc, copia |-> 0,
                  dictamen |-> "pendiente"]

TypeOKDoc ==
    /\ documento \subseteq Docs /\ puts \subseteq documento
    /\ objeto \in [Docs -> Contenidos \cup {"ausente"}]
    /\ subidas \in [Docs -> 0..MaxSubidas]
    /\ urls \subseteq [doc: documento, copia: 1..MaxSubidas]
    /\ des \in [Descargas -> Descarga]

InitDoc ==
    /\ documento = {} /\ puts = {} /\ urls = {}
    /\ objeto = [d \in Docs |-> "ausente"]
    /\ subidas = [d \in Docs |-> 0]
    /\ des = [w \in Descargas |-> DescargaLibre]

\* CreateUploadIntent: the row and the PUT address, or neither.
CreateUploadIntent(d) ==
    /\ d \notin documento
    /\ documento' = documento \cup {d}
    /\ puts' = puts \cup {d}
    /\ UNCHANGED <<objeto, subidas, urls, des>>

\* The client uploads to the bucket, as often as it likes while the address lives.
Subir(d, c) ==
    /\ d \in puts /\ subidas[d] < MaxSubidas
    /\ objeto' = [objeto EXCEPT ![d] = c]
    /\ subidas' = [subidas EXCEPT ![d] = @ + 1]
    /\ UNCHANGED <<documento, puts, urls, des>>

\* SignedTTL has passed.
Vencer ==
    /\ \/ \E d \in puts : puts' = puts \ {d} /\ UNCHANGED urls
       \/ \E u \in urls : urls' = urls \ {u} /\ UNCHANGED puts
    /\ UNCHANGED <<documento, objeto, subidas, des>>

SeguirDescarga(w, s) ==
    /\ des' = [des EXCEPT ![w] = s]
    /\ UNCHANGED <<documento, puts, objeto, subidas>>

\* The verdict of the scanner: the one of staging and production reads nothing.
Scan(c) == IF Escaner = "mock" /\ c = "infectado" THEN "en_cuarentena" ELSE "limpio"

\* RequestDownloadURL of a document, whose row is 'pendiente', up to Storage.Get and
\* Scan; without an object the request ends there.
ScanAndUpdate(w, d) ==
    /\ des[w].paso = "libre"
    /\ d \in documento /\ objeto[d] # "ausente"
    /\ SeguirDescarga(w, [paso |-> "actualizar", doc |-> d, copia |-> subidas[d],
                          dictamen |-> Scan(objeto[d])])
    /\ UNCHANGED urls

\* UpdateDocumentoScanResult waits for the transaction that holds the row.
UpdateDocumentoScanResult(w) ==
    /\ des[w].paso = "actualizar"
    /\ \A x \in Descargas : des[x].paso = "firmar" => des[x].doc # des[w].doc
    /\ SeguirDescarga(w, [des[w] EXCEPT !.paso = "firmar"])
    /\ UNCHANGED urls

\* Faulty: the row is not read again after the scan.
ReleidoSinRecargar(s) == "pendiente"

\* The second GetDocumento sees what this transaction wrote.
Releido(s) == s.dictamen

\* PresignGet, unless the row read again is in quarantine; then the rollback.
PresignGet(w) ==
    LET s == des[w]
    IN  /\ s.paso = "firmar"
        /\ urls' = IF Releido(s) = "en_cuarentena" THEN urls
                   ELSE urls \cup {[doc |-> s.doc, copia |-> s.copia]}
        /\ SeguirDescarga(w, DescargaLibre)

\* The storage does not answer, or the request is cancelled.
AbortarDescarga(w) ==
    /\ des[w].paso # "libre"
    /\ SeguirDescarga(w, DescargaLibre)
    /\ UNCHANGED urls

NextDoc ==
    \/ \E d \in Docs : CreateUploadIntent(d) \/ \E c \in Contenidos : Subir(d, c)
    \/ Vencer
    \/ \E w \in Descargas, d \in Docs : ScanAndUpdate(w, d)
    \/ \E w \in Descargas :
          UpdateDocumentoScanResult(w) \/ PresignGet(w) \/ AbortarDescarga(w)

-----------------------------------------------------------------------------

\* Where the scanner works, a download address never gives infected content,
\* unless the client uploaded another object after the scan: each verdict is the
\* one of its own request, though requests of one document run at the same time
\* and none of their verdicts is kept (scanAndUpdate and the reload after it).
DescargaEscaneada ==
    Escaner = "mock" =>
        \A u \in urls : subidas[u.doc] = u.copia => objeto[u.doc] = "sano"
=============================================================================
