----------------------------- MODULE Importaciones -----------------------------
(***************************************************************************)
(* Import jobs of unidades (internal/consorcios/imports.go): a CSV file is *)
(* validated into a job without writing anything, and its confirmation     *)
(* creates and updates the unidades, with their vinculos, in one           *)
(* transaction under an idempotency key.                                   *)
(*                                                                         *)
(* A session is one transaction at READ COMMITTED.  It holds the row of    *)
(* the job from SetImportJobEstado to its end, and the row of each unidad  *)
(* from the moment it creates or updates it.  The estados pendiente and    *)
(* confirmando are never seen outside the transaction that sets them.      *)
(***************************************************************************)
EXTENDS Naturals, Sequences, FiniteSets

CONSTANTS
    Jobs,      \* identifiers of import jobs
    Archivo,   \* the rows of the file of each job: [codigo, bien, persona]
    Codigos,   \* codes of unidades, all of one consorcio
    Personas,  \* persons (by documento)
    Claves,    \* Idempotency-Key values
    Sesiones,  \* transactions that may be open at the same time
    Ninguno    \* no value

ASSUME ArchivosAssumption ==
    /\ DOMAIN Archivo = Jobs
    /\ \A j \in Jobs : Archivo[j] \in Seq([codigo: Codigos, bien: BOOLEAN,
                                           persona: Personas \cup {Ninguno}])
\* Ninguno is no value of any kind, and a history indexed by jobs and by keys can
\* tell them apart.
ASSUME NingunoAssumption ==
    /\ Ninguno \notin Jobs \cup Personas \cup Claves
    /\ \A ps \in SUBSET Personas : ps # Ninguno
ASSUME ClavesAssumption == Jobs \cap Claves = {}

VARIABLES
    job,           \* table import_jobs
    unidad,        \* table unidades, by codigo, with the persons whose vinculo is open
    idem,          \* idempotency_keys of scope 'import_jobs.confirm'
    ses,           \* the open transactions
    aplicaciones,  \* history: confirmations of each job, and of each key, that committed
    tocadas,       \* history: unidades that each job created or updated
    cruzados,      \* history: jobs confirmed by two requests at the same time
    importadas     \* history: unidades whose vinculos an import set last

vars == <<job, unidad, idem, ses, aplicaciones, tocadas, cruzados, importadas>>
tablas == <<job, unidad, idem>>
historia == <<aplicaciones, tocadas, importadas>>

Modos == {"crear", "actualizar", "crear_y_actualizar"}
Pasos == {"libre", "leer", "sellar", "tomar", "buscar", "escribir", "terminar"}

\* nuevas: what the transaction has written, by codigo; Ninguno where it has not.
Sesion == [paso: Pasos, job: Jobs \cup {Ninguno}, clave: Claves \cup {Ninguno},
           fila: Nat, existe: BOOLEAN,
           nuevas: [Codigos -> (SUBSET Personas) \cup {Ninguno}],
           creadas: SUBSET Codigos, creados: Nat, actualizados: Nat]

TypeOK ==
    /\ job \in [Jobs -> [estado: {"inexistente", "listo", "procesado"}, modo: Modos,
                         creados: Nat, actualizados: Nat, rechazados: Nat]]
    /\ unidad \in [Codigos -> [existe: BOOLEAN, vigentes: SUBSET Personas]]
    /\ idem \in [Claves -> Jobs \cup {Ninguno}]
    /\ ses \in [Sesiones -> Sesion]
    /\ aplicaciones \in [Jobs \cup Claves -> Nat]
    /\ tocadas \in [Jobs -> SUBSET Codigos]
    /\ cruzados \subseteq Jobs
    /\ importadas \subseteq Codigos

SesionLibre == [paso |-> "libre", job |-> Ninguno, clave |-> Ninguno, fila |-> 1,
                existe |-> FALSE, nuevas |-> [c \in Codigos |-> Ninguno],
                creadas |-> {}, creados |-> 0, actualizados |-> 0]

Init ==
    /\ job = [j \in Jobs |-> [estado |-> "inexistente", modo |-> "crear", creados |-> 0,
                              actualizados |-> 0, rechazados |-> 0]]
    /\ unidad = [c \in Codigos |-> [existe |-> FALSE, vigentes |-> {}]]
    /\ idem = [k \in Claves |-> Ninguno]
    /\ ses = [w \in Sesiones |-> SesionLibre]
    /\ aplicaciones = [x \in Jobs \cup Claves |-> 0]
    /\ tocadas = [j \in Jobs |-> {}]
    /\ cruzados = {} /\ importadas = {}

Seguir(w, s) == ses' = [ses EXCEPT ![w] = s]
Terminar(w)  == Seguir(w, SesionLibre)

-----------------------------------------------------------------------------
(* The file *)

\* Faulty: a code may come twice.
ValidaSinDuplicados(a, i) == a[i].bien

\* parsePlantillaUFSCSV: a row is valid when its fields are, and no row before it,
\* valid or not, has its code.
Valida(a, i) == a[i].bien /\ \A h \in 1..(i - 1) : a[h].codigo # a[i].codigo

\* The rows that a confirmation still has to look at, from row i on.
Quedan(j, i) == {h \in i..Len(Archivo[j]) : Valida(Archivo[j], h)}

\* The first of them, or one past the end.
Proxima(j, i) == CHOOSE h \in Quedan(j, i) \cup {Len(Archivo[j]) + 1} :
                    \A g \in Quedan(j, i) : h <= g

\* CreateImportJob: the file is parsed and stored; no unidad is written.
CreateImportJob(j, modo) ==
    /\ job[j].estado = "inexistente"
    /\ job' = [job EXCEPT ![j].estado = "listo", ![j].modo = modo]
    /\ UNCHANGED <<unidad, idem, ses, historia, cruzados>>

-----------------------------------------------------------------------------
(* The confirmation *)

\* POST /import-jobs/{id}/confirm, or a retry of one.
RecibirConfirm(w, j, k) ==
    /\ ses[w].paso = "libre"
    /\ job[j].estado # "inexistente"
    /\ Seguir(w, [SesionLibre EXCEPT !.paso = "leer", !.job = j, !.clave = k])
    /\ cruzados' = IF \E x \in Sesiones \ {w} : ses[x].job = j
                   THEN cruzados \cup {j} ELSE cruzados
    /\ UNCHANGED <<tablas, historia>>

\* Faulty: a job that was processed is taken again.
AccionableSiempre(estado) == TRUE

\* Only a job that is 'listo' is processed; one already 'procesado' is answered.
Accionable(estado) == estado = "listo"

\* GetImportJob.
GetImportJob(w) ==
    /\ ses[w].paso = "leer"
    /\ \/ Accionable(job[ses[w].job].estado) /\ Seguir(w, [ses[w] EXCEPT !.paso = "sellar"])
       \/ ~Accionable(job[ses[w].job].estado) /\ Terminar(w)
    /\ UNCHANGED <<tablas, historia, cruzados>>

EnProceso == {"tomar", "buscar", "escribir", "terminar"}

\* InsertIdempotencyKey waits for an uncommitted row of the key; with a committed
\* one the request is answered, or refused when it is of another job.
Sellar(w) ==
    /\ ses[w].paso = "sellar"
    /\ \A x \in Sesiones \ {w} : ses[x].paso \in EnProceso => ses[x].clave # ses[w].clave
    /\ \/ idem[ses[w].clave] = Ninguno /\ Seguir(w, [ses[w] EXCEPT !.paso = "tomar"])
       \/ idem[ses[w].clave] # Ninguno /\ Terminar(w)
    /\ UNCHANGED <<tablas, historia, cruzados>>

\* The step at row i: to look for its unidad, or to finish.
EnFila(s, i) == [s EXCEPT !.fila = i,
                          !.paso = IF i > Len(Archivo[s.job]) THEN "terminar" ELSE "buscar"]

\* SetImportJobEstado takes the row of the job, whatever its estado is by now.
SetImportJobEstado(w) ==
    /\ ses[w].paso = "tomar"
    /\ \A x \in Sesiones \ {w} :
          ses[x].paso \in EnProceso \ {"tomar"} => ses[x].job # ses[w].job
    /\ Seguir(w, EnFila(ses[w], Proxima(ses[w].job, 1)))
    /\ UNCHANGED <<tablas, historia, cruzados>>

Fila(s) == Archivo[s.job][s.fila]

\* GetUnidadByCodigo: committed rows and those of this transaction.
GetUnidadByCodigo(w) ==
    LET s == ses[w]
        c == Fila(s).codigo
    IN  /\ s.paso = "buscar"
        /\ Seguir(w, [s EXCEPT !.paso = "escribir",
                               !.existe = unidad[c].existe \/ s.nuevas[c] # Ninguno])
        /\ UNCHANGED <<tablas, historia, cruzados>>

\* The sessions other than w that have created or updated the unidad of code c.
Retienen(w, c) == {x \in Sesiones \ {w} : ses[x].nuevas[c] # Ninguno}

\* procesarFilas: the row is rejected by the mode of the job.
Rechaza(modo, existe) ==
    (modo = "crear" /\ existe) \/ (modo = "actualizar" /\ ~existe)

RechazarFila(w) ==
    LET s == ses[w]
    IN  /\ s.paso = "escribir"
        /\ Rechaza(job[s.job].modo, s.existe)
        /\ Seguir(w, EnFila(s, Proxima(s.job, s.fila + 1)))
        /\ UNCHANGED <<tablas, historia, cruzados>>

SoloUna(p) == IF p = Ninguno THEN {} ELSE {p}

\* crearUnidadDesdeFila: the unique index of codigo waits for an uncommitted row,
\* and a committed one aborts the whole job (23505).
CrearUnidadDesdeFila(w) ==
    LET s == ses[w]
        c == Fila(s).codigo
    IN  /\ s.paso = "escribir" /\ ~s.existe
        /\ ~Rechaza(job[s.job].modo, s.existe)
        /\ Retienen(w, c) = {}
        /\ \/ unidad[c].existe /\ Terminar(w)
           \/ /\ ~unidad[c].existe
              /\ Seguir(w, [EnFila(s, Proxima(s.job, s.fila + 1)) EXCEPT
                              !.nuevas[c] = SoloUna(Fila(s).persona),
                              !.creadas = @ \cup {c}, !.creados = @ + 1])
        /\ UNCHANGED <<tablas, historia, cruzados>>

\* The open vinculos that this transaction sees.
Vigentes(s, c) == IF s.nuevas[c] # Ninguno THEN s.nuevas[c] ELSE unidad[c].vigentes

\* Faulty: only the vinculo of the same person is closed.
TrasVinculoDeLaPersona(vigentes, p) == vigentes \cup {p}

\* CloseAllVinculosVigentes and attachPersona.
TrasVinculo(vigentes, p) == {p}

\* actualizarUnidadDesdeFila: UpdateUnidad waits for the row of the unidad; a row
\* of the file without a person leaves the vinculos alone.
ActualizarUnidadDesdeFila(w) ==
    LET s == ses[w]
        c == Fila(s).codigo
        p == Fila(s).persona
        v == Vigentes(s, c)
    IN  /\ s.paso = "escribir" /\ s.existe
        /\ ~Rechaza(job[s.job].modo, s.existe)
        /\ Retienen(w, c) = {}
        /\ Seguir(w, [EnFila(s, Proxima(s.job, s.fila + 1)) EXCEPT
                        !.nuevas[c] = IF p = Ninguno THEN v ELSE TrasVinculo(v, p),
                        !.actualizados = @ + 1])
        /\ UNCHANGED <<tablas, historia, cruzados>>

\* Faulty: an updated row is taken off twice.
RechazadosDosVeces(s) == Len(Archivo[s.job]) - s.creados - 2 * s.actualizados

\* Every row that was neither created nor updated counts as rejected.
Rechazados(s) == Len(Archivo[s.job]) - s.creados - s.actualizados

Escritas(s) == {c \in Codigos : s.nuevas[c] # Ninguno}

\* FinishImportJob, UpdateIdempotencyKey and the commit.
FinishImportJob(w) ==
    LET s == ses[w]
        j == s.job
    IN  /\ s.paso = "terminar"
        /\ job' = [job EXCEPT ![j] = [estado |-> "procesado", modo |-> job[j].modo,
                                      creados |-> s.creados,
                                      actualizados |-> s.actualizados,
                                      rechazados |-> Rechazados(s)]]
        /\ unidad' = [c \in Codigos |->
                        IF c \in Escritas(s)
                        THEN [existe |-> TRUE, vigentes |-> s.nuevas[c]] ELSE unidad[c]]
        /\ idem' = [idem EXCEPT ![s.clave] = j]
        /\ aplicaciones' = [aplicaciones EXCEPT ![j] = @ + 1, ![s.clave] = @ + 1]
        /\ tocadas' = [tocadas EXCEPT ![j] = @ \cup Escritas(s)]
        /\ importadas' = importadas \cup s.creadas
                         \cup {c \in Escritas(s) : s.nuevas[c] # unidad[c].vigentes}
        /\ Terminar(w)
        /\ UNCHANGED cruzados

-----------------------------------------------------------------------------
(* The rest *)

\* POST /unidades (consorcios.CreateUnidad), with its first vinculos.
CreateUnidad(c, ps) ==
    /\ ~unidad[c].existe
    /\ \A w \in Sesiones : ses[w].nuevas[c] = Ninguno
    /\ unidad' = [unidad EXCEPT ![c] = [existe |-> TRUE, vigentes |-> ps]]
    /\ UNCHANGED <<job, idem, ses, historia, cruzados>>

\* Rollback: a cancelled request, a crash, a deadlock that PostgreSQL breaks (two
\* files that name the same unidades in opposite orders), a documento that another
\* transaction has just created.
Abortar(w) ==
    /\ ses[w].paso # "libre"
    /\ Terminar(w)
    /\ UNCHANGED <<tablas, historia, cruzados>>

Next ==
    \/ \E j \in Jobs, modo \in Modos : CreateImportJob(j, modo)
    \/ \E w \in Sesiones, j \in Jobs, k \in Claves : RecibirConfirm(w, j, k)
    \/ \E w \in Sesiones :
          \/ GetImportJob(w) \/ Sellar(w) \/ SetImportJobEstado(w)
          \/ GetUnidadByCodigo(w) \/ RechazarFila(w) \/ CrearUnidadDesdeFila(w)
          \/ ActualizarUnidadDesdeFila(w) \/ FinishImportJob(w) \/ Abortar(w)
    \/ \E c \in Codigos, ps \in SUBSET Personas : CreateUnidad(c, ps)

Spec == Init /\ [][Next]_vars

-----------------------------------------------------------------------------
(* Properties *)

\* ADR-0004: a key applies one job once, even when two requests carry it at the
\* same time; and a job is applied once whatever the keys, unless two requests
\* confirmed it at the same time (ConfirmImportJob reads the estado without a lock
\* and takes the row later).
AplicadoUnaVez ==
    /\ \A k \in Claves : aplicaciones[k] <= 1
    /\ \A j \in Jobs \ cruzados : aplicaciones[j] <= 1

\* The summary of a processed job is what it did: it created or updated as many
\* different unidades as it says, and it rejected the other rows.
ResumenFiel ==
    \A j \in Jobs \ cruzados :
        job[j].estado = "procesado" =>
            /\ job[j].creados + job[j].actualizados = Cardinality(tocadas[j])
            /\ job[j].rechazados = Len(Archivo[j]) - Cardinality(tocadas[j])

\* A unidad whose vinculos an import set last has one open vinculo at most, though
\* two jobs may update it at the same time (actualizarUnidadDesdeFila holds the
\* row of the unidad when it closes the vinculos).
UnVinculoImportado == \A c \in importadas : Cardinality(unidad[c].vigentes) <= 1

-----------------------------------------------------------------------------
(* Refinement *)

\* The codes of the rows that count, each with the person of its row.
Pedidos(j) == {Archivo[j][h].codigo : h \in Quedan(j, 1)}
PersonaDe(j, c) ==
    Archivo[j][CHOOSE h \in Quedan(j, 1) : Archivo[j][h].codigo = c].persona

Resumen(x) == [creados |-> x.creados, actualizados |-> x.actualizados,
               rechazados |-> x.rechazados]

\* Rows, requests and the estado of a job that is under way are nobody's business.
Lista      == [j \in Jobs |-> [c \in Pedidos(j) |-> PersonaDe(j, c)]]
Lineas     == [j \in Jobs |-> Len(Archivo[j])]
ModoDado   == [j \in Jobs |-> IF job[j].estado = "inexistente" THEN Ninguno ELSE job[j].modo]
Rendido    == [j \in Jobs |-> IF job[j].estado = "procesado" THEN Resumen(job[j]) ELSE Ninguno]
Existentes == {c \in Codigos : unidad[c].existe}
Abiertos   == [c \in Existentes |-> unidad[c].vigentes]

Padron == INSTANCE Padron WITH Pide <- Lista, Filas <- Lineas, modo <- ModoDado,
                               resumen <- Rendido, usadas <- idem, vigentes <- Abiertos

\* The transactions do what Padron promises: though they look for one unidad after
\* the other while others are created and updated, an import that commits is one
\* step over the unidades as they are at its commit, and its summary says what that
\* step did; one that fails did nothing.
RefinaPadron == Padron!Spec

=============================================================================
