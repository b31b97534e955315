-------------------------- MODULE ImportacionesProofs --------------------------
(* Theorems about Importaciones, for any files, codes, persons, keys and     *)
(* number of transactions.  IInv is the inductive invariant: what a          *)
(* transaction has written comes from the rows it has passed, no two         *)
(* transactions hold a unidad or a key, and two of one job are remembered in *)
(* cruzados.  JInv, on top of it, is what the refinement of Padron needs.    *)
EXTENDS Importaciones, FiniteSetTheorems, WellFoundedInduction, TLAPS

\* No open vinculo, or one.
ALoSumoUno(v) == v = {} \/ \E p \in Personas : v = {p}

\* A request names a job that exists, and one that was read as 'listo' is still
\* 'listo' unless another request confirmed the job at the same time; while it is
\* processed its key is not stored.
PedidoOK(s) ==
    /\ s.paso = "libre" => s = SesionLibre
    /\ s.paso # "libre" => /\ s.job \in Jobs /\ s.clave \in Claves
                           /\ job[s.job].estado # "inexistente"
    /\ s.paso \in EnProceso \cup {"sellar"} /\ s.job \notin cruzados =>
         job[s.job].estado = "listo"
    /\ s.paso \in EnProceso => idem[s.clave] = Ninguno

\* The codes written so far are those of rows passed, one each, and they are
\* counted once.
AvanceOK(s) ==
    /\ s.fila \in Nat \ {0}
    /\ s.paso \in {"libre", "leer", "sellar", "tomar"} => Escritas(s) = {} /\ s.fila = 1
    /\ s.paso \in {"buscar", "escribir", "terminar"} => s.fila <= Len(Archivo[s.job]) + 1
    /\ s.paso \in {"buscar", "escribir"} =>
         s.fila <= Len(Archivo[s.job]) /\ Valida(Archivo[s.job], s.fila)
    /\ \A c \in Escritas(s) : \E h \in 1..(s.fila - 1) : Archivo[s.job][h].codigo = c
    /\ IsFiniteSet(Escritas(s)) /\ Cardinality(Escritas(s)) = s.creados + s.actualizados
    /\ s.creados + s.actualizados <= s.fila - 1
    /\ s.creadas \subseteq Escritas(s)

\* What is written for a unidad leaves one open vinculo, unless the row had no
\* person and the vinculos are those of the table.
VinculosOK(s) ==
    \A c \in Escritas(s) :
        ALoSumoUno(s.nuevas[c]) \/ (c \notin s.creadas /\ s.nuevas[c] = unidad[c].vigentes)

\* Two transactions exclude each other by unidad and by key; two of one job meet.
ParejaOK(s, t) ==
    /\ Escritas(s) \cap Escritas(t) = {}
    /\ s.paso \in EnProceso /\ t.paso \in EnProceso => s.clave # t.clave
    /\ s.job = t.job /\ s.job # Ninguno => s.job \in cruzados

SesionesOK ==
    /\ \A w \in Sesiones : PedidoOK(ses[w]) /\ AvanceOK(ses[w]) /\ VinculosOK(ses[w])
    /\ \A w, x \in Sesiones : w # x => ParejaOK(ses[w], ses[x])

\* What the history may say of a key, of a job and of a unidad.
ClavesOK ==
    \A k \in Claves : /\ aplicaciones[k] <= 1
                      /\ idem[k] = Ninguno => aplicaciones[k] = 0
JobsOK ==
    \A j \in Jobs : /\ job[j].estado # "procesado" => aplicaciones[j] = 0 /\ tocadas[j] = {}
                    /\ j \notin cruzados => aplicaciones[j] <= 1
ImportadasOK ==
    \A c \in importadas : unidad[c].existe /\ ALoSumoUno(unidad[c].vigentes)

IInv == TypeOK /\ SesionesOK /\ ClavesOK /\ JobsOK /\ ResumenFiel /\ ImportadasOK

-----------------------------------------------------------------------------
(* The rows and the codes written *)

\* Proxima is a row of the file from i on that is valid, or the end.
LEMMA ProximaEs ==
  ASSUME NEW j \in Jobs, NEW i \in Nat \ {0}, i <= Len(Archivo[j]) + 1
  PROVE  /\ Proxima(j, i) \in i..(Len(Archivo[j]) + 1)
         /\ Proxima(j, i) <= Len(Archivo[j]) => Valida(Archivo[j], Proxima(j, i))
<1>1. Len(Archivo[j]) \in Nat
  BY ArchivosAssumption
<1>2. PICK T : T = Quedan(j, i) \cup {Len(Archivo[j]) + 1}
  OBVIOUS
<1>3. Quedan(j, i) \subseteq i..Len(Archivo[j]) /\ T \subseteq Nat /\ T # {}
  BY <1>1, <1>2 DEF Quedan
<1>4. \E h \in T : \A g \in T : ~(<<g, h>> \in OpToRel(<, Nat))
  BY <1>3, WFMin, NatLessThanWellFounded
<1>5. \E h \in T : \A g \in T : h <= g
  <2>1. \A g, h \in T : ~(<<g, h>> \in OpToRel(<, Nat)) => h <= g
    BY <1>3 DEF OpToRel
  <2> QED BY <1>4, <2>1
<1>6. \E h \in T : \A g \in Quedan(j, i) : h <= g
  BY <1>2, <1>5
<1>7. Proxima(j, i) \in T
  BY <1>2, <1>6 DEF Proxima
<1>8. \A h \in Quedan(j, i) : Valida(Archivo[j], h)
  BY DEF Quedan
<1>9. Proxima(j, i) \in Quedan(j, i) \/ Proxima(j, i) = Len(Archivo[j]) + 1
  BY <1>2, <1>7
<1> QED BY <1>1, <1>3, <1>8, <1>9

\* A row of a file.
LEMMA FilaEs ==
  ASSUME NEW s, s.job \in Jobs, s.fila \in 1..Len(Archivo[s.job])
  PROVE  Fila(s).codigo \in Codigos /\ Fila(s).persona \in Personas \cup {Ninguno}
<1>1. Archivo[s.job] \in Seq([codigo: Codigos, bien: BOOLEAN,
                              persona: Personas \cup {Ninguno}])
  BY ArchivosAssumption
<1>2. Fila(s) \in [codigo: Codigos, bien: BOOLEAN, persona: Personas \cup {Ninguno}]
  <2>1. \A R, a : a \in Seq(R) => \A i \in 1..Len(a) : a[i] \in R
    OBVIOUS
  <2> QED BY <1>1, <2>1 DEF Fila
<1> QED BY <1>2

\* SesionLibre has written nothing.
LEMMA LibreEs ==
  /\ SesionLibre \in Sesion
  /\ SesionLibre.paso = "libre" /\ SesionLibre.job = Ninguno /\ SesionLibre.fila = 1
  /\ SesionLibre.creados = 0 /\ SesionLibre.actualizados = 0 /\ SesionLibre.creadas = {}
  /\ Escritas(SesionLibre) = {}
<1>1. [c \in Codigos |-> Ninguno] \in [Codigos -> (SUBSET Personas) \cup {Ninguno}]
  OBVIOUS
<1>2. SesionLibre \in Sesion
  BY <1>1 DEF SesionLibre, Sesion, Pasos
<1> QED BY <1>2 DEF SesionLibre, Escritas

\* What the steps of a request that write nothing leave in it.
LEMMA PasoEs ==
  ASSUME NEW s \in Sesion
  PROVE  /\ \A p \in Pasos : LET t == [s EXCEPT !.paso = p]
                             IN  /\ t \in Sesion /\ t.paso = p /\ t.job = s.job
                                 /\ t.clave = s.clave /\ t.fila = s.fila
                                 /\ t.nuevas = s.nuevas /\ t.creadas = s.creadas
                                 /\ t.creados = s.creados /\ t.actualizados = s.actualizados
         /\ \A b \in BOOLEAN :
               LET t == [s EXCEPT !.paso = "escribir", !.existe = b]
               IN  /\ t \in Sesion /\ t.paso = "escribir" /\ t.job = s.job
                   /\ t.clave = s.clave /\ t.fila = s.fila
                   /\ t.nuevas = s.nuevas /\ t.creadas = s.creadas
                   /\ t.creados = s.creados /\ t.actualizados = s.actualizados
BY DEF Sesion, Pasos

\* Where EnFila leaves a transaction.
LEMMA EnFilaEs ==
  ASSUME NEW s \in Sesion, s.job \in Jobs, NEW i \in Nat \ {0}, i <= Len(Archivo[s.job]) + 1
  PROVE  LET t == EnFila(s, Proxima(s.job, i))
         IN  /\ t \in Sesion /\ t.paso \in {"buscar", "terminar"}
             /\ t.job = s.job /\ t.clave = s.clave /\ t.nuevas = s.nuevas
             /\ t.creadas = s.creadas /\ t.creados = s.creados
             /\ t.actualizados = s.actualizados
             /\ t.fila \in i..(Len(Archivo[s.job]) + 1)
             /\ t.paso = "buscar" =>
                  t.fila <= Len(Archivo[s.job]) /\ Valida(Archivo[s.job], t.fila)
<1>1. PICK h : h = Proxima(s.job, i)
  OBVIOUS
<1>2. PICK p : p = IF h > Len(Archivo[s.job]) THEN "terminar" ELSE "buscar"
  OBVIOUS
<1>3. Len(Archivo[s.job]) \in Nat
  BY ArchivosAssumption
<1>4. /\ h \in i..(Len(Archivo[s.job]) + 1) /\ h \in Nat
      /\ h <= Len(Archivo[s.job]) => Valida(Archivo[s.job], h)
  BY <1>1, <1>3, ProximaEs
<1>5. /\ p \in {"buscar", "terminar"} /\ p \in Pasos
      /\ p = "buscar" => h <= Len(Archivo[s.job])
  BY <1>2, <1>3, <1>4 DEF Pasos
<1>6. EnFila(s, Proxima(s.job, i)) = [s EXCEPT !.fila = h, !.paso = p]
  BY <1>1, <1>2 DEF EnFila
<1> HIDE DEF EnFila
<1>7. LET t == [s EXCEPT !.fila = h, !.paso = p]
      IN  /\ t \in Sesion /\ t.paso = p /\ t.fila = h
          /\ t.job = s.job /\ t.clave = s.clave /\ t.nuevas = s.nuevas
          /\ t.creadas = s.creadas /\ t.creados = s.creados
          /\ t.actualizados = s.actualizados
  BY <1>4, <1>5 DEF Sesion
<1> QED BY <1>4, <1>5, <1>6, <1>7

-----------------------------------------------------------------------------
(* A step of one transaction that does not commit *)

\* The invariant survives when the one session that moves keeps it and has no
\* more to do with the others.
LEMMA SoloSesion ==
  ASSUME IInv, NEW w \in Sesiones, NEW s \in Sesion,
         Seguir(w, s), UNCHANGED <<tablas, historia>>,
         cruzados \subseteq cruzados', cruzados' \subseteq Jobs,
         PedidoOK(s)', AvanceOK(s), VinculosOK(s),
         \A x \in Sesiones \ {w} : ParejaOK(s, ses[x])'
  PROVE  IInv'
<1>1. /\ ses' \in [Sesiones -> Sesion] /\ ses'[w] = s
      /\ \A x \in Sesiones : x # w => ses'[x] = ses[x]
      /\ UNCHANGED <<job, unidad, idem, aplicaciones, tocadas, importadas>>
  BY DEF Seguir, IInv, TypeOK, tablas, historia
<1>2. TypeOK'
  BY <1>1 DEF IInv, TypeOK
<1>3. ASSUME NEW x \in Sesiones PROVE (PedidoOK(ses[x]) /\ AvanceOK(ses[x]) /\ VinculosOK(ses[x]))'
  <2>1. CASE x = w
    BY <1>1, <2>1 DEF AvanceOK, VinculosOK, Escritas
  <2>2. CASE x # w
    <3>1. ses'[x] = ses[x] /\ PedidoOK(ses[x]) /\ AvanceOK(ses[x]) /\ VinculosOK(ses[x])
      BY <1>1, <2>2 DEF IInv, SesionesOK
    <3>2. PedidoOK(ses[x])'
      BY <1>1, <3>1 DEF PedidoOK
    <3> QED BY <1>1, <3>1, <3>2 DEF AvanceOK, VinculosOK, Escritas
  <2> QED BY <2>1, <2>2
<1>4. ASSUME NEW x \in Sesiones, NEW y \in Sesiones, x # y PROVE ParejaOK(ses[x], ses[y])'
  <2>1. CASE x = w
    BY <1>1, <1>4, <2>1
  <2>2. CASE y = w
    <3>1. ParejaOK(s, ses[x])' /\ ses'[x] = ses[x] /\ ses'[y] = s
      BY <1>1, <1>4, <2>2
    <3> QED BY <3>1 DEF ParejaOK
  <2>3. CASE x # w /\ y # w
    <3>1. ParejaOK(ses[x], ses[y]) /\ ses'[x] = ses[x] /\ ses'[y] = ses[y]
      BY <1>1, <1>4, <2>3 DEF IInv, SesionesOK
    <3> QED BY <3>1 DEF ParejaOK, Escritas
  <2> QED BY <2>1, <2>2, <2>3
<1>5. SesionesOK'
  BY <1>3, <1>4 DEF SesionesOK
<1>6. ClavesOK' /\ JobsOK' /\ ResumenFiel' /\ ImportadasOK'
  BY <1>1 DEF IInv, ClavesOK, JobsOK, ResumenFiel, ImportadasOK
<1> QED BY <1>2, <1>5, <1>6 DEF IInv

\* A session at rest.
LEMMA LibreOK == AvanceOK(SesionLibre)
  BY LibreEs, FS_EmptySet DEF AvanceOK

\* A request that ends without committing: refused, answered, rolled back.
LEMMA TerminarInv ==
  ASSUME IInv, NEW w \in Sesiones, Terminar(w), UNCHANGED <<tablas, historia, cruzados>>
  PROVE  IInv'
<1>1. cruzados' = cruzados /\ cruzados \subseteq Jobs
  BY DEF IInv, TypeOK
<1>2. PedidoOK(SesionLibre)'
  BY LibreEs DEF PedidoOK, EnProceso
<1>3. AvanceOK(SesionLibre)
  BY LibreOK
<1>4. VinculosOK(SesionLibre)
  BY LibreEs DEF VinculosOK
<1>5. \A x \in Sesiones \ {w} : ParejaOK(SesionLibre, ses[x])'
  BY LibreEs DEF ParejaOK, EnProceso
<1> QED BY <1>1, <1>2, <1>3, <1>4, <1>5, LibreEs, SoloSesion DEF Terminar

\* A new request: another one of the same job is remembered.
LEMMA RecibirInv ==
  ASSUME IInv, NEW w \in Sesiones, NEW j \in Jobs, NEW k \in Claves, RecibirConfirm(w, j, k)
  PROVE  IInv'
<1>1. PICK s : s = [SesionLibre EXCEPT !.paso = "leer", !.job = j, !.clave = k]
  OBVIOUS
<1>2. /\ s \in Sesion /\ s.paso = "leer" /\ s.job = j /\ s.clave = k
      /\ s.fila = 1 /\ s.creados = 0 /\ s.actualizados = 0 /\ s.creadas = {}
      /\ s.nuevas = SesionLibre.nuevas
  BY <1>1, LibreEs DEF Sesion, Pasos
<1>3. Escritas(s) = {}
  BY <1>2, LibreEs DEF Escritas
<1>4. /\ Seguir(w, s) /\ UNCHANGED <<tablas, historia>> /\ job[j].estado # "inexistente"
      /\ job' = job
      /\ cruzados' = IF \E x \in Sesiones \ {w} : ses[x].job = j
                     THEN cruzados \cup {j} ELSE cruzados
  BY <1>1 DEF RecibirConfirm, tablas
<1>5. cruzados \subseteq cruzados' /\ cruzados' \subseteq Jobs
  BY <1>4 DEF IInv, TypeOK
<1>6. PedidoOK(s)'
  BY <1>2, <1>4 DEF PedidoOK, EnProceso
<1>7. AvanceOK(s) /\ VinculosOK(s)
  BY <1>2, <1>3, FS_EmptySet DEF AvanceOK, VinculosOK
<1>8. \A x \in Sesiones \ {w} : ParejaOK(s, ses[x])'
  <2> SUFFICES ASSUME NEW x \in Sesiones \ {w} PROVE ParejaOK(s, ses[x])'
    OBVIOUS
  <2>1. ses'[x] = ses[x]
    BY <1>4 DEF Seguir, IInv, TypeOK
  <2>2. ses[x].job = j => j \in cruzados'
    BY <1>4
  <2> QED BY <1>2, <1>3, <2>1, <2>2 DEF ParejaOK, EnProceso
<1> QED BY <1>2, <1>4, <1>5, <1>6, <1>7, <1>8, SoloSesion

\* What a session in progress is, and how it stands to the others.
LEMMA EnCurso ==
  ASSUME IInv, NEW w \in Sesiones, ses[w].paso # "libre"
  PROVE  /\ ses[w] \in Sesion /\ ses[w].job \in Jobs /\ ses[w].clave \in Claves
         /\ PedidoOK(ses[w]) /\ AvanceOK(ses[w]) /\ VinculosOK(ses[w])
         /\ \A x \in Sesiones \ {w} : ParejaOK(ses[w], ses[x])
  BY DEF IInv, SesionesOK, PedidoOK, TypeOK

\* A step that changes only the paso and the row of the session that takes it.
LEMMA AvanzarInv ==
  ASSUME IInv, NEW w \in Sesiones, ses[w].paso # "libre",
         NEW s \in Sesion, s.paso # "libre", Seguir(w, s),
         s.job = ses[w].job, s.clave = ses[w].clave, s.nuevas = ses[w].nuevas,
         s.creadas = ses[w].creadas, s.creados = ses[w].creados,
         s.actualizados = ses[w].actualizados,
         UNCHANGED <<tablas, historia, cruzados>>,
         s.paso \in EnProceso \cup {"sellar"} =>
            \/ ses[w].paso \in EnProceso \cup {"sellar"}
            \/ job[s.job].estado = "listo",
         s.paso \in EnProceso =>
            \/ ses[w].paso \in EnProceso
            \/ /\ idem[s.clave] = Ninguno
               /\ \A x \in Sesiones \ {w} :
                     ses[x].paso \in EnProceso => ses[x].clave # s.clave,
         AvanceOK(s)
  PROVE  IInv'
<1>1. /\ PedidoOK(ses[w]) /\ VinculosOK(ses[w]) /\ ses[w].job \in Jobs
      /\ \A x \in Sesiones \ {w} : ParejaOK(ses[w], ses[x])
  BY EnCurso
<1>2. cruzados' = cruzados /\ cruzados \subseteq Jobs /\ job' = job /\ idem' = idem
  BY DEF IInv, TypeOK, tablas
<1>3. PedidoOK(s)'
  BY <1>1, <1>2 DEF PedidoOK, EnProceso
<1>4. Escritas(s) = Escritas(ses[w])
  BY DEF Escritas
<1>5. VinculosOK(s)
  BY <1>1, <1>4 DEF VinculosOK
<1>6. \A x \in Sesiones \ {w} : ParejaOK(s, ses[x])'
  <2> SUFFICES ASSUME NEW x \in Sesiones \ {w} PROVE ParejaOK(s, ses[x])'
    OBVIOUS
  <2>1. ses'[x] = ses[x] /\ ParejaOK(ses[w], ses[x])
    BY <1>1 DEF Seguir, IInv, TypeOK
  <2>2. s.paso \in EnProceso /\ ses[x].paso \in EnProceso => s.clave # ses[x].clave
    BY <2>1 DEF ParejaOK
  <2> QED BY <1>2, <1>4, <2>1, <2>2 DEF ParejaOK
<1> QED BY <1>2, <1>3, <1>5, <1>6, SoloSesion

\* The steps before the first row: the estado is read, the key is taken.
LEMMA LeerInv ==
  ASSUME IInv, NEW w \in Sesiones, GetImportJob(w) \/ Sellar(w)
  PROVE  IInv'
<1>1. UNCHANGED <<tablas, historia, cruzados>>
  BY DEF GetImportJob, Sellar
<1>2. CASE Terminar(w)
  BY <1>1, <1>2, TerminarInv
<1>3. CASE GetImportJob(w) /\ ~Terminar(w)
  <2>1. PICK s : s = [ses[w] EXCEPT !.paso = "sellar"]
    OBVIOUS
  <2>2. /\ ses[w].paso = "leer" /\ Seguir(w, s) /\ job[ses[w].job].estado = "listo"
    BY <1>3, <2>1 DEF GetImportJob, Accionable
  <2>3. ses[w] \in Sesion /\ AvanceOK(ses[w])
    BY <2>2, EnCurso
  <2>4. /\ s \in Sesion /\ s.paso = "sellar" /\ s.job = ses[w].job
        /\ s.clave = ses[w].clave /\ s.fila = ses[w].fila /\ s.nuevas = ses[w].nuevas
        /\ s.creadas = ses[w].creadas /\ s.creados = ses[w].creados
        /\ s.actualizados = ses[w].actualizados
    BY <2>1, <2>3, PasoEs DEF Pasos
  <2>5. AvanceOK(s)
    BY <2>2, <2>3, <2>4 DEF AvanceOK, Escritas
  <2> QED BY <1>1, <2>2, <2>4, <2>5, AvanzarInv DEF EnProceso
<1>4. CASE Sellar(w) /\ ~Terminar(w)
  <2>1. PICK s : s = [ses[w] EXCEPT !.paso = "tomar"]
    OBVIOUS
  <2>2. /\ ses[w].paso = "sellar" /\ Seguir(w, s) /\ idem[ses[w].clave] = Ninguno
        /\ \A x \in Sesiones \ {w} :
              ses[x].paso \in EnProceso => ses[x].clave # ses[w].clave
    BY <1>4, <2>1 DEF Sellar
  <2>3. ses[w] \in Sesion /\ AvanceOK(ses[w])
    BY <2>2, EnCurso
  <2>4. /\ s \in Sesion /\ s.paso = "tomar" /\ s.job = ses[w].job
        /\ s.clave = ses[w].clave /\ s.fila = ses[w].fila /\ s.nuevas = ses[w].nuevas
        /\ s.creadas = ses[w].creadas /\ s.creados = ses[w].creados
        /\ s.actualizados = ses[w].actualizados
    BY <2>1, <2>3, PasoEs DEF Pasos
  <2>5. AvanceOK(s)
    BY <2>2, <2>3, <2>4 DEF AvanceOK, Escritas
  <2> QED BY <1>1, <2>2, <2>4, <2>5, AvanzarInv DEF EnProceso
<1> QED BY <1>2, <1>3, <1>4

\* The steps that look at a row and write nothing.
LEMMA FilaInv ==
  ASSUME IInv, NEW w \in Sesiones,
         SetImportJobEstado(w) \/ GetUnidadByCodigo(w) \/ RechazarFila(w)
  PROVE  IInv'
<1>1. /\ UNCHANGED <<tablas, historia, cruzados>>
      /\ ses[w].paso \in {"tomar", "buscar", "escribir"}
  BY DEF SetImportJobEstado, GetUnidadByCodigo, RechazarFila
<1>2. /\ ses[w] \in Sesion /\ ses[w].job \in Jobs /\ AvanceOK(ses[w])
      /\ Len(Archivo[ses[w].job]) \in Nat
  BY <1>1, EnCurso, ArchivosAssumption
<1>3. ASSUME NEW i \in Nat \ {0}, i <= Len(Archivo[ses[w].job]) + 1, ses[w].fila <= i,
             Seguir(w, EnFila(ses[w], Proxima(ses[w].job, i)))
      PROVE  IInv'
  <2>1. PICK t : t = EnFila(ses[w], Proxima(ses[w].job, i))
    OBVIOUS
  <2>2. /\ t \in Sesion /\ t.paso \in {"buscar", "terminar"}
        /\ t.job = ses[w].job /\ t.clave = ses[w].clave /\ t.nuevas = ses[w].nuevas
        /\ t.creadas = ses[w].creadas /\ t.creados = ses[w].creados
        /\ t.actualizados = ses[w].actualizados
        /\ t.fila \in i..(Len(Archivo[ses[w].job]) + 1)
        /\ t.paso = "buscar" =>
             t.fila <= Len(Archivo[ses[w].job]) /\ Valida(Archivo[ses[w].job], t.fila)
    BY <1>2, <1>3, <2>1, EnFilaEs
  <2>3. Escritas(t) = Escritas(ses[w]) /\ ses[w].fila \in Nat /\ t.fila \in Nat
        /\ ses[w].fila <= t.fila
        /\ \A n \in Nat : n <= ses[w].fila - 1 => n <= t.fila - 1
    BY <1>2, <1>3, <2>2 DEF Escritas, Sesion
  <2>4. \A c \in Escritas(t) : \E h \in 1..(t.fila - 1) : Archivo[t.job][h].codigo = c
    <3>1. 1..(ses[w].fila - 1) \subseteq 1..(t.fila - 1)
      BY <2>3
    <3>2. \A c \in Escritas(ses[w]) :
             \E h \in 1..(ses[w].fila - 1) : Archivo[ses[w].job][h].codigo = c
      BY <1>2 DEF AvanceOK
    <3> QED BY <2>2, <2>3, <3>1, <3>2
  <2>5. t.creados + t.actualizados <= t.fila - 1
    BY <1>2, <2>2, <2>3 DEF AvanceOK, Sesion
  <2>6. AvanceOK(t)
    <3>1. t.fila \in Nat \ {0} /\ t.fila <= Len(Archivo[t.job]) + 1
      BY <1>2, <1>3, <2>2
    <3>2. /\ IsFiniteSet(Escritas(t)) /\ t.creadas \subseteq Escritas(t)
          /\ Cardinality(Escritas(t)) = t.creados + t.actualizados
      BY <1>2, <2>2, <2>3 DEF AvanceOK
    <3> QED BY <2>2, <2>4, <2>5, <3>1, <3>2 DEF AvanceOK
  <2>7. Seguir(w, t)
    BY <1>3, <2>1
  <2> QED BY <1>1, <2>2, <2>6, <2>7, AvanzarInv DEF EnProceso
<1>4. CASE SetImportJobEstado(w)
  <2>1. ses[w].paso = "tomar" /\ Seguir(w, EnFila(ses[w], Proxima(ses[w].job, 1)))
    BY <1>4 DEF SetImportJobEstado
  <2>2. ses[w].fila = 1
    BY <1>2, <2>1 DEF AvanceOK
  <2> QED BY <1>2, <1>3, <2>1, <2>2
<1>5. CASE RechazarFila(w)
  <2>1. /\ ses[w].paso = "escribir"
        /\ Seguir(w, EnFila(ses[w], Proxima(ses[w].job, ses[w].fila + 1)))
    BY <1>5 DEF RechazarFila
  <2>2. ses[w].fila \in Nat /\ ses[w].fila <= Len(Archivo[ses[w].job])
    BY <1>2, <2>1 DEF AvanceOK, Sesion
  <2> QED BY <1>2, <1>3, <2>1, <2>2
<1>6. CASE GetUnidadByCodigo(w)
  <2>1. PICK b \in BOOLEAN : ses[w].paso = "buscar"
                             /\ Seguir(w, [ses[w] EXCEPT !.paso = "escribir", !.existe = b])
    <3>1. \A c \in Codigos : unidad[c].existe \in BOOLEAN
      BY DEF IInv, TypeOK
    <3>2. CASE Fila(ses[w]).codigo \in Codigos
      BY <1>6, <3>1, <3>2 DEF GetUnidadByCodigo
    <3>3. Fila(ses[w]).codigo \in Codigos
      <4>1. ses[w].fila \in 1..Len(Archivo[ses[w].job])
        BY <1>2, <1>6 DEF GetUnidadByCodigo, AvanceOK
      <4> QED BY <1>2, <4>1, FilaEs
    <3> QED BY <3>2, <3>3
  <2>2. PICK t : t = [ses[w] EXCEPT !.paso = "escribir", !.existe = b]
    OBVIOUS
  <2>3. /\ t \in Sesion /\ t.paso = "escribir" /\ t.job = ses[w].job
        /\ t.clave = ses[w].clave /\ t.fila = ses[w].fila
        /\ t.nuevas = ses[w].nuevas /\ t.creadas = ses[w].creadas
        /\ t.creados = ses[w].creados /\ t.actualizados = ses[w].actualizados
    BY <1>2, <2>2, PasoEs
  <2>4. AvanceOK(t)
    BY <1>2, <2>1, <2>3 DEF AvanceOK, Escritas
  <2> QED BY <1>1, <2>1, <2>2, <2>3, <2>4, AvanzarInv DEF EnProceso
<1> QED BY <1>4, <1>5, <1>6

\* The row at hand is written: its code was not written before, by this
\* transaction or by an open one.
LEMMA EscribirInv ==
  ASSUME IInv, NEW w \in Sesiones, ses[w].paso = "escribir",
         Retienen(w, Fila(ses[w]).codigo) = {},
         NEW v \in SUBSET Personas, NEW t \in Sesion, Seguir(w, t),
         t.paso \in {"buscar", "terminar"},
         t.job = ses[w].job, t.clave = ses[w].clave,
         t.fila \in (ses[w].fila + 1)..(Len(Archivo[t.job]) + 1),
         t.paso = "buscar" =>
           t.fila <= Len(Archivo[t.job]) /\ Valida(Archivo[t.job], t.fila),
         t.nuevas = [ses[w].nuevas EXCEPT ![Fila(ses[w]).codigo] = v],
         t.creadas \subseteq ses[w].creadas \cup {Fila(ses[w]).codigo},
         t.creados + t.actualizados = ses[w].creados + ses[w].actualizados + 1,
         \/ ALoSumoUno(v)
         \/ /\ Fila(ses[w]).codigo \notin t.creadas
            /\ v = unidad[Fila(ses[w]).codigo].vigentes,
         UNCHANGED <<tablas, historia, cruzados>>
  PROVE  IInv'
<1>1. PICK s, c : s = ses[w] /\ c = Fila(s).codigo
  OBVIOUS
<1>2. /\ s \in Sesion /\ s.job \in Jobs /\ s.clave \in Claves
      /\ PedidoOK(s) /\ AvanceOK(s) /\ VinculosOK(s)
      /\ \A x \in Sesiones \ {w} : ParejaOK(s, ses[x])
      /\ Len(Archivo[s.job]) \in Nat
  BY <1>1, EnCurso, ArchivosAssumption
<1>3. s.paso = "escribir" /\ s.fila \in 1..Len(Archivo[s.job]) /\ Valida(Archivo[s.job], s.fila)
  BY <1>1, <1>2 DEF AvanceOK
<1>4. c \in Codigos /\ Archivo[s.job][s.fila].codigo = c
  BY <1>1, <1>2, <1>3, FilaEs DEF Fila
<1>5. c \notin Escritas(s)
  BY <1>2, <1>3, <1>4 DEF AvanceOK, Valida
<1>6. v # Ninguno
  BY NingunoAssumption
<1>7. /\ t.nuevas[c] = v /\ \A d \in Codigos : d # c => t.nuevas[d] = s.nuevas[d]
      /\ t.creadas \subseteq s.creadas \cup {c}
      /\ t.creados + t.actualizados = s.creados + s.actualizados + 1
      /\ t.fila \in (s.fila + 1)..(Len(Archivo[s.job]) + 1)
      /\ t.job = s.job /\ t.clave = s.clave
  BY <1>1, <1>2, <1>4 DEF Sesion
<1>8. Escritas(t) = Escritas(s) \cup {c}
  BY <1>4, <1>6, <1>7 DEF Escritas
<1>9. AvanceOK(t)
  <2>1. IsFiniteSet(Escritas(t)) /\ Cardinality(Escritas(t)) = Cardinality(Escritas(s)) + 1
    BY <1>2, <1>5, <1>8, FS_AddElement DEF AvanceOK
  <2>2. Cardinality(Escritas(t)) = t.creados + t.actualizados
    BY <1>2, <1>7, <2>1 DEF AvanceOK
  <2>3. ASSUME NEW d \in Escritas(t)
        PROVE  \E h \in 1..(t.fila - 1) : Archivo[t.job][h].codigo = d
    <3>1. CASE d = c
      BY <1>3, <1>4, <1>7, <3>1
    <3>2. CASE d # c
      <4>1. PICK h \in 1..(s.fila - 1) : Archivo[s.job][h].codigo = d
        BY <1>2, <1>8, <3>2 DEF AvanceOK
      <4>2. h \in 1..(t.fila - 1)
        BY <1>3, <1>7
      <4> QED BY <1>7, <4>1, <4>2
    <3> QED BY <3>1, <3>2
  <2>4. t.creados + t.actualizados <= t.fila - 1
    <3>1. s.creados + s.actualizados <= s.fila - 1
      BY <1>2 DEF AvanceOK
    <3>2. s.creados \in Nat /\ s.actualizados \in Nat
      BY <1>2 DEF Sesion
    <3> QED BY <1>3, <1>7, <3>1, <3>2
  <2>5. t.creadas \subseteq Escritas(t)
    BY <1>2, <1>7, <1>8 DEF AvanceOK
  <2>6. /\ t.fila \in Nat \ {0} /\ t.fila <= Len(Archivo[t.job]) + 1
    BY <1>2, <1>3, <1>7
  <2> QED BY <2>1, <2>2, <2>3, <2>4, <2>5, <2>6 DEF AvanceOK
<1>10. VinculosOK(t)
  <2> SUFFICES ASSUME NEW d \in Escritas(t)
               PROVE  \/ ALoSumoUno(t.nuevas[d])
                      \/ d \notin t.creadas /\ t.nuevas[d] = unidad[d].vigentes
    BY DEF VinculosOK
  <2>1. CASE d = c
    BY <1>1, <1>7, <2>1
  <2>2. CASE d # c
    <3>1. d \in Escritas(s) /\ t.nuevas[d] = s.nuevas[d] /\ (d \in t.creadas => d \in s.creadas)
      BY <1>7, <1>8, <2>2 DEF Escritas
    <3> QED BY <1>2, <3>1 DEF VinculosOK
  <2> QED BY <2>1, <2>2
<1>11. /\ cruzados' = cruzados /\ cruzados \subseteq Jobs /\ job' = job /\ idem' = idem
       /\ \A x \in Sesiones \ {w} : ses'[x] = ses[x]
  BY DEF IInv, TypeOK, tablas, Seguir
<1>12. PedidoOK(t)'
  BY <1>2, <1>3, <1>7, <1>11 DEF PedidoOK, EnProceso
<1>13. \A x \in Sesiones \ {w} : ParejaOK(t, ses[x])'
  <2> SUFFICES ASSUME NEW x \in Sesiones \ {w} PROVE ParejaOK(t, ses[x])'
    OBVIOUS
  <2>1. ParejaOK(s, ses[x])
    BY <1>2
  <2>2. c \notin Escritas(ses[x])
    BY <1>1 DEF Retienen, Escritas
  <2>3. s.paso \in EnProceso
    BY <1>3 DEF EnProceso
  <2> QED BY <1>7, <1>8, <1>11, <2>1, <2>2, <2>3 DEF ParejaOK
<1> QED BY <1>9, <1>10, <1>11, <1>12, <1>13, SoloSesion

\* A row that creates its unidad, or finds that another one took the code.
LEMMA CrearInv ==
  ASSUME IInv, NEW w \in Sesiones, CrearUnidadDesdeFila(w)
  PROVE  IInv'
<1>1. PICK s, c, u : /\ s = ses[w] /\ c = Fila(s).codigo
                     /\ u = EnFila(s, Proxima(s.job, s.fila + 1))
  OBVIOUS
<1>2. PICK v : v = SoloUna(Fila(s).persona)
  OBVIOUS
<1>3. PICK t : t = [u EXCEPT !.nuevas[c] = v, !.creadas = @ \cup {c}, !.creados = @ + 1]
  OBVIOUS
<1>4. /\ s.paso = "escribir" /\ Retienen(w, c) = {}
      /\ Terminar(w) \/ Seguir(w, t)
      /\ UNCHANGED <<tablas, historia, cruzados>>
  BY <1>1, <1>2, <1>3 DEF CrearUnidadDesdeFila
<1>5. CASE Terminar(w)
  BY <1>4, <1>5, TerminarInv
<1>6. CASE Seguir(w, t)
  <2>1. /\ s \in Sesion /\ s.job \in Jobs /\ AvanceOK(s) /\ Len(Archivo[s.job]) \in Nat
    BY <1>1, <1>4, EnCurso, ArchivosAssumption
  <2>2. s.fila \in 1..Len(Archivo[s.job])
    BY <1>4, <2>1 DEF AvanceOK
  <2>3. c \in Codigos /\ v \in SUBSET Personas /\ ALoSumoUno(v)
    BY <1>1, <1>2, <2>1, <2>2, FilaEs DEF SoloUna, ALoSumoUno
  <2>4. /\ u \in Sesion /\ u.paso \in {"buscar", "terminar"}
        /\ u.job = s.job /\ u.clave = s.clave /\ u.nuevas = s.nuevas
        /\ u.creadas = s.creadas /\ u.creados = s.creados /\ u.actualizados = s.actualizados
        /\ u.fila \in (s.fila + 1)..(Len(Archivo[s.job]) + 1)
        /\ u.paso = "buscar" =>
             u.fila <= Len(Archivo[s.job]) /\ Valida(Archivo[s.job], u.fila)
    <3>1. s.fila + 1 \in Nat \ {0} /\ s.fila + 1 <= Len(Archivo[s.job]) + 1
      BY <2>1, <2>2
    <3> QED BY <1>1, <2>1, <3>1, EnFilaEs
  <2>5. /\ t \in Sesion /\ t.paso = u.paso /\ t.job = u.job /\ t.clave = u.clave
        /\ t.fila = u.fila /\ t.nuevas = [u.nuevas EXCEPT ![c] = v]
        /\ t.creadas = u.creadas \cup {c}
        /\ t.creados = u.creados + 1 /\ t.actualizados = u.actualizados
    <3>1. PICK n, cr, a : /\ n = [u.nuevas EXCEPT ![c] = v]
                          /\ cr = u.creadas \cup {c} /\ a = u.creados + 1
      OBVIOUS
    <3>2. /\ n \in [Codigos -> (SUBSET Personas) \cup {Ninguno}]
          /\ cr \in SUBSET Codigos /\ a \in Nat
      BY <2>3, <2>4, <3>1 DEF Sesion
    <3>3. t = [u EXCEPT !.nuevas = n, !.creadas = cr, !.creados = a]
      BY <1>3, <3>1
    <3>4. /\ t \in Sesion /\ t.paso = u.paso /\ t.job = u.job /\ t.clave = u.clave
          /\ t.fila = u.fila /\ t.nuevas = n /\ t.creadas = cr
          /\ t.creados = a /\ t.actualizados = u.actualizados
      BY <2>4, <3>2, <3>3 DEF Sesion
    <3> QED BY <3>1, <3>4
  <2>6. t.creados + t.actualizados = s.creados + s.actualizados + 1
    BY <2>1, <2>4, <2>5 DEF Sesion
  <2> QED BY <1>1, <1>4, <1>6, <2>3, <2>4, <2>5, <2>6, EscribirInv
<1> QED BY <1>4, <1>5, <1>6

\* A row that updates its unidad and, when it has a person, its vinculos.
LEMMA ActualizarInv ==
  ASSUME IInv, NEW w \in Sesiones, ActualizarUnidadDesdeFila(w)
  PROVE  IInv'
<1>1. PICK s, c, u : /\ s = ses[w] /\ c = Fila(s).codigo
                     /\ u = EnFila(s, Proxima(s.job, s.fila + 1))
  OBVIOUS
<1>2. PICK v : v = IF Fila(s).persona = Ninguno THEN Vigentes(s, c)
                   ELSE TrasVinculo(Vigentes(s, c), Fila(s).persona)
  OBVIOUS
<1>3. PICK t : t = [u EXCEPT !.nuevas[c] = v, !.actualizados = @ + 1]
  OBVIOUS
<1>4. /\ s.paso = "escribir" /\ Retienen(w, c) = {} /\ Seguir(w, t)
      /\ UNCHANGED <<tablas, historia, cruzados>>
  BY <1>1, <1>2, <1>3 DEF ActualizarUnidadDesdeFila
<1>5. /\ s \in Sesion /\ s.job \in Jobs /\ AvanceOK(s) /\ Len(Archivo[s.job]) \in Nat
  BY <1>1, <1>4, EnCurso, ArchivosAssumption
<1>6. s.fila \in 1..Len(Archivo[s.job]) /\ Valida(Archivo[s.job], s.fila)
  BY <1>4, <1>5 DEF AvanceOK
<1>7. /\ c \in Codigos /\ Fila(s).persona \in Personas \cup {Ninguno}
      /\ c = Archivo[s.job][s.fila].codigo
  BY <1>1, <1>5, <1>6, FilaEs DEF Fila
<1>8. c \notin Escritas(s) /\ c \notin s.creadas
  BY <1>5, <1>6, <1>7 DEF AvanceOK, Valida
<1>9. Vigentes(s, c) = unidad[c].vigentes /\ unidad[c].vigentes \in SUBSET Personas
  BY <1>7, <1>8 DEF Escritas, Vigentes, IInv, TypeOK
<1>10. v \in SUBSET Personas /\ (ALoSumoUno(v) \/ v = unidad[c].vigentes)
  <2>1. CASE Fila(s).persona = Ninguno
    BY <1>2, <1>9, <2>1
  <2>2. CASE Fila(s).persona # Ninguno
    BY <1>2, <1>7, <2>2 DEF TrasVinculo, ALoSumoUno
  <2> QED BY <2>1, <2>2
<1>11. /\ u \in Sesion /\ u.paso \in {"buscar", "terminar"}
       /\ u.job = s.job /\ u.clave = s.clave /\ u.nuevas = s.nuevas
       /\ u.creadas = s.creadas /\ u.creados = s.creados /\ u.actualizados = s.actualizados
       /\ u.fila \in (s.fila + 1)..(Len(Archivo[s.job]) + 1)
       /\ u.paso = "buscar" =>
            u.fila <= Len(Archivo[s.job]) /\ Valida(Archivo[s.job], u.fila)
  <2>1. s.fila + 1 \in Nat \ {0} /\ s.fila + 1 <= Len(Archivo[s.job]) + 1
    BY <1>5, <1>6
  <2> QED BY <1>1, <1>5, <2>1, EnFilaEs
<1>12. /\ t \in Sesion /\ t.paso = u.paso /\ t.job = u.job /\ t.clave = u.clave
       /\ t.fila = u.fila /\ t.nuevas = [u.nuevas EXCEPT ![c] = v]
       /\ t.creadas = u.creadas
       /\ t.creados = u.creados /\ t.actualizados = u.actualizados + 1
  <2>1. PICK n, b : n = [u.nuevas EXCEPT ![c] = v] /\ b = u.actualizados + 1
    OBVIOUS
  <2>2. n \in [Codigos -> (SUBSET Personas) \cup {Ninguno}] /\ b \in Nat
    BY <1>7, <1>10, <1>11, <2>1 DEF Sesion
  <2>3. t = [u EXCEPT !.nuevas = n, !.actualizados = b]
    BY <1>3, <2>1
  <2>4. /\ t \in Sesion /\ t.paso = u.paso /\ t.job = u.job /\ t.clave = u.clave
        /\ t.fila = u.fila /\ t.nuevas = n /\ t.creadas = u.creadas
        /\ t.creados = u.creados /\ t.actualizados = b
    BY <1>11, <2>2, <2>3 DEF Sesion
  <2> QED BY <2>1, <2>4
<1>13. t.creados + t.actualizados = s.creados + s.actualizados + 1
  BY <1>5, <1>11, <1>12 DEF Sesion
<1>14. /\ t.fila \in (s.fila + 1)..(Len(Archivo[t.job]) + 1)
       /\ t.paso = "buscar" =>
            t.fila <= Len(Archivo[t.job]) /\ Valida(Archivo[t.job], t.fila)
       /\ t.paso \in {"buscar", "terminar"} /\ t.job = s.job /\ t.clave = s.clave
       /\ t.nuevas = [s.nuevas EXCEPT ![c] = v] /\ t.creadas \subseteq s.creadas \cup {c}
       /\ ALoSumoUno(v) \/ (c \notin t.creadas /\ v = unidad[c].vigentes)
  BY <1>8, <1>10, <1>11, <1>12
<1> QED BY <1>1, <1>4, <1>10, <1>12, <1>13, <1>14, EscribirInv

-----------------------------------------------------------------------------
(* The commit and the other writers *)

\* The commit: the job is applied, once, and the summary is what was written.
LEMMA FinishInv ==
  ASSUME IInv, NEW w \in Sesiones, FinishImportJob(w)
  PROVE  IInv'
<1>1. PICK s, j, k : s = ses[w] /\ j = s.job /\ k = s.clave
  OBVIOUS
<1>2. PICK fila : fila = [estado |-> "procesado", modo |-> job[j].modo, creados |-> s.creados,
                          actualizados |-> s.actualizados, rechazados |-> Rechazados(s)]
  OBVIOUS
<1>3. /\ s.paso = "terminar" /\ job' = [job EXCEPT ![j] = fila]
      /\ unidad' = [c \in Codigos |-> IF c \in Escritas(s)
                      THEN [existe |-> TRUE, vigentes |-> s.nuevas[c]] ELSE unidad[c]]
      /\ idem' = [idem EXCEPT ![k] = j]
      /\ aplicaciones' = [aplicaciones EXCEPT ![j] = @ + 1, ![k] = @ + 1]
      /\ tocadas' = [tocadas EXCEPT ![j] = @ \cup Escritas(s)]
      /\ importadas' = importadas \cup s.creadas
                       \cup {c \in Escritas(s) : s.nuevas[c] # unidad[c].vigentes}
      /\ ses' = [ses EXCEPT ![w] = SesionLibre] /\ cruzados' = cruzados
  BY <1>1, <1>2 DEF FinishImportJob, Terminar, Seguir
<1>4. /\ s \in Sesion /\ j \in Jobs /\ k \in Claves
      /\ PedidoOK(s) /\ AvanceOK(s) /\ VinculosOK(s)
      /\ \A x \in Sesiones \ {w} : ParejaOK(s, ses[x])
      /\ Len(Archivo[j]) \in Nat /\ j # k
  BY <1>1, <1>3, EnCurso, ArchivosAssumption, ClavesAssumption
<1>5. /\ s.creados \in Nat /\ s.actualizados \in Nat
      /\ s.creados + s.actualizados <= Len(Archivo[j])
      /\ Cardinality(Escritas(s)) = s.creados + s.actualizados
      /\ s.creadas \subseteq Escritas(s) /\ Escritas(s) \subseteq Codigos
      /\ Rechazados(s) = Len(Archivo[j]) - Cardinality(Escritas(s)) /\ Rechazados(s) \in Nat
  <2>1. s.creados \in Nat /\ s.actualizados \in Nat /\ s.fila \in Nat
    BY <1>4 DEF Sesion
  <2>2. /\ s.creados + s.actualizados <= s.fila - 1 /\ s.fila <= Len(Archivo[j]) + 1
        /\ Cardinality(Escritas(s)) = s.creados + s.actualizados
        /\ s.creadas \subseteq Escritas(s)
    BY <1>1, <1>3, <1>4 DEF AvanceOK
  <2>3. Rechazados(s) = Len(Archivo[j]) - s.creados - s.actualizados
    BY <1>1 DEF Rechazados
  <2>4. Escritas(s) \subseteq Codigos
    BY DEF Escritas
  <2> QED BY <1>4, <2>1, <2>2, <2>3, <2>4
<1>6. /\ job \in [Jobs -> [estado: {"inexistente", "listo", "procesado"}, modo: Modos,
                           creados: Nat, actualizados: Nat, rechazados: Nat]]
      /\ unidad \in [Codigos -> [existe: BOOLEAN, vigentes: SUBSET Personas]]
      /\ idem \in [Claves -> Jobs \cup {Ninguno}] /\ ses \in [Sesiones -> Sesion]
      /\ aplicaciones \in [Jobs \cup Claves -> Nat] /\ tocadas \in [Jobs -> SUBSET Codigos]
      /\ cruzados \subseteq Jobs /\ importadas \subseteq Codigos
  BY DEF IInv, TypeOK
<1>7. /\ fila \in [estado: {"inexistente", "listo", "procesado"}, modo: Modos,
                   creados: Nat, actualizados: Nat, rechazados: Nat]
      /\ fila.estado = "procesado" /\ fila.creados = s.creados
      /\ fila.actualizados = s.actualizados /\ fila.rechazados = Rechazados(s)
  BY <1>2, <1>4, <1>5, <1>6
<1>8. /\ job'[j] = fila /\ \A i \in Jobs : i # j => job'[i] = job[i]
      /\ idem'[k] = j /\ \A i \in Claves : i # k => idem'[i] = idem[i]
      /\ aplicaciones'[j] = aplicaciones[j] + 1 /\ aplicaciones'[k] = aplicaciones[k] + 1
      /\ \A i \in Jobs \cup Claves : i # j /\ i # k => aplicaciones'[i] = aplicaciones[i]
      /\ tocadas'[j] = tocadas[j] \cup Escritas(s)
      /\ \A i \in Jobs : i # j => tocadas'[i] = tocadas[i]
      /\ ses'[w] = SesionLibre /\ \A x \in Sesiones : x # w => ses'[x] = ses[x]
  BY <1>3, <1>4, <1>6
<1>9. /\ \A c \in Escritas(s) : /\ unidad'[c].existe /\ unidad'[c].vigentes = s.nuevas[c]
                                /\ s.nuevas[c] \in SUBSET Personas
      /\ \A c \in Codigos : c \notin Escritas(s) => unidad'[c] = unidad[c]
  <2>1. s.nuevas \in [Codigos -> (SUBSET Personas) \cup {Ninguno}]
    BY <1>4 DEF Sesion
  <2> QED BY <1>3, <1>5, <2>1 DEF Escritas
<1>10. TypeOK'
  <2>1. job' \in [Jobs -> [estado: {"inexistente", "listo", "procesado"}, modo: Modos,
                           creados: Nat, actualizados: Nat, rechazados: Nat]]
    BY <1>3, <1>6, <1>7
  <2>2. unidad' \in [Codigos -> [existe: BOOLEAN, vigentes: SUBSET Personas]]
    <3>1. ASSUME NEW c \in Codigos
          PROVE  (IF c \in Escritas(s) THEN [existe |-> TRUE, vigentes |-> s.nuevas[c]]
                  ELSE unidad[c]) \in [existe: BOOLEAN, vigentes: SUBSET Personas]
      BY <1>6, <1>9
    <3> QED BY <1>3, <3>1
  <2>3. idem' \in [Claves -> Jobs \cup {Ninguno}] /\ ses' \in [Sesiones -> Sesion]
    BY <1>3, <1>4, <1>6, LibreEs
  <2>4. aplicaciones' \in [Jobs \cup Claves -> Nat]
    <3>1. aplicaciones' = [i \in Jobs \cup Claves |-> aplicaciones'[i]]
      BY <1>3, <1>6
    <3>2. \A i \in Jobs \cup Claves : aplicaciones'[i] \in Nat
      BY <1>6, <1>8
    <3> QED BY <3>1, <3>2
  <2>5. tocadas' \in [Jobs -> SUBSET Codigos] /\ importadas' \subseteq Codigos
    BY <1>3, <1>5, <1>6
  <2> QED BY <1>3, <1>6, <2>1, <2>2, <2>3, <2>4, <2>5 DEF TypeOK
<1>11. s.paso \in EnProceso /\ idem[k] = Ninguno
       /\ (j \notin cruzados => job[j].estado = "listo")
  BY <1>1, <1>3, <1>4 DEF PedidoOK, EnProceso
<1>12. SesionesOK'
  <2>1. ASSUME NEW x \in Sesiones
        PROVE  (PedidoOK(ses[x]) /\ AvanceOK(ses[x]) /\ VinculosOK(ses[x]))'
    <3>1. CASE x = w
      <4>1. PedidoOK(ses[x])'
        BY <1>8, <3>1, LibreEs DEF PedidoOK, EnProceso
      <4>2. AvanceOK(ses[x])' /\ VinculosOK(ses[x])'
        BY <1>8, <3>1, LibreOK, LibreEs DEF AvanceOK, VinculosOK, Escritas
      <4> QED BY <4>1, <4>2
    <3>2. CASE x # w
      <4>1. /\ ses'[x] = ses[x] /\ ses[x] \in Sesion /\ ParejaOK(s, ses[x])
            /\ PedidoOK(ses[x]) /\ AvanceOK(ses[x]) /\ VinculosOK(ses[x])
        BY <1>4, <1>6, <1>8, <3>2 DEF IInv, SesionesOK
      <4>2. ses[x].paso \in EnProceso => ses[x].clave # k
        BY <1>1, <1>11, <4>1 DEF ParejaOK
      <4>3. ses[x].job = j => j \in cruzados
        BY <1>1, <1>4, <4>1, NingunoAssumption DEF ParejaOK
      <4>4. PedidoOK(ses[x])'
        <5>1. ses[x].paso # "libre" => ses[x].job \in Jobs /\ ses[x].clave \in Claves
          BY <4>1 DEF PedidoOK
        <5>2. ses[x].paso # "libre" => job'[ses[x].job].estado # "inexistente"
          BY <1>7, <1>8, <4>1, <5>1 DEF PedidoOK
        <5>3. ses[x].paso \in EnProceso => idem'[ses[x].clave] = Ninguno
          BY <1>8, <4>1, <4>2, <5>1 DEF PedidoOK, EnProceso
        <5>4. ses[x].paso \in EnProceso \cup {"sellar"} /\ ses[x].job \notin cruzados =>
                job'[ses[x].job].estado = "listo"
          BY <1>8, <4>1, <4>3, <5>1 DEF PedidoOK, EnProceso
        <5> QED BY <1>3, <4>1, <5>1, <5>2, <5>3, <5>4 DEF PedidoOK
      <4>5. VinculosOK(ses[x])'
        <5>1. \A c \in Escritas(ses[x]) : c \in Codigos /\ unidad'[c] = unidad[c]
          BY <1>9, <4>1 DEF ParejaOK, Escritas
        <5> QED BY <4>1, <5>1 DEF VinculosOK, Escritas
      <4>6. AvanceOK(ses[x])'
        BY <4>1 DEF AvanceOK, Escritas
      <4> QED BY <4>4, <4>5, <4>6
    <3> QED BY <3>1, <3>2
  <2>2. ASSUME NEW x \in Sesiones, NEW y \in Sesiones, x # y PROVE ParejaOK(ses[x], ses[y])'
    <3>1. CASE x = w
      BY <1>8, <2>2, <3>1, LibreEs DEF ParejaOK, EnProceso
    <3>2. CASE y = w
      BY <1>8, <2>2, <3>2, LibreEs, NingunoAssumption DEF ParejaOK, EnProceso
    <3>3. CASE x # w /\ y # w
      <4>1. ParejaOK(ses[x], ses[y]) /\ ses'[x] = ses[x] /\ ses'[y] = ses[y]
        BY <1>8, <2>2, <3>3 DEF IInv, SesionesOK
      <4> QED BY <1>3, <4>1 DEF ParejaOK, Escritas
    <3> QED BY <3>1, <3>2, <3>3
  <2> QED BY <2>1, <2>2 DEF SesionesOK
<1>13. ClavesOK'
  <2> SUFFICES ASSUME NEW i \in Claves
               PROVE  /\ aplicaciones'[i] <= 1
                      /\ idem'[i] = Ninguno => aplicaciones'[i] = 0
    BY DEF ClavesOK
  <2>1. aplicaciones[i] <= 1 /\ (idem[i] = Ninguno => aplicaciones[i] = 0)
    BY DEF IInv, ClavesOK
  <2>2. CASE i = k
    BY <1>4, <1>8, <1>11, <2>1, <2>2, NingunoAssumption
  <2>3. CASE i # k
    <3>1. i # j
      BY <1>4, ClavesAssumption
    <3> QED BY <1>8, <2>1, <2>3, <3>1
  <2> QED BY <2>2, <2>3
<1>14. JobsOK'
  <2> SUFFICES ASSUME NEW i \in Jobs
               PROVE  /\ job'[i].estado # "procesado" => aplicaciones'[i] = 0 /\ tocadas'[i] = {}
                      /\ i \notin cruzados => aplicaciones'[i] <= 1
    BY <1>3 DEF JobsOK
  <2>1. /\ job[i].estado # "procesado" => aplicaciones[i] = 0 /\ tocadas[i] = {}
        /\ i \notin cruzados => aplicaciones[i] <= 1
    BY DEF IInv, JobsOK
  <2>2. CASE i = j
    BY <1>7, <1>8, <1>11, <2>1, <2>2
  <2>3. CASE i # j
    <3>1. i # k
      BY <1>4, ClavesAssumption
    <3> QED BY <1>8, <2>1, <2>3, <3>1
  <2> QED BY <2>2, <2>3
<1>15. ResumenFiel'
  <2> SUFFICES ASSUME NEW i \in Jobs \ cruzados, job'[i].estado = "procesado"
               PROVE  /\ job'[i].creados + job'[i].actualizados = Cardinality(tocadas'[i])
                      /\ job'[i].rechazados = Len(Archivo[i]) - Cardinality(tocadas'[i])
    BY <1>3 DEF ResumenFiel
  <2>1. CASE i = j
    <3>1. tocadas[j] = {}
      BY <1>4, <1>11, <2>1 DEF IInv, JobsOK
    <3>2. tocadas'[j] = Escritas(s)
      BY <1>8, <3>1
    <3> QED BY <1>5, <1>7, <1>8, <2>1, <3>2
  <2>2. CASE i # j
    BY <1>8, <2>2 DEF IInv, ResumenFiel
  <2> QED BY <2>1, <2>2
<1>16. ImportadasOK'
  <2> SUFFICES ASSUME NEW c \in importadas'
               PROVE  unidad'[c].existe /\ ALoSumoUno(unidad'[c].vigentes)
    BY DEF ImportadasOK, ALoSumoUno
  <2>1. c \in importadas => unidad[c].existe /\ ALoSumoUno(unidad[c].vigentes)
    BY DEF IInv, ImportadasOK
  <2>2. CASE c \in Escritas(s)
    <3>1. ALoSumoUno(s.nuevas[c]) \/ (c \notin s.creadas /\ s.nuevas[c] = unidad[c].vigentes)
      BY <1>4, <2>2 DEF VinculosOK
    <3>2. c \in importadas \/ c \in s.creadas \/ s.nuevas[c] # unidad[c].vigentes
      BY <1>3
    <3> QED BY <1>9, <2>1, <2>2, <3>1, <3>2
  <2>3. CASE c \notin Escritas(s)
    BY <1>3, <1>5, <1>6, <1>9, <2>1, <2>3
  <2> QED BY <2>2, <2>3
<1> QED BY <1>10, <1>12, <1>13, <1>14, <1>15, <1>16 DEF IInv

\* Requests that nothing happened to.
LEMMA MismasSesiones ==
  ASSUME SesionesOK, UNCHANGED <<ses, cruzados>>,
         \A x \in Sesiones : PedidoOK(ses[x])' /\ VinculosOK(ses[x])'
  PROVE  SesionesOK'
<1>1. ses' = ses /\ cruzados' = cruzados
  OBVIOUS
<1>2. ASSUME NEW x \in Sesiones PROVE AvanceOK(ses[x])'
  <2>1. AvanceOK(ses[x])
    BY DEF SesionesOK
  <2> QED BY <1>1, <2>1 DEF AvanceOK, Escritas
<1>3. ASSUME NEW x \in Sesiones, NEW y \in Sesiones, x # y PROVE ParejaOK(ses[x], ses[y])'
  <2>1. ParejaOK(ses[x], ses[y])
    BY <1>3 DEF SesionesOK
  <2> QED BY <1>1, <2>1 DEF ParejaOK, Escritas
<1> QED BY <1>2, <1>3 DEF SesionesOK

\* A file is loaded: no request names its job yet.
LEMMA CargarInv ==
  ASSUME IInv, NEW j \in Jobs, NEW modo \in Modos, CreateImportJob(j, modo)
  PROVE  IInv'
<1>1. PICK fila : fila = [job[j] EXCEPT !.estado = "listo", !.modo = modo]
  OBVIOUS
<1>2. /\ job[j].estado = "inexistente" /\ job' = [job EXCEPT ![j] = fila]
      /\ UNCHANGED <<unidad, idem, ses, aplicaciones, tocadas, importadas, cruzados>>
  BY <1>1 DEF CreateImportJob, historia
<1>3. /\ job' \in [Jobs -> [estado: {"inexistente", "listo", "procesado"}, modo: Modos,
                            creados: Nat, actualizados: Nat, rechazados: Nat]]
      /\ job'[j].estado = "listo" /\ \A i \in Jobs : i # j => job'[i] = job[i]
  <2>1. job \in [Jobs -> [estado: {"inexistente", "listo", "procesado"}, modo: Modos,
                          creados: Nat, actualizados: Nat, rechazados: Nat]]
    BY DEF IInv, TypeOK
  <2>2. /\ fila \in [estado: {"inexistente", "listo", "procesado"}, modo: Modos,
                     creados: Nat, actualizados: Nat, rechazados: Nat]
        /\ fila.estado = "listo"
    BY <1>1, <2>1
  <2> QED BY <1>2, <2>1, <2>2
<1>4. TypeOK'
  BY <1>2, <1>3 DEF IInv, TypeOK
<1>5. ASSUME NEW x \in Sesiones PROVE PedidoOK(ses[x])'
  <2>1. PedidoOK(ses[x])
    BY DEF IInv, SesionesOK
  <2>2. ses[x].paso # "libre" => ses[x].job \in Jobs /\ ses[x].job # j
    BY <1>2, <2>1 DEF PedidoOK
  <2>3. ses[x].paso # "libre" => job'[ses[x].job] = job[ses[x].job]
    BY <1>3, <2>2
  <2> QED BY <1>2, <2>1, <2>3 DEF PedidoOK, EnProceso
<1>6. SesionesOK'
  <2>1. ASSUME NEW x \in Sesiones PROVE VinculosOK(ses[x])'
    <3>1. VinculosOK(ses[x])
      BY DEF IInv, SesionesOK
    <3> QED BY <1>2, <3>1 DEF VinculosOK, Escritas
  <2> QED BY <1>2, <1>5, <2>1, MismasSesiones DEF IInv
<1>7. ClavesOK' /\ ImportadasOK'
  BY <1>2 DEF IInv, ClavesOK, ImportadasOK
<1>8. JobsOK' /\ ResumenFiel'
  BY <1>2, <1>3 DEF IInv, JobsOK, ResumenFiel
<1> QED BY <1>4, <1>6, <1>7, <1>8 DEF IInv

\* A unidad created by hand: no transaction holds its code.
LEMMA CrearUnidadInv ==
  ASSUME IInv, NEW c \in Codigos, NEW ps \in SUBSET Personas, CreateUnidad(c, ps)
  PROVE  IInv'
<1>1. /\ ~unidad[c].existe /\ \A x \in Sesiones : ses[x].nuevas[c] = Ninguno
      /\ unidad' = [unidad EXCEPT ![c] = [existe |-> TRUE, vigentes |-> ps]]
      /\ UNCHANGED <<job, idem, ses, aplicaciones, tocadas, importadas, cruzados>>
  BY DEF CreateUnidad, historia
<1>2. /\ unidad' \in [Codigos -> [existe: BOOLEAN, vigentes: SUBSET Personas]]
      /\ \A d \in Codigos : d # c => unidad'[d] = unidad[d]
  BY <1>1 DEF IInv, TypeOK
<1>3. TypeOK'
  BY <1>1, <1>2 DEF IInv, TypeOK
<1>4. ASSUME NEW x \in Sesiones PROVE VinculosOK(ses[x])'
  <2>1. VinculosOK(ses[x])
    BY DEF IInv, SesionesOK
  <2>2. \A d \in Escritas(ses[x]) : unidad'[d] = unidad[d]
    BY <1>1, <1>2 DEF Escritas
  <2> QED BY <1>1, <2>1, <2>2 DEF VinculosOK, Escritas
<1>5. SesionesOK'
  <2>1. ASSUME NEW x \in Sesiones PROVE PedidoOK(ses[x])'
    <3>1. PedidoOK(ses[x])
      BY DEF IInv, SesionesOK
    <3> QED BY <1>1, <3>1 DEF PedidoOK
  <2> QED BY <1>1, <1>4, <2>1, MismasSesiones DEF IInv
<1>6. ClavesOK' /\ JobsOK' /\ ResumenFiel'
  BY <1>1 DEF IInv, ClavesOK, JobsOK, ResumenFiel
<1>7. ImportadasOK'
  <2>1. \A d \in importadas : d \in Codigos /\ d # c
    BY <1>1 DEF IInv, TypeOK, ImportadasOK
  <2> QED BY <1>1, <1>2, <2>1 DEF IInv, ImportadasOK
<1> QED BY <1>3, <1>5, <1>6, <1>7 DEF IInv

-----------------------------------------------------------------------------
(* The theorems *)

LEMMA InitInv == Init => IInv
<1> SUFFICES ASSUME Init PROVE IInv
  OBVIOUS
<1>1. TypeOK
  BY LibreEs DEF Init, TypeOK, Modos
<1>2. \A w \in Sesiones : ses[w] = SesionLibre
  BY DEF Init
<1>3. PedidoOK(SesionLibre) /\ AvanceOK(SesionLibre) /\ VinculosOK(SesionLibre)
  BY LibreEs, LibreOK DEF PedidoOK, VinculosOK, EnProceso
<1>4. ParejaOK(SesionLibre, SesionLibre)
  BY LibreEs DEF ParejaOK, EnProceso
<1>5. SesionesOK
  BY <1>2, <1>3, <1>4 DEF SesionesOK
<1>6. ClavesOK /\ JobsOK /\ ResumenFiel /\ ImportadasOK
  BY DEF Init, ClavesOK, JobsOK, ResumenFiel, ImportadasOK
<1> QED BY <1>1, <1>5, <1>6 DEF IInv

LEMMA NextInv == IInv /\ [Next]_vars => IInv'
<1> SUFFICES ASSUME IInv, [Next]_vars PROVE IInv'
  OBVIOUS
<1>1. CASE UNCHANGED vars
  <2>1. UNCHANGED <<job, unidad, idem, ses, aplicaciones, tocadas, cruzados, importadas>>
    BY <1>1 DEF vars
  <2>2. ASSUME NEW x \in Sesiones PROVE PedidoOK(ses[x])' /\ VinculosOK(ses[x])'
    <3>1. PedidoOK(ses[x]) /\ VinculosOK(ses[x])
      BY DEF IInv, SesionesOK
    <3> QED BY <2>1, <3>1 DEF PedidoOK, VinculosOK, Escritas
  <2>3. SesionesOK'
    BY <2>1, <2>2, MismasSesiones DEF IInv
  <2>4. TypeOK' /\ ClavesOK' /\ JobsOK' /\ ResumenFiel' /\ ImportadasOK'
    BY <2>1 DEF IInv, TypeOK, ClavesOK, JobsOK, ResumenFiel, ImportadasOK
  <2> QED BY <2>3, <2>4 DEF IInv
<1>2. ASSUME NEW j \in Jobs, NEW modo \in Modos, CreateImportJob(j, modo) PROVE IInv'
  BY <1>2, CargarInv
<1>3. ASSUME NEW w \in Sesiones, NEW j \in Jobs, NEW k \in Claves, RecibirConfirm(w, j, k)
      PROVE  IInv'
  BY <1>3, RecibirInv
<1>4. ASSUME NEW w \in Sesiones, GetImportJob(w) \/ Sellar(w) PROVE IInv'
  BY <1>4, LeerInv
<1>5. ASSUME NEW w \in Sesiones,
             SetImportJobEstado(w) \/ GetUnidadByCodigo(w) \/ RechazarFila(w)
      PROVE  IInv'
  BY <1>5, FilaInv
<1>6. ASSUME NEW w \in Sesiones, CrearUnidadDesdeFila(w) PROVE IInv'
  BY <1>6, CrearInv
<1>7. ASSUME NEW w \in Sesiones, ActualizarUnidadDesdeFila(w) PROVE IInv'
  BY <1>7, ActualizarInv
<1>8. ASSUME NEW w \in Sesiones, FinishImportJob(w) PROVE IInv'
  BY <1>8, FinishInv
<1>9. ASSUME NEW w \in Sesiones, Abortar(w) PROVE IInv'
  BY <1>9, TerminarInv DEF Abortar
<1>10. ASSUME NEW c \in Codigos, NEW ps \in SUBSET Personas, CreateUnidad(c, ps) PROVE IInv'
  BY <1>10, CrearUnidadInv
<1> QED BY <1>1, <1>2, <1>3, <1>4, <1>5, <1>6, <1>7, <1>8, <1>9, <1>10 DEF Next

\* IInv holds in every reachable state.
THEOREM Invariante == Spec => []IInv
  BY InitInv, NextInv, PTL DEF Spec

\* Jobs, unidades, keys and transactions keep their shape; in particular a job
\* never rejects a negative number of rows: no row is counted twice.
THEOREM Tipos == Spec => []TypeOK
<1>1. IInv => TypeOK
  BY DEF IInv
<1> QED BY <1>1, Invariante, PTL

\* ConfirmImportJob applies a key once; and a job once, unless two requests
\* confirmed it at the same time.
THEOREM UnaAplicacion == Spec => []AplicadoUnaVez
<1>1. IInv => AplicadoUnaVez
  BY DEF IInv, ClavesOK, JobsOK, AplicadoUnaVez
<1> QED BY <1>1, Invariante, PTL

\* The summary FinishImportJob stores counts the unidades written, for any file:
\* because no valid row repeats a code, each row writes a unidad of its own.
THEOREM ResumenVerdadero == Spec => []ResumenFiel
<1>1. IInv => ResumenFiel
  BY DEF IInv
<1> QED BY <1>1, Invariante, PTL

\* However many imports update a unidad at once, one vinculo stays open at most:
\* the row lock of UpdateUnidad covers the close and the attachment.
THEOREM UnVinculo == Spec => []UnVinculoImportado
<1>1. IInv => UnVinculoImportado
  <2>1. \A v : ALoSumoUno(v) => Cardinality(v) <= 1
    <3>1. \A p \in Personas : Cardinality({p}) = 1
      BY FS_Singleton
    <3> QED BY <3>1, FS_EmptySet DEF ALoSumoUno
  <2> QED BY <2>1 DEF IInv, ImportadasOK, UnVinculoImportado
<1> QED BY <1>1, Invariante, PTL

-----------------------------------------------------------------------------
(* What a commit applies.  A transaction looks at one unidad after the other, *)
(* and others commit meanwhile: PasadasOK says that what it decided for each  *)
(* row it has passed is still what it would decide now.                       *)

\* Row h of the file was created, updated or rejected by its transaction.
Creada(s, h) ==
    LET c == Archivo[s.job][h].codigo
    IN  /\ c \in s.creadas /\ c \in Escritas(s)
        /\ ~unidad[c].existe /\ job[s.job].modo # "actualizar"
        /\ s.nuevas[c] = SoloUna(Archivo[s.job][h].persona)
Actualizada(s, h) ==
    LET c == Archivo[s.job][h].codigo
        p == Archivo[s.job][h].persona
    IN  /\ c \in Escritas(s) /\ c \notin s.creadas
        /\ unidad[c].existe /\ job[s.job].modo # "crear"
        /\ s.nuevas[c] = IF p = Ninguno THEN unidad[c].vigentes ELSE {p}
Rechazada(s, h) ==
    LET c == Archivo[s.job][h].codigo
    IN  /\ c \notin Escritas(s)
        /\ \/ job[s.job].modo = "actualizar"
           \/ job[s.job].modo = "crear" /\ unidad[c].existe

\* The rows that count, of those before the one at hand.
Pasadas(s) == {h \in Quedan(s.job, 1) : h < s.fila}

PasadasOK(s) ==
    /\ s.paso \in {"buscar", "escribir", "terminar"} =>
         \A h \in Pasadas(s) : Creada(s, h) \/ Actualizada(s, h) \/ Rechazada(s, h)
    /\ \A c \in Escritas(s) : \E h \in Pasadas(s) : Archivo[s.job][h].codigo = c
    /\ s.creados = Cardinality(s.creadas)
    /\ s.paso = "escribir" /\ s.existe => unidad[Fila(s).codigo].existe
    /\ s.paso = "terminar" => s.fila > Len(Archivo[s.job])

JInv == \A w \in Sesiones : PasadasOK(ses[w])

\* No row that counts is skipped.
LEMMA ProximaSalta ==
  ASSUME NEW j \in Jobs, NEW i \in Nat \ {0}
  PROVE  \A h \in Quedan(j, 1) : h < Proxima(j, i) => h < i
<1>1. Len(Archivo[j]) \in Nat
  BY ArchivosAssumption
<1>2. PICK T : T = Quedan(j, i) \cup {Len(Archivo[j]) + 1}
  OBVIOUS
<1>3. T \subseteq Nat /\ T # {} /\ \A g \in Quedan(j, i) : g \in T /\ g <= Len(Archivo[j])
  BY <1>1, <1>2 DEF Quedan
<1>4. \E h \in T : \A g \in T : ~(<<g, h>> \in OpToRel(<, Nat))
  BY <1>3, WFMin, NatLessThanWellFounded
<1>5. \A g, h \in T : ~(<<g, h>> \in OpToRel(<, Nat)) => h <= g
  BY <1>3 DEF OpToRel
<1>6. \E h \in T : \A g \in Quedan(j, i) : h <= g
  BY <1>3, <1>4, <1>5
<1>7. \A g \in Quedan(j, i) : Proxima(j, i) <= g
  BY <1>2, <1>6 DEF Proxima
<1>8. Proxima(j, i) \in Nat
  <2>1. Proxima(j, i) \in T
    BY <1>2, <1>6 DEF Proxima
  <2> QED BY <1>3, <2>1
<1>9. \A h \in Quedan(j, 1) : h \in Nat /\ (h >= i => h \in Quedan(j, i))
  BY <1>1 DEF Quedan
<1> QED BY <1>7, <1>8, <1>9

\* Two rows that count have different codes, and each code is one of the system.
LEMMA CodigosDistintos ==
  ASSUME NEW j \in Jobs, NEW h \in Quedan(j, 1)
  PROVE  /\ Archivo[j][h].codigo \in Codigos
         /\ Archivo[j][h].persona \in Personas \cup {Ninguno}
         /\ \A g \in Quedan(j, 1) : Archivo[j][g].codigo = Archivo[j][h].codigo => g = h
<1>1. Archivo[j] \in Seq([codigo: Codigos, bien: BOOLEAN, persona: Personas \cup {Ninguno}])
  BY ArchivosAssumption
<1>2. h \in 1..Len(Archivo[j]) /\ Valida(Archivo[j], h)
  BY DEF Quedan
<1>3. Archivo[j][h] \in [codigo: Codigos, bien: BOOLEAN, persona: Personas \cup {Ninguno}]
  <2>1. \A R, a : a \in Seq(R) => \A i \in 1..Len(a) : a[i] \in R
    OBVIOUS
  <2> QED BY <1>1, <1>2, <2>1
<1>4. ASSUME NEW g \in Quedan(j, 1), Archivo[j][g].codigo = Archivo[j][h].codigo PROVE g = h
  <2>1. g \in 1..Len(Archivo[j]) /\ Valida(Archivo[j], g)
    BY DEF Quedan
  <2>2. ~(g \in 1..(h - 1)) /\ ~(h \in 1..(g - 1))
    BY <1>2, <1>4, <2>1 DEF Valida
  <2>3. Len(Archivo[j]) \in Nat
    BY ArchivosAssumption
  <2> QED BY <1>2, <2>1, <2>2, <2>3
<1> QED BY <1>3, <1>4

\* A transaction that has passed no row.
LEMMA NadaPasado ==
  ASSUME NEW s, s.paso \in {"libre", "leer", "sellar", "tomar"},
         Escritas(s) = {}, s.creados = 0, s.creadas = {}
  PROVE  PasadasOK(s)
  BY FS_EmptySet DEF PasadasOK

\* What others commit does not undo what a transaction decided: the unidades it
\* has written stay as they are, none is deleted, and its job keeps its mode.
LEMMA SigueValiendo ==
  ASSUME NEW s, s.job \in Jobs, PasadasOK(s),
         s.paso = "escribir" => Fila(s).codigo \in Codigos,
         \A c \in Escritas(s) : unidad'[c] = unidad[c],
         \A c \in Codigos : unidad[c].existe => unidad'[c].existe,
         job'[s.job].modo = job[s.job].modo
  PROVE  PasadasOK(s)'
<1>1. Escritas(s)' = Escritas(s) /\ Pasadas(s)' = Pasadas(s) /\ Fila(s)' = Fila(s)
  BY DEF Escritas, Pasadas, Fila
<1>2. ASSUME NEW h \in Pasadas(s), Creada(s, h) \/ Actualizada(s, h) \/ Rechazada(s, h)
      PROVE  (Creada(s, h) \/ Actualizada(s, h) \/ Rechazada(s, h))'
  <2>1. Archivo[s.job][h].codigo \in Codigos
    BY CodigosDistintos DEF Pasadas
  <2>2. CASE Creada(s, h)
    BY <1>1, <2>2 DEF Creada
  <2>3. CASE Actualizada(s, h)
    BY <1>1, <2>3 DEF Actualizada
  <2>4. CASE Rechazada(s, h)
    BY <1>1, <2>1, <2>4 DEF Rechazada
  <2> QED BY <1>2, <2>2, <2>3, <2>4
<1> QED BY <1>1, <1>2 DEF PasadasOK

\* Where EnFila goes from a row.
LEMMA EnFilaSalta ==
  ASSUME NEW s \in Sesion, s.job \in Jobs, NEW i \in Nat \ {0}, i <= Len(Archivo[s.job]) + 1
  PROVE  LET t == EnFila(s, Proxima(s.job, i))
         IN  t.fila = Proxima(s.job, i) /\ (t.paso = "terminar" => t.fila > Len(Archivo[s.job]))
<1>1. PICK h : h = Proxima(s.job, i)
  OBVIOUS
<1>2. PICK p : p = IF h > Len(Archivo[s.job]) THEN "terminar" ELSE "buscar"
  OBVIOUS
<1>3. EnFila(s, Proxima(s.job, i)) = [s EXCEPT !.fila = h, !.paso = p]
  BY <1>1, <1>2 DEF EnFila
<1>4. [s EXCEPT !.fila = h, !.paso = p].fila = h /\ [s EXCEPT !.fila = h, !.paso = p].paso = p
  BY DEF Sesion
<1>5. p = "terminar" => h > Len(Archivo[s.job])
  BY <1>2
<1> QED BY <1>1, <1>3, <1>4, <1>5

\* The first row: nothing is passed.
LEMMA PrimeraFila ==
  ASSUME NEW s \in Sesion, s.job \in Jobs, s.paso = "tomar", AvanceOK(s), PasadasOK(s)
  PROVE  PasadasOK(EnFila(s, Proxima(s.job, 1)))
<1>1. PICK t : t = EnFila(s, Proxima(s.job, 1))
  OBVIOUS
<1>2. Len(Archivo[s.job]) \in Nat
  BY ArchivosAssumption
<1>3. /\ t.paso \in {"buscar", "terminar"} /\ t.job = s.job /\ t.nuevas = s.nuevas
      /\ t.creadas = s.creadas /\ t.creados = s.creados
  BY <1>1, <1>2, EnFilaEs
<1>4. t.fila = Proxima(s.job, 1) /\ (t.paso = "terminar" => t.fila > Len(Archivo[s.job]))
  BY <1>1, <1>2, EnFilaSalta
<1>5. Pasadas(t) = {}
  <2>1. \A h \in Quedan(s.job, 1) : h >= 1 /\ h \in Nat
    BY <1>2 DEF Quedan
  <2>2. \A h \in Quedan(s.job, 1) : h < t.fila => h < 1
    BY <1>4, ProximaSalta
  <2> QED BY <1>3, <2>1, <2>2 DEF Pasadas
<1>6. Escritas(t) = {}
  BY <1>3 DEF AvanceOK, Escritas
<1>7. t.creados = Cardinality(t.creadas)
  BY <1>3 DEF PasadasOK
<1> QED BY <1>1, <1>3, <1>4, <1>5, <1>6, <1>7 DEF PasadasOK

\* What was decided for a row stands as long as its code is not touched.
LEMMA MismaDecision ==
  ASSUME NEW s, NEW t, NEW h, NEW e, e = Archivo[s.job][h].codigo, t.job = s.job,
         t.nuevas[e] = s.nuevas[e], e \in t.creadas <=> e \in s.creadas,
         e \in Escritas(t) <=> e \in Escritas(s),
         Creada(s, h) \/ Actualizada(s, h) \/ Rechazada(s, h)
  PROVE  Creada(t, h) \/ Actualizada(t, h) \/ Rechazada(t, h)
<1>1. Archivo[t.job][h].codigo = e /\ Archivo[t.job][h].persona = Archivo[s.job][h].persona
  OBVIOUS
<1>2. CASE Creada(s, h)
  BY <1>1, <1>2 DEF Creada
<1>3. CASE Actualizada(s, h)
  BY <1>1, <1>3 DEF Actualizada
<1>4. CASE Rechazada(s, h)
  BY <1>1, <1>4 DEF Rechazada
<1> QED BY <1>2, <1>3, <1>4

\* The row at hand is passed: what was decided for the others, which have other
\* codes, stands.
LEMMA PasarFila ==
  ASSUME NEW s \in Sesion, NEW t, NEW c, s.job \in Jobs, s.paso = "escribir",
         AvanceOK(s), PasadasOK(s), c = Fila(s).codigo,
         t.job = s.job, t.fila = Proxima(s.job, s.fila + 1), t.paso \in {"buscar", "terminar"},
         t.paso = "terminar" => t.fila > Len(Archivo[t.job]),
         \A d \in Codigos : d # c => t.nuevas[d] = s.nuevas[d],
         \A d \in Codigos : d # c => (d \in t.creadas <=> d \in s.creadas),
         t.creados = Cardinality(t.creadas),
         Creada(t, s.fila) \/ Actualizada(t, s.fila) \/ Rechazada(t, s.fila)
  PROVE  PasadasOK(t)
<1>1. Len(Archivo[s.job]) \in Nat
  BY ArchivosAssumption
<1>2. /\ s.fila \in 1..Len(Archivo[s.job]) /\ s.fila \in Quedan(s.job, 1)
      /\ Archivo[s.job][s.fila].codigo = c
  BY <1>1 DEF AvanceOK, Quedan, Fila
<1>3. Pasadas(t) = Pasadas(s) \cup {s.fila}
  <2>1. \A h \in Quedan(s.job, 1) : h \in Nat /\ (h < t.fila => h < s.fila + 1)
    <3>1. \A h \in Quedan(s.job, 1) : h < Proxima(s.job, s.fila + 1) => h < s.fila + 1
      BY <1>2, ProximaSalta
    <3>2. \A h \in Quedan(s.job, 1) : h \in Nat
      BY <1>1 DEF Quedan
    <3> QED BY <3>1, <3>2
  <2>2. t.fila \in Nat /\ t.fila >= s.fila + 1
    <3>1. s.fila + 1 \in Nat \ {0} /\ s.fila + 1 <= Len(Archivo[s.job]) + 1
      BY <1>1, <1>2
    <3>2. t.fila \in (s.fila + 1)..(Len(Archivo[s.job]) + 1)
      BY <3>1, ProximaEs
    <3> QED BY <1>1, <1>2, <3>2
  <2> QED BY <1>2, <2>1, <2>2 DEF Pasadas
<1>4. ASSUME NEW h \in Pasadas(s)
      PROVE  Archivo[s.job][h].codigo \in Codigos /\ Archivo[s.job][h].codigo # c
  <2>1. h \in Quedan(s.job, 1) /\ h # s.fila
    BY <1>2 DEF Pasadas
  <2> QED BY <1>2, <2>1, CodigosDistintos
<1>5. \A d \in Codigos : d # c => (d \in Escritas(t) <=> d \in Escritas(s))
  BY DEF Escritas
<1>6. ASSUME NEW h \in Pasadas(s) PROVE Creada(t, h) \/ Actualizada(t, h) \/ Rechazada(t, h)
  <2>1. Creada(s, h) \/ Actualizada(s, h) \/ Rechazada(s, h)
    BY DEF PasadasOK
  <2>2. PICK e : e = Archivo[s.job][h].codigo
    OBVIOUS
  <2>3. /\ t.nuevas[e] = s.nuevas[e] /\ (e \in t.creadas <=> e \in s.creadas)
        /\ e \in Escritas(t) <=> e \in Escritas(s)
        /\ t.job = s.job
    BY <1>4, <1>5, <2>2
  <2> QED BY <2>1, <2>2, <2>3, MismaDecision
<1>7. \A h \in Pasadas(t) : Creada(t, h) \/ Actualizada(t, h) \/ Rechazada(t, h)
  BY <1>3, <1>6
<1>8. ASSUME NEW d \in Escritas(t) PROVE \E h \in Pasadas(t) : Archivo[t.job][h].codigo = d
  <2>1. CASE d = c
    BY <1>2, <1>3, <2>1
  <2>2. CASE d # c
    <3>1. d \in Escritas(s)
      BY <1>5, <2>2 DEF Escritas
    <3> QED BY <1>3, <3>1 DEF PasadasOK
  <2> QED BY <2>1, <2>2
<1> QED BY <1>7, <1>8 DEF PasadasOK

\* The next value of a transaction, by name.
LEMMA EsaSesion ==
  ASSUME NEW x \in Sesiones, NEW s, s = ses'[x], PasadasOK(s)'
  PROVE  PasadasOK(ses[x])'
<1>1. \A h : /\ Creada(s, h)' <=> Creada(ses[x], h)'
             /\ Actualizada(s, h)' <=> Actualizada(ses[x], h)'
             /\ Rechazada(s, h)' <=> Rechazada(ses[x], h)'
  BY DEF Creada, Actualizada, Rechazada, Escritas
<1>2. Escritas(s)' = Escritas(ses[x])' /\ Pasadas(s)' = Pasadas(ses[x])'
  BY DEF Escritas, Pasadas
<1>3. Fila(s)' = Fila(ses[x])'
  BY DEF Fila
<1> QED BY <1>1, <1>2, <1>3 DEF PasadasOK

\* A step of one transaction that changes no table.
LEMMA UnaSesion ==
  ASSUME IInv, JInv, NEW w \in Sesiones, NEW s, Seguir(w, s), UNCHANGED tablas, PasadasOK(s)
  PROVE  JInv'
<1>1. /\ ses'[w] = s /\ \A x \in Sesiones : x # w => ses'[x] = ses[x]
      /\ unidad' = unidad /\ job' = job
  BY DEF Seguir, IInv, TypeOK, tablas
<1>2. ASSUME NEW t, PasadasOK(t) PROVE PasadasOK(t)'
  BY <1>1, <1>2 DEF PasadasOK, Pasadas, Creada, Actualizada, Rechazada, Escritas, Fila
<1>3. ASSUME NEW x \in Sesiones PROVE PasadasOK(ses[x])'
  <2>1. PICK t : t = ses'[x] /\ PasadasOK(t)
    BY <1>1 DEF JInv
  <2>2. PasadasOK(t)'
    BY <1>2, <2>1
  <2> QED BY <2>1, <2>2, EsaSesion
<1> QED BY <1>3 DEF JInv

\* The steps before the first row.
LEMMA AntesDeFilas ==
  ASSUME IInv, JInv, NEW w \in Sesiones,
         \/ Terminar(w) /\ UNCHANGED tablas
         \/ \E j \in Jobs, k \in Claves : RecibirConfirm(w, j, k)
         \/ GetImportJob(w) \/ Sellar(w) \/ SetImportJobEstado(w)
  PROVE  JInv'
<1>1. CASE Terminar(w) /\ UNCHANGED tablas
  <2>1. PasadasOK(SesionLibre)
    BY LibreEs, NadaPasado
  <2> QED BY <1>1, <2>1, UnaSesion DEF Terminar
<1>2. ASSUME NEW j \in Jobs, NEW k \in Claves, RecibirConfirm(w, j, k) PROVE JInv'
  <2>1. PICK s : s = [SesionLibre EXCEPT !.paso = "leer", !.job = j, !.clave = k]
    OBVIOUS
  <2>2. /\ s.paso = "leer" /\ s.creados = 0 /\ s.creadas = {} /\ s.nuevas = SesionLibre.nuevas
    BY <2>1, LibreEs DEF Sesion
  <2>3. PasadasOK(s)
    <3>1. Escritas(s) = {}
      BY <2>2, LibreEs DEF Escritas
    <3> QED BY <2>2, <3>1, NadaPasado
  <2>4. Seguir(w, s) /\ UNCHANGED tablas
    BY <1>2, <2>1 DEF RecibirConfirm
  <2> QED BY <2>3, <2>4, UnaSesion
<1>3. CASE ~Terminar(w) /\ (GetImportJob(w) \/ Sellar(w))
  <2>1. PICK p \in {"sellar", "tomar"} : /\ Seguir(w, [ses[w] EXCEPT !.paso = p])
                                         /\ ses[w].paso \in {"leer", "sellar"}
                                         /\ UNCHANGED tablas
    BY <1>3 DEF GetImportJob, Sellar
  <2>2. PICK s : s = [ses[w] EXCEPT !.paso = p]
    OBVIOUS
  <2>3. ses[w] \in Sesion /\ AvanceOK(ses[w]) /\ PasadasOK(ses[w])
    BY <2>1, EnCurso DEF JInv
  <2>4. /\ s.paso = p /\ s.nuevas = ses[w].nuevas
        /\ s.creadas = ses[w].creadas /\ s.creados = ses[w].creados
    BY <2>2, <2>3 DEF Sesion
  <2>5. Escritas(s) = {} /\ s.creadas = {}
    BY <2>1, <2>3, <2>4 DEF AvanceOK, Escritas
  <2>6. s.creados = 0
    BY <2>3, <2>4, <2>5, FS_EmptySet DEF PasadasOK
  <2>7. PasadasOK(s)
    BY <2>4, <2>5, <2>6, NadaPasado
  <2> QED BY <2>1, <2>2, <2>7, UnaSesion
<1>4. CASE SetImportJobEstado(w)
  <2>1. PICK s : s = ses[w]
    OBVIOUS
  <2>2. /\ s.paso = "tomar" /\ UNCHANGED tablas
        /\ Seguir(w, EnFila(s, Proxima(s.job, 1)))
    BY <1>4, <2>1 DEF SetImportJobEstado
  <2>3. s \in Sesion /\ s.job \in Jobs /\ AvanceOK(s) /\ PasadasOK(s)
    BY <2>1, <2>2, EnCurso DEF JInv
  <2>4. PasadasOK(EnFila(s, Proxima(s.job, 1)))
    BY <2>2, <2>3, PrimeraFila
  <2> QED BY <2>2, <2>4, UnaSesion
<1>5. GetImportJob(w) \/ Sellar(w) => UNCHANGED tablas
  BY DEF GetImportJob, Sellar
<1> QED BY <1>1, <1>2, <1>3, <1>4, <1>5

\* The row at hand has a code of the system that was not written before.
LEMMA FilaNueva ==
  ASSUME NEW s \in Sesion, s.job \in Jobs, s.paso \in {"buscar", "escribir"}, AvanceOK(s)
  PROVE  /\ Fila(s).codigo \in Codigos /\ Fila(s).codigo \notin Escritas(s)
         /\ Fila(s).codigo \notin s.creadas
         /\ Fila(s).persona \in Personas \cup {Ninguno}
         /\ Archivo[s.job][s.fila].codigo = Fila(s).codigo
         /\ Archivo[s.job][s.fila].persona = Fila(s).persona
         /\ s.fila + 1 \in Nat \ {0} /\ s.fila + 1 <= Len(Archivo[s.job]) + 1
<1>1. Len(Archivo[s.job]) \in Nat
  BY ArchivosAssumption
<1>2. s.fila \in 1..Len(Archivo[s.job]) /\ Valida(Archivo[s.job], s.fila)
  BY <1>1 DEF AvanceOK
<1>3. Fila(s).codigo \in Codigos /\ Fila(s).persona \in Personas \cup {Ninguno}
  BY <1>2, FilaEs
<1>4. /\ Archivo[s.job][s.fila].codigo = Fila(s).codigo
      /\ Archivo[s.job][s.fila].persona = Fila(s).persona
  BY DEF Fila
<1>5. Fila(s).codigo \notin Escritas(s)
  BY <1>2, <1>4 DEF AvanceOK, Valida
<1>6. Fila(s).codigo \notin s.creadas
  BY <1>5 DEF AvanceOK
<1> QED BY <1>1, <1>2, <1>3, <1>4, <1>5, <1>6

\* Where a transaction goes from the row at hand.
LEMMA Adelante ==
  ASSUME NEW s \in Sesion, s.job \in Jobs, s.paso \in {"buscar", "escribir"}, AvanceOK(s),
         NEW u, u = EnFila(s, Proxima(s.job, s.fila + 1))
  PROVE  /\ u \in Sesion /\ u.paso \in {"buscar", "terminar"} /\ u.job = s.job
         /\ u.nuevas = s.nuevas /\ u.creadas = s.creadas /\ u.creados = s.creados
         /\ u.fila = Proxima(s.job, s.fila + 1)
         /\ u.paso = "terminar" => u.fila > Len(Archivo[u.job])
<1>1. PICK i : i = s.fila + 1
  OBVIOUS
<1>2. i \in Nat \ {0} /\ i <= Len(Archivo[s.job]) + 1
  BY <1>1, FilaNueva
<1>3. u = EnFila(s, Proxima(s.job, i))
  BY <1>1
<1>4. /\ u \in Sesion /\ u.paso \in {"buscar", "terminar"} /\ u.job = s.job
      /\ u.nuevas = s.nuevas /\ u.creadas = s.creadas /\ u.creados = s.creados
  BY <1>2, <1>3, EnFilaEs
<1>5. u.fila = Proxima(s.job, i) /\ (u.paso = "terminar" => u.fila > Len(Archivo[s.job]))
  BY <1>2, <1>3, EnFilaSalta
<1> QED BY <1>1, <1>4, <1>5

\* A unidad that is found is there: this transaction has not written it.
LEMMA BuscarFilas ==
  ASSUME IInv, JInv, NEW w \in Sesiones, GetUnidadByCodigo(w)
  PROVE  JInv'
<1>1. PICK s, c : s = ses[w] /\ c = Fila(s).codigo
  OBVIOUS
<1>2. PICK b : b = (unidad[c].existe \/ s.nuevas[c] # Ninguno)
  OBVIOUS
<1>3. PICK t : t = [s EXCEPT !.paso = "escribir", !.existe = b]
  OBVIOUS
<1>4. s.paso = "buscar" /\ Seguir(w, t) /\ UNCHANGED tablas
  BY <1>1, <1>2, <1>3 DEF GetUnidadByCodigo
<1>5. s \in Sesion /\ s.job \in Jobs /\ AvanceOK(s) /\ PasadasOK(s)
  BY <1>1, <1>4, EnCurso DEF JInv
<1>6. c \in Codigos /\ c \notin Escritas(s)
  BY <1>1, <1>4, <1>5, FilaNueva
<1>7. b = unidad[c].existe /\ b \in BOOLEAN
  BY <1>2, <1>6 DEF Escritas, IInv, TypeOK
<1>8. /\ t.paso = "escribir" /\ t.existe = b /\ t.job = s.job /\ t.fila = s.fila
      /\ t.nuevas = s.nuevas /\ t.creadas = s.creadas /\ t.creados = s.creados
  BY <1>3, <1>5, <1>7 DEF Sesion
<1>9. PasadasOK(t)
  <2>1. Escritas(t) = Escritas(s) /\ Pasadas(t) = Pasadas(s) /\ Fila(t) = Fila(s)
    BY <1>8 DEF Escritas, Pasadas, Fila
  <2>2. \A h \in Pasadas(s) : Creada(t, h) \/ Actualizada(t, h) \/ Rechazada(t, h)
    <3> SUFFICES ASSUME NEW h \in Pasadas(s)
                 PROVE  Creada(t, h) \/ Actualizada(t, h) \/ Rechazada(t, h)
      OBVIOUS
    <3>1. Creada(s, h) \/ Actualizada(s, h) \/ Rechazada(s, h)
      BY <1>4, <1>5 DEF PasadasOK
    <3> QED BY <1>8, <2>1, <3>1, MismaDecision
  <2> QED BY <1>1, <1>5, <1>7, <1>8, <2>1, <2>2 DEF PasadasOK
<1> QED BY <1>4, <1>9, UnaSesion

\* The row is rejected by the mode of the job.
LEMMA RechazarFilas ==
  ASSUME IInv, JInv, NEW w \in Sesiones, RechazarFila(w)
  PROVE  JInv'
<1>1. PICK s, c : s = ses[w] /\ c = Fila(s).codigo
  OBVIOUS
<1>2. PICK t : t = EnFila(s, Proxima(s.job, s.fila + 1))
  OBVIOUS
<1>3. /\ s.paso = "escribir" /\ Rechaza(job[s.job].modo, s.existe)
      /\ Seguir(w, t) /\ UNCHANGED tablas
  BY <1>1, <1>2 DEF RechazarFila
<1>4. s \in Sesion /\ s.job \in Jobs /\ AvanceOK(s) /\ PasadasOK(s)
  BY <1>1, <1>3, EnCurso DEF JInv
<1>5. /\ c \in Codigos /\ c \notin Escritas(s) /\ Archivo[s.job][s.fila].codigo = c
      /\ s.fila + 1 \in Nat \ {0} /\ s.fila + 1 <= Len(Archivo[s.job]) + 1
  BY <1>1, <1>3, <1>4, FilaNueva
<1>6. /\ t.paso \in {"buscar", "terminar"} /\ t.job = s.job /\ t.nuevas = s.nuevas
      /\ t.creadas = s.creadas /\ t.creados = s.creados
      /\ t.fila = Proxima(s.job, s.fila + 1)
      /\ t.paso = "terminar" => t.fila > Len(Archivo[t.job])
  BY <1>2, <1>3, <1>4, Adelante
<1>7. Rechazada(t, s.fila)
  <2>1. c \notin Escritas(t)
    BY <1>5, <1>6 DEF Escritas
  <2>2. \/ job[t.job].modo = "actualizar"
        \/ job[t.job].modo = "crear" /\ unidad[c].existe
    BY <1>1, <1>3, <1>4, <1>6 DEF Rechaza, PasadasOK
  <2> QED BY <1>5, <1>6, <2>1, <2>2 DEF Rechazada
<1>8. PasadasOK(t)
  <2>1. t.creados = Cardinality(t.creadas)
    BY <1>4, <1>6 DEF PasadasOK
  <2> QED BY <1>1, <1>3, <1>4, <1>6, <1>7, <2>1, PasarFila
<1> QED BY <1>3, <1>8, UnaSesion

\* The row creates its unidad, which no transaction has committed.
LEMMA CrearFilas ==
  ASSUME IInv, JInv, NEW w \in Sesiones, CrearUnidadDesdeFila(w)
  PROVE  JInv'
<1>1. PICK s, c, u : /\ s = ses[w] /\ c = Fila(s).codigo
                     /\ u = EnFila(s, Proxima(s.job, s.fila + 1))
  OBVIOUS
<1>2. PICK v : v = SoloUna(Fila(s).persona)
  OBVIOUS
<1>3. PICK t : t = [u EXCEPT !.nuevas[c] = v, !.creadas = @ \cup {c}, !.creados = @ + 1]
  OBVIOUS
<1>4. /\ s.paso = "escribir" /\ ~s.existe /\ ~Rechaza(job[s.job].modo, s.existe)
      /\ Terminar(w) \/ (Seguir(w, t) /\ ~unidad[c].existe)
      /\ UNCHANGED tablas
  BY <1>1, <1>2, <1>3 DEF CrearUnidadDesdeFila
<1>5. CASE Terminar(w)
  BY <1>4, <1>5, AntesDeFilas
<1>6. CASE Seguir(w, t) /\ ~unidad[c].existe
  <2>1. s \in Sesion /\ s.job \in Jobs /\ AvanceOK(s) /\ PasadasOK(s)
    BY <1>1, <1>4, EnCurso DEF JInv
  <2>2. /\ c \in Codigos /\ c \notin Escritas(s) /\ c \notin s.creadas
        /\ Archivo[s.job][s.fila].codigo = c
        /\ v = SoloUna(Archivo[s.job][s.fila].persona)
        /\ Fila(s).persona \in Personas \cup {Ninguno}
        /\ s.fila + 1 \in Nat \ {0} /\ s.fila + 1 <= Len(Archivo[s.job]) + 1
    BY <1>1, <1>2, <1>4, <2>1, FilaNueva
  <2>3. v \in SUBSET Personas
    BY <1>2, <2>2 DEF SoloUna
  <2>4. /\ u \in Sesion /\ u.paso \in {"buscar", "terminar"} /\ u.job = s.job
        /\ u.nuevas = s.nuevas /\ u.creadas = s.creadas /\ u.creados = s.creados
        /\ u.fila = Proxima(s.job, s.fila + 1)
        /\ u.paso = "terminar" => u.fila > Len(Archivo[u.job])
    BY <1>1, <1>4, <2>1, Adelante
  <2>5. PICK n, cr, a : /\ n = [u.nuevas EXCEPT ![c] = v]
                        /\ cr = u.creadas \cup {c} /\ a = u.creados + 1
    OBVIOUS
  <2>6. /\ t.paso = u.paso /\ t.job = u.job /\ t.fila = u.fila
        /\ t.nuevas = n /\ t.creadas = cr /\ t.creados = a
    <3>1. t = [u EXCEPT !.nuevas = n, !.creadas = cr, !.creados = a]
      BY <1>3, <2>5
    <3> QED BY <2>4, <3>1 DEF Sesion
  <2>7. n[c] = v /\ \A d \in Codigos : d # c => n[d] = s.nuevas[d]
    BY <2>2, <2>4, <2>5 DEF Sesion
  <2>8. Creada(t, s.fila)
    <3>1. c \in Escritas(t)
      BY <2>2, <2>3, <2>6, <2>7, NingunoAssumption DEF Escritas
    <3>2. job[t.job].modo # "actualizar"
      BY <1>4, <2>4, <2>6 DEF Rechaza
    <3> QED BY <1>6, <2>2, <2>4, <2>5, <2>6, <2>7, <3>1, <3>2 DEF Creada
  <2>9. t.creados = Cardinality(t.creadas)
    <3>1. IsFiniteSet(s.creadas)
      BY <2>1, FS_Subset DEF AvanceOK
    <3>2. Cardinality(s.creadas \cup {c}) = Cardinality(s.creadas) + 1
      BY <2>2, <3>1, FS_AddElement
    <3> QED BY <2>1, <2>4, <2>5, <2>6, <3>2 DEF PasadasOK
  <2>10. \A d \in Codigos : d # c => (d \in t.creadas <=> d \in s.creadas)
    BY <2>4, <2>5, <2>6
  <2>11. PasadasOK(t)
    BY <1>1, <1>4, <2>1, <2>4, <2>6, <2>7, <2>8, <2>9, <2>10, PasarFila
  <2> QED BY <1>4, <1>6, <2>11, UnaSesion
<1> QED BY <1>4, <1>5, <1>6

\* The row updates its unidad: its vinculos are those of its person, or those of
\* the table.
LEMMA ActualizarFilas ==
  ASSUME IInv, JInv, NEW w \in Sesiones, ActualizarUnidadDesdeFila(w)
  PROVE  JInv'
<1>1. PICK s, c, u : /\ s = ses[w] /\ c = Fila(s).codigo
                     /\ u = EnFila(s, Proxima(s.job, s.fila + 1))
  OBVIOUS
<1>2. PICK v : v = IF Fila(s).persona = Ninguno THEN Vigentes(s, c)
                   ELSE TrasVinculo(Vigentes(s, c), Fila(s).persona)
  OBVIOUS
<1>3. PICK t : t = [u EXCEPT !.nuevas[c] = v, !.actualizados = @ + 1]
  OBVIOUS
<1>4. /\ s.paso = "escribir" /\ s.existe /\ ~Rechaza(job[s.job].modo, s.existe)
      /\ Seguir(w, t) /\ UNCHANGED tablas
  BY <1>1, <1>2, <1>3 DEF ActualizarUnidadDesdeFila
<1>5. s \in Sesion /\ s.job \in Jobs /\ AvanceOK(s) /\ PasadasOK(s)
  BY <1>1, <1>4, EnCurso DEF JInv
<1>6. /\ c \in Codigos /\ c \notin Escritas(s) /\ c \notin s.creadas
      /\ Archivo[s.job][s.fila].codigo = c
      /\ Archivo[s.job][s.fila].persona = Fila(s).persona
      /\ Fila(s).persona \in Personas \cup {Ninguno}
      /\ s.fila + 1 \in Nat \ {0} /\ s.fila + 1 <= Len(Archivo[s.job]) + 1
  BY <1>1, <1>4, <1>5, FilaNueva
<1>7. Vigentes(s, c) = unidad[c].vigentes /\ unidad[c].vigentes \in SUBSET Personas
  BY <1>6 DEF Escritas, Vigentes, IInv, TypeOK
<1>8. /\ v = IF Fila(s).persona = Ninguno THEN unidad[c].vigentes ELSE {Fila(s).persona}
      /\ v \in SUBSET Personas
  BY <1>2, <1>6, <1>7 DEF TrasVinculo
<1>9. /\ u \in Sesion /\ u.paso \in {"buscar", "terminar"} /\ u.job = s.job
      /\ u.nuevas = s.nuevas /\ u.creadas = s.creadas /\ u.creados = s.creados
      /\ u.fila = Proxima(s.job, s.fila + 1)
      /\ u.paso = "terminar" => u.fila > Len(Archivo[u.job])
  BY <1>1, <1>4, <1>5, Adelante
<1>10. PICK n, b : n = [u.nuevas EXCEPT ![c] = v] /\ b = u.actualizados + 1
  OBVIOUS
<1>11. /\ t.paso = u.paso /\ t.job = u.job /\ t.fila = u.fila /\ t.nuevas = n
       /\ t.creadas = u.creadas /\ t.creados = u.creados
  <2>1. t = [u EXCEPT !.nuevas = n, !.actualizados = b]
    BY <1>3, <1>10
  <2> QED BY <1>9, <2>1 DEF Sesion
<1>12. n[c] = v /\ \A d \in Codigos : d # c => n[d] = s.nuevas[d]
  BY <1>6, <1>9, <1>10 DEF Sesion
<1>13. Actualizada(t, s.fila)
  <2>1. c \in Escritas(t)
    BY <1>6, <1>8, <1>11, <1>12, NingunoAssumption DEF Escritas
  <2>2. job[t.job].modo # "crear" /\ unidad[c].existe
    BY <1>1, <1>4, <1>5, <1>9, <1>11 DEF Rechaza, PasadasOK
  <2>3. PICK h, p : h = s.fila /\ p = Archivo[t.job][h].persona
    OBVIOUS
  <2>4. /\ Archivo[t.job][h].codigo = c /\ c \notin t.creadas
        /\ t.nuevas[c] = IF p = Ninguno THEN unidad[c].vigentes ELSE {p}
    BY <1>6, <1>8, <1>9, <1>11, <1>12, <2>3
  <2>5. Actualizada(t, h)
    BY <2>1, <2>2, <2>3, <2>4 DEF Actualizada
  <2> QED BY <2>3, <2>5
<1>14. PasadasOK(t)
  <2>1. t.creados = Cardinality(t.creadas)
    BY <1>5, <1>9, <1>11 DEF PasadasOK
  <2>2. \A d \in Codigos : d # c => (d \in t.creadas <=> d \in s.creadas)
    BY <1>9, <1>11
  <2> QED BY <1>1, <1>4, <1>5, <1>9, <1>11, <1>12, <1>13, <2>1, <2>2, PasarFila
<1> QED BY <1>4, <1>14, UnaSesion

\* What the writers of the tables leave to a transaction that is open: its
\* unidades and the mode of its job.
LEMMA OtrasSesiones ==
  ASSUME IInv, JInv, NEW x \in Sesiones, ses'[x] = ses[x],
         \A c \in Escritas(ses[x]) : unidad'[c] = unidad[c],
         \A c \in Codigos : unidad[c].existe => unidad'[c].existe,
         \A j \in Jobs : job[j].estado # "inexistente" => job'[j].modo = job[j].modo
  PROVE  PasadasOK(ses[x])'
<1>1. PICK s : s = ses[x] /\ s = ses'[x]
  OBVIOUS
<1>2. PasadasOK(s)'
  <2>1. CASE s.paso = "libre"
    <3>1. s = SesionLibre
      BY <1>1, <2>1 DEF IInv, SesionesOK, PedidoOK
    <3>2. Escritas(s)' = {}
      BY <3>1, LibreEs DEF Escritas
    <3> QED BY <3>1, <3>2, LibreEs, FS_EmptySet DEF PasadasOK
  <2>2. CASE s.paso # "libre"
    <3>1. s \in Sesion /\ s.job \in Jobs /\ PedidoOK(s) /\ AvanceOK(s) /\ PasadasOK(s)
      BY <1>1, <2>2, EnCurso DEF JInv
    <3>2. s.paso = "escribir" => Fila(s).codigo \in Codigos
      BY <3>1, FilaNueva
    <3>3. job'[s.job].modo = job[s.job].modo
      BY <2>2, <3>1 DEF PedidoOK
    <3> QED BY <1>1, <3>1, <3>2, <3>3, SigueValiendo
  <2> QED BY <2>1, <2>2
<1> QED BY <1>1, <1>2, EsaSesion

\* A commit: the other transactions hold other unidades.
LEMMA TerminarFilas ==
  ASSUME IInv, JInv, NEW w \in Sesiones, FinishImportJob(w)
  PROVE  JInv'
<1>1. PICK s, j : s = ses[w] /\ j = s.job
  OBVIOUS
<1>2. PICK fila : fila = [estado |-> "procesado", modo |-> job[j].modo,
                          creados |-> s.creados, actualizados |-> s.actualizados,
                          rechazados |-> Rechazados(s)]
  OBVIOUS
<1>3. /\ s.paso = "terminar" /\ job' = [job EXCEPT ![j] = fila]
      /\ unidad' = [c \in Codigos |-> IF c \in Escritas(s)
                      THEN [existe |-> TRUE, vigentes |-> s.nuevas[c]] ELSE unidad[c]]
      /\ ses' = [ses EXCEPT ![w] = SesionLibre]
  BY <1>1, <1>2 DEF FinishImportJob, Terminar, Seguir
<1>4. /\ j \in Jobs /\ \A x \in Sesiones \ {w} : ParejaOK(s, ses[x])
  BY <1>1, <1>3, EnCurso
<1>5. \A i \in Jobs : job'[i].modo = job[i].modo
  <2>1. fila.modo = job[j].modo
    BY <1>2
  <2> QED BY <1>3, <1>4, <2>1 DEF IInv, TypeOK
<1>6. /\ \A c \in Codigos : c \notin Escritas(s) => unidad'[c] = unidad[c]
      /\ \A c \in Codigos : unidad[c].existe => unidad'[c].existe
  BY <1>3
<1>7. ASSUME NEW x \in Sesiones PROVE PasadasOK(ses[x])'
  <2>1. CASE x = w
    <3>1. ses'[x] = SesionLibre
      BY <1>3, <2>1 DEF IInv, TypeOK
    <3>2. Escritas(ses[x])' = {}
      BY <3>1, LibreEs DEF Escritas
    <3> QED BY <3>1, <3>2, LibreEs, FS_EmptySet DEF PasadasOK
  <2>2. CASE x # w
    <3>1. ses'[x] = ses[x]
      BY <1>3, <2>2 DEF IInv, TypeOK
    <3>2. \A c \in Escritas(ses[x]) : unidad'[c] = unidad[c]
      BY <1>4, <1>6, <2>2 DEF ParejaOK, Escritas
    <3> QED BY <1>5, <1>6, <3>1, <3>2, OtrasSesiones
  <2> QED BY <2>1, <2>2
<1> QED BY <1>7 DEF JInv

\* A file is loaded: its job has no transaction.  A unidad is created by hand: no
\* transaction holds its code.
LEMMA CargarCrearFilas ==
  ASSUME IInv, JInv,
         \/ \E j \in Jobs, modo \in Modos : CreateImportJob(j, modo)
         \/ \E c \in Codigos, ps \in SUBSET Personas : CreateUnidad(c, ps)
  PROVE  JInv'
<1>1. ASSUME NEW j \in Jobs, NEW modo \in Modos, CreateImportJob(j, modo) PROVE JInv'
  <2>1. /\ job[j].estado = "inexistente" /\ unidad' = unidad /\ ses' = ses
        /\ job' = [job EXCEPT ![j] = [job[j] EXCEPT !.estado = "listo", !.modo = modo]]
    BY <1>1 DEF CreateImportJob
  <2>2. \A i \in Jobs : job[i].estado # "inexistente" => job'[i].modo = job[i].modo
    BY <2>1 DEF IInv, TypeOK
  <2>3. \A x \in Sesiones : PasadasOK(ses[x])'
    BY <2>1, <2>2, OtrasSesiones
  <2> QED BY <2>3 DEF JInv
<1>2. ASSUME NEW c \in Codigos, NEW ps \in SUBSET Personas, CreateUnidad(c, ps) PROVE JInv'
  <2>1. /\ ~unidad[c].existe /\ \A x \in Sesiones : ses[x].nuevas[c] = Ninguno
        /\ unidad' = [unidad EXCEPT ![c] = [existe |-> TRUE, vigentes |-> ps]]
        /\ job' = job /\ ses' = ses
    BY <1>2 DEF CreateUnidad
  <2>2. \A d \in Codigos : (d # c => unidad'[d] = unidad[d])
                           /\ (unidad[d].existe => unidad'[d].existe)
    BY <2>1 DEF IInv, TypeOK
  <2>3. \A x \in Sesiones : \A d \in Escritas(ses[x]) : unidad'[d] = unidad[d]
    BY <2>1, <2>2 DEF Escritas
  <2>4. \A x \in Sesiones : PasadasOK(ses[x])'
    BY <2>1, <2>2, <2>3, OtrasSesiones
  <2> QED BY <2>4 DEF JInv
<1> QED BY <1>1, <1>2

\* What a transaction decided for the rows it has passed is inductive.
LEMMA NextFilas == IInv /\ JInv /\ [Next]_vars => JInv'
<1> SUFFICES ASSUME IInv, JInv, [Next]_vars PROVE JInv'
  OBVIOUS
<1>1. CASE UNCHANGED vars
  <2>1. job' = job /\ unidad' = unidad /\ ses' = ses
    BY <1>1 DEF vars
  <2> QED BY <2>1, OtrasSesiones DEF JInv
<1>2. ASSUME NEW w \in Sesiones, Abortar(w) PROVE JInv'
  <2>1. Terminar(w) /\ UNCHANGED tablas
    BY <1>2 DEF Abortar
  <2> QED BY <2>1, AntesDeFilas
<1>3. ASSUME NEW w \in Sesiones,
             \/ \E j \in Jobs, k \in Claves : RecibirConfirm(w, j, k)
             \/ GetImportJob(w) \/ Sellar(w) \/ SetImportJobEstado(w)
      PROVE  JInv'
  BY <1>3, AntesDeFilas
<1>4. ASSUME NEW w \in Sesiones,
             \/ GetUnidadByCodigo(w) \/ RechazarFila(w) \/ CrearUnidadDesdeFila(w)
             \/ ActualizarUnidadDesdeFila(w) \/ FinishImportJob(w)
      PROVE  JInv'
  BY <1>4, BuscarFilas, RechazarFilas, CrearFilas, ActualizarFilas, TerminarFilas
<1> QED BY <1>1, <1>2, <1>3, <1>4, CargarCrearFilas DEF Next

\* JInv holds in every reachable state.
THEOREM LoDecididoVale == Spec => []JInv
<1>1. Init => JInv
  <2> SUFFICES ASSUME Init, NEW w \in Sesiones PROVE PasadasOK(ses[w])
    BY DEF JInv
  <2>1. ses[w] = SesionLibre
    BY DEF Init
  <2> QED BY <2>1, LibreEs, NadaPasado
<1> QED BY <1>1, NextFilas, Invariante, PTL DEF Spec

-----------------------------------------------------------------------------
(* The refinement of Padron *)

\* The code of a row that counts asks for the person of that row.
LEMMA PersonaDeFila ==
  ASSUME NEW j \in Jobs, NEW h \in Quedan(j, 1)
  PROVE  LET c == Archivo[j][h].codigo
         IN  c \in Pedidos(j) /\ c \in Codigos /\ PersonaDe(j, c) = Archivo[j][h].persona
<1>1. PICK c : c = Archivo[j][h].codigo
  OBVIOUS
<1>2. \A g \in Quedan(j, 1) : Archivo[j][g].codigo = c => g = h
  BY <1>1, CodigosDistintos
<1>3. (CHOOSE g \in Quedan(j, 1) : Archivo[j][g].codigo = c) = h
  BY <1>1, <1>2
<1>4. PersonaDe(j, c) = Archivo[j][h].persona
  BY <1>3 DEF PersonaDe
<1>5. c \in Pedidos(j) /\ c \in Codigos
  BY <1>1, CodigosDistintos DEF Pedidos
<1> QED BY <1>1, <1>4, <1>5

\* At its commit, a transaction has written what its job asks for, as its mode
\* lets it, of the unidades as they are now.
LEMMA LoEscritoEs ==
  ASSUME NEW s \in Sesion, NEW j, j = s.job, j \in Jobs, s.paso = "terminar",
         AvanceOK(s), PasadasOK(s), job[j].modo \in Modos
  PROVE  /\ Escritas(s) \subseteq Codigos /\ Escritas(s) \subseteq Pedidos(j)
         /\ job[j].modo = "crear" => Escritas(s) = Pedidos(j) \ Existentes
         /\ job[j].modo = "actualizar" => Escritas(s) \subseteq Existentes
         /\ job[j].modo = "crear_y_actualizar" => Escritas(s) = Pedidos(j)
         /\ Escritas(s) \ Existentes = s.creadas
         /\ \A c \in Escritas(s) :
               s.nuevas[c] = IF PersonaDe(j, c) # Ninguno THEN {PersonaDe(j, c)}
                             ELSE IF c \in Existentes THEN unidad[c].vigentes ELSE {}
<1>1. Len(Archivo[j]) \in Nat /\ s.fila > Len(Archivo[j])
  BY ArchivosAssumption DEF PasadasOK
<1>2. Pasadas(s) = Quedan(j, 1)
  BY <1>1 DEF Pasadas, Quedan, Sesion
<1>3. ASSUME NEW c \in Pedidos(j)
      PROVE  \E h \in Pasadas(s) : /\ Archivo[j][h].codigo = c /\ c \in Codigos
                                   /\ PersonaDe(j, c) = Archivo[j][h].persona
                                   /\ Creada(s, h) \/ Actualizada(s, h) \/ Rechazada(s, h)
  <2>1. PICK h \in Quedan(j, 1) : c = Archivo[j][h].codigo
    BY DEF Pedidos
  <2>2. c \in Codigos /\ PersonaDe(j, c) = Archivo[j][h].persona
    BY <2>1, PersonaDeFila
  <2>3. Creada(s, h) \/ Actualizada(s, h) \/ Rechazada(s, h)
    BY <1>2 DEF PasadasOK
  <2> QED BY <1>2, <2>1, <2>2, <2>3
<1>4. ASSUME NEW c \in Pedidos(j)
      PROVE  /\ c \in Escritas(s) => (c \in s.creadas <=> c \notin Existentes)
             /\ c \in Escritas(s) /\ c \in Existentes => job[j].modo # "crear"
             /\ c \in Escritas(s) /\ c \notin Existentes => job[j].modo # "actualizar"
             /\ c \notin Escritas(s) => \/ job[j].modo = "actualizar"
                                        \/ job[j].modo = "crear" /\ c \in Existentes
             /\ c \in Escritas(s) =>
                  s.nuevas[c] = IF PersonaDe(j, c) # Ninguno THEN {PersonaDe(j, c)}
                                ELSE IF c \in Existentes THEN unidad[c].vigentes ELSE {}
  <2>1. PICK h \in Pasadas(s) : /\ Archivo[j][h].codigo = c /\ c \in Codigos
                                /\ PersonaDe(j, c) = Archivo[j][h].persona
                                /\ Creada(s, h) \/ Actualizada(s, h) \/ Rechazada(s, h)
    BY <1>3
  <2>2. c \in Existentes <=> unidad[c].existe
    BY <2>1 DEF Existentes
  <2>3. CASE Creada(s, h)
    BY <2>1, <2>2, <2>3 DEF Creada, SoloUna
  <2>4. CASE Actualizada(s, h)
    BY <2>1, <2>2, <2>4 DEF Actualizada
  <2>5. CASE Rechazada(s, h)
    BY <2>1, <2>2, <2>5 DEF Rechazada
  <2> QED BY <2>1, <2>3, <2>4, <2>5
<1>5. Escritas(s) \subseteq Pedidos(j) /\ Escritas(s) \subseteq Codigos
  <2>1. \A c \in Escritas(s) : \E h \in Quedan(j, 1) : Archivo[j][h].codigo = c
    BY <1>2 DEF PasadasOK
  <2> QED BY <2>1 DEF Pedidos, Escritas
<1>6. Escritas(s) \ Existentes = s.creadas
  BY <1>4, <1>5 DEF AvanceOK
<1>7. /\ job[j].modo = "crear" => Escritas(s) = Pedidos(j) \ Existentes
      /\ job[j].modo = "actualizar" => Escritas(s) \subseteq Existentes
      /\ job[j].modo = "crear_y_actualizar" => Escritas(s) = Pedidos(j)
  BY <1>4, <1>5
<1> QED BY <1>4, <1>5, <1>6, <1>7

\* Padron counts as this module does.
LEMMA MismaCuenta == \A S : Padron!Cardinality(S) = Cardinality(S)
  BY DEF Padron!Cardinality, Cardinality

\* A commit is one application of the job under its key.
LEMMA CommitAplica ==
  ASSUME IInv, JInv, NEW w \in Sesiones, FinishImportJob(w)
  PROVE  \E j \in Jobs, k \in Claves : Padron!Aplicar(j, k)
<1>1. PICK s, j, k : s = ses[w] /\ j = s.job /\ k = s.clave
  OBVIOUS
<1>2. PICK fila : fila = [estado |-> "procesado", modo |-> job[j].modo,
                          creados |-> s.creados, actualizados |-> s.actualizados,
                          rechazados |-> Rechazados(s)]
  OBVIOUS
<1>3. PICK D : D = Escritas(s)
  OBVIOUS
<1>4. /\ s.paso = "terminar" /\ job' = [job EXCEPT ![j] = fila]
      /\ unidad' = [c \in Codigos |-> IF c \in D
                      THEN [existe |-> TRUE, vigentes |-> s.nuevas[c]] ELSE unidad[c]]
      /\ idem' = [idem EXCEPT ![k] = j]
  BY <1>1, <1>2, <1>3 DEF FinishImportJob
<1>5. /\ s \in Sesion /\ j \in Jobs /\ k \in Claves
      /\ PedidoOK(s) /\ AvanceOK(s) /\ PasadasOK(s)
      /\ idem[k] = Ninguno /\ job[j].estado # "inexistente"
  BY <1>1, <1>4, EnCurso DEF JInv, PedidoOK, EnProceso
<1>6. /\ job \in [Jobs -> [estado: {"inexistente", "listo", "procesado"}, modo: Modos,
                           creados: Nat, actualizados: Nat, rechazados: Nat]]
      /\ job[j].modo \in Modos
      /\ unidad \in [Codigos -> [existe: BOOLEAN, vigentes: SUBSET Personas]]
  BY <1>5 DEF IInv, TypeOK
<1>7. /\ D \subseteq Codigos /\ D \subseteq Pedidos(j)
      /\ job[j].modo = "crear" => D = Pedidos(j) \ Existentes
      /\ job[j].modo = "actualizar" => D \subseteq Existentes
      /\ job[j].modo = "crear_y_actualizar" => D = Pedidos(j)
      /\ D \ Existentes = s.creadas
      /\ \A c \in D :
            s.nuevas[c] = IF PersonaDe(j, c) # Ninguno THEN {PersonaDe(j, c)}
                          ELSE IF c \in Existentes THEN unidad[c].vigentes ELSE {}
  <2>1. s \in Sesion /\ j \in Jobs /\ j = s.job /\ s.paso = "terminar" /\ job[j].modo \in Modos
    BY <1>1, <1>4, <1>5, <1>6
  <2>2. AvanceOK(s) /\ PasadasOK(s)
    BY <1>5
  <2>3. /\ Escritas(s) \subseteq Codigos /\ Escritas(s) \subseteq Pedidos(j)
        /\ job[j].modo = "crear" => Escritas(s) = Pedidos(j) \ Existentes
        /\ job[j].modo = "actualizar" => Escritas(s) \subseteq Existentes
        /\ job[j].modo = "crear_y_actualizar" => Escritas(s) = Pedidos(j)
        /\ Escritas(s) \ Existentes = s.creadas
        /\ \A c \in Escritas(s) :
              s.nuevas[c] = IF PersonaDe(j, c) # Ninguno THEN {PersonaDe(j, c)}
                            ELSE IF c \in Existentes THEN unidad[c].vigentes ELSE {}
    BY <2>1, <2>2, LoEscritoEs
  <2> QED BY <1>3, <2>3
<1>8. /\ Lista[j] = [c \in Pedidos(j) |-> PersonaDe(j, c)] /\ DOMAIN Lista[j] = Pedidos(j)
      /\ \A c \in Pedidos(j) : Lista[j][c] = PersonaDe(j, c)
      /\ Lineas[j] = Len(Archivo[j]) /\ ModoDado[j] = job[j].modo
      /\ DOMAIN Abiertos = Existentes
      /\ \A c \in Existentes : Abiertos[c] = unidad[c].vigentes
  BY <1>5 DEF Lista, Lineas, ModoDado, Abiertos
<1>9. Padron!Admitidos(j, D)
  BY <1>6, <1>7, <1>8 DEF Padron!Admitidos, Modos
<1>10. \A c \in D : Padron!Queda(j, c) = s.nuevas[c]
  BY <1>7, <1>8 DEF Padron!Queda
<1>11. Abiertos' = [c \in DOMAIN Abiertos \cup D |->
                      IF c \in D THEN Padron!Queda(j, c) ELSE Abiertos[c]]
  <2>1. Existentes' = Existentes \cup D
    BY <1>4, <1>7 DEF Existentes
  <2>2. \A c \in Existentes \cup D :
           unidad'[c].vigentes = IF c \in D THEN Padron!Queda(j, c) ELSE Abiertos[c]
    BY <1>4, <1>7, <1>8, <1>10 DEF Existentes
  <2>3. Abiertos' = [c \in Existentes' |-> unidad'[c].vigentes]
    BY DEF Abiertos
  <2> QED BY <1>8, <2>1, <2>2, <2>3
<1>12. /\ Cardinality(D \ DOMAIN Abiertos) = s.creados
       /\ Cardinality(D \cap DOMAIN Abiertos) = s.actualizados
       /\ Lineas[j] - Cardinality(D) = Rechazados(s)
  <2>1. /\ IsFiniteSet(D) /\ Cardinality(D) = s.creados + s.actualizados
        /\ s.creados \in Nat /\ s.actualizados \in Nat /\ Len(Archivo[j]) \in Nat
        /\ Cardinality(s.creadas) = s.creados
    BY <1>3, <1>5, ArchivosAssumption DEF AvanceOK, PasadasOK, Sesion
  <2>2. /\ IsFiniteSet(D \ Existentes) /\ IsFiniteSet(D \cap Existentes)
        /\ D = (D \ Existentes) \cup (D \cap Existentes)
        /\ (D \ Existentes) \cap (D \cap Existentes) = {}
    <3>1. IsFiniteSet(D \ Existentes)
      BY <2>1, FS_Subset
    <3>2. IsFiniteSet(D \cap Existentes)
      BY <2>1, FS_Subset
    <3> QED BY <3>1, <3>2
  <2>3. PICK A, B : A = D \ Existentes /\ B = D \cap Existentes
    OBVIOUS
  <2>4. /\ Cardinality(A \cup B) = Cardinality(A) + Cardinality(B) - Cardinality(A \cap B)
        /\ Cardinality(A) \in Nat /\ Cardinality(B) \in Nat
    BY <2>2, <2>3, FS_Union, FS_CardinalityType
  <2>5. Cardinality(A \cap B) = 0
    BY <2>2, <2>3, FS_EmptySet
  <2>6. Cardinality(A) = s.creados /\ Cardinality(A \cup B) = s.creados + s.actualizados
    BY <1>7, <2>1, <2>2, <2>3
  <2>7. Cardinality(B) = s.actualizados
    BY <2>1, <2>4, <2>5, <2>6
  <2>8. Lineas[j] - Cardinality(D) = Rechazados(s)
    BY <1>1, <1>8, <2>1 DEF Rechazados
  <2> QED BY <1>8, <2>3, <2>6, <2>7, <2>8
<1>13. Rendido' = [Rendido EXCEPT ![j] =
                     [creados |-> Cardinality(D \ DOMAIN Abiertos),
                      actualizados |-> Cardinality(D \cap DOMAIN Abiertos),
                      rechazados |-> Lineas[j] - Cardinality(D)]]
  <2>1. PICK r : r = [creados |-> s.creados, actualizados |-> s.actualizados,
                      rechazados |-> Rechazados(s)]
    OBVIOUS
  <2>2. /\ fila.estado = "procesado" /\ Resumen(fila) = r
    BY <1>2, <2>1 DEF Resumen
  <2>3. job'[j] = fila /\ \A i \in Jobs : i # j => job'[i] = job[i]
    BY <1>4, <1>5, <1>6
  <2>4. Rendido' = [Rendido EXCEPT ![j] = r]
    <3>1. Rendido' = [i \in Jobs |-> IF job'[i].estado = "procesado" THEN Resumen(job'[i])
                                     ELSE Ninguno]
      BY DEF Rendido, Resumen
    <3> QED BY <1>5, <2>2, <2>3, <3>1 DEF Rendido
  <2> QED BY <1>12, <2>1, <2>4
<1>14. ModoDado' = ModoDado
  <2>1. fila.estado = "procesado" /\ fila.modo = job[j].modo
    BY <1>2
  <2> QED BY <1>4, <1>5, <1>6, <2>1 DEF ModoDado
<1>15. Padron!Aplicar(j, k)
  BY <1>4, <1>5, <1>7, <1>9, <1>11, <1>13, <1>14, MismaCuenta DEF Padron!Aplicar
<1> QED BY <1>5, <1>15

\* Loading a file and creating a unidad are steps of Padron too.
LEMMA CargaCarga ==
  ASSUME IInv, NEW j \in Jobs, NEW m \in Modos, CreateImportJob(j, m)
  PROVE  Padron!Cargar(j, m)
<1>1. PICK fila : fila = [job[j] EXCEPT !.estado = "listo", !.modo = m]
  OBVIOUS
<1>2. /\ job[j].estado = "inexistente" /\ job' = [job EXCEPT ![j] = fila]
      /\ unidad' = unidad /\ idem' = idem
  BY <1>1 DEF CreateImportJob
<1>3. job'[j] = fila /\ \A i \in Jobs : i # j => job'[i] = job[i]
  BY <1>2 DEF IInv, TypeOK
<1>4. fila.estado = "listo" /\ fila.modo = m
  <2>1. job[j] \in [estado: {"inexistente", "listo", "procesado"}, modo: Modos,
                    creados: Nat, actualizados: Nat, rechazados: Nat]
    BY DEF IInv, TypeOK
  <2> QED BY <1>1, <2>1
<1>5. ModoDado[j] = Ninguno /\ ModoDado' = [ModoDado EXCEPT ![j] = m]
  <2>1. ModoDado[j] = Ninguno
    BY <1>2 DEF ModoDado
  <2>2. job'[j].estado = "listo" /\ job'[j].modo = m
    BY <1>3, <1>4
  <2>3. ModoDado' = [i \in Jobs |-> IF i = j THEN m ELSE ModoDado[i]]
    BY <1>3, <2>2 DEF ModoDado
  <2>4. DOMAIN ModoDado = Jobs
    BY DEF ModoDado
  <2> QED BY <2>1, <2>3, <2>4
<1>6. Rendido' = Rendido
  <2>1. \A i \in Jobs : job'[i].estado = "procesado" <=> job[i].estado = "procesado"
    BY <1>2, <1>3, <1>4
  <2>2. \A i \in Jobs : job'[i].estado = "procesado" => job'[i] = job[i]
    BY <1>3, <1>4
  <2>3. Rendido' = [i \in Jobs |-> IF job'[i].estado = "procesado" THEN Resumen(job'[i])
                                   ELSE Ninguno]
    BY DEF Rendido, Resumen
  <2> QED BY <2>1, <2>2, <2>3 DEF Rendido
<1>7. Abiertos' = Abiertos
  BY <1>2 DEF Abiertos, Existentes
<1> QED BY <1>2, <1>5, <1>6, <1>7 DEF Padron!Cargar

LEMMA CrearEsAlta ==
  ASSUME IInv, NEW c \in Codigos, NEW ps \in SUBSET Personas, CreateUnidad(c, ps)
  PROVE  Padron!Alta(c, ps)
<1>1. /\ ~unidad[c].existe /\ job' = job /\ idem' = idem
      /\ unidad' = [unidad EXCEPT ![c] = [existe |-> TRUE, vigentes |-> ps]]
  BY DEF CreateUnidad
<1>2. /\ unidad'[c].existe /\ unidad'[c].vigentes = ps
      /\ \A d \in Codigos : d # c => unidad'[d] = unidad[d]
  BY <1>1 DEF IInv, TypeOK
<1>3. Existentes' = Existentes \cup {c} /\ c \notin Existentes
  BY <1>1, <1>2 DEF Existentes
<1>4. DOMAIN Abiertos = Existentes /\ \A d \in Existentes : Abiertos[d] = unidad[d].vigentes
  BY DEF Abiertos
<1>5. Abiertos' = [d \in DOMAIN Abiertos \cup {c} |-> IF d = c THEN ps ELSE Abiertos[d]]
  <2>1. Abiertos' = [d \in Existentes' |-> unidad'[d].vigentes]
    BY DEF Abiertos
  <2>2. \A d \in Existentes \cup {c} :
           unidad'[d].vigentes = IF d = c THEN ps ELSE Abiertos[d]
    BY <1>2, <1>4 DEF Existentes
  <2> QED BY <1>3, <1>4, <2>1, <2>2
<1>6. ModoDado' = ModoDado /\ Rendido' = Rendido
  BY <1>1 DEF ModoDado, Rendido, Resumen
<1> QED BY <1>1, <1>3, <1>4, <1>5, <1>6 DEF Padron!Alta

\* The steps of a transaction before its commit are no steps of Padron.
LEMMA TablasCallan ==
  ASSUME UNCHANGED tablas
  PROVE  UNCHANGED Padron!vars
<1>1. job' = job /\ unidad' = unidad /\ idem' = idem
  BY DEF tablas
<1> QED BY <1>1 DEF Padron!vars, ModoDado, Rendido, Resumen, Abiertos, Existentes

LEMMA PasoPadron == IInv /\ JInv /\ [Next]_vars => [Padron!Next]_Padron!vars
<1> SUFFICES ASSUME IInv, JInv, [Next]_vars PROVE Padron!Next \/ UNCHANGED Padron!vars
  OBVIOUS
<1>1. CASE UNCHANGED vars
  <2>1. UNCHANGED tablas
    BY <1>1 DEF vars, tablas
  <2> QED BY <2>1, TablasCallan
<1>2. ASSUME NEW j \in Jobs, NEW modo \in Modos, CreateImportJob(j, modo) PROVE Padron!Next
  <2>1. Padron!Cargar(j, modo)
    BY <1>2, CargaCarga
  <2> QED BY <2>1 DEF Padron!Next, Padron!Modos, Modos
<1>3. ASSUME NEW c \in Codigos, NEW ps \in SUBSET Personas, CreateUnidad(c, ps)
      PROVE  Padron!Next
  <2>1. Padron!Alta(c, ps)
    BY <1>3, CrearEsAlta
  <2> QED BY <2>1 DEF Padron!Next
<1>4. ASSUME NEW w \in Sesiones, FinishImportJob(w) PROVE Padron!Next
  <2>1. PICK j \in Jobs, k \in Claves : Padron!Aplicar(j, k)
    BY <1>4, CommitAplica
  <2> QED BY <2>1 DEF Padron!Next
<1>5. ASSUME NEW w \in Sesiones,
             \/ \E j \in Jobs, k \in Claves : RecibirConfirm(w, j, k)
             \/ GetImportJob(w) \/ Sellar(w) \/ SetImportJobEstado(w)
             \/ GetUnidadByCodigo(w) \/ RechazarFila(w) \/ CrearUnidadDesdeFila(w)
             \/ ActualizarUnidadDesdeFila(w) \/ Abortar(w)
      PROVE  UNCHANGED Padron!vars
  <2>1. UNCHANGED tablas
    BY <1>5 DEF RecibirConfirm, GetImportJob, Sellar, SetImportJobEstado, GetUnidadByCodigo,
                RechazarFila, CrearUnidadDesdeFila, ActualizarUnidadDesdeFila, Abortar
  <2> QED BY <2>1, TablasCallan
<1> QED BY <1>1, <1>2, <1>3, <1>4, <1>5 DEF Next

\* Importaciones implements Padron: whatever else commits between its first row
\* and its last, an import is one step over the unidades as they are at its commit.
THEOREM RefinamientoPadron == Spec => RefinaPadron
<1>1. Init => Padron!Init
  <2> SUFFICES ASSUME Init PROVE Padron!Init
    OBVIOUS
  <2>1. \A j \in Jobs : job[j].estado = "inexistente"
    BY DEF Init
  <2>2. ModoDado = [j \in Jobs |-> Ninguno] /\ Rendido = [j \in Jobs |-> Ninguno]
    BY <2>1 DEF ModoDado, Rendido
  <2>3. Existentes = {}
    BY DEF Init, Existentes
  <2>4. Abiertos = [c \in {} |-> {}]
    BY <2>3 DEF Abiertos
  <2> QED BY <2>2, <2>4 DEF Init, Padron!Init
<1> QED BY <1>1, PasoPadron, Invariante, LoDecididoVale, PTL DEF Spec, RefinaPadron, Padron!Spec

\* A unidad stays, and its open vinculos change only in the step that applies a job
\* whose file has a person for it: to that person, under a key that was free.
VinculosPorArchivo ==
    \A c \in Existentes :
        /\ c \in Existentes'
        /\ unidad'[c].vigentes # unidad[c].vigentes =>
             \E j \in Jobs, k \in Claves :
                /\ idem[k] = Ninguno /\ idem'[k] = j
                /\ c \in Pedidos(j) /\ PersonaDe(j, c) # Ninguno
                /\ unidad'[c].vigentes = {PersonaDe(j, c)}

\* Neither a row of the file without a person nor a transaction that read the
\* vinculos before another one changed them puts back what was there: it follows
\* from Padron, which the transactions implement.
THEOREM VinculosFirmes == Spec => [][VinculosPorArchivo]_vars
<1>1. IInv /\ JInv /\ [Next]_vars => [VinculosPorArchivo]_vars
  <2> SUFFICES ASSUME IInv, JInv, [Next]_vars PROVE VinculosPorArchivo
    OBVIOUS
  <2>1. Padron!Next \/ UNCHANGED Padron!vars
    BY PasoPadron
  <2>2. /\ DOMAIN Abiertos = Existentes /\ (DOMAIN Abiertos)' = Existentes'
        /\ \A c \in Existentes : Abiertos[c] = unidad[c].vigentes
        /\ \A c \in Existentes' : Abiertos'[c] = unidad'[c].vigentes
    BY DEF Abiertos
  <2>3. CASE Abiertos' = Abiertos
    BY <2>2, <2>3 DEF VinculosPorArchivo
  <2>4. ASSUME NEW d \in Codigos, NEW ps \in SUBSET Personas, Padron!Alta(d, ps)
        PROVE  VinculosPorArchivo
    <3>1. /\ d \notin Existentes
          /\ Abiertos' = [c \in Existentes \cup {d} |-> IF c = d THEN ps ELSE Abiertos[c]]
      BY <2>2, <2>4 DEF Padron!Alta
    <3>2. Existentes' = Existentes \cup {d}
      BY <2>2, <3>1
    <3> QED BY <2>2, <3>1, <3>2 DEF VinculosPorArchivo
  <2>5. ASSUME NEW j \in Jobs, NEW k \in Claves, Padron!Aplicar(j, k)
        PROVE  VinculosPorArchivo
    <3>1. PICK D \in SUBSET Codigos :
             /\ Padron!Admitidos(j, D)
             /\ Abiertos' = [c \in Existentes \cup D |->
                               IF c \in D THEN Padron!Queda(j, c) ELSE Abiertos[c]]
      BY <2>2, <2>5 DEF Padron!Aplicar
    <3>2. Existentes' = Existentes \cup D
      BY <2>2, <3>1
    <3>3. idem[k] = Ninguno /\ idem'[k] = j
      BY <2>5 DEF Padron!Aplicar, IInv, TypeOK
    <3>4. /\ DOMAIN Lista[j] = Pedidos(j)
          /\ \A c \in Pedidos(j) : Lista[j][c] = PersonaDe(j, c)
      BY DEF Lista
    <3>5. D \subseteq Pedidos(j)
      BY <2>2, <3>1, <3>4 DEF Padron!Admitidos
    <3>6. ASSUME NEW c \in Existentes, unidad'[c].vigentes # unidad[c].vigentes
          PROVE  /\ c \in Pedidos(j) /\ PersonaDe(j, c) # Ninguno
                 /\ unidad'[c].vigentes = {PersonaDe(j, c)}
      <4>1. c \in D /\ unidad'[c].vigentes = Padron!Queda(j, c)
        BY <2>2, <3>1, <3>2, <3>6
      <4> QED BY <2>2, <3>4, <3>5, <3>6, <4>1 DEF Padron!Queda
    <3> QED BY <3>2, <3>3, <3>6 DEF VinculosPorArchivo
  <2>6. ASSUME NEW j \in Jobs, NEW m, Padron!Cargar(j, m) PROVE Abiertos' = Abiertos
    BY <2>6 DEF Padron!Cargar
  <2>7. UNCHANGED Padron!vars => Abiertos' = Abiertos
    BY DEF Padron!vars
  <2> QED BY <2>1, <2>3, <2>4, <2>5, <2>6, <2>7 DEF Padron!Next
<1> QED BY <1>1, Invariante, LoDecididoVale, PTL DEF Spec
=============================================================================
