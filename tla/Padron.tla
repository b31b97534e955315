-------------------------------- MODULE Padron --------------------------------
(***************************************************************************)
(* What an import of unidades promises, without rows, transactions, locks  *)
(* or retries: what a file asks for is applied at once or not at all, on   *)
(* the unidades as they are at that moment, under a key that is good for   *)
(* one application; the summary says what was done.  Module Importaciones  *)
(* implements this (RefinaPadron).                                         *)
(***************************************************************************)
EXTENDS Integers, FiniteSets

CONSTANTS
    Jobs,      \* import jobs
    Codigos,   \* codes of unidades
    Personas,  \* persons
    Claves,    \* keys under which a job may be applied
    Pide,      \* of each job, the codes it asks for, each with a person or none
    Filas,     \* rows of the file of each job
    Ninguno    \* no value

Modos == {"crear", "actualizar", "crear_y_actualizar"}

VARIABLES
    modo,      \* what each job may do, once it is loaded
    resumen,   \* what each job did, once it was applied
    usadas,    \* of each key, the job that was applied under it
    vigentes   \* of each unidad that exists, the persons with an open vinculo

vars == <<modo, resumen, usadas, vigentes>>

Init ==
    /\ modo = [j \in Jobs |-> Ninguno]
    /\ resumen = [j \in Jobs |-> Ninguno]
    /\ usadas = [k \in Claves |-> Ninguno]
    /\ vigentes = [c \in {} |-> {}]

Cargar(j, m) ==
    /\ modo[j] = Ninguno
    /\ modo' = [modo EXCEPT ![j] = m]
    /\ UNCHANGED <<resumen, usadas, vigentes>>

Alta(c, ps) ==
    /\ c \notin DOMAIN vigentes
    /\ vigentes' = [d \in DOMAIN vigentes \cup {c} |-> IF d = c THEN ps ELSE vigentes[d]]
    /\ UNCHANGED <<modo, resumen, usadas>>

\* The codes of job j that its mode lets through.  One that does not exist when
\* it is looked for, and is created before the job is applied, is left out.
Admitidos(j, D) ==
    \/ modo[j] = "crear" /\ D = DOMAIN Pide[j] \ DOMAIN vigentes
    \/ modo[j] = "actualizar" /\ D \subseteq DOMAIN Pide[j] \cap DOMAIN vigentes
    \/ modo[j] = "crear_y_actualizar" /\ D = DOMAIN Pide[j]

\* A person of the file replaces those of the unidad; none leaves them.
Queda(j, c) ==
    IF Pide[j][c] # Ninguno THEN {Pide[j][c]}
    ELSE IF c \in DOMAIN vigentes THEN vigentes[c] ELSE {}

\* A job is applied once for each key that asked for it before it was applied.
Aplicar(j, k) ==
    /\ usadas[k] = Ninguno
    /\ usadas' = [usadas EXCEPT ![k] = j]
    /\ \E D \in SUBSET Codigos :
          /\ Admitidos(j, D)
          /\ vigentes' = [c \in DOMAIN vigentes \cup D |->
                            IF c \in D THEN Queda(j, c) ELSE vigentes[c]]
          /\ resumen' = [resumen EXCEPT ![j] =
                           [creados |-> Cardinality(D \ DOMAIN vigentes),
                            actualizados |-> Cardinality(D \cap DOMAIN vigentes),
                            rechazados |-> Filas[j] - Cardinality(D)]]
    /\ UNCHANGED modo

Next ==
    \/ \E j \in Jobs, m \in Modos : Cargar(j, m)
    \/ \E c \in Codigos, ps \in SUBSET Personas : Alta(c, ps)
    \/ \E j \in Jobs, k \in Claves : Aplicar(j, k)

Spec == Init /\ [][Next]_vars
=============================================================================
