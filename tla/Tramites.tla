------------------------------- MODULE Tramites -------------------------------
(***************************************************************************)
(* Claims and documents together: the messages of a claim attach documents *)
(* that other requests create, upload and download at the same time.  A    *)
(* request sees the committed rows of table documentos.                    *)
(***************************************************************************)
EXTENDS Documentos, Reclamos

vars == <<varsDoc, varsRec>>

TypeOK == TypeOKDoc /\ TypeOKRec(Docs)

Init == InitDoc /\ InitRec

Next ==
    \/ NextDoc /\ UNCHANGED varsRec
    \/ NextRec(documento) /\ UNCHANGED varsDoc

Spec == Init /\ [][Next]_vars
=============================================================================
