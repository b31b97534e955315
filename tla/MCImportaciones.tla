---------------------------- MODULE MCImportaciones ----------------------------
(* Instances of Importaciones for TLC: the files. *)
EXTENDS Importaciones, TLC

CONSTANTS j1, j2, p1, p2, k1, k2, s1, s2

NuevaFila(c, bien, p) == [codigo |-> c, bien |-> bien, persona |-> p]

\* A file with a code twice and one with a row that is not valid, in the opposite
\* order of codes.
MCArchivo == [j \in Jobs |->
    IF j = j1 THEN <<NuevaFila("A", TRUE, p1), NuevaFila("B", TRUE, Ninguno), NuevaFila("A", TRUE, p2)>>
    ELSE <<NuevaFila("B", TRUE, p2), NuevaFila("A", TRUE, p2), NuevaFila("B", FALSE, p1)>>]

Simetria == Permutations(Sesiones) \cup Permutations(Claves)
=============================================================================
