------------------------------ MODULE MCSesiones ------------------------------
(* Instances of Sesiones for TLC. *)
EXTENDS Sesiones, TLC

CONSTANTS f1, f2, t1, t2, t3, x1, x2, q1, q2

Simetria == Permutations(Peticiones) \cup Permutations(Tokens)
            \cup Permutations(Familias) \cup Permutations(Secretos)
=============================================================================
