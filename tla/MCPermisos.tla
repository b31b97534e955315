------------------------------ MODULE MCPermisos ------------------------------
(* Instances of Permisos for TLC. *)
EXTENDS Permisos, TLC

CONSTANTS q1, q2

Simetria == Permutations(Peticiones)
=============================================================================
