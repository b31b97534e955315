------------------------------ MODULE MCTramites ------------------------------
(* Instances of Tramites for TLC. *)
EXTENDS Tramites, TLC

CONSTANTS d1, d2, r1, u1, u2, a1, a2, b1, b2

Simetria == Permutations(Descargas) \cup Permutations(Tramitadores)
=============================================================================
