--------------------------- MODULE MCLiquidaciones ---------------------------
(* Instances of Liquidaciones for TLC. *)
EXTENDS Liquidaciones, TLC

CONSTANTS l1, l2, u1, u2, s1, s2, k1, k2

\* Two possible distributions: they differ in the units they reach.
MCRepartos == {[u \in UFs |-> IF u = u1 THEN 1 ELSE 0],
               [u \in UFs |-> IF u = u1 THEN 1 ELSE 2]}

Simetria == Permutations(Sesiones) \cup Permutations(Claves) \cup Permutations(Liqs)
SinLiqs == Permutations(Sesiones) \cup Permutations(Claves)
=============================================================================
