------------------------------- MODULE Sumas -------------------------------
(* The sum of the values of a function: the loops of Cobranzas and of        *)
(* Distribucion that add amounts up.                                         *)
EXTENDS Naturals, Functions

Suma(f) == FoldFunction(+, 0, f)
=============================================================================
