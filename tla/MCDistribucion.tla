---------------------------- MODULE MCDistribucion ----------------------------
(* Instances of Distribucion for TLC. *)
EXTENDS Distribucion
=============================================================================
