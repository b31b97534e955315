------------------------------- MODULE MCOutbox -------------------------------
(* Instances of Outbox for TLC. *)
EXTENDS Outbox

CONSTANTS s1, s2, k1, k2, w1, w2, w3
=============================================================================
