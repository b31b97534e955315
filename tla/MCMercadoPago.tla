----------------------------- MODULE MCMercadoPago -----------------------------
(* Instances of MercadoPago for TLC. *)
EXTENDS MercadoPago, TLC

CONSTANTS k1, k2, d1, d2, s1, s2

\* Two contents with one referencia, and a key for both.
MCReferencia == [d \in Datos |-> "r1"]
MCPedidos == {<<k1, d1>>, <<k2, d1>>, <<k1, d2>>}
=============================================================================
