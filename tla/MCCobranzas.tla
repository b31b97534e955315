----------------------------- MODULE MCCobranzas -----------------------------
(* Instances of Cobranzas for TLC: what the requests may ask. *)
EXTENDS Cobranzas, TLC

CONSTANTS p1, p2, s1, s2

\* Charges 1 and 2 fall due before the payments do, charge 3 after p1.
MCTotal   == <<1, 2, 2>>
MCImporte == [p \in Pagos |-> IF p = p1 THEN 2 ELSE 4]
MCCorte   == [p \in Pagos |-> IF p = p1 THEN 2 ELSE 3]

Pedido(op, p, plan) == [op |-> op, pago |-> p, plan |-> plan]

\* FIFO and explicit credits, reallocations (one of them to nothing and one above
\* the payment), reversals and the webhook.
MCPedidos ==
    UNION {{Pedido("acreditar", p, Ninguno), Pedido("acreditar", p, <<0, 1, 1>>),
            Pedido("acreditar", p, <<1, 2, 2>>),
            Pedido("ajustar", p, <<0, 1, 1>>), Pedido("ajustar", p, <<0, 0, 0>>),
            Pedido("revertir", p, Ninguno), Pedido("webhook", p, Ninguno)}
           : p \in Pagos}

Simetria == Permutations(Sesiones)
=============================================================================
