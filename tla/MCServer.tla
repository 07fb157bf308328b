------------------------------ MODULE MCServer ------------------------------
(* One peer that connects and sends three messages, or two that connect    *)
(* and send one message each.                                              *)
EXTENDS Server

CONSTANTS a, b

MCPeers == {a, b}
MCQuotas == {(a :> 4) @@ (b :> 0), (a :> 2) @@ (b :> 2)}
=============================================================================
