----------------------------- MODULE MCGateway -----------------------------
(* Gateway for TLC, with the error spans of some traces. *)
EXTENDS Gateway

CONSTANTS a, b

GatewayBatches == {<<>>, <<a, a>>, <<b, a>>}
=============================================================================
