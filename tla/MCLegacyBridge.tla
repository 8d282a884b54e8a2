---------------------------- MODULE MCLegacyBridge ----------------------------
(* LegacyBridge with the two reconnects of the code and two tool calls at once. *)
EXTENDS LegacyBridge
=============================================================================
