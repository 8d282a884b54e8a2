---------------------------- MODULE MCCallBridge ----------------------------
(* Both directions of one call; the module needs no further bounds.        *)
EXTENDS CallBridge
=============================================================================
