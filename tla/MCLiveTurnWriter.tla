-------------------------- MODULE MCLiveTurnWriter --------------------------
(* Two calls of two turns each; the configurations scale the thresholds    *)
(* down so that a capped batch, an overflow and a spill all happen.        *)
EXTENDS LiveTurnWriter
=============================================================================
