---------------------------- MODULE MCLegacyCall ----------------------------
(* LegacyCall with one job: its first run and the one after a stall. *)
EXTENDS LegacyCall
=============================================================================
