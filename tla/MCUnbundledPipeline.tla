------------------------- MODULE MCUnbundledPipeline -------------------------
(* A greeting and two turns; every service may fail. *)
EXTENDS UnbundledPipeline
=============================================================================
