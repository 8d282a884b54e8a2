---------------------------- MODULE MCCallJobs ----------------------------
(* CallJobs with one contact: duplicates, retries, callbacks and crashes. *)
EXTENDS CallJobs, TLC

(* Worker slots are interchangeable. *)
Slots == Permutations(Workers)
=============================================================================
