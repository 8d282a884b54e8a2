------------------------------ MODULE TurnLog ------------------------------
(***************************************************************************)
(* What the live turn writer promises of the transcripts, call by call:    *)
(* turns are numbered as they are spoken, they reach the table in that     *)
(* order, and while the call is open a turn stops waiting only when it is  *)
(* in the table, in the fallback file, or when that file could not be      *)
(* written.  Closing a call may lose what still waits.  A turn may still   *)
(* come after that, but the table need not take it.                        *)
(***************************************************************************)
EXTENDS Naturals

CONSTANTS
  Calls,     \* call ids
  MaxTurns   \* BOUND: turns of one call

VARIABLES
  open,      \* the call has not been closed
  said,      \* number of turns spoken; they are numbered from 0
  waiting,   \* turns not yet dealt with
  table,     \* call_turns
  disk,      \* the fallback file
  dropped    \* turns for which the fallback file could not be written

vars == <<open, said, waiting, table, disk, dropped>>

Batches == [Calls -> SUBSET (0 .. MaxTurns - 1)]

Init ==
  /\ open = [c \in Calls |-> TRUE]
  /\ said = [c \in Calls |-> 0]
  /\ waiting = [c \in Calls |-> {}]
  /\ table = [c \in Calls |-> {}]
  /\ disk = [c \in Calls |-> {}]
  /\ dropped = [c \in Calls |-> {}]

(* The oldest turns that wait, of every call. *)
Oldest(batch) ==
  \A c \in Calls :
    /\ batch[c] \subseteq waiting[c]
    /\ \A i \in batch[c], j \in waiting[c] : j < i => j \in batch[c]

(* The batch is dealt with; calls that are closed may forget more. *)
Settle(batch) ==
  \A c \in Calls :
    /\ open'[c] => open[c] /\ waiting'[c] = waiting[c] \ batch[c]
    /\ ~open'[c] => waiting'[c] \subseteq waiting[c]

(* The table takes the batch, of a closed call as much as it wants to. *)
Take(batch) ==
  \A c \in Calls :
    /\ open[c] => table'[c] = table[c] \cup batch[c]
    /\ table[c] \subseteq table'[c] /\ table'[c] \subseteq table[c] \cup batch[c]

Say(c) ==
  /\ said' = [said EXCEPT ![c] = @ + 1]
  /\ waiting' = [waiting EXCEPT ![c] = @ \cup {said[c]}]
  /\ UNCHANGED <<open, table, disk, dropped>>

Store(batch) ==
  /\ Oldest(batch)
  /\ Settle(batch)
  /\ table' \in Batches
  /\ Take(batch)
  /\ UNCHANGED <<said, disk, dropped>>

(* The table takes the batch but nobody is told. *)
StoreUnheard(batch) ==
  /\ Oldest(batch)
  /\ Settle([c \in Calls |-> {}])
  /\ table' \in Batches
  /\ Take(batch)
  /\ UNCHANGED <<said, disk, dropped>>

Dump(batch) ==
  /\ Oldest(batch)
  /\ Settle(batch)
  /\ disk' = [c \in Calls |-> disk[c] \cup batch[c]]
  /\ UNCHANGED <<said, table, dropped>>

DumpFails(batch) ==
  /\ Oldest(batch)
  /\ Settle(batch)
  /\ dropped' = [c \in Calls |-> dropped[c] \cup batch[c]]
  /\ UNCHANGED <<said, table, disk>>

(* Calls are closed. *)
Close ==
  /\ Settle([c \in Calls |-> {}])
  /\ UNCHANGED <<said, table, disk, dropped>>

Next ==
  \/ \E c \in Calls : Say(c)
  \/ Close
  \/ \E batch \in Batches :
       Store(batch) \/ StoreUnheard(batch) \/ Dump(batch) \/ DumpFails(batch)

Spec == Init /\ [][Next]_vars
=============================================================================
