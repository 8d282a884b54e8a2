--------------------------- MODULE LiveTurnWriter ---------------------------
(***************************************************************************)
(* voiceagent-saas/live-turn-writer.js: one writer per process buffers the *)
(* turns of all calls and inserts them in batches that span calls; a flush *)
(* is a chain of awaits (fallback file, insert, fallback file), between    *)
(* which turns are enqueued, calls are closed and the process is stopped.  *)
(*                                                                         *)
(* The turns of a call are numbered as they are enqueued, and what they    *)
(* say is left out.  The buffer of a call is the interval first .. next - 1: *)
(* turns are pushed at its end and only spliced off its front.  The        *)
(* turn_index is another number: flushAndClose deletes the entry of the    *)
(* call with its counter, and a turn enqueued after that makes a new entry *)
(* that counts from 0 again.  A flush may start at any moment: by the      *)
(* timer, or right after an enqueue of a final user turn or of the         *)
(* twentieth turn.                                                         *)
(***************************************************************************)
EXTENDS Naturals, FiniteSets, FiniteSetsExt

CONSTANTS
  Calls,              \* call ids
  NoCall,             \* no call
  MaxTurns,           \* BOUND: turns of one call
  DrainMax,           \* PER_CALL_DRAIN_MAX
  OverflowThreshold,  \* OVERFLOW_THRESHOLD
  CriticalThreshold,  \* CRITICAL_THRESHOLD
  SpillSize,          \* turns spilled to the fallback file on a critical overflow
  Faults              \* "insert" an insert fails, "disk" the fallback file cannot be written

ASSUME WriterAssumption ==
  /\ NoCall \notin Calls
  /\ {MaxTurns, DrainMax, SpillSize} \subseteq Nat \ {0}
  /\ {OverflowThreshold, CriticalThreshold} \subseteq Nat
  /\ Faults \subseteq {"insert", "disk"}

VARIABLES
  phase,         \* of a call: "closing" while flushAndClose waits for its flush, "closed"
                 \* when it has deleted the entry
  first,         \* number of the oldest buffered turn
  next,          \* number of the next turn
  start,         \* number of the turn that the counter of the entry gave index 0
  flush,         \* the await the running flush is at; "idle" when running is false
  batch,         \* turns of each call the running flush has taken up
  closer,        \* the call whose flushAndClose runs the flush, if one does
  retryPending,  \* the last insert failed
  writer,        \* the flags started and stopping
  table,         \* call_turns
  disk,          \* turn-fallback.jsonl
  dropped        \* history: turns given up because the fallback file failed

bufferVars == <<phase, first, next, start>>
flushVars  == <<flush, batch, closer, retryPending>>
sinkVars   == <<table, disk, dropped>>
writerVars == <<bufferVars, flushVars, writer, sinkVars>>

Turns    == 0 .. MaxTurns - 1
NoBatch  == [c \in Calls |-> {}]
Buffer(c) == {i \in Turns : first[c] <= i /\ i < next[c]}

WriterTypeOK ==
  /\ phase \in [Calls -> {"talking", "closing", "closed"}]
  /\ first \in [Calls -> 0 .. MaxTurns]
  /\ next \in [Calls -> 0 .. MaxTurns]
  /\ start \in [Calls -> 0 .. MaxTurns]
  /\ \A c \in Calls : start[c] <= first[c] /\ first[c] <= next[c]
  /\ flush \in {"idle", "spill", "insert", "dump"}
  /\ batch \in [Calls -> SUBSET Turns]
  /\ closer \in Calls \cup {NoCall}
  /\ retryPending \in BOOLEAN
  /\ writer \in {"started", "stopping", "stopped"}
  /\ {table, disk, dropped} \subseteq [Calls -> SUBSET Turns]

WriterInit ==
  /\ phase = [c \in Calls |-> "talking"]
  /\ first = [c \in Calls |-> 0]
  /\ next = [c \in Calls |-> 0]
  /\ start = [c \in Calls |-> 0]
  /\ flush = "idle"
  /\ batch = NoBatch
  /\ closer = NoCall
  /\ retryPending = FALSE
  /\ writer = "started"
  /\ table = NoBatch
  /\ disk = NoBatch
  /\ dropped = NoBatch

----------------------------------------------------------------------------
(* Helpers *)

Pending(c) == next[c] - first[c]
Total == MapThenSumSet(Pending, Calls)

(* turn_index of a turn *)
Index(c, i) == IF i < start[c] THEN i ELSE i - start[c]

(* A row that is another turn has this turn's index. *)
Collides(c, i) == \E j \in table[c] : j # i /\ Index(c, j) = Index(c, i)

(* sink \cup batch, call by call *)
Into(sink) == [c \in Calls |-> sink[c] \cup batch[c]]

(* ON CONFLICT (call_id, turn_index) DO NOTHING *)
Inserted == [c \in Calls |-> table[c] \cup {i \in batch[c] : ~Collides(c, i)}]

(* Mutant of Taken: the newest turns are taken. *)
TakenNewest(n) == [c \in Calls |-> {i \in Turns : next[c] - n[c] <= i /\ i < next[c]}]

(* The oldest n[c] turns of each buffer. *)
Taken(n) == [c \in Calls |-> {i \in Turns : first[c] <= i /\ i < first[c] + n[c]}]

(* flushAndClose has not deleted the entry of the call. *)
Live == {c \in Calls : phase[c] # "closed"}

(* Mutant of Delete: the counter starts anew, the turns stay buffered. *)
DeleteCounterOnly(c) ==
  /\ phase' = [phase EXCEPT ![c] = "closed"]
  /\ start' = [start EXCEPT ![c] = next[c]]
  /\ UNCHANGED first

(* callBuffers.delete(c): turns still buffered go with the entry. *)
Delete(c) ==
  /\ phase' = [phase EXCEPT ![c] = "closed"]
  /\ first' = [first EXCEPT ![c] = next[c]]
  /\ start' = [start EXCEPT ![c] = next[c]]

(* The call whose flushAndClose ran this flush deletes its entry. *)
ClosesItself ==
  /\ phase' = [c \in Calls |-> IF c = closer THEN "closed" ELSE phase[c]]
  /\ start' = [c \in Calls |-> IF c = closer THEN next[c] ELSE start[c]]

(* Mutant of Splice: the buffers are emptied, with what came in meanwhile. *)
SpliceAll == ClosesItself /\ first' = next

(* The batch leaves the buffers its turns are still in: an entry deleted   *)
(* meanwhile is not the one that a later turn made.                        *)
Splice ==
  /\ ClosesItself
  /\ first' = [c \in Calls |-> IF c = closer THEN next[c]
                               ELSE first[c] + Cardinality(batch[c] \cap Buffer(c))]

(* The flush ends without a splice. *)
KeepBuffers ==
  IF closer = NoCall THEN UNCHANGED <<phase, first, start>> ELSE Delete(closer)

EndFlush ==
  /\ flush' = "idle"
  /\ batch' = NoBatch
  /\ closer' = NoCall

----------------------------------------------------------------------------
(* The calls *)

(* enqueueTurn, while the writer is started: also for a call that has been *)
(* closed, since the handlers of the session outlive the bridge.           *)
EnqueueTurn(c) ==
  /\ writer = "started"
  /\ next[c] < MaxTurns
  /\ next' = [next EXCEPT ![c] = @ + 1]
  /\ UNCHANGED <<phase, first, start, flushVars, writer, sinkVars>>

----------------------------------------------------------------------------
(* flushAll *)

(* Up to DrainMax of the oldest turns of each call, all of them when there *)
(* are many.                                                               *)
Share(c) ==
  IF Total > OverflowThreshold \/ Pending(c) < DrainMax THEN Pending(c) ELSE DrainMax

Collect ==
  /\ batch' = Taken([c \in Calls |-> Share(c)])
  /\ flush' = "insert"
  /\ UNCHANGED first

(* The longest buffers are spilled first. *)
Spills ==
  {n \in [Calls -> 0 .. MaxTurns] :
    /\ \A c \in Calls : n[c] <= Pending(c)
    /\ MapThenSumSet(LAMBDA c : n[c], Calls) = IF Total < SpillSize THEN Total ELSE SpillSize
    /\ \A c, d \in Calls : n[c] > 0 /\ c # d =>
         /\ Pending(c) < Pending(d) => n[d] = Pending(d)
         /\ n[c] < Pending(c) => n[d] \in {0, Pending(d)}}

Spill == \E n \in Spills :
  /\ batch' = Taken(n)
  /\ first' = [c \in Calls |-> first[c] + n[c]]
  /\ flush' = "spill"

(* Mutant of MayFlush: only a full batch is flushed. *)
MayFlushFull == writer = "started" /\ flush = "idle" /\ Total > DrainMax

(* The part of flushAll before its first await.  When the writer stops,    *)
(* flushAll returns at its first line.                                     *)
MayFlush == writer = "started" /\ flush = "idle" /\ Total > 0

Flush == IF Total > CriticalThreshold THEN Spill ELSE Collect

(* The timer or an enqueue. *)
BeginFlush ==
  /\ MayFlush
  /\ Flush
  /\ UNCHANGED <<phase, next, start, closer, retryPending, writer, sinkVars>>

(* The spilled turns are in the file, or nowhere; then the rest is drained. *)
SpillEnds ==
  /\ flush = "spill"
  /\ \/ disk' = Into(disk) /\ UNCHANGED dropped
     \/ "disk" \in Faults /\ dropped' = Into(dropped) /\ UNCHANGED disk
  /\ IF Total = 0
       THEN KeepBuffers /\ EndFlush
       ELSE Collect /\ UNCHANGED <<phase, start, closer>>
  /\ UNCHANGED <<next, retryPending, writer, table>>

InsertSucceeds ==
  /\ flush = "insert"
  /\ writer # "stopped"
  /\ table' = Inserted
  /\ retryPending' = FALSE
  /\ Splice
  /\ EndFlush
  /\ UNCHANGED <<next, writer, disk, dropped>>

(* The insert fails, or its answer is lost; when the pool has been closed  *)
(* it must.  The first time the rows stay buffered for the next flush, the *)
(* second time in a row they are dumped.                                   *)
InsertFails ==
  /\ "insert" \in Faults \/ writer = "stopped"
  /\ flush = "insert"
  /\ table' \in {table, Inserted}
  /\ retryPending' = ~retryPending
  /\ IF retryPending
       THEN flush' = "dump" /\ UNCHANGED <<phase, first, start, batch, closer>>
       ELSE KeepBuffers /\ EndFlush
  /\ UNCHANGED <<next, writer, disk, dropped>>

(* The dumped turns leave the buffers even when the file cannot be written. *)
DumpEnds ==
  /\ flush = "dump"
  /\ \/ disk' = Into(disk) /\ UNCHANGED dropped
     \/ "disk" \in Faults /\ dropped' = Into(dropped) /\ UNCHANGED disk
  /\ Splice
  /\ EndFlush
  /\ UNCHANGED <<next, retryPending, writer, table>>

----------------------------------------------------------------------------
(* flushAndClose and stopLiveTurnWriter *)

(* flushAll returns at once when a flush is running, when there is nothing *)
(* to write or when the writer stops: the entry is deleted right away.     *)
CloseNow(c) ==
  /\ phase[c] = "talking"
  /\ ~MayFlush
  /\ Delete(c)
  /\ UNCHANGED <<next, flushVars, writer, sinkVars>>

FlushAndClose(c) ==
  /\ phase[c] = "talking"
  /\ MayFlush
  /\ Flush
  /\ closer' = c
  /\ phase' = [phase EXCEPT ![c] = "closing"]
  /\ UNCHANGED <<next, start, retryPending, writer, sinkVars>>

Stop ==
  /\ writer = "started"
  /\ writer' = "stopping"
  /\ UNCHANGED <<bufferVars, flushVars, sinkVars>>

(* No flush is running, or SHUTDOWN_DEADLINE_MS have passed: the pool is   *)
(* closed.                                                                 *)
StopEnds ==
  /\ writer = "stopping"
  /\ writer' = "stopped"
  /\ UNCHANGED <<bufferVars, flushVars, sinkVars>>

----------------------------------------------------------------------------
EndsAwait == SpillEnds \/ InsertSucceeds \/ InsertFails \/ DumpEnds

WriterNext ==
  \/ \E c \in Calls : EnqueueTurn(c) \/ CloseNow(c) \/ FlushAndClose(c)
  \/ BeginFlush
  \/ EndsAwait
  \/ Stop
  \/ StopEnds

WriterSpec == WriterInit /\ [][WriterNext]_writerVars

(* The timer fires every 500 ms and every request is answered in the end.  *)
Fairness == WF_writerVars(BeginFlush) /\ WF_writerVars(EndsAwait)

FairSpec == WriterSpec /\ Fairness

----------------------------------------------------------------------------
(* Properties *)

(* The writer keeps the promise of TurnLog: whatever is enqueued or closed *)
(* while an insert is on its way, splicing the batch off the buffers after *)
(* it takes away exactly the turns that were written or dumped.            *)
Log == INSTANCE TurnLog WITH
  open    <- [c \in Calls |-> c \in Live],
  said    <- next,
  waiting <- [c \in Calls |-> Buffer(c) \cup batch[c]]

KeepsPromise == Log!Spec

(* The turn was enqueued before the entry of the call was deleted. *)
Early(c, i) == c \in Live \/ i < start[c]

(* Such a turn is in the table only when every earlier turn of the call is *)
(* there, in the fallback file, or was given up because of that file: the  *)
(* live view shows no later turn before an earlier one.                    *)
OrderKept ==
  \A c \in Calls : \A i \in table[c] :
    Early(c, i) => 0 .. i \subseteq table[c] \cup disk[c] \cup dropped[c]

(* Every turn is written, dumped or given up, however often the inserts    *)
(* fail, unless the writer is stopped, the deletion of the entry took the  *)
(* turn with it, or the turn came after it and its index is taken.         *)
TurnsLand ==
  \A c \in Calls : \A i \in Turns :
    i < next[c] ~>
      \/ i \in table[c] \cup disk[c] \cup dropped[c]
      \/ c \notin Live /\ (i < start[c] \/ Collides(c, i))
      \/ writer # "started"

=============================================================================
