--------------------------- MODULE CallRecordProofs ---------------------------
(***************************************************************************)
(* Proofs about the two parts that write the record of a call: the turns   *)
(* that LiveTurnWriter flushes, and the row and the recording that the     *)
(* handlers of Conversations settle.                                       *)
(*                                                                         *)
(* The writer, for any calls, turns and thresholds: its types, the order   *)
(* in the table, and that every step of it is a step of TurnLog or none.   *)
(* How many turns a flush takes and which calls it spills does not matter  *)
(* for any of this: only that it takes the oldest.                         *)
(*                                                                         *)
(* The row, for any number of deliveries of either kind and of faults.     *)
(* The invariant is about its two sides: what the handlers of the webhook  *)
(* route know of the bucket while they write archive and path, and what    *)
(* the bridge and the janitor know of each other while they write          *)
(* ended_at, status and failure_reason.                                    *)
(***************************************************************************)
EXTENDS LiveTurnWriter, Conversations, FiniteSetTheorems, TLAPS

(***************************************************************************)
(* The turn writer.                                                        *)
(***************************************************************************)

Landed(c) == table[c] \cup disk[c] \cup dropped[c]

(* The call whose flushAndClose runs the flush is not closed yet; the      *)
(* counter of an open call has never started again.                        *)
ClosedInv ==
  /\ closer # NoCall => phase[closer] = "closing"
  /\ \A c \in Live : start[c] = 0

(* The batch of a call is the front of its buffer, or was that of an entry *)
(* deleted since.                                                          *)
Front(c) == \E k \in Nat : /\ first[c] + k <= next[c]
                          /\ batch[c] = first[c] .. first[c] + k - 1
Stale(c) == c \notin Live /\ \A i \in batch[c] : i < start[c]

(* Between two flushes nothing is taken; spilled turns have left the       *)
(* buffer, turns being inserted or dumped are its oldest.                  *)
FlushInv ==
  /\ flush = "idle" => batch = NoBatch /\ closer = NoCall
  /\ flush = "spill" => \A c \in Calls : \A i \in batch[c] : i < first[c]
  /\ flush \in {"insert", "dump"} => \A c \in Calls : Front(c) \/ Stale(c)

(* Turns are dealt with after they are enqueued, and while turns of a      *)
(* deleted entry are on their way no later one is in the table.            *)
LateInv == \A c \in Calls :
  /\ \A i \in table[c] \cup batch[c] : i < next[c]
  /\ (\E i \in batch[c] : i < start[c]) => \A j \in table[c] : j < start[c]

(* Whatever comes before an early turn of the batch, or before the buffer  *)
(* of an open call, has landed or is in the batch.                         *)
LandInv == \A c \in Calls :
  /\ \A i \in batch[c] : Early(c, i) => 0 .. i \subseteq Landed(c) \cup batch[c]
  /\ c \in Live => \A i \in Nat : i < first[c] => i \in Landed(c) \cup batch[c]

WriterIInv == WriterTypeOK /\ ClosedInv /\ FlushInv /\ LateInv /\ LandInv /\ OrderKept

----------------------------------------------------------------------------
(* What a flush takes                                                      *)

(* The oldest n[c] turns of a call are the first of its buffer.            *)
LEMMA TakenSegment ==
  ASSUME WriterTypeOK, NEW n \in [Calls -> Nat], NEW c \in Calls, n[c] <= Pending(c)
  PROVE  Taken(n)[c] = first[c] .. first[c] + n[c] - 1
BY WriterAssumption DEF WriterTypeOK, Taken, Turns, Pending

(* A flush that collects takes no more than the buffers hold.              *)
LEMMA CollectTakes ==
  ASSUME WriterTypeOK, Collect
  PROVE  /\ batch' \in [Calls -> SUBSET Turns]
         /\ \A c \in Calls : \E k \in Nat :
              /\ first[c] + k <= next[c]
              /\ batch'[c] = first[c] .. first[c] + k - 1
<1> DEFINE n == [c \in Calls |-> Share(c)]
<1>1. \A c \in Calls : Share(c) \in Nat /\ Share(c) <= Pending(c)
  BY WriterAssumption DEF WriterTypeOK, Share, Pending
<1>2. n \in [Calls -> Nat] /\ \A c \in Calls : n[c] <= Pending(c)
  BY <1>1
<1>3. batch' = Taken(n)
  BY DEF Collect
<1> HIDE DEF n
<1>4. \A c \in Calls : first[c] + n[c] <= next[c]
  BY <1>2 DEF WriterTypeOK, Pending
<1> QED
  BY <1>2, <1>3, <1>4, TakenSegment DEF Taken

(* A spill takes no more either, and cuts off what it takes.               *)
LEMMA SpillTakes ==
  ASSUME WriterTypeOK, Spill
  PROVE  /\ batch' \in [Calls -> SUBSET Turns]
         /\ first' \in [Calls -> 0 .. MaxTurns]
         /\ \A c \in Calls : \E k \in Nat :
              /\ first[c] + k <= next[c] /\ first'[c] = first[c] + k
              /\ batch'[c] = first[c] .. first[c] + k - 1
<1>1. PICK n \in Spills : batch' = Taken(n) /\ first' = [c \in Calls |-> first[c] + n[c]]
  BY DEF Spill
<1>2. n \in [Calls -> Nat] /\ \A c \in Calls : n[c] <= Pending(c)
  BY <1>1, WriterAssumption DEF Spills
<1>3. \A c \in Calls : first[c] + n[c] <= next[c]
  BY <1>2 DEF WriterTypeOK, Pending
<1>4. first' \in [Calls -> 0 .. MaxTurns]
  BY <1>1, <1>2, <1>3, WriterAssumption DEF WriterTypeOK
<1> QED
  BY <1>1, <1>2, <1>3, <1>4, TakenSegment DEF Taken

(* A segment has as many turns as it is long.                              *)
LEMMA SegmentLength ==
  ASSUME NEW a \in Nat, NEW k \in Nat
  PROVE  Cardinality(a .. a + k - 1) = k
<1>1. Cardinality(a .. a + k - 1) = IF a > a + k - 1 THEN 0 ELSE (a + k - 1) - a + 1
  BY FS_Interval
<1> QED
  BY <1>1

(* No call is opened again, and of a closed call nothing starts again.     *)
ClosesOnly ==
  /\ Live' \subseteq Live
  /\ \A c \in Calls : c \in Live \/ start'[c] = start[c]
  /\ \A c \in Live : c \in Live' \/ start'[c] = next[c]
  /\ \A c \in Live' : start'[c] = start[c]

(* What the end of an insert or of a dump does to the buffers: the batch   *)
(* leaves those it is in, and the closed call has none.                    *)
LEMMA SpliceCuts ==
  ASSUME WriterTypeOK, ClosedInv, FlushInv, flush \in {"insert", "dump"}, Splice
  PROVE  /\ phase' \in [Calls -> {"talking", "closing", "closed"}]
         /\ first' \in [Calls -> 0 .. MaxTurns]
         /\ start' \in [Calls -> 0 .. MaxTurns]
         /\ \A c \in Calls : start'[c] <= first'[c] /\ first'[c] <= next[c]
         /\ \A c \in Calls : first[c] <= first'[c]
         /\ ClosesOnly
         /\ \A c \in Live' : \E k \in Nat : /\ first[c] + k <= next[c]
                                           /\ first'[c] = first[c] + k
                                           /\ batch[c] = first[c] .. first[c] + k - 1
<1>1. /\ phase' = [c \in Calls |-> IF c = closer THEN "closed" ELSE phase[c]]
      /\ start' = [c \in Calls |-> IF c = closer THEN next[c] ELSE start[c]]
      /\ first' = [c \in Calls |-> IF c = closer THEN next[c]
                                   ELSE first[c] + Cardinality(batch[c] \cap Buffer(c))]
  BY DEF Splice, ClosesItself
<1>2. /\ phase' \in [Calls -> {"talking", "closing", "closed"}]
      /\ start' \in [Calls -> 0 .. MaxTurns]
  BY <1>1 DEF WriterTypeOK
<1>3. \A c \in Calls : c \in Live' <=> c \in Live /\ c # closer
  BY <1>1 DEF Live
<1>4. closer # NoCall => closer \in Live
  BY DEF ClosedInv, WriterTypeOK, Live
<1>5. ClosesOnly
  BY <1>1, <1>3, <1>4, WriterAssumption DEF ClosesOnly, Live, WriterTypeOK
<1>6. ASSUME NEW c \in Calls
      PROVE  /\ first[c] \in Nat /\ next[c] \in 0 .. MaxTurns /\ start[c] \in Nat
             /\ MaxTurns \in Nat /\ start[c] <= first[c] /\ first[c] <= next[c]
  BY <1>6, WriterAssumption DEF WriterTypeOK
<1>7. ASSUME NEW c \in Calls, c # closer, NEW k \in Nat, first[c] + k <= next[c],
             batch[c] = first[c] .. first[c] + k - 1
      PROVE  first'[c] = first[c] + k
  <2>1. batch[c] \cap Buffer(c) = batch[c]
    BY <1>6, <1>7 DEF Buffer, Turns
  <2> QED
    BY <1>1, <1>6, <1>7, <2>1, SegmentLength
<1>8. ASSUME NEW c \in Calls, c # closer, Stale(c)
      PROVE  first'[c] = first[c]
  <2>1. batch[c] \cap Buffer(c) = {}
    BY <1>6, <1>8 DEF Buffer, Stale, Turns
  <2>2. Cardinality(batch[c] \cap Buffer(c)) = 0
    BY <2>1, FS_EmptySet
  <2> QED
    BY <1>1, <1>6, <1>8, <2>2
<1>9. ASSUME NEW c \in Calls
      PROVE  /\ first'[c] \in 0 .. MaxTurns
             /\ start'[c] <= first'[c] /\ first[c] <= first'[c] /\ first'[c] <= next[c]
  <2>1. CASE c = closer
    BY <1>1, <1>6, <2>1
  <2>2. CASE c # closer
    <3>1. start'[c] = start[c]
      BY <1>1, <2>2
    <3> QED
      BY <1>6, <1>7, <1>8, <2>2, <3>1 DEF FlushInv, Front
  <2> QED
    BY <2>1, <2>2
<1>10. first' \in [Calls -> 0 .. MaxTurns]
  BY <1>1, <1>9
<1>11. ASSUME NEW c \in Live'
       PROVE  \E k \in Nat : /\ first[c] + k <= next[c] /\ first'[c] = first[c] + k
                             /\ batch[c] = first[c] .. first[c] + k - 1
  <2>1. c \in Calls /\ c \in Live /\ c # closer
    BY <1>3 DEF Live
  <2> QED
    BY <1>7, <2>1 DEF FlushInv, Front, Stale
<1> QED
  BY <1>2, <1>5, <1>9, <1>10, <1>11

(* What the end of a flush without a splice does to them.                  *)
LEMMA KeepCuts ==
  ASSUME WriterTypeOK, ClosedInv, KeepBuffers
  PROVE  /\ phase' \in [Calls -> {"talking", "closing", "closed"}]
         /\ first' \in [Calls -> 0 .. MaxTurns]
         /\ start' \in [Calls -> 0 .. MaxTurns]
         /\ \A c \in Calls : start'[c] <= first'[c] /\ first'[c] <= next[c]
         /\ \A c \in Calls : first[c] <= first'[c]
         /\ ClosesOnly
         /\ \A c \in Live' : first'[c] = first[c]
<1>0. \A c \in Calls : next[c] \in Nat /\ first[c] \in Nat
  BY WriterAssumption DEF WriterTypeOK
<1>1. CASE closer = NoCall
  BY <1>0, <1>1 DEF KeepBuffers, WriterTypeOK, Live, ClosesOnly
<1>2. CASE closer # NoCall
  <2>1. closer \in Calls /\ closer \in Live
    BY <1>2 DEF ClosedInv, WriterTypeOK, Live
  <2> QED
    BY <1>0, <1>2, <2>1 DEF KeepBuffers, Delete, WriterTypeOK, Live, ClosesOnly
<1> QED
  BY <1>1, <1>2

----------------------------------------------------------------------------
(* The invariant                                                           *)

(* Nothing has been said at first.                                         *)
LEMMA InitIInv == WriterInit => WriterIInv
<1> SUFFICES ASSUME WriterInit PROVE WriterIInv
  OBVIOUS
<1>1. NoBatch \in [Calls -> SUBSET Turns]
  BY DEF NoBatch
<1>2. WriterTypeOK
  <2>1. 0 \in 0 .. MaxTurns
    BY WriterAssumption
  <2>2. /\ first \in [Calls -> 0 .. MaxTurns] /\ next \in [Calls -> 0 .. MaxTurns]
        /\ start \in [Calls -> 0 .. MaxTurns]
        /\ \A c \in Calls : start[c] <= first[c] /\ first[c] <= next[c]
    BY <2>1 DEF WriterInit
  <2>3. /\ phase \in [Calls -> {"talking", "closing", "closed"}]
        /\ flush \in {"idle", "spill", "insert", "dump"} /\ closer \in Calls \cup {NoCall}
        /\ retryPending \in BOOLEAN /\ writer \in {"started", "stopping", "stopped"}
    BY DEF WriterInit
  <2> QED
    BY <1>1, <2>2, <2>3 DEF WriterInit, WriterTypeOK
<1>3. LateInv /\ LandInv /\ OrderKept
  BY DEF WriterInit, LateInv, LandInv, OrderKept, NoBatch
<1>4. ClosedInv /\ FlushInv
  BY DEF WriterInit, ClosedInv, FlushInv, Live
<1> QED
  BY <1>2, <1>3, <1>4 DEF WriterIInv

(* The sinks take sets of turns.                                           *)
LEMMA IntoType ==
  ASSUME WriterTypeOK, NEW sink \in [Calls -> SUBSET Turns]
  PROVE  Into(sink) \in [Calls -> SUBSET Turns]
BY DEF Into, WriterTypeOK

LEMMA InsertedType ==
  ASSUME WriterTypeOK
  PROVE  Inserted \in [Calls -> SUBSET Turns]
BY DEF Inserted, WriterTypeOK

(* Every step keeps the types.                                             *)
LEMMA TypeStep == WriterIInv /\ [WriterNext]_writerVars => WriterTypeOK'
<1> SUFFICES ASSUME WriterIInv, [WriterNext]_writerVars PROVE WriterTypeOK'
  OBVIOUS
<1> USE DEF WriterIInv, bufferVars, flushVars, sinkVars
<1>0. NoBatch \in [Calls -> SUBSET Turns]
  BY DEF NoBatch
<1>1. CASE \E c \in Calls : EnqueueTurn(c)
  BY <1>1, WriterAssumption DEF EnqueueTurn, WriterTypeOK
<1>3. CASE \E c \in Calls : CloseNow(c)
  BY <1>3 DEF CloseNow, Delete, WriterTypeOK
<1>4. CASE \E c \in Calls : FlushAndClose(c)
  <2>1. CASE Spill
    BY <1>4, <2>1, SpillTakes DEF FlushAndClose, Spill, WriterTypeOK
  <2>2. CASE Collect
    BY <1>4, <2>2, CollectTakes DEF FlushAndClose, Collect, WriterTypeOK
  <2> QED
    BY <1>4, <2>1, <2>2 DEF FlushAndClose, Flush
<1>5. CASE BeginFlush
  <2>1. CASE Spill
    BY <1>5, <2>1, SpillTakes DEF BeginFlush, Spill, WriterTypeOK
  <2>2. CASE Collect
    BY <1>5, <2>2, CollectTakes DEF BeginFlush, Collect, WriterTypeOK
  <2> QED
    BY <1>5, <2>1, <2>2 DEF BeginFlush, Flush
<1>6. CASE SpillEnds
  <2>1. {table', disk', dropped'} \subseteq [Calls -> SUBSET Turns]
    BY <1>6, IntoType DEF SpillEnds, WriterTypeOK
  <2>2. CASE KeepBuffers /\ EndFlush
    BY <1>0, <1>6, <2>1, <2>2, KeepCuts DEF SpillEnds, EndFlush, WriterTypeOK
  <2>3. CASE Collect /\ UNCHANGED <<phase, start, closer>>
    BY <1>6, <2>1, <2>3, CollectTakes DEF SpillEnds, Collect, WriterTypeOK
  <2> QED
    BY <1>6, <2>2, <2>3 DEF SpillEnds
<1>7. CASE InsertSucceeds
  <2>1. {table', disk', dropped'} \subseteq [Calls -> SUBSET Turns]
    BY <1>7, InsertedType DEF InsertSucceeds, WriterTypeOK
  <2> QED
    BY <1>0, <1>7, <2>1, SpliceCuts DEF InsertSucceeds, EndFlush, WriterTypeOK
<1>8. CASE InsertFails
  <2>1. {table', disk', dropped'} \subseteq [Calls -> SUBSET Turns]
    BY <1>8, InsertedType DEF InsertFails, WriterTypeOK
  <2>2. CASE flush' = "dump" /\ UNCHANGED <<phase, first, start, batch, closer>>
    BY <1>8, <2>1, <2>2 DEF InsertFails, WriterTypeOK
  <2>3. CASE KeepBuffers /\ EndFlush
    BY <1>0, <1>8, <2>1, <2>3, KeepCuts DEF InsertFails, EndFlush, WriterTypeOK
  <2> QED
    BY <1>8, <2>2, <2>3 DEF InsertFails
<1>9. CASE DumpEnds
  <2>1. {table', disk', dropped'} \subseteq [Calls -> SUBSET Turns]
    BY <1>9, IntoType DEF DumpEnds, WriterTypeOK
  <2> QED
    BY <1>0, <1>9, <2>1, SpliceCuts DEF DumpEnds, EndFlush, WriterTypeOK
<1>10. CASE Stop
  BY <1>10 DEF Stop, WriterTypeOK
<1>11. CASE StopEnds
  BY <1>11 DEF StopEnds, WriterTypeOK
<1>12. CASE UNCHANGED writerVars
  BY <1>12 DEF writerVars, WriterTypeOK
<1> QED
  BY <1>1, <1>3, <1>4, <1>5, <1>6, <1>7, <1>8, <1>9, <1>10, <1>11, <1>12
  DEF WriterNext, EndsAwait

(* Every step closes calls only.                                           *)
LEMMA OnlyCloses == WriterIInv /\ [WriterNext]_writerVars => ClosesOnly
<1> SUFFICES ASSUME WriterIInv, [WriterNext]_writerVars PROVE ClosesOnly
  OBVIOUS
<1> USE DEF WriterIInv, bufferVars, flushVars, sinkVars
<1>1. CASE UNCHANGED <<start, Live>>
  BY <1>1 DEF ClosesOnly
<1>2. CASE \/ BeginFlush \/ Stop \/ StopEnds \/ UNCHANGED writerVars
           \/ \E c \in Calls : EnqueueTurn(c) \/ FlushAndClose(c)
  BY <1>1, <1>2 DEF BeginFlush, Stop, StopEnds, writerVars, EnqueueTurn, FlushAndClose, Live, WriterTypeOK
<1>3. CASE \E c \in Calls : CloseNow(c)
  BY <1>3 DEF CloseNow, Delete, ClosesOnly, Live, WriterTypeOK
<1>4. CASE KeepBuffers
  BY <1>4, KeepCuts
<1>5. CASE InsertSucceeds \/ DumpEnds
  BY <1>5, SpliceCuts DEF InsertSucceeds, DumpEnds
<1>6. CASE UNCHANGED <<phase, start>>
  BY <1>1, <1>6 DEF Live
<1> QED
  BY <1>2, <1>3, <1>4, <1>5, <1>6 DEF WriterNext, EndsAwait, SpillEnds, InsertFails

(* The closing call waits for its flush; open calls have never restarted.  *)
LEMMA ClosedStep == WriterIInv /\ [WriterNext]_writerVars => ClosedInv'
<1> SUFFICES ASSUME WriterIInv, [WriterNext]_writerVars PROVE ClosedInv'
  OBVIOUS
<1> USE DEF WriterIInv, bufferVars, flushVars, sinkVars
<1>1. \A c \in Live' : start'[c] = 0
  BY OnlyCloses DEF ClosesOnly, ClosedInv
<1>2. CASE UNCHANGED <<phase, closer>>
  BY <1>1, <1>2 DEF ClosedInv
<1>3. CASE EndFlush
  BY <1>1, <1>3 DEF EndFlush, ClosedInv
<1>4. CASE \E c \in Calls : CloseNow(c)
  BY <1>1, <1>4 DEF CloseNow, Delete, ClosedInv, WriterTypeOK
<1>5. CASE \E c \in Calls : FlushAndClose(c)
  BY <1>1, <1>5 DEF FlushAndClose, ClosedInv, WriterTypeOK
<1>6. CASE \/ BeginFlush \/ Stop \/ StopEnds \/ UNCHANGED writerVars
           \/ \E c \in Calls : EnqueueTurn(c)
  BY <1>2, <1>6 DEF BeginFlush, Stop, StopEnds, writerVars, EnqueueTurn
<1> QED
  BY <1>2, <1>3, <1>4, <1>5, <1>6
  DEF WriterNext, EndsAwait, SpillEnds, InsertSucceeds, InsertFails, DumpEnds

(* What a flush has taken stays at the front of the buffers it is still in. *)
LEMMA FlushStep == WriterIInv /\ [WriterNext]_writerVars => FlushInv'
<1> SUFFICES ASSUME WriterIInv, [WriterNext]_writerVars PROVE FlushInv'
  OBVIOUS
<1> USE DEF WriterIInv, bufferVars, flushVars, sinkVars
<1>1. CASE \E c \in Calls : EnqueueTurn(c)
  <2>1. \A c \in Calls : next[c] <= next'[c] /\ next'[c] \in Nat
    BY <1>1, WriterAssumption DEF EnqueueTurn, WriterTypeOK
  <2>2. \A c \in Calls, k \in Nat : first[c] + k <= next[c] => first[c] + k <= next'[c]
    BY <2>1 DEF WriterTypeOK
  <2>3. Live' = Live /\ UNCHANGED <<first, start, flush, batch, closer>>
    BY <1>1 DEF EnqueueTurn, Live
  <2>4. \A c \in Calls : (Front(c) => Front(c)') /\ (Stale(c) => Stale(c)')
    BY <2>2, <2>3 DEF Front, Stale
  <2> QED
    BY <2>3, <2>4 DEF FlushInv, NoBatch
<1>3. CASE \E c \in Calls : CloseNow(c)
  <2> PICK c \in Calls : CloseNow(c)
    BY <1>3
  <2>1. UNCHANGED <<next, flush, batch, closer>>
    BY DEF CloseNow
  <2>2. \A d \in Calls : d # c =>
          first'[d] = first[d] /\ start'[d] = start[d] /\ (d \in Live' <=> d \in Live)
    BY DEF CloseNow, Delete, Live, WriterTypeOK
  <2>3. first'[c] = next[c] /\ start'[c] = next[c] /\ c \notin Live'
    BY DEF CloseNow, Delete, Live, WriterTypeOK
  <2>4. \A i \in batch[c] : i < next[c]
    BY DEF LateInv
  <2>5. \A d \in Calls : d # c => (Front(d) => Front(d)') /\ (Stale(d) => Stale(d)')
    BY <2>1, <2>2 DEF Front, Stale
  <2>6. Stale(c)'
    BY <2>1, <2>3, <2>4 DEF Stale
  <2> QED
    BY <2>1, <2>2, <2>3, <2>4, <2>5, <2>6 DEF FlushInv, NoBatch
<1>4. ASSUME Spill, UNCHANGED next PROVE FlushInv'
  <2>1. flush' = "spill"
    BY <1>4 DEF Spill
  <2>2. \A c \in Calls : \A i \in batch'[c] : i < first'[c]
    BY <1>4, SpillTakes DEF WriterTypeOK
  <2> QED
    BY <1>4, <2>1, <2>2 DEF FlushInv
<1>5. ASSUME Collect, UNCHANGED next PROVE FlushInv'
  <2>1. flush' = "insert" /\ UNCHANGED first
    BY <1>5 DEF Collect
  <2>2. \A c \in Calls : Front(c)'
    BY <1>5, <2>1, CollectTakes DEF Front
  <2> QED
    BY <2>1, <2>2 DEF FlushInv
<1>6. CASE \E c \in Calls : FlushAndClose(c)
  BY <1>4, <1>5, <1>6 DEF FlushAndClose, Flush
<1>7. CASE BeginFlush
  BY <1>4, <1>5, <1>7 DEF BeginFlush, Flush
<1>8. ASSUME EndFlush PROVE FlushInv'
  BY <1>8 DEF EndFlush, FlushInv, NoBatch
<1>9. CASE SpillEnds
  BY <1>5, <1>8, <1>9 DEF SpillEnds
<1>10. CASE InsertSucceeds \/ DumpEnds
  BY <1>8, <1>10 DEF InsertSucceeds, DumpEnds
<1>11. CASE InsertFails
  <2>1. CASE flush' = "dump" /\ UNCHANGED <<phase, first, start, batch, closer>>
    BY <1>11, <2>1 DEF InsertFails, FlushInv, Front, Stale, Live
  <2> QED
    BY <1>8, <1>11, <2>1 DEF InsertFails
<1>12. CASE Stop \/ StopEnds \/ UNCHANGED writerVars
  BY <1>12 DEF Stop, StopEnds, writerVars, FlushInv, NoBatch, Front, Stale, Live
<1> QED
  BY <1>1, <1>3, <1>6, <1>7, <1>9, <1>10, <1>11, <1>12 DEF WriterNext, EndsAwait

(* No turn of a deleted entry is on its way behind a later one.            *)
LEMMA LateStep == WriterIInv /\ [WriterNext]_writerVars => LateInv'
<1> SUFFICES ASSUME WriterIInv, [WriterNext]_writerVars PROVE LateInv'
  OBVIOUS
<1> USE DEF WriterIInv, bufferVars, flushVars, sinkVars
<1>0. \A c \in Calls : /\ next[c] \in Nat /\ first[c] \in Nat /\ start[c] \in Nat
                      /\ start[c] <= first[c] /\ table[c] \subseteq Nat /\ batch[c] \subseteq Nat
  BY WriterAssumption DEF WriterTypeOK, Turns
<1>1. CASE \E c \in Calls : EnqueueTurn(c)
  <2>1. \A c \in Calls : next[c] <= next'[c] /\ next'[c] \in Nat
    BY <1>1, WriterAssumption DEF EnqueueTurn, WriterTypeOK
  <2>2. UNCHANGED <<start, batch, table>>
    BY <1>1 DEF EnqueueTurn
  <2> QED
    BY <1>0, <2>1, <2>2 DEF LateInv
<1>2. \A c \in Calls : Inserted[c] \subseteq table[c] \cup batch[c]
  BY DEF Inserted
<1>3. ASSUME UNCHANGED <<next, batch, table>>, ClosesOnly PROVE LateInv'
  <2>1. \A c \in Calls : start'[c] \in {start[c], next[c]}
    BY <1>3 DEF ClosesOnly
  <2>2. \A c \in Calls : start'[c] = start[c] \/ \A j \in table[c] : j < start'[c]
    BY <2>1 DEF LateInv
  <2> QED
    BY <1>3, <2>2 DEF LateInv
<1>4. CASE \/ Stop \/ StopEnds \/ UNCHANGED writerVars
           \/ \E c \in Calls : CloseNow(c)
  BY <1>3, <1>4, OnlyCloses DEF Stop, StopEnds, writerVars, CloseNow
<1>5. ASSUME EndFlush, UNCHANGED next, table' \in {table, Inserted, Into(table)}
      PROVE  LateInv'
  <2>1. \A c \in Calls : table'[c] \subseteq table[c] \cup batch[c]
    BY <1>2, <1>5 DEF Into
  <2>2. \A c \in Calls : batch'[c] = {}
    BY <1>5 DEF EndFlush, NoBatch
  <2> QED
    BY <1>5, <2>1, <2>2 DEF LateInv
<1>6. ASSUME Spill \/ Collect, UNCHANGED <<next, start, table>>
      PROVE  LateInv'
  <2>1. ASSUME NEW c \in Calls, NEW i \in batch'[c]
        PROVE  start[c] <= i /\ i < next[c]
    <3>1. PICK k \in Nat : /\ first[c] + k <= next[c]
                           /\ batch'[c] = first[c] .. first[c] + k - 1
      BY <1>6, SpillTakes, CollectTakes
    <3> QED
      BY <1>0, <2>1, <3>1
  <2>2. \A c \in Calls : \A i \in batch'[c] : ~(i < start[c])
    <3>1. \A c \in Calls : \A i \in batch'[c] : i \in Nat
      BY <1>6, SpillTakes, CollectTakes, WriterAssumption DEF Turns
    <3> QED
      BY <1>0, <2>1, <3>1
  <2> QED
    BY <1>6, <2>1, <2>2 DEF LateInv
<1>7. CASE BeginFlush \/ \E c \in Calls : FlushAndClose(c)
  BY <1>6, <1>7 DEF BeginFlush, FlushAndClose, Flush
<1>8. CASE SpillEnds
  BY <1>5, <1>6, <1>8 DEF SpillEnds
<1>9. CASE InsertSucceeds \/ DumpEnds
  BY <1>5, <1>9 DEF InsertSucceeds, DumpEnds
<1>10. CASE InsertFails
  <2>1. CASE UNCHANGED <<phase, first, start, batch, closer>>
    <3>1. ASSUME NEW c \in Calls, NEW i \in batch[c], i < start[c], NEW j \in batch[c]
          PROVE  j < start[c]
      <4>1. ~Front(c)
        BY <1>0, <3>1 DEF Front
      <4> QED
        BY <1>10, <3>1, <4>1 DEF InsertFails, FlushInv, Stale
    <3>2. \A c \in Calls : table'[c] \subseteq table[c] \cup batch[c]
      BY <1>2, <1>10 DEF InsertFails
    <3> QED
      BY <1>10, <2>1, <3>1, <3>2 DEF InsertFails, LateInv
  <2> QED
    BY <1>5, <1>10, <2>1 DEF InsertFails
<1> QED
  BY <1>1, <1>4, <1>7, <1>8, <1>9, <1>10 DEF WriterNext, EndsAwait

(* A turn that is early after a step was early before it.                  *)
LEMMA EarlyStays ==
  ASSUME WriterIInv, ClosesOnly, NEW c \in Calls, NEW i, Early(c, i)'
  PROVE  Early(c, i)
BY DEF ClosesOnly, Early

(* No row of the table has the index of an early turn of the batch.        *)
LEMMA EarlyInserted ==
  ASSUME WriterIInv, flush = "insert", NEW c \in Calls, NEW i \in batch[c], Early(c, i)
  PROVE  i \in Inserted[c]
<1> USE DEF WriterIInv
<1>1. /\ first[c] \in Nat /\ start[c] \in Nat /\ start[c] <= first[c]
      /\ table[c] \subseteq Nat /\ batch[c] \subseteq Nat
  BY WriterAssumption DEF WriterTypeOK, Turns
<1>2. CASE c \in Live
  <2>1. start[c] = 0
    BY <1>2 DEF ClosedInv
  <2>2. \A j \in Nat : Index(c, j) = j
    BY <2>1 DEF Index
  <2> QED
    BY <1>1, <2>2 DEF Inserted, Collides
<1>3. CASE i < start[c]
  <2>1. \A j \in table[c] : j < start[c]
    BY <1>3 DEF LateInv
  <2>2. \A j \in table[c] : Index(c, j) = j
    BY <2>1 DEF Index
  <2>3. Index(c, i) = i
    BY <1>3 DEF Index
  <2> QED
    BY <2>2, <2>3 DEF Inserted, Collides
<1> QED
  BY <1>2, <1>3 DEF Early

(* The sinks only grow, by the batch.                                      *)
LEMMA OrderGrows ==
  ASSUME WriterIInv, ClosesOnly, \A c \in Calls : Landed(c) \subseteq Landed(c)',
         \/ UNCHANGED table
         \/ flush = "insert" /\ table' = Inserted
  PROVE  OrderKept'
<1> USE DEF WriterIInv
<1>1. CASE UNCHANGED table
  BY <1>1, EarlyStays DEF OrderKept, Landed
<1>2. CASE flush = "insert" /\ table' = Inserted
  <2>1. \A c \in Calls : table'[c] \subseteq table[c] \cup batch[c]
    BY <1>2 DEF Inserted
  <2>2. ASSUME NEW c \in Calls, NEW i \in table'[c], Early(c, i)', NEW j \in 0 .. i
        PROVE  j \in Landed(c)'
    <3>1. i \in Nat /\ start[c] \in Nat /\ Early(c, i)
      BY <2>1, <2>2, EarlyStays, WriterAssumption DEF WriterTypeOK, Turns
    <3>2. j \in Landed(c) \cup batch[c]
      BY <2>1, <2>2, <3>1 DEF OrderKept, LandInv, Landed
    <3>3. Early(c, j)
      BY <2>2, <3>1 DEF Early
    <3> QED
      BY <1>2, <3>2, <3>3, EarlyInserted DEF Landed
  <2> QED
    BY <2>2 DEF OrderKept, Landed
<1> QED
  BY <1>1, <1>2

(* A flush that ends leaves what was before the buffers landed.            *)
LEMMA LandDone ==
  ASSUME EndFlush,
         \A c \in Calls : c \in Live' => \A i \in Nat : i < first'[c] => i \in Landed(c)'
  PROVE  LandInv'
BY DEF EndFlush, NoBatch, LandInv

(* So does one that begins, with the batch it takes.                       *)
LEMMA LandTaken ==
  ASSUME WriterIInv, Spill \/ Collect, Live' = Live, UNCHANGED start,
         \A c \in Calls : c \in Live => \A i \in Nat : i < first[c] => i \in Landed(c)'
  PROVE  LandInv'
<1> USE DEF WriterIInv
<1>1. ASSUME NEW c \in Calls
      PROVE  /\ \A i \in batch'[c] : Early(c, i)' => 0 .. i \subseteq Landed(c)' \cup batch'[c]
             /\ c \in Live' => \A i \in Nat : i < first'[c] => i \in Landed(c)' \cup batch'[c]
  <2>1. PICK k \in Nat : /\ first[c] + k <= next[c]
                         /\ batch'[c] = first[c] .. first[c] + k - 1
                         /\ first'[c] \in {first[c], first[c] + k}
    <3>1. CASE Spill
      BY <3>1, SpillTakes
    <3>2. CASE Collect
      BY <3>2, CollectTakes DEF Collect
    <3> QED
      BY <3>1, <3>2
  <2>2. first[c] \in Nat /\ next[c] \in Nat /\ start[c] \in Nat /\ start[c] <= first[c]
    BY WriterAssumption DEF WriterTypeOK
  <2>3. CASE c \in Live
    <3>1. \A i \in Nat : i < first[c] + k => i \in Landed(c)' \cup batch'[c]
      BY <2>1, <2>2, <2>3
    <3> QED
      BY <2>1, <2>2, <3>1
  <2>4. CASE c \notin Live
    <3>1. \A i \in batch'[c] : ~(i < start[c])
      BY <2>1, <2>2
    <3> QED
      BY <2>4, <3>1 DEF Early
  <2> QED
    BY <2>3, <2>4
<1> QED
  BY <1>1 DEF LandInv

(* Every step keeps the order.                                             *)
LEMMA LandStep == WriterIInv /\ [WriterNext]_writerVars => LandInv' /\ OrderKept'
<1> SUFFICES ASSUME WriterIInv, [WriterNext]_writerVars PROVE LandInv' /\ OrderKept'
  OBVIOUS
<1> USE DEF WriterIInv, bufferVars, flushVars, sinkVars
<1>0. ClosesOnly
  BY OnlyCloses
<1>1. ASSUME UNCHANGED <<batch, sinkVars>>, \A c \in Live' : first'[c] = first[c]
      PROVE  LandInv' /\ OrderKept'
  <2>1. \A c \in Calls : Landed(c)' = Landed(c)
    BY <1>1 DEF Landed
  <2>2. \A c \in Calls : c \in Live' => c \in Live
    BY <1>0 DEF ClosesOnly
  <2>3. OrderKept'
    BY <1>0, <1>1, <2>1, OrderGrows
  <2> QED
    BY <1>0, <1>1, <2>1, <2>2, <2>3, EarlyStays DEF LandInv
<1>2. CASE \/ Stop \/ StopEnds \/ UNCHANGED writerVars
           \/ \E c \in Calls : EnqueueTurn(c) \/ CloseNow(c)
  <2>1. UNCHANGED <<batch, sinkVars>>
    BY <1>2 DEF Stop, StopEnds, writerVars, EnqueueTurn, CloseNow
  <2>2. \A c \in Live' : first'[c] = first[c]
    BY <1>2 DEF Stop, StopEnds, writerVars, EnqueueTurn, CloseNow, Delete, Live, WriterTypeOK
  <2> QED
    BY <1>1, <2>1, <2>2
<1>3. ASSUME flush = "idle", Spill \/ Collect, Live' = Live, UNCHANGED <<start, sinkVars>>
      PROVE  LandInv' /\ OrderKept'
  <2>1. \A c \in Calls : Landed(c)' = Landed(c)
    BY <1>3 DEF Landed
  <2>2. \A c \in Calls : c \in Live => \A i \in Nat : i < first[c] => i \in Landed(c)'
    BY <1>3, <2>1 DEF LandInv, FlushInv, NoBatch
  <2> QED
    BY <1>0, <1>3, <2>1, <2>2, LandTaken, OrderGrows
<1>4. CASE \E c \in Calls : FlushAndClose(c)
  <2>1. Live' = Live
    BY <1>4 DEF FlushAndClose, Live, WriterTypeOK
  <2> QED
    BY <1>3, <1>4, <2>1 DEF FlushAndClose, Flush, MayFlush
<1>5. CASE BeginFlush
  BY <1>3, <1>5 DEF BeginFlush, Flush, MayFlush, Live
<1>6. CASE SpillEnds
  <2>1. \A c \in Calls : Landed(c)' = Landed(c) \cup batch[c]
    BY <1>6 DEF SpillEnds, Landed, Into
  <2>2. \A c \in Calls : c \in Live => \A i \in Nat : i < first[c] => i \in Landed(c)'
    BY <2>1 DEF LandInv
  <2>3. OrderKept'
    BY <1>0, <1>6, <2>1, OrderGrows DEF SpillEnds
  <2>4. CASE KeepBuffers /\ EndFlush
    <3>1. \A c \in Live' : c \in Live /\ first'[c] = first[c]
      BY <1>0, <2>4, KeepCuts DEF ClosesOnly
    <3> QED
      BY <2>2, <2>3, <2>4, <3>1, LandDone
  <2>5. CASE Collect /\ UNCHANGED <<phase, start>>
    BY <2>2, <2>3, <2>5, LandTaken DEF Live
  <2> QED
    BY <1>6, <2>3, <2>4, <2>5 DEF SpillEnds
<1>7. ASSUME flush \in {"insert", "dump"}, Splice, EndFlush,
             \A c \in Live : Landed(c)' = Landed(c) \cup batch[c]
      PROVE  LandInv'
  <2>1. ASSUME NEW c \in Calls, c \in Live', NEW i \in Nat, i < first'[c]
        PROVE  i \in Landed(c)'
    <3>1. PICK k \in Nat : /\ first'[c] = first[c] + k /\ c \in Live
                           /\ batch[c] = first[c] .. first[c] + k - 1
      BY <1>0, <1>7, <2>1, SpliceCuts DEF ClosesOnly
    <3>2. first[c] \in Nat
      BY DEF WriterTypeOK
    <3>3. i < first[c] \/ i \in batch[c]
      BY <2>1, <3>1, <3>2
    <3> QED
      BY <1>7, <3>1, <3>3 DEF LandInv
  <2> QED
    BY <1>7, <2>1, LandDone
<1>8. CASE InsertSucceeds
  <2>1. \A c \in Calls : Landed(c) \subseteq Landed(c)'
    BY <1>8 DEF InsertSucceeds, Landed, Inserted
  <2>2. \A c \in Live : Landed(c)' = Landed(c) \cup batch[c]
    <3> TAKE c \in Live
    <3>1. c \in Calls /\ \A i \in batch[c] : i \in Inserted[c]
      BY <1>8, EarlyInserted DEF InsertSucceeds, Early, Live
    <3> QED
      BY <1>8, <3>1 DEF InsertSucceeds, Landed, Inserted
  <2> QED
    BY <1>0, <1>7, <1>8, <2>1, <2>2, OrderGrows DEF InsertSucceeds
<1>9. CASE DumpEnds
  <2>1. \A c \in Calls : Landed(c)' = Landed(c) \cup batch[c]
    BY <1>9 DEF DumpEnds, Landed, Into
  <2> QED
    BY <1>0, <1>7, <1>9, <2>1, OrderGrows DEF DumpEnds, Live
<1>10. CASE InsertFails
  <2>1. \A c \in Calls : Landed(c) \subseteq Landed(c)'
    BY <1>10 DEF InsertFails, Landed, Inserted
  <2>2. OrderKept'
    BY <1>0, <1>10, <2>1, OrderGrows DEF InsertFails
  <2>3. CASE UNCHANGED <<phase, first, start, batch>>
    BY <2>1, <2>2, <2>3 DEF LandInv, Live, Early
  <2>4. CASE KeepBuffers /\ EndFlush
    <3>1. ASSUME NEW c \in Calls, c \in Live', NEW i \in Nat, i < first'[c]
          PROVE  i \in Landed(c)'
      <4>1. c \in Live /\ first'[c] = first[c]
        BY <1>0, <2>4, <3>1, KeepCuts DEF ClosesOnly
      <4>2. i \notin batch[c]
        BY <1>10, <3>1, <4>1 DEF InsertFails, FlushInv, Front, Stale, WriterTypeOK
      <4> QED
        BY <2>1, <3>1, <4>1, <4>2 DEF LandInv
    <3> QED
      BY <2>2, <2>4, <3>1, LandDone
  <2> QED
    BY <1>10, <2>2, <2>3, <2>4 DEF InsertFails
<1> QED
  BY <1>2, <1>4, <1>5, <1>6, <1>8, <1>9, <1>10 DEF WriterNext, EndsAwait

(* The inductive invariant.                                                *)
LEMMA WriterInvariance == WriterSpec => []WriterIInv
<1>1. WriterIInv /\ [WriterNext]_writerVars => WriterIInv'
  BY TypeStep, ClosedStep, FlushStep, LateStep, LandStep DEF WriterIInv
<1> QED
  BY <1>1, InitIInv, PTL DEF WriterSpec

(* For any calls, turns and thresholds: the writer keeps its types.        *)
THEOREM WriterTypeCorrect == WriterSpec => []WriterTypeOK
<1>1. WriterIInv => WriterTypeOK
  BY DEF WriterIInv
<1> QED
  BY <1>1, WriterInvariance, PTL

(* For any calls, turns and thresholds: no turn enqueued before the close  *)
(* of its call is in the table before every earlier one has landed.        *)
THEOREM TurnsInOrder == WriterSpec => []OrderKept
<1>1. WriterIInv => OrderKept
  BY DEF WriterIInv
<1> QED
  BY <1>1, WriterInvariance, PTL

----------------------------------------------------------------------------
(* The writer implements TurnLog                                           *)

Open == [c \in Calls |-> c \in Live]
Waiting == [c \in Calls |-> Buffer(c) \cup batch[c]]

(* The batch is the oldest of what waits.                                  *)
LEMMA BatchOldest == ASSUME WriterIInv, flush # "idle" PROVE Log!Oldest(batch)
<1> SUFFICES ASSUME NEW c \in Calls, NEW i \in batch[c], NEW j \in Buffer(c), j < i
             PROVE  j \in batch[c]
  BY DEF Log!Oldest
<1>1. /\ first[c] \in Nat /\ j \in Nat /\ i \in Nat /\ first[c] <= j /\ j < next[c]
      /\ start[c] \in Nat /\ start[c] <= first[c]
  BY WriterAssumption DEF WriterIInv, WriterTypeOK, Buffer, Turns
<1>3. CASE flush = "spill"
  BY <1>1, <1>3 DEF WriterIInv, FlushInv
<1>4. CASE flush \in {"insert", "dump"}
  BY <1>1, <1>4 DEF WriterIInv, FlushInv, Front, Stale
<1> QED
  BY <1>3, <1>4 DEF WriterIInv, WriterTypeOK

(* A step that leaves what waits of the open calls is a Settle of nothing. *)
LEMMA SettleNothing ==
  ASSUME \A c \in Live' : c \in Live /\ Waiting'[c] = Waiting[c],
         \A c \in Calls : c \notin Live' => Waiting'[c] \subseteq Waiting[c]
  PROVE  Log!Settle([c \in Calls |-> {}])
BY DEF Log!Settle, Waiting, Live

(* One that leaves what waits, without the batch, settles the batch.       *)
LEMMA SettleBatch ==
  ASSUME \A c \in Live' : c \in Live /\ Waiting'[c] = Waiting[c] \ batch[c],
         \A c \in Calls : c \notin Live' => Waiting'[c] \subseteq Waiting[c]
  PROVE  Log!Settle(batch)
BY DEF Log!Settle, Waiting, Live

(* Taking the oldest turns of a buffer leaves them waiting.                *)
LEMMA TakenStillWaits ==
  ASSUME WriterTypeOK, Spill \/ Collect, UNCHANGED next
  PROVE  \A c \in Calls : Buffer(c)' \cup batch'[c] = Buffer(c)
<1> SUFFICES ASSUME NEW c \in Calls
             PROVE  Buffer(c)' \cup batch'[c] = Buffer(c)
  OBVIOUS
<1>1. PICK k \in Nat : /\ first[c] + k <= next[c]
                       /\ batch'[c] = first[c] .. first[c] + k - 1
                       /\ \/ first'[c] = first[c]
                          \/ first'[c] = first[c] + k
  <2>1. CASE Spill
    BY <2>1, SpillTakes
  <2>2. CASE Collect
    BY <2>2, CollectTakes DEF Collect
  <2> QED
    BY <2>1, <2>2
<1>2. first[c] \in 0 .. MaxTurns /\ next[c] \in 0 .. MaxTurns /\ MaxTurns \in Nat
  BY WriterAssumption DEF WriterTypeOK
<1>3. next'[c] = next[c]
  OBVIOUS
<1> QED
  BY <1>1, <1>2, <1>3 DEF Buffer, Turns

(* A buffer that only loses turns of its front.                            *)
LEMMA BufferShrinks ==
  ASSUME WriterTypeOK, WriterTypeOK', UNCHANGED next, \A c \in Calls : first[c] <= first'[c]
  PROVE  \A c \in Calls : Buffer(c)' \subseteq Buffer(c)
BY WriterAssumption DEF WriterTypeOK, Buffer, Turns

(* The end of an insert or a dump: exactly the batch no longer waits.      *)
LEMMA SpliceSettles ==
  ASSUME WriterIInv, WriterTypeOK', flush \in {"insert", "dump"}, Splice, EndFlush, UNCHANGED next
  PROVE  Log!Settle(batch)
<1> USE DEF WriterIInv
<1>1. \A c \in Calls : Waiting'[c] = Buffer(c)'
  BY DEF EndFlush, NoBatch, Waiting
<1>2. ASSUME NEW c \in Live'
      PROVE  c \in Live /\ Waiting'[c] = Waiting[c] \ batch[c]
  <2>1. c \in Calls
    BY DEF Live
  <2>2. PICK k \in Nat : /\ first[c] + k <= next[c] /\ first'[c] = first[c] + k
                         /\ batch[c] = first[c] .. first[c] + k - 1 /\ c \in Live
    BY <2>1, SpliceCuts DEF ClosesOnly
  <2>3. first[c] \in 0 .. MaxTurns /\ next[c] \in 0 .. MaxTurns /\ MaxTurns \in Nat
    BY <2>1, WriterAssumption DEF WriterTypeOK
  <2>4. next'[c] = next[c]
    OBVIOUS
  <2>5. Buffer(c)' = Buffer(c) \ batch[c]
    BY <2>2, <2>3, <2>4 DEF Buffer, Turns
  <2> QED
    BY <1>1, <2>1, <2>2, <2>5 DEF Waiting
<1>3. ASSUME NEW c \in Calls, c \notin Live'
      PROVE  Waiting'[c] \subseteq Waiting[c]
  <2>1. Buffer(c)' \subseteq Buffer(c)
    BY SpliceCuts, BufferShrinks
  <2> QED
    BY <1>1, <2>1 DEF Waiting
<1> QED
  BY <1>2, <1>3, SettleBatch

(* The end of a flush that leaves the buffers alone, but for those of the  *)
(* call it closes.                                                         *)
LEMMA KeepBuffer ==
  ASSUME WriterTypeOK, WriterTypeOK', ClosedInv, KeepBuffers, EndFlush, UNCHANGED next
  PROVE  /\ \A c \in Live' : c \in Live /\ Waiting'[c] = Buffer(c)
         /\ \A c \in Calls : Waiting'[c] \subseteq Waiting[c]
<1>1. \A c \in Calls : Waiting'[c] = Buffer(c)'
  BY DEF EndFlush, NoBatch, Waiting
<1>2. \A c \in Live' : c \in Live /\ Buffer(c)' = Buffer(c)
  BY KeepCuts DEF Buffer, Live, ClosesOnly
<1>3. \A c \in Calls : Buffer(c)' \subseteq Buffer(c)
  BY KeepCuts, BufferShrinks
<1> QED
  BY <1>1, <1>2, <1>3 DEF Live, Waiting

(* What TurnLog does with the batch of a flush is one of its steps.        *)
LEMMA BatchSteps ==
  ASSUME batch \in Log!Batches,
         Log!Store(batch) \/ Log!StoreUnheard(batch) \/ Log!Dump(batch) \/ Log!DumpFails(batch)
  PROVE  Log!Next
<1>1. PICK b \in Log!Batches : b = batch
  BY Zenon
<1>2. Log!Settle(batch) => Log!Settle(b)
  BY <1>1 DEF Log!Settle
<1>3. Log!Oldest(batch) => Log!Oldest(b)
  BY <1>1 DEF Log!Oldest
<1>4. Log!Take(batch) => Log!Take(b)
  BY <1>1 DEF Log!Take
<1>5. Log!Store(b) \/ Log!StoreUnheard(b) \/ Log!Dump(b) \/ Log!DumpFails(b)
  BY <1>1, <1>2, <1>3, <1>4 DEF Log!Store, Log!StoreUnheard, Log!Dump, Log!DumpFails
<1> QED
  BY <1>5 DEF Log!Next

(* In the last await of a flush the batch of an open call is still in its  *)
(* buffer.                                                                 *)
LEMMA BatchBuffered ==
  ASSUME WriterIInv, flush \in {"insert", "dump"}, NEW c \in Live
  PROVE  batch[c] \subseteq Buffer(c)
<1>1. c \in Calls
  BY DEF Live
<1>2. PICK k \in Nat : first[c] + k <= next[c] /\ batch[c] = first[c] .. first[c] + k - 1
  BY <1>1 DEF WriterIInv, FlushInv, Front, Stale
<1>3. first[c] \in Nat /\ next[c] \in 0 .. MaxTurns /\ MaxTurns \in Nat
  BY <1>1, WriterAssumption DEF WriterIInv, WriterTypeOK
<1> QED
  BY <1>2, <1>3 DEF Buffer, Turns

(* The table takes all of the batch of an open call.                       *)
LEMMA InsertedTakes ==
  ASSUME WriterIInv, flush = "insert", table' = Inserted
  PROVE  Log!Take(batch) /\ table' \in Log!Batches
<1>1. \A c \in Live : Inserted[c] = table[c] \cup batch[c]
  <2> TAKE c \in Live
  <2>1. c \in Calls /\ \A i \in batch[c] : i \in Inserted[c]
    BY EarlyInserted DEF Early, Live
  <2> QED
    BY <2>1 DEF Inserted
<1>2. \A c \in Calls : table[c] \subseteq Inserted[c] /\ Inserted[c] \subseteq table[c] \cup batch[c]
  BY DEF Inserted
<1>3. table' \in Log!Batches
  BY InsertedType DEF WriterIInv, Log!Batches, Turns
<1> QED
  BY <1>1, <1>2, <1>3 DEF Log!Take

(* Every step of the writer is a step of TurnLog or changes nothing of it. *)
LEMMA StepSimulation ==
  ASSUME WriterIInv, WriterTypeOK', [WriterNext]_writerVars
  PROVE  [Log!Next]_(Log!vars)
<1> USE DEF WriterIInv, bufferVars, flushVars, sinkVars
<1>0. batch \in Log!Batches
  BY DEF WriterTypeOK, Log!Batches, Turns
<1>1. ASSUME UNCHANGED <<next, sinkVars, Live>>,
             \A c \in Calls : Waiting'[c] = Waiting[c]
      PROVE  UNCHANGED Log!vars
  BY <1>1 DEF Log!vars, Waiting
<1>2. CASE \E c \in Calls : EnqueueTurn(c)
  <2> PICK c \in Calls : EnqueueTurn(c)
    BY <1>2
  <2>1. Live' = Live /\ UNCHANGED <<batch, sinkVars, first>>
    BY DEF EnqueueTurn, Live
  <2>2. next' = [next EXCEPT ![c] = @ + 1] /\ next[c] < MaxTurns
    BY DEF EnqueueTurn
  <2>3. \A d \in Calls : d # c => next'[d] = next[d]
    BY <2>2 DEF WriterTypeOK
  <2>4. \A d \in Calls : d # c => Buffer(d)' = Buffer(d)
    BY <2>1, <2>3 DEF Buffer
  <2>5. Buffer(c)' = Buffer(c) \cup {next[c]}
    <3>1. first[c] \in Nat /\ next[c] \in Nat /\ MaxTurns \in Nat /\ first[c] <= next[c]
      BY WriterAssumption DEF WriterTypeOK
    <3>2. next'[c] = next[c] + 1 /\ first'[c] = first[c]
      BY <2>1, <2>2 DEF WriterTypeOK
    <3> QED
      BY <2>2, <3>1, <3>2 DEF Buffer, Turns
  <2>6. Waiting' = [Waiting EXCEPT ![c] = @ \cup {next[c]}]
    BY <2>1, <2>4, <2>5 DEF Waiting
  <2>7. Log!Say(c)
    BY <2>1, <2>2, <2>6 DEF Log!Say, Waiting
  <2> QED
    BY <2>7 DEF Log!Next
<1>3. CASE Stop \/ StopEnds \/ UNCHANGED writerVars
  <2>1. UNCHANGED <<next, first, batch, sinkVars, Live>>
    BY <1>3 DEF Stop, StopEnds, writerVars, Live
  <2> QED
    BY <1>1, <2>1 DEF Waiting, Buffer
<1>4. CASE \E c \in Calls : CloseNow(c)
  <2> PICK c \in Calls : CloseNow(c)
    BY <1>4
  <2>1. UNCHANGED <<next, batch, sinkVars>>
    BY DEF CloseNow
  <2>2. \A d \in Live' : d \in Live /\ d # c
    BY DEF CloseNow, Delete, Live, WriterTypeOK
  <2>3. \A d \in Calls : d # c => first'[d] = first[d] /\ (d \in Live' <=> d \in Live)
    BY DEF CloseNow, Delete, Live, WriterTypeOK
  <2>4. first'[c] = next[c]
    BY DEF CloseNow, Delete, WriterTypeOK
  <2>5. \A d \in Calls : d # c => Buffer(d)' = Buffer(d)
    BY <2>1, <2>3 DEF Buffer
  <2>6. Buffer(c)' = {}
    BY <2>1, <2>4, WriterAssumption DEF WriterTypeOK, Buffer, Turns
  <2>7. \A d \in Calls : Waiting'[d] \subseteq Waiting[d] /\ (d # c => Waiting'[d] = Waiting[d])
    BY <2>1, <2>5, <2>6 DEF Waiting
  <2>8. Log!Settle([d \in Calls |-> {}])
    BY <2>2, <2>7, SettleNothing DEF Live
  <2> QED
    BY <2>1, <2>8 DEF Log!Close, Log!Next
<1>5. ASSUME flush = "idle", Spill \/ Collect, Live' = Live, UNCHANGED <<next, sinkVars>>
      PROVE  UNCHANGED Log!vars
  <2>1. \A c \in Calls : Waiting'[c] = Waiting[c]
    BY <1>5, TakenStillWaits DEF Waiting, FlushInv, NoBatch
  <2> QED
    BY <1>1, <1>5, <2>1
<1>6. CASE \E c \in Calls : FlushAndClose(c)
  <2>1. Live' = Live
    BY <1>6 DEF FlushAndClose, Live, WriterTypeOK
  <2> QED
    BY <1>5, <1>6, <2>1 DEF FlushAndClose, Flush, MayFlush
<1>7. CASE BeginFlush
  BY <1>5, <1>7 DEF BeginFlush, Flush, MayFlush, Live
<1>8. CASE SpillEnds
  <2>1. flush = "spill" /\ UNCHANGED <<next, table>>
    BY <1>8 DEF SpillEnds
  <2>2. \A c \in Live : Buffer(c) \cap batch[c] = {}
    BY <2>1, WriterAssumption DEF FlushInv, Live, Buffer, WriterTypeOK, Turns
  <2>3. Log!Settle(batch)
    <3>1. CASE KeepBuffers /\ EndFlush
      <4>1. \A c \in Live' : c \in Live /\ Waiting'[c] = Waiting[c] \ batch[c]
        BY <2>1, <2>2, <3>1, KeepBuffer DEF Waiting, Live
      <4> QED
        BY <2>1, <3>1, <4>1, KeepBuffer, SettleBatch
    <3>2. CASE Collect /\ UNCHANGED <<phase, start>>
      <4>1. Live' = Live
        BY <3>2 DEF Live
      <4>2. \A c \in Calls : Waiting'[c] = Buffer(c)
        BY <2>1, <3>2, TakenStillWaits DEF Waiting
      <4> QED
        BY <2>2, <4>1, <4>2, SettleBatch DEF Waiting, Live
    <3> QED
      BY <1>8, <3>1, <3>2 DEF SpillEnds
  <2>4. Log!Oldest(batch)
    BY <2>1, BatchOldest
  <2>5. Log!Dump(batch) \/ Log!DumpFails(batch)
    BY <1>8, <2>1, <2>3, <2>4 DEF SpillEnds, Into, Log!Dump, Log!DumpFails
  <2> QED
    BY <1>0, <2>5, BatchSteps, Zenon
<1>9. CASE InsertSucceeds
  <2>1. Log!Settle(batch) /\ Log!Oldest(batch)
    BY <1>9, SpliceSettles, BatchOldest DEF InsertSucceeds
  <2>2. Log!Store(batch)
    BY <1>9, <2>1, InsertedTakes DEF InsertSucceeds, Log!Store
  <2> QED
    BY <1>0, <2>2, BatchSteps, Zenon
<1>10. CASE InsertFails
  <2>1. flush = "insert" /\ UNCHANGED <<next, disk, dropped>> /\ table' \in {table, Inserted}
    BY <1>10 DEF InsertFails
  <2>2. Log!Settle([c \in Calls |-> {}])
    <3>1. CASE UNCHANGED <<phase, first, start, batch>>
      BY <2>1, <3>1, SettleNothing DEF Waiting, Buffer, Live
    <3>2. CASE KeepBuffers /\ EndFlush
      <4>1. \A c \in Live : batch[c] \subseteq Buffer(c)
        BY <2>1, BatchBuffered
      <4>2. \A c \in Live' : c \in Live /\ Waiting'[c] = Waiting[c]
        BY <2>1, <3>2, <4>1, KeepBuffer DEF Waiting, Live
      <4> QED
        BY <2>1, <3>2, <4>2, KeepBuffer, SettleNothing
    <3> QED
      BY <1>10, <3>1, <3>2 DEF InsertFails
  <2>3. CASE table' = table
    BY <2>1, <2>2, <2>3 DEF Log!Close, Log!Next
  <2>4. CASE table' = Inserted
    <3>1. Log!Oldest(batch)
      BY <2>1, BatchOldest
    <3>2. Log!StoreUnheard(batch)
      BY <2>1, <2>2, <2>4, <3>1, InsertedTakes DEF Log!StoreUnheard
    <3> QED
      BY <1>0, <3>2, BatchSteps, Zenon
  <2> QED
    BY <2>1, <2>3, <2>4
<1>11. CASE DumpEnds
  <2>1. Log!Settle(batch) /\ Log!Oldest(batch)
    BY <1>11, SpliceSettles, BatchOldest DEF DumpEnds
  <2>2. Log!Dump(batch) \/ Log!DumpFails(batch)
    BY <1>11, <2>1 DEF DumpEnds, Into, Log!Dump, Log!DumpFails
  <2> QED
    BY <1>0, <2>2, BatchSteps, Zenon
<1> QED
  BY <1>2, <1>3, <1>4, <1>6, <1>7, <1>8, <1>9, <1>10, <1>11 DEF WriterNext, EndsAwait

(* The first state of the writer is one of TurnLog.                        *)
LEMMA InitSimulation == WriterInit => Log!Init
<1> SUFFICES ASSUME WriterInit PROVE Log!Init
  OBVIOUS
<1>1. \A c \in Calls : Buffer(c) = {} /\ c \in Live /\ batch[c] = {}
  BY DEF WriterInit, Buffer, Live, NoBatch, Turns
<1> QED
  BY <1>1 DEF WriterInit, Log!Init, NoBatch

(* For any calls, turns and thresholds: the writer with all its awaits,    *)
(* spills and dumps implements TurnLog.                                    *)
THEOREM Implementation == WriterSpec => KeepsPromise
<1>1. WriterIInv /\ WriterIInv' /\ [WriterNext]_writerVars => [Log!Next]_(Log!vars)
  BY StepSimulation DEF WriterIInv
<1> QED
  BY <1>1, InitSimulation, WriterInvariance, PTL DEF WriterSpec, KeepsPromise, Log!Spec

(***************************************************************************)
(* The row and the recording of a call.                                    *)
(***************************************************************************)

Searching == {"tools", "download", "move"}
Moved     == {"unstage", "markArchived"}

(* A handler is at the requests of its kind.                               *)
KindInv ==
  /\ \A h \in Audios : pc[h] \in {"idle", "lookup", "upload", "stage", "record"} \cup Finished
  /\ \A h \in Transcriptions : pc[h] \notin {"upload", "stage", "record"}

(* Whoever is about to say archived has put the file in its place.         *)
FileInv == \A h \in Deliveries : pc[h] \in Moved \cup {"record"} => "final" \in files

(* Past the claim is the delivery that won it.                             *)
ClaimInv == \A h \in Transcriptions :
  pc[h] \in Searching \cup Moved \cup {"markPending"} => transcript = h

(* If the janitor blames a call that its bridge has yet to finalize, it    *)
(* was early.                                                              *)
BlameInv ==
  reason = "janitor" /\ bridge \in {"early", "live", "silent", "ending"} => slow

(* Tool calls come from the delivery whose transcript the row has.         *)
ToolInv == toolRows \subseteq {transcript}

(* Without faults and missed audio, a recording that was acknowledged is   *)
(* archived, or staged where the handler of the transcript is going to     *)
(* find it, or found and about to be marked.                               *)
ArchiveInv == (faults = MaxFaults /\ unmatched = {}) =>
  /\ transcript # None =>
       pc[transcript] \in Searching \cup Moved \cup {"markPending", "acked"}
  /\ Acked(Audios) =>
       \/ archive = "archived"
       \/ "pending" \in files /\ (transcript # None => pc[transcript] \in Searching)
       \/ transcript # None /\ pc[transcript] \in Moved

IInv == /\ TypeOK /\ KindInv /\ FileInv /\ ClaimInv /\ ToolInv
        /\ BlameInv /\ ArchivedIsStored /\ CompletedNotBlamed /\ AckedAudioIsStored /\ ArchiveInv

----------------------------------------------------------------------------
(* The steps, by party                                                     *)

RouteStep == \E h \in Deliveries : Receive(h) \/ Handle(h) \/ Vanish(h)
VoiceStep == Converse \/ LandConvId \/ SessionCloses \/ EndCall \/ BridgeStep \/ Crash \/ GrowOld \/ JanitorStep

(* What a step of a delivery does to its own handler, and to the faults.   *)
LEMMA HandlerMoves ==
  ASSUME TypeOK, KindInv, NEW h \in Deliveries, Receive(h) \/ Handle(h) \/ Vanish(h)
  PROVE  /\ faults' \in 0 .. MaxFaults /\ faults' <= faults
         /\ \E label \in Handling \cup Finished : pc' = [pc EXCEPT ![h] = label]
<1> USE DEF Goto, Answer200, Answer500, Handling, Finished
<1>1. faults' \in 0 .. MaxFaults /\ faults' <= faults
  <2>1. faults \in Nat /\ faults <= MaxFaults
    BY ConversationAssumption DEF TypeOK
  <2>2. Fault \/ NoFault
    BY DEF Receive, Handle, Lookup, Claim, RecordTools, Download, Move, Unstage, MarkArchived,
      MarkPending, Stage, UploadFinal, RecordArchive, Vanish
  <2> QED
    BY <2>1, <2>2, ConversationAssumption DEF Fault, NoFault
<1>2. \E label \in Handling \cup Finished : pc' = [pc EXCEPT ![h] = label]
  <2>1. CASE Receive(h) \/ Lookup(h) \/ Claim(h) \/ RecordTools(h) \/ Download(h)
    BY <2>1 DEF Receive, Lookup, Claim, RecordTools, Download
  <2>2. CASE Move(h) \/ Unstage(h) \/ MarkArchived(h) \/ MarkPending(h)
    BY <2>2 DEF Move, Unstage, MarkArchived, MarkPending
  <2>3. CASE Stage(h) \/ UploadFinal(h) \/ RecordArchive(h) \/ Vanish(h)
    BY <2>3 DEF Stage, UploadFinal, RecordArchive, Vanish
  <2> QED
    BY <2>1, <2>2, <2>3 DEF Handle
<1> QED
  BY <1>1, <1>2

(* What a step of a delivery leaves alone.                                 *)
LEMMA RouteFrame ==
  ASSUME NEW h \in Deliveries, Receive(h) \/ Handle(h) \/ Vanish(h)
  PROVE  /\ UNCHANGED <<status, reason, metrics, voiceVars>>
         /\ ended' \in {ended, "webhook"}
<1> USE DEF rowVars, storeVars
<1>1. CASE Receive(h) \/ Lookup(h) \/ Claim(h) \/ RecordTools(h) \/ Download(h)
  BY <1>1 DEF Receive, Lookup, Claim, RecordTools, Download
<1>2. CASE Move(h) \/ Unstage(h) \/ MarkArchived(h) \/ MarkPending(h)
  BY <1>2 DEF Move, Unstage, MarkArchived, MarkPending
<1>3. CASE Stage(h) \/ UploadFinal(h) \/ RecordArchive(h) \/ Vanish(h)
  BY <1>3 DEF Stage, UploadFinal, RecordArchive, Vanish
<1> QED
  BY <1>1, <1>2, <1>3 DEF Handle

(* What a step of a delivery does to the row and the bucket.               *)
LEMMA RouteWrites ==
  ASSUME TypeOK, KindInv, NEW h \in Deliveries, Receive(h) \/ Handle(h) \/ Vanish(h)
  PROVE  /\ transcript' \in Transcriptions \cup {None}
         /\ archive' \in {None, "pending", "archived"} /\ path' \in BOOLEAN
         /\ toolRows' \subseteq Transcriptions
         /\ files' \subseteq {"pending", "final"}
         /\ unmatched' \subseteq {"null", "late"}
<1> USE DEF TypeOK, rowVars, storeVars
<1>1. CASE Receive(h) \/ Lookup(h) \/ Download(h) \/ Vanish(h)
  BY <1>1 DEF Receive, Lookup, Download, Vanish
<1>2. CASE Claim(h)
  <2>1. h \in Transcriptions
    BY <1>2 DEF Claim, KindInv, Deliveries, Finished
  <2> QED
    BY <1>2, <2>1 DEF Claim
<1>3. CASE RecordTools(h)
  <2>1. h \in Transcriptions
    BY <1>3 DEF RecordTools, KindInv, Deliveries, Finished
  <2>2. toolRows' \subseteq Transcriptions
    BY <1>3, <2>1 DEF RecordTools
  <2> QED
    BY <1>3, <2>2 DEF RecordTools
<1>4. CASE Move(h) \/ Unstage(h)
  BY <1>4, Zenon DEF Move, Unstage
<1>5. CASE MarkArchived(h) \/ MarkPending(h)
  BY <1>5, Zenon DEF MarkArchived, MarkPending
<1>6. CASE Stage(h)
  <2>1. files' \subseteq {"pending", "final"} /\ unmatched' \subseteq {"null", "late"}
    BY <1>6 DEF Stage
  <2> QED
    BY <1>6, <2>1 DEF Stage
<1>7. CASE UploadFinal(h)
  <2>1. files' \subseteq {"pending", "final"}
    BY <1>7 DEF UploadFinal
  <2> QED
    BY <1>7, <2>1 DEF UploadFinal
<1>8. CASE RecordArchive(h)
  <2>1. unmatched' \subseteq {"null", "late"} /\ archive' \in {None, "pending", "archived"}
    BY <1>8 DEF RecordArchive
  <2>2. path' = TRUE \/ path' = path
    BY <1>8 DEF RecordArchive
  <2> QED
    BY <1>8, <2>1, <2>2, Zenon DEF RecordArchive
<1> QED
  BY <1>1, <1>2, <1>3, <1>4, <1>5, <1>6, <1>7, <1>8 DEF Handle
LEMMA RouteTypeOK ==
  ASSUME TypeOK, KindInv, NEW h \in Deliveries, Receive(h) \/ Handle(h) \/ Vanish(h)
  PROVE  TypeOK'
<1>1. pc' \in [Deliveries -> {"idle"} \cup Handling \cup Finished]
  BY HandlerMoves DEF TypeOK
<1>2. faults' \in 0 .. MaxFaults
  BY HandlerMoves
<1>3. /\ ended' \in {None, "bridge", "webhook", "janitor"}
      /\ (status' # "open" \/ reason' # None) => ended' # None
  BY RouteFrame, ConversationAssumption DEF TypeOK
<1> QED
  BY <1>1, <1>2, <1>3, RouteFrame, RouteWrites DEF TypeOK, voiceVars

(* What the bridge and the janitor leave alone.                            *)
LEMMA VoiceFrame ==
  ASSUME TypeOK, VoiceStep
  PROVE  /\ UNCHANGED <<pc, unmatched, transcript, archive, path, toolRows, files>>
         /\ faults' \in 0 .. MaxFaults /\ faults' <= faults
<1> USE DEF rowVars, storeVars, hookVars, hookRow, voiceVars
<1>0. faults \in Nat /\ faults <= MaxFaults /\ MaxFaults \in Nat
  BY ConversationAssumption DEF TypeOK
<1>1. CASE Converse \/ LandConvId \/ SessionCloses \/ EndCall \/ Crash \/ GrowOld
  BY <1>0, <1>1 DEF Converse, LandConvId, SessionCloses, EndCall, Crash, GrowOld, Fault, NoFault
<1>2. CASE BridgeStep
  BY <1>0, <1>2 DEF BridgeStep, PersistCall, PersistMetrics, Fault, NoFault
<1>3. CASE JanitorStep
  BY <1>0, <1>3 DEF JanitorStep, SelectStuck, FinalizeStuck, SweepMetrics, Fault, NoFault
<1> QED
  BY <1>1, <1>2, <1>3 DEF VoiceStep

LEMMA VoiceTypeOK ==
  ASSUME TypeOK, VoiceStep
  PROVE  TypeOK'
<1> USE DEF rowVars, storeVars, hookVars, hookRow, voiceVars
<1>1. /\ bridge' \in {"early", "live", "silent", "ending", "metrics", "done", "dead"}
      /\ convId' \in {"none", "sent", "set"}
      /\ sweep' \in {"idle", "finalize", "metrics"}
      /\ metrics' \in {None, "sparse", "full"}
  BY DEF TypeOK, VoiceStep, Converse, LandConvId, SessionCloses, EndCall, Crash, GrowOld, BridgeStep, PersistCall,
    PersistMetrics, JanitorStep, SelectStuck, FinalizeStuck, SweepMetrics
<1>2. old' \in BOOLEAN /\ slow' \in BOOLEAN
  <2>1. CASE Converse \/ LandConvId \/ SessionCloses \/ EndCall \/ Crash \/ GrowOld
    BY <2>1, Zenon DEF TypeOK, Converse, LandConvId, SessionCloses, EndCall, Crash, GrowOld
  <2>2. CASE BridgeStep \/ SelectStuck \/ SweepMetrics
    BY <2>2, Zenon DEF TypeOK, BridgeStep, PersistCall, PersistMetrics, SelectStuck, SweepMetrics
  <2>3. CASE FinalizeStuck
    BY <2>3 DEF TypeOK, FinalizeStuck
  <2> QED
    BY <2>1, <2>2, <2>3 DEF VoiceStep, JanitorStep
<1>3. /\ ended' \in {None, "bridge", "webhook", "janitor"}
      /\ status' \in {"open", "completed", "failed"}
      /\ reason' \in {None, "bridge", "janitor"}
      /\ (status' # "open" \/ reason' # None) => ended' # None
  <2>1. CASE ~(PersistCall \/ FinalizeStuck)
    BY <2>1 DEF TypeOK, VoiceStep, Converse, LandConvId, SessionCloses, EndCall, Crash, GrowOld, BridgeStep,
      PersistMetrics, JanitorStep, SelectStuck, SweepMetrics
  <2>2. CASE PersistCall \/ FinalizeStuck
    BY <2>2, ConversationAssumption DEF TypeOK, PersistCall, FinalizeStuck
  <2> QED
    BY <2>1, <2>2
<1> QED
  BY <1>1, <1>2, <1>3, VoiceFrame DEF TypeOK

----------------------------------------------------------------------------
(* The handlers and what they know                                         *)

LEMMA RouteKindInv ==
  ASSUME TypeOK, KindInv, NEW h \in Deliveries, Receive(h) \/ Handle(h) \/ Vanish(h)
  PROVE  KindInv'
<1> DEFINE OfKind(label) ==
      /\ h \in Audios =>
           label \in {"idle", "lookup", "upload", "stage", "record"} \cup Finished
      /\ h \in Transcriptions => label \notin {"upload", "stage", "record"}
<1> USE DEF Goto, Answer200, Answer500, Finished, KindInv
<1>0. Transcriptions \cap Audios = {}
  BY ConversationAssumption
<1>1. \E label : OfKind(label) /\ pc' = [pc EXCEPT ![h] = label]
  <2>1. CASE Receive(h) \/ Vanish(h)
    BY <2>1 DEF Receive, Vanish
  <2>2. CASE Lookup(h)
    BY <1>0, <2>2 DEF Lookup
  <2>3. CASE Claim(h) \/ RecordTools(h) \/ Download(h)
    BY <1>0, <2>3 DEF Claim, RecordTools, Download
  <2>4. CASE Move(h) \/ Unstage(h)
    BY <1>0, <2>4 DEF Move, Unstage
  <2>5. CASE MarkArchived(h) \/ MarkPending(h) \/ Stage(h)
    BY <2>5 DEF MarkArchived, MarkPending, Stage
  <2>6. CASE UploadFinal(h) \/ RecordArchive(h)
    BY <1>0, <2>6 DEF UploadFinal, RecordArchive
  <2> QED
    BY <2>1, <2>2, <2>3, <2>4, <2>5, <2>6 DEF Handle
<1>2. PICK label : OfKind(label) /\ pc' = [pc EXCEPT ![h] = label]
  BY <1>1
<1> QED
  BY <1>2 DEF TypeOK, Deliveries

(* The file is put in its place once and not taken away: only the staged   *)
(* copy is.                                                                *)
LEMMA FinalStays ==
  ASSUME TypeOK, NEW h \in Deliveries, Receive(h) \/ Handle(h) \/ Vanish(h)
  PROVE  "final" \in files => "final" \in files'
<1> USE DEF rowVars, storeVars
<1>1. CASE Receive(h) \/ Lookup(h) \/ Claim(h) \/ RecordTools(h) \/ Download(h)
  BY <1>1 DEF Receive, Lookup, Claim, RecordTools, Download
<1>2. CASE Move(h) \/ Unstage(h) \/ MarkArchived(h) \/ MarkPending(h)
  BY <1>2 DEF Move, Unstage, MarkArchived, MarkPending
<1>3. CASE Stage(h) \/ UploadFinal(h) \/ RecordArchive(h) \/ Vanish(h)
  BY <1>3 DEF Stage, UploadFinal, RecordArchive, Vanish
<1> QED
  BY <1>1, <1>2, <1>3 DEF Handle

LEMMA RouteFileInv ==
  ASSUME TypeOK, KindInv, FileInv, NEW h \in Deliveries, Receive(h) \/ Handle(h) \/ Vanish(h)
  PROVE  FileInv'
<1> USE DEF Goto, Answer200, Answer500, Finished, Moved, FileInv
<1>1. \E label : /\ label \in Moved \cup {"record"} => "final" \in files'
                 /\ pc' = [pc EXCEPT ![h] = label]
  <2>1. CASE Receive(h) \/ Vanish(h)
    BY <2>1 DEF Receive, Vanish
  <2>2. CASE Lookup(h) \/ Claim(h) \/ RecordTools(h) \/ Download(h)
    BY <2>2 DEF Lookup, Claim, RecordTools, Download
  <2>3. CASE Move(h) \/ Unstage(h)
    BY <2>3 DEF Move, Unstage
  <2>4. CASE MarkArchived(h) \/ MarkPending(h) \/ Stage(h)
    BY <2>4 DEF MarkArchived, MarkPending, Stage
  <2>5. CASE UploadFinal(h) \/ RecordArchive(h)
    BY <2>5 DEF UploadFinal, RecordArchive
  <2> QED
    BY <2>1, <2>2, <2>3, <2>4, <2>5 DEF Handle
<1> QED
  BY <1>1, FinalStays DEF TypeOK

LEMMA RouteClaimInv ==
  ASSUME TypeOK, KindInv, ClaimInv, NEW h \in Deliveries, Receive(h) \/ Handle(h) \/ Vanish(h)
  PROVE  /\ ClaimInv'
         /\ transcript # None => transcript' = transcript
<1> USE DEF Goto, Answer200, Answer500, Finished, Moved, Searching, ClaimInv, rowVars
<1>1. CASE Claim(h)
  <2>1. h \in Transcriptions
    BY <1>1 DEF Claim, KindInv, Deliveries
  <2>2. \A g \in Transcriptions : g # None
    BY ConversationAssumption
  <2> QED
    BY <1>1, <2>1, <2>2 DEF Claim, TypeOK, Deliveries
<1>2. CASE ~Claim(h)
  <2>1. transcript' = transcript
    BY <1>2 DEF Receive, Vanish, Handle, Lookup, RecordTools, Download, Move, Unstage, MarkArchived,
      MarkPending, Stage, UploadFinal, RecordArchive
  <2> DEFINE Past == Searching \cup Moved \cup {"markPending"}
  <2>2. \E label : /\ label \in Past => pc[h] \in Past
                   /\ pc' = [pc EXCEPT ![h] = label]
    BY <1>2 DEF Receive, Vanish, Handle, Lookup, RecordTools, Download, Move, Unstage, MarkArchived,
      MarkPending, Stage, UploadFinal, RecordArchive
  <2> QED
    BY <2>1, <2>2 DEF TypeOK, Deliveries
<1> QED
  BY <1>1, <1>2

(* Only the handler that won the claim records tool calls.                 *)
LEMMA RouteToolInv ==
  ASSUME TypeOK, KindInv, ClaimInv, ToolInv,
         NEW h \in Deliveries, Receive(h) \/ Handle(h) \/ Vanish(h)
  PROVE  ToolInv'
<1>1. toolRows = {} \/ transcript # None
  BY ConversationAssumption DEF TypeOK, ToolInv
<1>2. CASE RecordTools(h)
  <2>1. h \in Transcriptions /\ transcript = h
    BY <1>2 DEF RecordTools, KindInv, Deliveries, Finished, ClaimInv, Searching
  <2>2. transcript' = transcript /\ toolRows' \subseteq toolRows \cup {h}
    BY <1>2 DEF RecordTools, rowVars
  <2> QED
    BY <2>1, <2>2 DEF ToolInv
<1>3. CASE ~RecordTools(h)
  <2>1. toolRows' = toolRows
    BY <1>3 DEF Receive, Vanish, Handle, Lookup, Claim, Download, Move, Unstage, MarkArchived,
      MarkPending, Stage, UploadFinal, RecordArchive, storeVars
  <2> QED
    BY <1>1, <2>1, RouteClaimInv DEF ToolInv
<1> QED
  BY <1>2, <1>3

----------------------------------------------------------------------------
(* The row and the bucket                                                  *)

LEMMA RouteArchivedIsStored ==
  ASSUME TypeOK, KindInv, FileInv, ArchivedIsStored,
         NEW h \in Deliveries, Receive(h) \/ Handle(h) \/ Vanish(h)
  PROVE  ArchivedIsStored'
<1> USE DEF rowVars, storeVars
<1>1. CASE Receive(h) \/ Lookup(h) \/ Claim(h) \/ RecordTools(h) \/ Download(h)
  BY <1>1 DEF Receive, Lookup, Claim, RecordTools, Download, ArchivedIsStored
<1>2. CASE Move(h) \/ Unstage(h) \/ Stage(h) \/ UploadFinal(h) \/ Vanish(h)
  <2>1. path' = path /\ archive' = archive
    BY <1>2 DEF Move, Unstage, Stage, UploadFinal, Vanish
  <2> QED
    BY <1>2, <2>1, FinalStays DEF Handle, ArchivedIsStored
<1>3. CASE MarkArchived(h)
  <2>1. "final" \in files'
    BY <1>3 DEF MarkArchived, FileInv, Moved
  <2> QED
    BY <1>3, <2>1 DEF MarkArchived, ArchivedIsStored
<1>4. CASE MarkPending(h)
  BY <1>4 DEF MarkPending, ArchivedIsStored
<1>5. CASE RecordArchive(h)
  <2>1. "final" \in files'
    BY <1>5 DEF RecordArchive, FileInv
  <2> QED
    BY <1>5, <2>1 DEF RecordArchive, ArchivedIsStored
<1> QED
  BY <1>1, <1>2, <1>3, <1>4, <1>5 DEF Handle

(* A step takes a file away only after the move, and acknowledges audio    *)
(* only when it is in the bucket.                                          *)
LEMMA RouteAckedAudioIsStored ==
  ASSUME TypeOK, KindInv, FileInv, ArchivedIsStored, AckedAudioIsStored,
         NEW h \in Deliveries, Receive(h) \/ Handle(h) \/ Vanish(h)
  PROVE  AckedAudioIsStored'
<1> USE DEF Goto, Answer200, Answer500, rowVars, storeVars
<1>1. files # {} => files' # {}
  <2>1. CASE Unstage(h)
    BY <2>1, FinalStays DEF Unstage, FileInv, Moved, Handle
  <2>2. CASE ~Unstage(h)
    <3>1. files \subseteq files'
      BY <2>2 DEF Receive, Vanish, Handle, Lookup, Claim, RecordTools, Download, Move, MarkArchived,
        MarkPending, Stage, UploadFinal, RecordArchive
    <3> QED
      BY <3>1
  <2> QED
    BY <2>1, <2>2
<1>2. h \in Audios /\ pc'[h] = "acked" => files' # {}
  <2> SUFFICES ASSUME h \in Audios, pc'[h] = "acked"
               PROVE  files' # {}
    OBVIOUS
  <2>1. CASE Receive(h) \/ Vanish(h)
    BY <2>1 DEF Receive, Vanish, TypeOK
  <2>2. CASE Lookup(h)
    <3>1. archive = "archived"
      BY <2>2, ConversationAssumption DEF Lookup, TypeOK
    <3> QED
      BY <1>1, <3>1 DEF ArchivedIsStored
  <2>3. CASE Stage(h)
    BY <2>3 DEF Stage, TypeOK
  <2>4. CASE UploadFinal(h)
    BY <2>4 DEF UploadFinal, TypeOK
  <2>5. CASE RecordArchive(h)
    BY <1>1, <2>5 DEF RecordArchive, FileInv
  <2>6. pc[h] \in {"idle", "lookup", "upload", "stage", "record"} \cup Finished
    BY DEF KindInv
  <2> QED
    BY <2>1, <2>2, <2>3, <2>4, <2>5, <2>6 DEF Handle, Claim, RecordTools, Download, Move, Unstage,
      MarkArchived, MarkPending, Finished
<1>3. \A g \in Deliveries : g # h => pc'[g] = pc[g]
  BY HandlerMoves DEF TypeOK
<1> QED
  BY <1>1, <1>2, <1>3 DEF AckedAudioIsStored, Acked, Deliveries

(* The handler of the transcript marks or finds what was staged before it  *)
(* looked; what is recorded after it marked the row archives it.           *)
LEMMA RouteArchiveInv ==
  ASSUME TypeOK, KindInv, ClaimInv, ArchivedIsStored, ArchiveInv,
         NEW h \in Deliveries, Receive(h) \/ Handle(h) \/ Vanish(h)
  PROVE  ArchiveInv'
<1> SUFFICES ASSUME faults' = MaxFaults, unmatched' = {}
             PROVE  /\ transcript' # None =>
                         pc'[transcript'] \in Searching \cup Moved \cup {"markPending", "acked"}
                    /\ Acked(Audios)' =>
                         \/ archive' = "archived"
                         \/ /\ "pending" \in files'
                            /\ transcript' # None => pc'[transcript'] \in Searching
                         \/ transcript' # None /\ pc'[transcript'] \in Moved
  BY DEF ArchiveInv
<1> USE DEF Goto, Answer200, Answer500, rowVars, storeVars
<1>1. faults = MaxFaults /\ ~Fault
  <2>1. faults \in Nat /\ faults <= MaxFaults /\ MaxFaults \in Nat
    BY ConversationAssumption DEF TypeOK
  <2>2. faults' <= faults /\ faults' \in Nat
    BY HandlerMoves, ConversationAssumption
  <2> QED
    BY <2>1, <2>2 DEF Fault
<1>2. unmatched = {}
  BY DEF Receive, Vanish, Handle, Lookup, Claim, RecordTools, Download, Move, Unstage, MarkArchived,
    MarkPending, Stage, UploadFinal, RecordArchive
<1>3. /\ transcript # None =>
           pc[transcript] \in Searching \cup Moved \cup {"markPending", "acked"}
      /\ Acked(Audios) =>
           \/ archive = "archived"
           \/ "pending" \in files /\ (transcript # None => pc[transcript] \in Searching)
           \/ transcript # None /\ pc[transcript] \in Moved
  BY <1>1, <1>2 DEF ArchiveInv
<1>4. /\ pc \in [Deliveries -> {"idle"} \cup Handling \cup Finished]
      /\ transcript # None => transcript \in Transcriptions
      /\ \A g \in Audios : g \notin Transcriptions
      /\ \A g \in Deliveries : g # None
  BY ConversationAssumption DEF TypeOK, Deliveries
(* An acknowledged recording was acknowledged before, or is by this step.  *)
<1>5. Acked(Audios)' => Acked(Audios) \/ (h \in Audios /\ pc'[h] = "acked")
  BY HandlerMoves, <1>4 DEF Acked, Deliveries
(* The steps of the recordings. *)
<1>6. CASE h \in Audios
  <2>1. transcript' = transcript /\ (transcript # None => pc'[transcript] = pc[transcript])
    <3>1. ~Claim(h)
      BY <1>6 DEF Claim, KindInv, Finished
    <3>2. transcript' = transcript
      BY <3>1 DEF Receive, Vanish, Handle, Lookup, RecordTools, Download, Move, Unstage,
        MarkArchived, MarkPending, Stage, UploadFinal, RecordArchive
    <3> QED
      BY <1>4, <1>6, <3>2, HandlerMoves DEF Deliveries
  <2>2. files \subseteq files' /\ (archive = "archived" => archive' = "archived")
    BY <1>6 DEF KindInv, Finished, Receive, Vanish, Handle, Lookup, Claim, RecordTools, Download,
      Move, Unstage, MarkArchived, MarkPending, Stage, UploadFinal, RecordArchive
  <2>3. CASE ~(h \in Audios /\ pc'[h] = "acked")
    BY <1>3, <1>5, <2>1, <2>2, <2>3
  <2>4. CASE pc'[h] = "acked"
    <3>1. CASE Lookup(h)
      <4>1. archive = "archived"
        BY <1>1, <1>4, <1>6, <2>4, <3>1 DEF Lookup
      <4> QED
        BY <1>3, <2>1, <2>2, <4>1
    <3>2. CASE Stage(h)
      <4>1. "pending" \in files' /\ ~LookedForAudio
        BY <1>1, <3>2 DEF Stage
      <4>2. transcript # None => pc[transcript] \in {"tools", "download"}
        BY <1>4, <4>1 DEF LookedForAudio
      <4> QED
        BY <1>3, <2>1, <4>1, <4>2 DEF Searching
    <3>3. CASE RecordArchive(h)
      <4>1. archive' = "archived"
        BY <1>1, <1>2, <3>3, ConversationAssumption DEF RecordArchive, TypeOK
      <4> QED
        BY <1>3, <2>1, <4>1
    <3>4. CASE Receive(h) \/ UploadFinal(h) \/ Vanish(h)
      BY <1>4, <2>4, <3>4 DEF Receive, UploadFinal, Vanish
    <3> QED
      BY <1>6, <3>1, <3>2, <3>3, <3>4 DEF KindInv, Finished, Handle, Claim, RecordTools, Download,
        Move, Unstage, MarkArchived, MarkPending
  <2> QED
    BY <1>6, <2>3, <2>4
(* The steps of the transcripts: that of the row, and the others. *)
<1>7. CASE h \in Transcriptions
  <2>0. Acked(Audios)' => Acked(Audios)
    BY <1>4, <1>5, <1>7
  <2>1. CASE Receive(h) \/ Lookup(h)
    <3>1. h # transcript
      BY <1>3, <1>4, <2>1 DEF Receive, NextOfItsKind, Lookup, Searching, Moved
    <3>2. UNCHANGED <<transcript, archive, files>>
      BY <2>1 DEF Receive, Lookup
    <3>3. transcript # None => pc'[transcript] = pc[transcript]
      BY <1>4, <3>1, HandlerMoves DEF Deliveries
    <3> QED
      BY <1>3, <2>0, <3>2, <3>3
  <2>2. CASE Claim(h)
    <3>1. h # transcript /\ UNCHANGED <<archive, files>>
      BY <1>3, <1>4, <2>2 DEF Claim, Searching, Moved, rowVars, storeVars
    <3>2. CASE transcript = None
      <4>1. transcript' = h /\ pc'[h] = "tools"
        BY <1>1, <1>4, <2>2, <3>2 DEF Claim
      <4> QED
        BY <1>3, <2>0, <3>1, <3>2, <4>1 DEF Searching
    <3>3. CASE transcript # None
      <4>1. transcript' = transcript /\ pc'[transcript] = pc[transcript]
        BY <1>1, <1>4, <2>2, <3>1, <3>3 DEF Claim, Deliveries
      <4> QED
        BY <1>3, <2>0, <3>1, <4>1
    <3> QED
      BY <3>2, <3>3
  <2>3. CASE RecordTools(h) \/ Download(h) \/ Move(h) \/ Unstage(h) \/ MarkArchived(h)
               \/ MarkPending(h)
    <3>1. transcript = h /\ transcript' = h /\ transcript # None
      BY <1>4, <1>7, <2>3 DEF ClaimInv, Searching, Moved, RecordTools, Download, Move, Unstage,
        MarkArchived, MarkPending, Deliveries
    <3>2. CASE RecordTools(h)
      BY <1>3, <1>4, <2>0, <3>1, <3>2 DEF RecordTools, Searching, Moved
    <3>3. CASE Download(h)
      BY <1>1, <1>3, <1>4, <2>0, <3>1, <3>3 DEF Download, Searching, Moved
    <3>4. CASE Move(h)
      BY <1>1, <1>3, <1>4, <2>0, <3>1, <3>4 DEF Move, Searching, Moved
    <3>5. CASE Unstage(h)
      BY <1>1, <1>3, <1>4, <2>0, <3>1, <3>5 DEF Unstage, Searching, Moved
    <3>6. CASE MarkArchived(h)
      BY <1>1, <1>3, <1>4, <2>0, <3>1, <3>6 DEF MarkArchived, Searching, Moved
    <3>7. CASE MarkPending(h)
      <4>1. archive = "archived" => archive' = "archived"
        BY <1>1, <3>7 DEF MarkPending, ArchivedIsStored
      <4>2. pc'[h] = "acked" /\ files' = files
        BY <1>4, <3>7 DEF MarkPending
      <4>3. pc[h] = "markPending"
        BY <3>7 DEF MarkPending
      <4> QED
        BY <1>3, <2>0, <3>1, <4>1, <4>2, <4>3 DEF Searching, Moved
    <3> QED
      BY <2>3, <3>2, <3>3, <3>4, <3>5, <3>6, <3>7
  <2>4. ~Vanish(h)
    BY <1>1 DEF Vanish
  <2> QED
    BY <1>7, <2>1, <2>2, <2>3, <2>4 DEF Handle, KindInv, Stage, UploadFinal, RecordArchive
<1> QED
  BY <1>6, <1>7 DEF Deliveries

----------------------------------------------------------------------------
(* The bridge and the janitor                                              *)

LEMMA VoiceBlameInv ==
  ASSUME TypeOK, BlameInv, CompletedNotBlamed, VoiceStep
  PROVE  BlameInv' /\ CompletedNotBlamed'
<1> USE DEF BlameInv, CompletedNotBlamed, rowVars
<1>1. CASE Converse \/ LandConvId \/ SessionCloses \/ EndCall \/ Crash \/ GrowOld
  BY <1>1 DEF Converse, LandConvId, SessionCloses, EndCall, Crash, GrowOld
<1>2. CASE PersistCall
  BY <1>2 DEF PersistCall
<1>3. CASE PersistMetrics \/ SelectStuck \/ SweepMetrics
  BY <1>3 DEF PersistMetrics, SelectStuck, SweepMetrics
<1>4. CASE FinalizeStuck
  BY <1>4 DEF FinalizeStuck, TypeOK
<1> QED
  BY <1>1, <1>2, <1>3, <1>4 DEF VoiceStep, BridgeStep, JanitorStep

LEMMA RouteBlameInv ==
  ASSUME BlameInv, CompletedNotBlamed,
         NEW h \in Deliveries, Receive(h) \/ Handle(h) \/ Vanish(h)
  PROVE  BlameInv' /\ CompletedNotBlamed'
BY RouteFrame DEF BlameInv, CompletedNotBlamed, voiceVars

----------------------------------------------------------------------------
(* The invariant                                                           *)

LEMMA InitInv == Init => IInv
<1> SUFFICES ASSUME Init PROVE IInv
  OBVIOUS
<1>1. TypeOK
  <2>1. path \in BOOLEAN /\ toolRows = {} /\ old \in BOOLEAN /\ slow \in BOOLEAN
    BY Zenon DEF Init
  <2>2. pc \in [Deliveries -> {"idle"} \cup Handling \cup Finished]
    BY DEF Init
  <2>3. faults \in 0 .. MaxFaults
    BY ConversationAssumption DEF Init
  <2> QED
    BY <2>1, <2>2, <2>3 DEF Init, TypeOK
<1>2. \A h \in Deliveries : pc[h] = "idle"
  BY DEF Init
<1>3. KindInv /\ FileInv /\ ClaimInv /\ ToolInv /\ AckedAudioIsStored /\ ArchiveInv
  BY <1>2 DEF Init, KindInv, FileInv, ClaimInv, ToolInv, AckedAudioIsStored, ArchiveInv, Acked, Deliveries,
    Finished, Moved, Searching
<1>4. BlameInv /\ ArchivedIsStored /\ CompletedNotBlamed
  BY ConversationAssumption DEF Init, BlameInv, ArchivedIsStored, CompletedNotBlamed
<1> QED
  BY <1>1, <1>3, <1>4 DEF IInv

LEMMA StepInv == IInv /\ [Next]_vars => IInv'
<1> SUFFICES ASSUME IInv, [Next]_vars PROVE IInv'
  OBVIOUS
<1> USE DEF IInv
<1>1. CASE RouteStep
  BY <1>1, RouteTypeOK, RouteKindInv, RouteFileInv, RouteClaimInv, RouteToolInv, RouteArchivedIsStored,
    RouteAckedAudioIsStored, RouteArchiveInv, RouteBlameInv DEF RouteStep
<1>2. CASE VoiceStep
  <2>1. UNCHANGED <<pc, unmatched, transcript, archive, path, toolRows, files>>
    BY <1>2, VoiceFrame
  <2>2. faults' = MaxFaults => faults = MaxFaults
    BY <1>2, VoiceFrame, ConversationAssumption DEF TypeOK
  <2>3. KindInv' /\ FileInv' /\ ClaimInv' /\ ToolInv' /\ ArchivedIsStored' /\ AckedAudioIsStored'
    BY <2>1 DEF KindInv, FileInv, ClaimInv, ToolInv, ArchivedIsStored, AckedAudioIsStored, Acked
  <2>4. ArchiveInv'
    BY <2>1, <2>2 DEF ArchiveInv, Acked
  <2> QED
    BY <1>2, <2>3, <2>4, VoiceTypeOK, VoiceBlameInv
<1>3. CASE UNCHANGED vars
  BY <1>3 DEF vars, rowVars, storeVars, voiceVars, TypeOK, KindInv, FileInv, ClaimInv, ToolInv,
    BlameInv, ArchivedIsStored, CompletedNotBlamed, AckedAudioIsStored, ArchiveInv, Acked
<1> QED
  BY <1>1, <1>2, <1>3 DEF Next, RouteStep, VoiceStep

(* IInv holds of every reachable state.                                    *)
THEOREM Invariance == Spec => []IInv
BY InitInv, StepInv, PTL DEF Spec

(* What the row says is of one piece, whichever of the handlers, the       *)
(* bridge and the janitor writes it and wherever they fail: archived and   *)
(* the file go together, and no call that completed is blamed on its       *)
(* janitor unless the janitor came before its bridge had written the row.  *)
THEOREM RowIsSafe == Spec => []RowSafe
<1>1. IInv => RowSafe
  BY DEF IInv, RowSafe
<1> QED
  BY <1>1, Invariance, PTL

(* No acknowledged recording is lost through a failure in the middle of a  *)
(* move, and without faults none stays unarchived but in the two cases in  *)
(* which neither handler can see the other's work.                         *)
THEOREM AudioIsKept == Spec => []AudioKept
<1>1. IInv => AudioKept
  <2> SUFFICES ASSUME IInv, AtRest, Acked(Audios), transcript # None, faults = MaxFaults,
                      unmatched = {}
               PROVE  archive = "archived"
    BY DEF IInv, AudioKept, ArchivedUnlessUnmatched
  <2>1. pc[transcript] \notin Handling
    BY DEF AtRest, IInv, TypeOK, Deliveries
  <2> QED
    BY <2>1 DEF IInv, ArchiveInv, Handling, Searching, Moved
<1> QED
  BY <1>1, Invariance, PTL

(* The first transcript stays, the tool calls of no other delivery are     *)
(* recorded, and a janitor that took the call up before the bridge wrote   *)
(* its metrics does not replace them.                                      *)
THEOREM RecordsAreKept == Spec => RecordsKept
<1> DEFINE Kept == /\ transcript # None => transcript' = transcript
                   /\ toolRows' \subseteq {transcript'}
                   /\ metrics = "full" => metrics' = "full"
<1>1. IInv /\ [Next]_vars => [Kept]_vars
  <2> SUFFICES ASSUME IInv, Next PROVE Kept
    OBVIOUS
  <2>0. toolRows' \subseteq {transcript'}
    BY StepInv DEF IInv, ToolInv
  <2>1. CASE RouteStep
    BY <2>0, <2>1, RouteClaimInv, RouteFrame DEF RouteStep, IInv
  <2>2. CASE VoiceStep
    <3>1. transcript' = transcript
      BY <2>2, VoiceFrame DEF IInv
    <3>2. metrics = "full" => metrics' = "full"
      BY <2>2, ConversationAssumption DEF VoiceStep, storeVars, Converse, LandConvId, SessionCloses, EndCall, Crash,
        GrowOld, BridgeStep, PersistCall, PersistMetrics, JanitorStep, SelectStuck, FinalizeStuck,
        SweepMetrics
    <3> QED
      BY <2>0, <3>1, <3>2
  <2> QED
    BY <2>1, <2>2 DEF Next, RouteStep, VoiceStep
<1>2. Spec => [][Next]_vars
  BY PTL DEF Spec
<1> QED
  BY <1>1, <1>2, Invariance, PTL DEF RecordsKept

==============================================================================
