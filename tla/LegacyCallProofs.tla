------------------------- MODULE LegacyCallProofs -------------------------
(***************************************************************************)
(* The safety of one job of the legacy engine, for any number of runs and  *)
(* faults.  The inductive invariant says what row and contact hold at each *)
(* step of the job (RowInv), what the gateway knows of the call by then    *)
(* (PostInv), that a customer whose call has ended is gone, about to be    *)
(* swept, or let go (SweepInv), and that the end of a call is still to be  *)
(* told while nobody has been told (EndInv).                               *)
(***************************************************************************)
EXTENDS LegacyCall, TLAPS

(* The customer is off the line, or will be swept, or was let go.          *)
Handled == gate.cust = "gone" \/ gate.sweeps # {} \/ letGo

Early == {"waiting", "checked", "created", "marked"}
InCall == {"dialing", "dialed", "ringing", "bridged"}
Past == {"hungUp", "saved", "reported"}
Under == {"marked", "dialing", "dialed", "ringing", "bridged", "ended", "hanging",
          "hungUp", "saved", "refused"}

RowInv ==
    /\ job.pc \in {"waiting", "checked"} => row = "none" /\ CutShort(job.past, contact)
    /\ job.pc = "created" => row = "initiated"
    /\ job.pc \in Under => row # "none" /\ contact = "calling"
    /\ job.pc \in {"saved", "reported"} => row = Outcome
    /\ job.pc = "reported" => contact = row
    /\ job.pc = "stalled" =>
         CutShort(IF row = "none" THEN job.past ELSE row, contact)
    /\ job.past \in Called => job.late
    /\ row \in Called => job.late \/ job.pc \in {"saved", "reported", "done"}
    /\ OutcomesAgree

PostInv ==
    /\ job.pc \in Early => gate.post = "none" /\ ~letGo /\ ~missed
    /\ job.pc = "dialing" => gate.post # "none"
    /\ job.pc \in {"dialed", "ringing", "bridged", "ended", "hanging"} \cup Past =>
         gate.post = "ok"
    /\ job.pc = "refused" => gate.post = "refused" \/ letGo
    /\ job.pc \in {"stalled", "failing", "failed"} =>
         gate.post \in {"none", "refused"} \/ letGo
    /\ job.pc = "done" => gate.post \in {"none", "refused"} \/ Handled
    /\ gate.post \in {"none", "sent"} => gate = [NoCall EXCEPT !.post = gate.post]
    /\ gate.post = "refused" => gate.cust = "none"
    /\ gate.post \notin {"none", "sent"} => gate.st # "none"
    /\ gate.att # "no" \/ gate.adding # "no" \/ "both" \in gate.sweeps =>
         gate.cust # "none"
    /\ job.pc \in Early \cup {"stalled"} => ~entry.here
    /\ job.pc \in Early \cup {"dialing", "dialed", "ringing", "stalled"} =>
         ~entry.attached

SweepInv ==
    /\ gate.st = "ended" \/ gate.adding = "ended" => Handled
    /\ job.pc \in Past \/ (job.pc = "hanging" /\ ~gate.del) => Handled

EndInv == job.pc \in InCall /\ ~missed /\ ~gate.event =>
    /\ gate.st \in {"none", "live"} /\ gate.adding \in {"no", "live"}
    /\ gate.sweeps = {} /\ gate.cust # "gone"

IInv == TypeOK /\ RowInv /\ PostInv /\ SweepInv /\ EndInv

(* What an end, a failure, a lost socket, an attached channel and a copy   *)
(* make of the gateway's record is one again.                              *)
LEMMA AddSweep ==
  ASSUME NEW g \in GateRecords, NEW s \in {"both", "media"}
  PROVE  [g EXCEPT !.event = TRUE, !.sweeps = @ \cup {s}] \in GateRecords
<1>1. g.sweeps \cup {s} \in SUBSET {"both", "media"}
  BY DEF GateRecords
<1> QED
  BY <1>1 DEF GateRecords

(* An end.                                                                 *)
LEMMA EndedOK == ASSUME NEW g \in GateRecords PROVE Ended(g) \in GateRecords
<1> DEFINE f == [g EXCEPT !.event = TRUE, !.sweeps = @ \cup {Swept(g)}]
<1>1. f \in GateRecords
  BY AddSweep DEF Swept
<1> HIDE DEF f
<1>2. [f EXCEPT !.st = "ended"] \in GateRecords
  BY <1>1 DEF GateRecords
<1>3. g.st # "ended" => Ended(g) = [f EXCEPT !.st = "ended"]
  BY DEF Ended, f, GateRecords
<1> QED
  BY <1>2, <1>3 DEF Ended

(* A failure.                                                              *)
LEMMA FailedOK == ASSUME NEW g \in GateRecords PROVE Failed(g) \in GateRecords
  BY AddSweep DEF Failed, Swept

(* A lost socket.                                                          *)
LEMMA VoiceGoneOK == ASSUME NEW g \in GateRecords PROVE VoiceGone(g) \in GateRecords
<1> DEFINE f == Failed(g)
<1>1. f \in GateRecords
  BY FailedOK
<1> DEFINE a == IF f.asock = "open" THEN "closing" ELSE f.asock
           h == [f EXCEPT !.vsock = "closed"]
<1>2. VoiceGone(g) = [h EXCEPT !.asock = a]
  <2> HIDE DEF f
  <2> QED
    BY <1>1 DEF VoiceGone, f, GateRecords
<1> HIDE DEF f
<1>3. a \in {"none", "open", "closing", "closed"}
  BY <1>1 DEF GateRecords
<1>4. h \in GateRecords
  BY <1>1 DEF GateRecords
<1> HIDE DEF h, a
<1>5. [h EXCEPT !.asock = a] \in GateRecords
  BY <1>3, <1>4 DEF GateRecords
<1> QED
  BY <1>2, <1>5

(* A copy.                                                                 *)
LEMMA CopiedOK == ASSUME NEW g \in GateRecords PROVE Copied(g) \in GateRecords
  BY DEF Copied, Replaced, GateRecords

(* An attached channel.                                                    *)
LEMMA AttachedOK == ASSUME NEW g \in GateRecords PROVE Attached(g) \in GateRecords
  BY DEF Attached, Replaced, GateRecords

(* A failure adds an event and a sweep, unless the call is over, and       *)
(* touches nothing else.                                                   *)
LEMMA FailedFields ==
  ASSUME NEW g \in GateRecords
  PROVE  /\ Failed(g).st = g.st /\ Failed(g).post = g.post
         /\ Failed(g).cust = g.cust /\ Failed(g).adding = g.adding
         /\ Failed(g).del = g.del /\ g.sweeps \subseteq Failed(g).sweeps
         /\ Failed(g).att = g.att
         /\ "both" \in Failed(g).sweeps => "both" \in g.sweeps \/ g.att # "no"
         /\ g.event => Failed(g).event
         /\ g.st \notin {"failed", "ended"} => Failed(g).event
  BY DEF Failed, Swept, GateRecords

(* And so does a lost socket.                                              *)
LEMMA VoiceGoneFields ==
  ASSUME NEW g \in GateRecords
  PROVE  /\ VoiceGone(g).st = g.st /\ VoiceGone(g).post = g.post
         /\ VoiceGone(g).cust = g.cust /\ VoiceGone(g).adding = g.adding
         /\ VoiceGone(g).del = g.del /\ g.sweeps \subseteq VoiceGone(g).sweeps
         /\ VoiceGone(g).att = g.att
         /\ "both" \in VoiceGone(g).sweeps => "both" \in g.sweeps \/ g.att # "no"
         /\ g.event => VoiceGone(g).event
         /\ g.st \notin {"failed", "ended"} => VoiceGone(g).event
<1>1. Failed(g) \in GateRecords
  BY FailedOK
<1>2. /\ VoiceGone(g).st = Failed(g).st /\ VoiceGone(g).post = Failed(g).post
      /\ VoiceGone(g).cust = Failed(g).cust /\ VoiceGone(g).adding = Failed(g).adding
      /\ VoiceGone(g).del = Failed(g).del /\ VoiceGone(g).sweeps = Failed(g).sweeps
      /\ VoiceGone(g).event = Failed(g).event
      /\ VoiceGone(g).att = Failed(g).att
  BY <1>1 DEF VoiceGone, GateRecords
<1> QED
  BY <1>2, FailedFields

(* No call, and a record in which one field is set.                        *)
LEMMA NoCallOK == NoCall \in GateRecords
<1>1. {} \in SUBSET {"both", "media"}
  OBVIOUS
<1> QED
  BY <1>1 DEF NoCall, GateRecords

LEMMA FieldsOK ==
  ASSUME NEW g \in GateRecords
  PROVE  /\ \A x \in {"none", "live", "failed", "ended"} :
              [g EXCEPT !.st = x] \in GateRecords
         /\ \A x \in {"no", "live", "failed", "ended"} :
              [g EXCEPT !.adding = x] \in GateRecords
         /\ \A x \in {"no", "lost", "yes", "unmapped"} :
              [g EXCEPT !.att = x] \in GateRecords
         /\ \A x \in SUBSET {"both", "media"} :
              [g EXCEPT !.sweeps = x] \in GateRecords
         /\ \A x \in BOOLEAN :
              [g EXCEPT !.del = x] \in GateRecords
         /\ \A x \in BOOLEAN :
              [g EXCEPT !.media = x] \in GateRecords
         /\ \A x \in {"none", "dialed", "up", "gone"} :
              [g EXCEPT !.cust = x] \in GateRecords
         /\ \A x \in {"none", "open", "closing", "closed"} :
              [g EXCEPT !.asock = x] \in GateRecords
         /\ \A x \in {"none", "connecting", "open", "stopping", "closed"} :
              [g EXCEPT !.vsock = x] \in GateRecords
<1>1. ASSUME NEW x \in {"none", "live", "failed", "ended"}
      PROVE  [g EXCEPT !.st = x] \in GateRecords
  BY DEF GateRecords
<1>2. ASSUME NEW x \in {"no", "live", "failed", "ended"}
      PROVE  [g EXCEPT !.adding = x] \in GateRecords
  BY DEF GateRecords
<1>3. ASSUME NEW x \in SUBSET {"both", "media"}
      PROVE  [g EXCEPT !.sweeps = x] \in GateRecords
  BY DEF GateRecords
<1>4. ASSUME NEW x \in BOOLEAN
      PROVE  [g EXCEPT !.del = x] \in GateRecords
  BY DEF GateRecords
<1>5. ASSUME NEW x \in BOOLEAN
      PROVE  [g EXCEPT !.media = x] \in GateRecords
  BY DEF GateRecords
<1>6. ASSUME NEW x \in {"none", "dialed", "up", "gone"}
      PROVE  [g EXCEPT !.cust = x] \in GateRecords
  BY DEF GateRecords
<1>7. ASSUME NEW x \in {"none", "open", "closing", "closed"}
      PROVE  [g EXCEPT !.asock = x] \in GateRecords
  BY DEF GateRecords
<1>8. ASSUME NEW x \in {"none", "connecting", "open", "stopping", "closed"}
      PROVE  [g EXCEPT !.vsock = x] \in GateRecords
  BY DEF GateRecords
<1>9. ASSUME NEW x \in {"no", "lost", "yes", "unmapped"}
      PROVE  [g EXCEPT !.att = x] \in GateRecords
  BY DEF GateRecords
<1> QED
  BY <1>1, <1>2, <1>3, <1>4, <1>5, <1>6, <1>7, <1>8, <1>9

(* Before POST /calls is read the gateway knows nothing of the call.       *)
LEMMA UntouchedGate ==
  ASSUME PostInv, gate.post \in {"none", "sent"}
  PROVE  /\ gate.st = "none" /\ gate.att = "no" /\ gate.adding = "no"
         /\ gate.sweeps = {} /\ ~gate.event /\ ~gate.del /\ gate.cust = "none"
         /\ ~gate.media /\ gate.asock = "none" /\ gate.vsock = "none"
  BY DEF PostInv, NoCall

(* A gateway that has no call yet.                                         *)
LEMMA NoCallFields ==
  /\ NoCall.post = "none" /\ NoCall.cust = "none" /\ NoCall.sweeps = {}
  /\ NoCall.st = "none" /\ NoCall.att = "no" /\ NoCall.adding = "no"
  /\ NoCall = [NoCall EXCEPT !.post = NoCall.post]
  BY DEF NoCall

(* What a clean-up makes of the gateway's record.                          *)
LEMMA SwipeOK ==
  ASSUME TypeOK, NEW s, NEW refused, Swipe(s, refused)
  PROVE  /\ gate' \in GateRecords /\ letGo' \in BOOLEAN
         /\ s \in gate.sweeps /\ s \in {"both", "media"} /\ ~gate.event
         /\ gate'.post = gate.post /\ gate'.st = gate.st /\ gate'.del = gate.del
         /\ gate'.sweeps = gate.sweeps \ {s} /\ gate'.adding \in {"no", gate.adding}
         /\ (gate.att = "no" => gate'.att = "no")
         /\ gate'.cust \in {gate.cust, "gone"}
         /\ (gate.cust = "none" => gate'.cust = "none")
         /\ (letGo => letGo')
         /\ s = "both" /\ gate.cust # "none" => gate'.cust = "gone" \/ letGo'
         /\ s = "media" => letGo'
<1> DEFINE custGone == s = "both" /\ gate.cust # "none" /\ "customer" \notin refused
           rest == gate.sweeps \ {s}
           m == gate.media /\ "media" \in refused
           a == IF "bridge" \in refused /\ ~custGone THEN gate.adding ELSE "no"
           t == IF s = "media" THEN gate.att
                ELSE IF gate.att \in {"yes", "unmapped"} THEN "unmapped" ELSE "no"
           c == IF custGone THEN "gone" ELSE gate.cust
           f == [gate EXCEPT !.sweeps = rest]
           h == [f EXCEPT !.media = m]
           k == [h EXCEPT !.adding = a]
           l == [k EXCEPT !.att = t]
<1>1. /\ s \in gate.sweeps /\ ~gate.event /\ gate' = [l EXCEPT !.cust = c]
      /\ letGo' = (letGo \/ s = "media" \/ "customer" \in refused)
  BY DEF Swipe, AtGate
<1>2. gate \in GateRecords
  BY DEF TypeOK
<1>3. /\ rest \in SUBSET {"both", "media"} /\ m \in BOOLEAN
      /\ a \in {"no", "live", "failed", "ended"} /\ a \in {"no", gate.adding}
      /\ t \in {"no", "lost", "yes", "unmapped"} /\ (gate.att = "no" => t = "no")
      /\ c \in {"none", "dialed", "up", "gone"}
      /\ s \in {"both", "media"}
  BY <1>1, <1>2 DEF GateRecords
<1>4. c = (IF custGone THEN "gone" ELSE gate.cust)
  OBVIOUS
<1> HIDE DEF rest, m, a, t, c
<1>5. f \in GateRecords
  BY <1>2, <1>3, FieldsOK
<1>6. /\ f.post = gate.post /\ f.st = gate.st /\ f.del = gate.del /\ f.sweeps = rest
      /\ f.cust = gate.cust
  BY <1>2 DEF GateRecords
<1> HIDE DEF f
<1>7. h \in GateRecords
  BY <1>3, <1>5, FieldsOK
<1>8. /\ h.post = f.post /\ h.st = f.st /\ h.del = f.del /\ h.sweeps = f.sweeps
      /\ h.cust = f.cust
  BY <1>5 DEF GateRecords
<1> HIDE DEF h
<1>9. k \in GateRecords
  BY <1>3, <1>7, FieldsOK
<1>10. /\ k.post = h.post /\ k.st = h.st /\ k.del = h.del /\ k.sweeps = h.sweeps
       /\ k.cust = h.cust /\ k.adding = a
  BY <1>7 DEF GateRecords
<1> HIDE DEF k
<1>11. l \in GateRecords
  BY <1>3, <1>9, FieldsOK
<1>12. /\ l.post = k.post /\ l.st = k.st /\ l.del = k.del /\ l.sweeps = k.sweeps
       /\ l.cust = k.cust /\ l.adding = k.adding /\ l.att = t
  BY <1>9 DEF GateRecords
<1> HIDE DEF l
<1>13. /\ gate'.post = l.post /\ gate'.st = l.st /\ gate'.del = l.del
       /\ gate'.sweeps = l.sweeps /\ gate'.adding = l.adding /\ gate'.att = l.att
       /\ gate'.cust = c
  BY <1>1, <1>11 DEF GateRecords
<1>14. gate' \in GateRecords
  BY <1>1, <1>3, <1>11, FieldsOK
<1>15. gate'.sweeps = gate.sweeps \ {s}
  BY <1>6, <1>8, <1>10, <1>12, <1>13 DEF rest
<1>16. /\ gate'.post = gate.post /\ gate'.st = gate.st /\ gate'.del = gate.del
       /\ gate'.adding = a /\ gate'.att = t /\ gate'.cust = c
  BY <1>6, <1>8, <1>10, <1>12, <1>13
<1>17. /\ c \in {gate.cust, "gone"} /\ (gate.cust = "none" => c = "none")
       /\ (s = "both" /\ gate.cust # "none" => c = "gone" \/ letGo')
  BY <1>1, <1>4
<1>18. (letGo => letGo') /\ (s = "media" => letGo') /\ letGo' \in BOOLEAN
  BY <1>1
<1> QED
  BY <1>1, <1>3, <1>14, <1>15, <1>16, <1>17, <1>18

(* Every step keeps the types.                                             *)
LEMMA TypeOKStep == IInv /\ [Next]_vars => TypeOK'
<1> SUFFICES ASSUME TypeOK, gate.cust # "none" => gate.st # "none",
                     [Next]_vars
    PROVE  TypeOK'
  BY UntouchedGate DEF IInv, PostInv
<1>1. CASE NotAllowed
  <2>1. UNCHANGED <<contact, row, entry, gate, faults, missed, letGo>>
    BY <1>1 DEF NotAllowed
  <2>2. job' \in JobRecords
    BY <1>1 DEF NotAllowed, Goto, JobRecords, JobSteps, Settled, TypeOK
  <2> QED
    BY <2>1, <2>2 DEF TypeOK
<1>2. CASE ContactIsDnc
  <2>1. UNCHANGED <<row, entry, gate, faults, missed, letGo>>
    BY <1>2 DEF ContactIsDnc
  <2>2. job' \in JobRecords
    BY <1>2 DEF ContactIsDnc, Goto, JobRecords, JobSteps, Settled, TypeOK
  <2>3. contact' \in Contacts
    BY <1>2 DEF ContactIsDnc, Contacts
  <2> QED
    BY <2>1, <2>2, <2>3 DEF TypeOK
<1>3. CASE Allowed
  <2>1. UNCHANGED <<contact, row, entry, gate, faults, missed, letGo>>
    BY <1>3 DEF Allowed
  <2>2. job' \in JobRecords
    BY <1>3 DEF Allowed, Goto, JobRecords, JobSteps, TypeOK
  <2> QED
    BY <2>1, <2>2 DEF TypeOK
<1>4. CASE CreateRow
  <2>1. UNCHANGED <<contact, entry, gate, faults, missed, letGo>>
    BY <1>4 DEF CreateRow
  <2>2. job' \in JobRecords
    BY <1>4 DEF CreateRow, Goto, JobRecords, JobSteps, TypeOK
  <2>3. row' \in Rows
    BY <1>4 DEF CreateRow, SetRow, Rows
  <2> QED
    BY <2>1, <2>2, <2>3 DEF TypeOK
<1>5. CASE MarkCalling
  <2>1. UNCHANGED <<row, entry, gate, faults, missed, letGo>>
    BY <1>5 DEF MarkCalling
  <2>2. job' \in JobRecords
    BY <1>5 DEF MarkCalling, Goto, JobRecords, JobSteps, TypeOK
  <2>3. contact' \in Contacts
    BY <1>5 DEF MarkCalling, Contacts
  <2> QED
    BY <2>1, <2>2, <2>3 DEF TypeOK
<1>6. CASE Dial
  <2>1. UNCHANGED <<contact, row, faults, missed, letGo>>
    BY <1>6 DEF Dial
  <2>2. job' \in JobRecords
    BY <1>6 DEF Dial, Goto, JobRecords, JobSteps, TypeOK
  <2>3. entry' \in EntryRecords
    BY <1>6 DEF Dial, NoEntry, EntryRecords
  <2>4. gate' \in GateRecords
    BY <1>6 DEF Dial, AtGate, GateRecords, TypeOK
  <2> QED
    BY <2>1, <2>2, <2>3, <2>4 DEF TypeOK
<1>7. CASE DialAnswered
  <2>1. UNCHANGED <<contact, row, entry, gate, faults, missed, letGo>>
    BY <1>7 DEF DialAnswered
  <2>2. job' \in JobRecords
    BY <1>7 DEF DialAnswered, Goto, JobRecords, JobSteps, TypeOK
  <2> QED
    BY <2>1, <2>2 DEF TypeOK
<1>8. CASE DialRefused
  <2>1. CASE row = "failed"
    <3>1. contact' \in Contacts
      BY <1>8, <2>1 DEF DialRefused, Contacts
    <3>2. entry' \in EntryRecords
      <4>1. entry' = NoEntry
        BY <1>8, <2>1 DEF DialRefused, Unregister
      <4> QED
        BY <4>1 DEF NoEntry, EntryRecords
    <3>3. job' \in JobRecords
      BY <1>8, <2>1 DEF DialRefused, Goto, TypeOK, JobRecords, JobSteps, Settled
    <3> QED
      BY <1>8, <2>1, <3>1, <3>2, <3>3 DEF DialRefused, TypeOK
  <2>2. CASE row # "failed"
    BY <1>8, <2>2 DEF DialRefused, SetRow, TypeOK, Rows
  <2> QED
    BY <2>1, <2>2
<1>9. CASE MarkRinging
  <2>1. UNCHANGED <<contact, entry, gate, faults, missed, letGo>>
    BY <1>9 DEF MarkRinging
  <2>2. job' \in JobRecords
    BY <1>9 DEF MarkRinging, Goto, JobRecords, JobSteps, TypeOK
  <2>3. row' \in Rows
    BY <1>9 DEF MarkRinging, SetRow, Rows
  <2> QED
    BY <2>1, <2>2, <2>3 DEF TypeOK
<1>10. CASE StartBridge
  <2>1. UNCHANGED <<contact, gate, faults, letGo>>
    BY <1>10 DEF StartBridge
  <2>2. job' \in JobRecords
    BY <1>10 DEF StartBridge, JobRecords, JobSteps, TypeOK
  <2>3. row' \in Rows
    BY <1>10 DEF StartBridge, SetRow, Rows
  <2>4. entry' \in EntryRecords
    BY <1>10 DEF StartBridge, EntryRecords, TypeOK
  <2>5. missed' \in BOOLEAN
    BY <1>10 DEF StartBridge
  <2> QED
    BY <2>1, <2>2, <2>3, <2>4, <2>5 DEF TypeOK
<1>11. CASE HangUp
  <2>1. UNCHANGED <<contact, row, entry, faults, missed, letGo>>
    BY <1>11 DEF HangUp
  <2>2. job' \in JobRecords
    BY <1>11 DEF HangUp, Goto, JobRecords, JobSteps, TypeOK
  <2>3. gate' \in GateRecords
    BY <1>11 DEF HangUp, AtGate, GateRecords, TypeOK
  <2> QED
    BY <2>1, <2>2, <2>3 DEF TypeOK
<1>12. CASE HungUp
  <2>1. UNCHANGED <<contact, row, gate, faults, missed, letGo>>
    BY <1>12 DEF HungUp
  <2>2. job' \in JobRecords
    BY <1>12 DEF HungUp, Goto, JobRecords, JobSteps, TypeOK
  <2>3. entry' \in EntryRecords
    BY <1>12 DEF HungUp, Unregister, NoEntry, EntryRecords
  <2> QED
    BY <2>1, <2>2, <2>3 DEF TypeOK
<1>13. CASE SaveRow
  <2>1. UNCHANGED <<contact, entry, gate, faults, missed, letGo>>
    BY <1>13 DEF SaveRow
  <2>2. job' \in JobRecords
    BY <1>13 DEF SaveRow, Goto, JobRecords, JobSteps, TypeOK
  <2>3. row' \in Rows
    BY <1>13 DEF SaveRow, SetRow, Outcome, Rows
  <2> QED
    BY <2>1, <2>2, <2>3 DEF TypeOK
<1>14. CASE ReportContact
  <2>1. UNCHANGED <<row, entry, gate, faults, missed, letGo>>
    BY <1>14 DEF ReportContact
  <2>2. job' \in JobRecords
    BY <1>14 DEF ReportContact, Goto, JobRecords, JobSteps, TypeOK
  <2>3. contact' \in Contacts
    BY <1>14 DEF ReportContact, Outcome, Contacts
  <2> QED
    BY <2>1, <2>2, <2>3 DEF TypeOK
<1>15. CASE Finish
  <2>1. UNCHANGED <<contact, row, entry, gate, faults, missed, letGo>>
    BY <1>15 DEF Finish
  <2>2. job' \in JobRecords
    BY <1>15 DEF Finish, Goto, JobRecords, JobSteps, Settled, TypeOK
  <2> QED
    BY <2>1, <2>2 DEF TypeOK
<1>16. CASE DeadLetter
  <2>1. UNCHANGED <<row, entry, gate, faults, missed, letGo>>
    BY <1>16 DEF DeadLetter
  <2>2. job' \in JobRecords
    BY <1>16 DEF DeadLetter, Goto, JobRecords, JobSteps, Settled, TypeOK
  <2>3. contact' \in Contacts
    BY <1>16 DEF DeadLetter, Contacts
  <2> QED
    BY <2>1, <2>2, <2>3 DEF TypeOK
<1>17. CASE StalledRequeue
  <2>1. CASE job.run < MaxRuns
    <3>1. job.run + 1 \in 1..MaxRuns
      BY <2>1, RunsAssumption DEF TypeOK, JobRecords
    <3>2. job' \in JobRecords
      <4> DEFINE p == IF row = "none" THEN job.past ELSE row
      <4>1. job' = [job EXCEPT !.pc = "waiting", !.run = job.run + 1,
                               !.short = TRUE, !.past = p]
        BY <1>17, <2>1 DEF StalledRequeue
      <4>2. "waiting" \in JobSteps /\ job \in JobRecords /\ p \in Rows
        BY DEF JobSteps, TypeOK, JobRecords
      <4> HIDE DEF p
      <4> QED
        BY <3>1, <4>1, <4>2 DEF JobRecords
    <3>3. gate' \in GateRecords
      BY <1>17, <2>1, NoCallOK DEF StalledRequeue, AtGate
    <3> QED
      BY <1>17, <2>1, <3>2, <3>3 DEF StalledRequeue, TypeOK, Rows
  <2>2. CASE ~(job.run < MaxRuns)
    BY <1>17, <2>2 DEF StalledRequeue, Goto, TypeOK, JobRecords, JobSteps
  <2> QED
    BY <2>1, <2>2
<1>18. CASE FiveSeconds
  <2>1. UNCHANGED <<contact, row, entry, gate, faults, missed, letGo>>
    BY <1>18 DEF FiveSeconds
  <2>2. job' \in JobRecords
    BY <1>18 DEF FiveSeconds, JobRecords, TypeOK
  <2> QED
    BY <2>1, <2>2 DEF TypeOK
<1>19. CASE HardTimeout
  <2>1. UNCHANGED <<contact, row, entry, gate, faults, missed, letGo>>
    BY <1>19 DEF HardTimeout
  <2>2. job' \in JobRecords
    BY <1>19 DEF HardTimeout, Goto, JobRecords, JobSteps, TypeOK
  <2> QED
    BY <2>1, <2>2 DEF TypeOK
<1>20. CASE SweepEntry
  <2>1. UNCHANGED <<job, contact, row, gate, faults, letGo>>
    BY <1>20 DEF SweepEntry
  <2>2. entry' \in EntryRecords
    BY <1>20 DEF SweepEntry, NoEntry, EntryRecords
  <2>3. missed' \in BOOLEAN
    BY <1>20 DEF SweepEntry
  <2> QED
    BY <2>1, <2>2, <2>3 DEF TypeOK
<1>21. CASE BridgeEndsItself
  <2>1. UNCHANGED <<contact, row, entry, gate, faults, missed, letGo>>
    BY <1>21 DEF BridgeEndsItself
  <2>2. job' \in JobRecords
    BY <1>21 DEF BridgeEndsItself, Goto, JobRecords, JobSteps, TypeOK
  <2> QED
    BY <2>1, <2>2 DEF TypeOK
<1>22. CASE DialLost
  <2>1. gate' \in GateRecords
    BY <1>22, NoCallOK DEF DialLost, AtGate, TypeOK
  <2>2. job' \in JobRecords
    BY <1>22 DEF DialLost, Goto, TypeOK, JobRecords, JobSteps
  <2>3. faults' \in 0..MaxFaults
    BY <1>22, RunsAssumption DEF DialLost, Fault, TypeOK
  <2> QED
    BY <1>22, <2>1, <2>2, <2>3 DEF DialLost, TypeOK
<1>23. CASE HangUpLost
  <2>1. UNCHANGED <<job, contact, row, entry, missed>>
    BY <1>23 DEF HangUpLost
  <2>2. gate' \in GateRecords
    BY <1>23 DEF HangUpLost, AtGate, GateRecords, TypeOK
  <2>3. faults' \in 0..MaxFaults
    BY <1>23, RunsAssumption DEF HangUpLost, Fault, TypeOK
  <2>4. letGo' \in BOOLEAN
    BY <1>23 DEF HangUpLost
  <2> QED
    BY <2>1, <2>2, <2>3, <2>4 DEF TypeOK
<1>24. CASE JobThrows
  <2>1. UNCHANGED <<contact, row, entry, gate, missed>>
    BY <1>24 DEF JobThrows
  <2>2. job' \in JobRecords
    BY <1>24 DEF JobThrows, Breaks, JobRecords, JobSteps, TypeOK
  <2>3. faults' \in 0..MaxFaults
    BY <1>24, RunsAssumption DEF JobThrows, Fault, TypeOK
  <2>4. letGo' \in BOOLEAN
    BY <1>24 DEF JobThrows
  <2> QED
    BY <2>1, <2>2, <2>3, <2>4 DEF TypeOK
<1>25. CASE Crash
  <2>1. UNCHANGED <<contact, row>>
    BY <1>25 DEF Crash
  <2>2. job' \in JobRecords
    BY <1>25 DEF Crash, Breaks, JobRecords, JobSteps, TypeOK
  <2>3. entry' \in EntryRecords
    BY <1>25 DEF Crash, NoEntry, EntryRecords
  <2>4. gate' \in GateRecords
    BY <1>25, VoiceGoneOK DEF Crash, AtGate, TypeOK
  <2>5. faults' \in 0..MaxFaults
    BY <1>25, RunsAssumption DEF Crash, Fault, TypeOK
  <2>6. missed' \in BOOLEAN
    BY <1>25 DEF Crash
  <2>7. letGo' \in BOOLEAN
    BY <1>25 DEF Crash
  <2> QED
    BY <2>1, <2>2, <2>3, <2>4, <2>5, <2>6, <2>7 DEF TypeOK
<1>26. CASE VoiceCannotConnect
  <2>1. UNCHANGED <<job, contact, row, entry, missed, letGo>>
    BY <1>26 DEF VoiceCannotConnect
  <2>2. gate' \in GateRecords
    BY <1>26, VoiceGoneOK DEF VoiceCannotConnect, AtGate, TypeOK
  <2>3. faults' \in 0..MaxFaults
    BY <1>26, RunsAssumption DEF VoiceCannotConnect, Fault, TypeOK
  <2> QED
    BY <2>1, <2>2, <2>3 DEF TypeOK
<1>27. CASE SocketBreaks
  <2>1. UNCHANGED <<contact, row, letGo>>
    BY <1>27 DEF SocketBreaks, EndsBridge
  <2>2. job' \in JobRecords
    BY <1>27 DEF SocketBreaks, EndsBridge, JobRecords, JobSteps, TypeOK
  <2>3. entry' \in EntryRecords
    BY <1>27 DEF SocketBreaks, EndsBridge, EntryRecords, TypeOK
  <2>4. gate' \in GateRecords
    BY <1>27, VoiceGoneOK DEF SocketBreaks, AtGate, EndsBridge, TypeOK
  <2>5. faults' \in 0..MaxFaults
    BY <1>27, RunsAssumption DEF SocketBreaks, Fault, EndsBridge, TypeOK
  <2>6. missed' \in BOOLEAN
    BY <1>27 DEF SocketBreaks, EndsBridge
  <2> QED
    BY <2>1, <2>2, <2>3, <2>4, <2>5, <2>6 DEF TypeOK
<1>28. CASE EventLost
  <2>1. UNCHANGED <<job, contact, row, entry, letGo>>
    BY <1>28 DEF EventLost
  <2>2. gate' \in GateRecords
    BY <1>28 DEF EventLost, AtGate, GateRecords, TypeOK
  <2>3. faults' \in 0..MaxFaults
    BY <1>28, RunsAssumption DEF EventLost, Fault, TypeOK
  <2>4. missed' \in BOOLEAN
    BY <1>28 DEF EventLost
  <2> QED
    BY <2>1, <2>2, <2>3, <2>4 DEF TypeOK
<1>29. CASE Accept
  <2>1. UNCHANGED <<job, contact, row, entry, faults, missed, letGo>>
    BY <1>29 DEF Accept
  <2>2. gate' \in GateRecords
    BY <1>29 DEF Accept, AtGate, GateRecords, TypeOK
  <2> QED
    BY <2>1, <2>2 DEF TypeOK
<1>30. CASE DialCustomer
  <2>1. UNCHANGED <<job, contact, row, entry, faults, missed, letGo>>
    BY <1>30 DEF DialCustomer
  <2>2. gate' \in GateRecords
    BY <1>30 DEF DialCustomer, AtGate, GateRecords, TypeOK
  <2> QED
    BY <2>1, <2>2 DEF TypeOK
<1>31. CASE Dialed
  <2>1. UNCHANGED <<job, contact, row, entry, faults, missed, letGo>>
    BY <1>31 DEF Dialed
  <2>2. gate' \in GateRecords
    BY <1>31 DEF Dialed, AtGate, GateRecords, TypeOK
  <2> QED
    BY <2>1, <2>2 DEF TypeOK
<1>32. CASE Refuse
  <2>1. UNCHANGED <<job, contact, row, entry, faults, missed, letGo>>
    BY <1>32 DEF Refuse
  <2>2. gate' \in GateRecords
    BY <1>32 DEF Refuse, AtGate, GateRecords, TypeOK
  <2> QED
    BY <2>1, <2>2 DEF TypeOK
<1>33. CASE Delete
  <2> DEFINE f == Ended(gate)
  <2>1. f \in GateRecords
    BY EndedOK DEF TypeOK
  <2>2. gate' = [f EXCEPT !.del = FALSE]
    BY <1>33 DEF Delete, AtGate
  <2> HIDE DEF f
  <2>3. gate' \in GateRecords
    BY <2>1, <2>2, FieldsOK
  <2> QED
    BY <1>33, <2>3 DEF Delete, TypeOK
<1>34. CASE Cleanup
  <2>1. PICK s \in gate.sweeps : Swipe(s, {})
    BY <1>34 DEF Cleanup
  <2>2. gate' \in GateRecords /\ letGo' \in BOOLEAN
    BY <2>1, SwipeOK
  <2> QED
    BY <1>34, <2>1, <2>2 DEF Cleanup, Swipe, TypeOK
<1>35. CASE AddReturns
  <2>1. UNCHANGED <<job, contact, row, entry, faults, missed, letGo>>
    BY <1>35 DEF AddReturns
  <2>2. gate' \in GateRecords
    BY <1>35 DEF AddReturns, AtGate, GateRecords, TypeOK
  <2> QED
    BY <2>1, <2>2 DEF TypeOK
<1>36. CASE CustomerRings
  <2>1. UNCHANGED <<job, contact, row, entry, faults, missed, letGo>>
    BY <1>36 DEF CustomerRings, Known
  <2>2. gate' \in GateRecords
    BY <1>36, AttachedOK DEF CustomerRings, AtGate, Known, GateRecords, TypeOK
  <2> QED
    BY <2>1, <2>2 DEF TypeOK
<1>37. CASE CustomerAnswers
  <2>1. gate \in GateRecords
    BY DEF TypeOK
  <2>2. CASE ~Known(gate)
    <3>1. gate' \in GateRecords
      BY <1>37, <2>1, <2>2, FieldsOK DEF CustomerAnswers, AtGate
    <3> QED
      BY <1>37, <3>1 DEF CustomerAnswers, TypeOK
  <2>3. CASE Known(gate)
    <3> DEFINE f == Attached(gate)
               h == [f EXCEPT !.cust = "up"]
               k == [h EXCEPT !.st = "live"]
    <3>1. gate' = [k EXCEPT !.adding = gate.st]
      BY <1>37, <2>3 DEF CustomerAnswers, AtGate
    <3>2. f \in GateRecords
      BY <2>1, AttachedOK
    <3>3. gate.st \in {"live", "failed", "ended"}
      BY <1>37, <2>1, <2>3 DEF CustomerAnswers, Known, GateRecords
    <3> HIDE DEF f
    <3>4. h \in GateRecords
      BY <3>2, FieldsOK
    <3> HIDE DEF h
    <3>5. k \in GateRecords
      BY <3>4, FieldsOK
    <3> HIDE DEF k
    <3>6. gate' \in GateRecords
      BY <3>1, <3>3, <3>5, FieldsOK
    <3> QED
      BY <1>37, <3>6 DEF CustomerAnswers, TypeOK
  <2> QED
    BY <2>2, <2>3
<1>38. CASE CustomerLeaves
  <2>1. UNCHANGED <<job, contact, row, entry, faults, missed, letGo>>
    BY <1>38 DEF CustomerLeaves, Known
  <2>2. gate' \in GateRecords
    BY <1>38, EndedOK DEF CustomerLeaves, AtGate, Known, GateRecords, TypeOK
  <2> QED
    BY <2>1, <2>2 DEF TypeOK
<1>39. CASE AsteriskConnects
  <2> DEFINE f == Copied(gate)
             h == [f EXCEPT !.asock = "open"]
             k == [h EXCEPT !.st = "live"]
  <2>1. gate' = [k EXCEPT !.vsock = "connecting"]
    BY <1>39 DEF AsteriskConnects, AtGate
  <2>2. f \in GateRecords
    BY CopiedOK DEF TypeOK
  <2> HIDE DEF f
  <2>3. h \in GateRecords
    BY <2>2, FieldsOK
  <2> HIDE DEF h
  <2>4. k \in GateRecords
    BY <2>3, FieldsOK
  <2> HIDE DEF k
  <2>5. gate' \in GateRecords
    BY <2>1, <2>4, FieldsOK
  <2> QED
    BY <1>39, <2>5 DEF AsteriskConnects, TypeOK
<1>40. CASE VoiceConnects
  <2>1. UNCHANGED <<job, contact, row, faults, missed, letGo>>
    BY <1>40 DEF VoiceConnects
  <2>2. entry' \in EntryRecords
    BY <1>40 DEF VoiceConnects, EntryRecords, TypeOK
  <2>3. gate' \in GateRecords
    BY <1>40, VoiceGoneOK DEF VoiceConnects, AtGate, GateRecords, TypeOK
  <2> QED
    BY <2>1, <2>2, <2>3 DEF TypeOK
<1>41. CASE AsteriskCloses
  <2> DEFINE f == Ended(gate)
             v == IF f.vsock = "open" THEN "stopping" ELSE f.vsock
             h == [f EXCEPT !.asock = "closed"]
             k == [h EXCEPT !.media = FALSE]
  <2>1. f \in GateRecords
    BY EndedOK DEF TypeOK
  <2>2. gate' = [k EXCEPT !.vsock = v]
    <3>1. gate' = [f EXCEPT !.asock = "closed", !.media = FALSE,
                            !.vsock = IF @ = "open" THEN "stopping" ELSE @]
      BY <1>41 DEF AsteriskCloses, AtGate
    <3> HIDE DEF f
    <3> QED
      BY <2>1, <3>1
  <2> HIDE DEF f
  <2>3. v \in {"none", "connecting", "open", "stopping", "closed"}
    BY <2>1 DEF GateRecords
  <2>4. h \in GateRecords
    BY <2>1, FieldsOK
  <2> HIDE DEF h, v
  <2>5. k \in GateRecords
    BY <2>4, FieldsOK
  <2> HIDE DEF k
  <2>6. gate' \in GateRecords
    BY <2>2, <2>3, <2>5, FieldsOK
  <2>7. faults' \in 0..MaxFaults
    BY <1>41, RunsAssumption DEF AsteriskCloses, Fault, TypeOK
  <2> QED
    BY <1>41, <2>6, <2>7 DEF AsteriskCloses, TypeOK
<1>42. CASE EngineHearsStop
  <2>1. UNCHANGED <<contact, row, faults, letGo>>
    BY <1>42 DEF EngineHearsStop, EndsBridge
  <2>2. job' \in JobRecords
    BY <1>42 DEF EngineHearsStop, EndsBridge, JobRecords, JobSteps, TypeOK
  <2>3. entry' \in EntryRecords
    BY <1>42 DEF EngineHearsStop, EndsBridge, EntryRecords, TypeOK
  <2>4. gate' \in GateRecords
    BY <1>42, VoiceGoneOK DEF EngineHearsStop, AtGate, EndsBridge, TypeOK
  <2>5. missed' \in BOOLEAN
    BY <1>42 DEF EngineHearsStop, EndsBridge
  <2> QED
    BY <2>1, <2>2, <2>3, <2>4, <2>5 DEF TypeOK
<1>43. CASE Event
  <2>1. UNCHANGED <<contact, row, entry, faults, letGo>>
    BY <1>43 DEF Event, EndsBridge
  <2>2. job' \in JobRecords
    BY <1>43 DEF Event, EndsBridge, JobRecords, JobSteps, TypeOK
  <2>3. gate' \in GateRecords
    BY <1>43 DEF Event, AtGate, EndsBridge, GateRecords, TypeOK
  <2>4. missed' \in BOOLEAN
    BY <1>43 DEF Event, EndsBridge
  <2> QED
    BY <2>1, <2>2, <2>3, <2>4 DEF TypeOK
<1>44. CASE DeadLetterLost
  <2>1. job' \in JobRecords
    BY <1>44 DEF DeadLetterLost, JobRecords, JobSteps, Settled, TypeOK
  <2>2. faults' \in 0..MaxFaults
    BY <1>44, RunsAssumption DEF DeadLetterLost, Fault, TypeOK
  <2> QED
    BY <1>44, <2>1, <2>2 DEF DeadLetterLost, TypeOK
<1>45. CASE CleanupRefused
  <2>1. PICK s \in gate.sweeps, refused \in SUBSET {"customer", "media", "bridge"} :
          Swipe(s, refused) /\ Fault
    BY <1>45 DEF CleanupRefused
  <2>2. gate' \in GateRecords /\ letGo' \in BOOLEAN
    BY <2>1, SwipeOK
  <2>3. faults' \in 0..MaxFaults
    BY <2>1, RunsAssumption DEF Fault, TypeOK
  <2> QED
    BY <2>1, <2>2, <2>3 DEF Swipe, TypeOK
<1>46. CASE UNCHANGED vars
  BY <1>46 DEF vars, TypeOK
<1> QED
  BY <1>1, <1>2, <1>3, <1>4, <1>5, <1>6, <1>7, <1>8, <1>9, <1>10, <1>11, <1>12,
     <1>13, <1>14, <1>15, <1>16, <1>17, <1>18, <1>19, <1>20, <1>21, <1>22, <1>23, <1>24,
     <1>25, <1>26, <1>27, <1>28, <1>29, <1>30, <1>31, <1>32, <1>33, <1>34, <1>35, <1>36,
     <1>37, <1>38, <1>39, <1>40, <1>41, <1>42, <1>43, <1>44, <1>45, <1>46
  DEF Next, Job, Clock, Trouble, GatewayStep, Phone, Media

(* Every step keeps row and contact in step with the job.                  *)
LEMMA RowInvStep == IInv /\ [Next]_vars => RowInv'
<1> SUFFICES ASSUME IInv, [Next]_vars PROVE RowInv'
  OBVIOUS
<1> USE DEF IInv, CutShort, Called, Under
<1>1. CASE NotAllowed
  BY <1>1 DEF TypeOK, NotAllowed, At, Goto, JobRecords, RowInv, OutcomesAgree
<1>2. CASE ContactIsDnc
  BY <1>2 DEF TypeOK, ContactIsDnc, At, Goto, JobRecords, RowInv, OutcomesAgree
<1>3. CASE Allowed
  BY <1>3 DEF TypeOK, Allowed, At, Goto, JobRecords, RowInv, OutcomesAgree
<1>4. CASE CreateRow
  BY <1>4 DEF TypeOK, CreateRow, SetRow, At, Goto, JobRecords, RowInv, OutcomesAgree
<1>5. CASE MarkCalling
  BY <1>5 DEF TypeOK, MarkCalling, At, Goto, JobRecords, RowInv, OutcomesAgree
<1>6. CASE Dial
  BY <1>6 DEF TypeOK, Dial, At, Goto, JobRecords, RowInv, OutcomesAgree
<1>7. CASE DialAnswered
  BY <1>7 DEF TypeOK, DialAnswered, At, Goto, JobRecords, RowInv, OutcomesAgree
<1>8. CASE DialRefused
  BY <1>8 DEF DialRefused, SetRow, At, Goto, JobRecords, TypeOK, RowInv, OutcomesAgree
<1>9. CASE MarkRinging
  BY <1>9 DEF TypeOK, MarkRinging, SetRow, At, Goto, JobRecords, RowInv, OutcomesAgree
<1>10. CASE StartBridge
  BY <1>10 DEF TypeOK, StartBridge, SetRow, At, JobRecords, RowInv, OutcomesAgree
<1>11. CASE HangUp
  BY <1>11 DEF TypeOK, HangUp, At, Goto, JobRecords, RowInv, OutcomesAgree
<1>12. CASE HungUp
  BY <1>12 DEF TypeOK, HungUp, At, Goto, JobRecords, RowInv, OutcomesAgree
<1>13. CASE SaveRow
  BY <1>13 DEF TypeOK, SaveRow, At, Goto, SetRow, Outcome, JobRecords, RowInv, OutcomesAgree
<1>14. CASE ReportContact
  BY <1>14 DEF TypeOK, ReportContact, At, Goto, Outcome, JobRecords, RowInv, OutcomesAgree
<1>15. CASE Finish
  BY <1>15 DEF TypeOK, Finish, Outcome, At, Goto, JobRecords, RowInv, OutcomesAgree
<1>16. CASE DeadLetter
  BY <1>16 DEF TypeOK, DeadLetter, At, Goto, JobRecords, RowInv, OutcomesAgree
<1>17. CASE StalledRequeue
  BY <1>17 DEF StalledRequeue, At, Goto, JobRecords, TypeOK, RowInv, OutcomesAgree
<1>18. CASE FiveSeconds
  BY <1>18 DEF TypeOK, FiveSeconds, At, JobRecords, RowInv, OutcomesAgree
<1>19. CASE HardTimeout
  BY <1>19 DEF TypeOK, HardTimeout, At, Goto, JobRecords, RowInv, OutcomesAgree
<1>20. CASE SweepEntry
  BY <1>20 DEF TypeOK, SweepEntry, At, JobRecords, RowInv, OutcomesAgree, Outcome
<1>21. CASE BridgeEndsItself
  BY <1>21 DEF TypeOK, BridgeEndsItself, At, Goto, JobRecords, RowInv, OutcomesAgree
<1>22. CASE DialLost
  BY <1>22 DEF TypeOK, DialLost, At, Goto, JobRecords, RowInv, OutcomesAgree
<1>23. CASE HangUpLost
  BY <1>23 DEF TypeOK, HangUpLost, At, JobRecords, RowInv, OutcomesAgree
<1>24. CASE JobThrows
  BY <1>24 DEF TypeOK, JobThrows, Breaks, JobRecords, RowInv, OutcomesAgree, At
<1>25. CASE Crash
  BY <1>25 DEF TypeOK, Crash, Breaks, JobRecords, JobSteps, Settled, RowInv,
     OutcomesAgree, Outcome, At
<1>26. CASE VoiceCannotConnect
  BY <1>26 DEF TypeOK, VoiceCannotConnect, VoiceGone, Failed, JobRecords, RowInv, OutcomesAgree, Outcome, At
<1>27. CASE SocketBreaks
  BY <1>27 DEF TypeOK, SocketBreaks, VoiceGone, Failed, EndsBridge, JobRecords, RowInv, OutcomesAgree,
     Outcome, At
<1>28. CASE EventLost
  BY <1>28 DEF TypeOK, EventLost, JobRecords, RowInv, OutcomesAgree, Outcome, At
<1>29. CASE Accept
  BY <1>29 DEF TypeOK, Accept, JobRecords, RowInv, OutcomesAgree, Outcome, At
<1>30. CASE DialCustomer
  BY <1>30 DEF TypeOK, DialCustomer, JobRecords, RowInv, OutcomesAgree, Outcome, At
<1>31. CASE Dialed
  BY <1>31 DEF TypeOK, Dialed, JobRecords, RowInv, OutcomesAgree, Outcome, At
<1>32. CASE Refuse
  BY <1>32 DEF TypeOK, Refuse, JobRecords, RowInv, OutcomesAgree, Outcome, At
<1>33. CASE Delete
  BY <1>33 DEF TypeOK, Delete, Ended, JobRecords, RowInv, OutcomesAgree, Outcome, At
<1>34. CASE Cleanup
  BY <1>34 DEF TypeOK, Cleanup, Swipe, JobRecords, RowInv, OutcomesAgree, Outcome, At
<1>35. CASE AddReturns
  BY <1>35 DEF TypeOK, AddReturns, JobRecords, RowInv, OutcomesAgree, Outcome, At
<1>36. CASE CustomerRings
  BY <1>36 DEF TypeOK, CustomerRings, Attached, Replaced, Known, JobRecords, RowInv, OutcomesAgree,
     Outcome, At
<1>37. CASE CustomerAnswers
  BY <1>37 DEF TypeOK, CustomerAnswers, Attached, Replaced, Known, JobRecords, RowInv, OutcomesAgree,
     Outcome, At
<1>38. CASE CustomerLeaves
  BY <1>38 DEF TypeOK, CustomerLeaves, Ended, Known, JobRecords, RowInv, OutcomesAgree, Outcome, At
<1>39. CASE AsteriskConnects
  BY <1>39 DEF TypeOK, AsteriskConnects, Copied, Replaced, JobRecords, RowInv, OutcomesAgree, Outcome, At
<1>40. CASE VoiceConnects
  BY <1>40 DEF TypeOK, VoiceConnects, VoiceGone, Failed, JobRecords, RowInv, OutcomesAgree, Outcome, At
<1>41. CASE AsteriskCloses
  BY <1>41 DEF TypeOK, AsteriskCloses, Ended, JobRecords, RowInv, OutcomesAgree, Outcome, At
<1>42. CASE EngineHearsStop
  BY <1>42 DEF TypeOK, EngineHearsStop, VoiceGone, Failed, EndsBridge, JobRecords, RowInv, OutcomesAgree,
     Outcome, At
<1>43. CASE Event
  BY <1>43 DEF TypeOK, Event, EndsBridge, JobRecords, RowInv, OutcomesAgree, Outcome, At
<1>44. CASE DeadLetterLost
  BY <1>44 DEF DeadLetterLost, At, TypeOK, JobRecords, RowInv, OutcomesAgree
<1>45. CASE CleanupRefused
  BY <1>45 DEF CleanupRefused, Swipe, TypeOK, JobRecords, RowInv, OutcomesAgree, Outcome,
     At
<1>46. CASE UNCHANGED vars
  BY <1>46 DEF vars, JobRecords, RowInv, OutcomesAgree, Outcome, At
<1> QED
  BY <1>1, <1>2, <1>3, <1>4, <1>5, <1>6, <1>7, <1>8, <1>9, <1>10, <1>11, <1>12,
     <1>13, <1>14, <1>15, <1>16, <1>17, <1>18, <1>19, <1>20, <1>21, <1>22, <1>23, <1>24,
     <1>25, <1>26, <1>27, <1>28, <1>29, <1>30, <1>31, <1>32, <1>33, <1>34, <1>35, <1>36,
     <1>37, <1>38, <1>39, <1>40, <1>41, <1>42, <1>43, <1>44, <1>45, <1>46
  DEF Next, Job, Clock, Trouble, GatewayStep, Phone, Media

(* Every step keeps what the gateway knows in step with the job.           *)
LEMMA PostInvStep == IInv /\ [Next]_vars => PostInv'
<1> SUFFICES ASSUME IInv, [Next]_vars PROVE PostInv'
  OBVIOUS
<1> USE DEF IInv
<1>1. CASE NotAllowed
  BY <1>1 DEF NotAllowed, At, Goto, PostInv, Early, Past
<1>2. CASE ContactIsDnc
  BY <1>2 DEF ContactIsDnc, At, Goto, PostInv, Early, Past
<1>3. CASE Allowed
  BY <1>3 DEF Allowed, At, Goto, PostInv, Early, Past
<1>4. CASE CreateRow
  BY <1>4 DEF CreateRow, At, Goto, PostInv, Early, Past
<1>5. CASE MarkCalling
  BY <1>5 DEF MarkCalling, At, Goto, PostInv, Early, Past
<1>6. CASE Dial
  BY <1>6 DEF Dial, At, Goto, AtGate, NoEntry, PostInv, Early, Past
<1>7. CASE DialAnswered
  BY <1>7 DEF DialAnswered, At, Goto, PostInv, Early, Past
<1>8. CASE DialRefused
  BY <1>8 DEF DialRefused, At, Goto, TypeOK, JobRecords, PostInv, Handled, Early, Past
<1>9. CASE MarkRinging
  BY <1>9 DEF MarkRinging, At, Goto, PostInv, Early
<1>10. CASE StartBridge
  BY <1>10 DEF StartBridge, At, PostInv, Early
<1>11. CASE HangUp
  BY <1>11 DEF HangUp, At, Goto, AtGate, PostInv, Early
<1>12. CASE HungUp
  BY <1>12 DEF HungUp, At, Goto, PostInv, Early
<1>13. CASE SaveRow
  BY <1>13 DEF SaveRow, At, Goto, PostInv, Early, Past
<1>14. CASE ReportContact
  BY <1>14 DEF ReportContact, At, Goto, PostInv, Early, Past
<1>15. CASE Finish
  BY <1>15 DEF Finish, At, Goto, TypeOK, JobRecords, PostInv, SweepInv,
    Handled, Early, Past
<1>16. CASE DeadLetter
  BY <1>16 DEF DeadLetter, At, Goto, PostInv, Early, Past
<1>17. CASE StalledRequeue
  <2>1. CASE job.run < MaxRuns
    <3>1. job'.pc = "waiting" /\ gate' = NoCall /\ ~missed' /\ ~letGo'
      BY <1>17, <2>1 DEF StalledRequeue, AtGate, TypeOK, JobRecords
    <3>2. ~entry'.here /\ ~entry'.attached
      BY <1>17 DEF StalledRequeue, At, PostInv
    <3> QED
      BY <3>1, <3>2, NoCallFields DEF PostInv, Past
  <2>2. CASE ~(job.run < MaxRuns)
    <3>1. job'.pc = "failing"
      BY <1>17, <2>2 DEF StalledRequeue, Goto, TypeOK, JobRecords
    <3>2. UNCHANGED <<gate, missed, letGo, entry>> /\ job.pc = "stalled"
      BY <1>17, <2>2 DEF StalledRequeue, At
    <3> QED
      BY <3>1, <3>2 DEF PostInv, Early, Past
  <2> QED
    BY <2>1, <2>2
<1>18. CASE FiveSeconds
  BY <1>18 DEF FiveSeconds, At, PostInv
<1>19. CASE HardTimeout
  BY <1>19 DEF HardTimeout, At, Goto, PostInv, Early
<1>20. CASE SweepEntry
  BY <1>20 DEF SweepEntry, NoEntry, PostInv, Handled
<1>21. CASE BridgeEndsItself
  BY <1>21 DEF BridgeEndsItself, At, Goto, PostInv, Early
<1>22. CASE DialLost
  <2>1. job.pc = "dialing" /\ job'.pc = "refused" /\ letGo' /\ UNCHANGED entry
    BY <1>22 DEF DialLost, At, Goto
  <2>2. CASE UNCHANGED gate
    BY <2>1, <2>2 DEF PostInv, Early, Past
  <2>3. CASE gate' = NoCall
    BY <2>1, <2>3, NoCallFields DEF PostInv, Early, Past
  <2> QED
    BY <1>22, <2>2, <2>3 DEF DialLost, AtGate
<1>23. CASE HangUpLost
  BY <1>23 DEF HangUpLost, At, AtGate, PostInv
<1>24. CASE JobThrows
  BY <1>24 DEF JobThrows, Breaks, TypeOK, JobRecords, PostInv, Early, Past
<1>25. CASE Crash
  <2>1. /\ job'.pc = "stalled" /\ job.pc \notin Settled /\ entry' = NoEntry
        /\ letGo' = (letGo \/ gate.post # "none")
    BY <1>25 DEF Crash, Breaks, TypeOK, JobRecords
  <2>2. gate' = gate \/ (gate' = VoiceGone(gate) /\ gate.vsock # "none")
    BY <1>25 DEF Crash, AtGate
  <2>3. /\ gate'.post = gate.post /\ gate'.st = gate.st /\ gate'.cust = gate.cust
        /\ gate'.adding = gate.adding /\ gate'.att = gate.att
        /\ gate.sweeps \subseteq gate'.sweeps
        /\ "both" \in gate'.sweeps => "both" \in gate.sweeps \/ gate.att # "no"
    BY <2>2, VoiceGoneFields DEF TypeOK
  <2>4. gate' = gate \/ gate.post \notin {"none", "sent"}
    BY <2>2, UntouchedGate
  <2> QED
    BY <2>1, <2>3, <2>4 DEF PostInv, NoEntry, Early, Past
<1>26. CASE VoiceCannotConnect
  BY <1>26 DEF VoiceCannotConnect, AtGate, VoiceGone, Failed, Swept, PostInv, Handled,
     NoCall
<1>27. CASE SocketBreaks
  <2>1. /\ gate' = VoiceGone(gate) /\ gate.vsock # "none"
        /\ entry' = [entry EXCEPT !.socket = FALSE] /\ UNCHANGED letGo
    BY <1>27 DEF SocketBreaks, AtGate
  <2>2. job'.pc = job.pc \/ (job.pc = "bridged" /\ job'.pc = "ended")
    BY <1>27 DEF SocketBreaks, EndsBridge, At
  <2>3. entry'.here = entry.here /\ entry'.attached = entry.attached
    BY <2>1
  <2>4. /\ gate'.post = gate.post /\ gate'.st = gate.st /\ gate'.cust = gate.cust
        /\ gate'.adding = gate.adding /\ gate'.att = gate.att
        /\ gate.sweeps \subseteq gate'.sweeps
        /\ "both" \in gate'.sweeps => "both" \in gate.sweeps \/ gate.att # "no"
    BY <2>1, VoiceGoneFields DEF TypeOK
  <2>5. gate.post \notin {"none", "sent"}
    BY <2>1, UntouchedGate
  <2>6. job.pc \notin Early
    BY <2>5 DEF PostInv
  <2> QED
    BY <2>1, <2>2, <2>3, <2>4, <2>5, <2>6 DEF PostInv, Handled, Early
<1>28. CASE EventLost
  BY <1>28 DEF EventLost, AtGate, PostInv, Handled, NoCall
<1>29. CASE Accept
  BY <1>29 DEF Accept, AtGate, PostInv, Handled
<1>30. CASE DialCustomer
  BY <1>30 DEF DialCustomer, AtGate, PostInv, Handled
<1>31. CASE Dialed
  BY <1>31 DEF Dialed, AtGate, PostInv, Handled
<1>32. CASE Refuse
  BY <1>32 DEF Refuse, AtGate, PostInv
<1>33. CASE Delete
  BY <1>33 DEF Delete, AtGate, Ended, Swept, PostInv, Handled, NoCall
<1>34. CASE Cleanup
  <2>1. PICK s \in gate.sweeps : Swipe(s, {})
    BY <1>34 DEF Cleanup
  <2>2. /\ s \in gate.sweeps /\ s \in {"both", "media"}
        /\ gate'.post = gate.post /\ gate'.st = gate.st
        /\ gate'.sweeps = gate.sweeps \ {s} /\ gate'.adding \in {"no", gate.adding}
        /\ (gate.att = "no" => gate'.att = "no")
        /\ gate'.cust \in {gate.cust, "gone"}
        /\ (gate.cust = "none" => gate'.cust = "none")
        /\ (letGo => letGo')
        /\ (s = "both" /\ gate.cust # "none" => gate'.cust = "gone" \/ letGo')
        /\ (s = "media" => letGo')
    BY <2>1, SwipeOK
  <2>3. gate.post \notin {"none", "sent"} /\ job.pc \notin Early
    BY <2>2, UntouchedGate DEF PostInv
  <2>4. Handled'
    BY <2>2 DEF Handled, PostInv
  <2>5. gate'.sweeps \subseteq gate.sweeps /\ (gate.cust = "none" <=> gate'.cust = "none")
    BY <2>2
  <2>6. UNCHANGED <<job, entry, missed>>
    BY <2>1 DEF Swipe
  <2> QED
    BY ONLY PostInv, <2>2, <2>3, <2>4, <2>5, <2>6 DEF PostInv
<1>35. CASE AddReturns
  BY <1>35 DEF AddReturns, AtGate, TypeOK, GateRecords, PostInv, Handled, NoCall
<1>36. CASE CustomerRings
  BY <1>36 DEF CustomerRings, AtGate, Attached, Replaced, Known, PostInv, Handled,
     NoCall
<1>37. CASE CustomerAnswers
  BY <1>37 DEF CustomerAnswers, AtGate, Attached, Replaced, Known, PostInv, Handled,
     NoCall
<1>38. CASE CustomerLeaves
  BY <1>38 DEF CustomerLeaves, AtGate, Ended, Known, PostInv, Handled, NoCall
<1>39. CASE AsteriskConnects
  BY <1>39 DEF AsteriskConnects, AtGate, Copied, Replaced, PostInv, Handled, NoCall
<1>40. CASE VoiceConnects
  <2>1. gate.vsock = "connecting" /\ UNCHANGED <<job, letGo, missed>>
    BY <1>40 DEF VoiceConnects
  <2>2. entry'.here = entry.here /\ entry'.attached = entry.attached
    BY <1>40 DEF VoiceConnects, TypeOK, EntryRecords
  <2>3. gate' = [gate EXCEPT !.vsock = "open"] \/ gate' = VoiceGone(gate)
    BY <1>40 DEF VoiceConnects, AtGate
  <2>4. /\ gate'.post = gate.post /\ gate'.st = gate.st /\ gate'.cust = gate.cust
        /\ gate'.adding = gate.adding /\ gate'.att = gate.att
        /\ gate.sweeps \subseteq gate'.sweeps
        /\ "both" \in gate'.sweeps => "both" \in gate.sweeps \/ gate.att # "no"
    <3>1. CASE gate' = [gate EXCEPT !.vsock = "open"]
      BY <3>1
    <3>2. CASE gate' = VoiceGone(gate)
      BY <3>2, VoiceGoneFields DEF TypeOK
    <3> QED
      BY <2>3, <3>1, <3>2
  <2>5. gate.post \notin {"none", "sent"}
    BY <2>1, UntouchedGate
  <2> QED
    BY <2>1, <2>2, <2>4, <2>5 DEF PostInv, Handled
<1>41. CASE AsteriskCloses
  BY <1>41 DEF AsteriskCloses, AtGate, Ended, Swept, PostInv, Handled, NoCall
<1>42. CASE EngineHearsStop
  <2>1. /\ gate' = VoiceGone(gate) /\ gate.vsock # "none"
        /\ entry' = [entry EXCEPT !.socket = FALSE] /\ UNCHANGED letGo
    BY <1>42 DEF EngineHearsStop, AtGate
  <2>2. job'.pc = job.pc \/ (job.pc = "bridged" /\ job'.pc = "ended")
    BY <1>42 DEF EngineHearsStop, EndsBridge, At
  <2>3. entry'.here = entry.here /\ entry'.attached = entry.attached
    BY <2>1
  <2>4. /\ gate'.post = gate.post /\ gate'.st = gate.st /\ gate'.cust = gate.cust
        /\ gate'.adding = gate.adding /\ gate'.att = gate.att
        /\ gate.sweeps \subseteq gate'.sweeps
        /\ "both" \in gate'.sweeps => "both" \in gate.sweeps \/ gate.att # "no"
    BY <2>1, VoiceGoneFields DEF TypeOK
  <2>5. gate.post \notin {"none", "sent"}
    BY <2>1, UntouchedGate
  <2>6. job.pc \notin Early
    BY <2>5 DEF PostInv
  <2> QED
    BY <2>1, <2>2, <2>3, <2>4, <2>5, <2>6 DEF PostInv, Handled, Early
<1>43. CASE Event
  <2>1. gate.event /\ gate' = [gate EXCEPT !.event = FALSE] /\ UNCHANGED <<entry, letGo>>
    BY <1>43 DEF Event, AtGate
  <2>2. job'.pc = job.pc \/ (job.pc = "bridged" /\ job'.pc = "ended")
    BY <1>43 DEF Event, EndsBridge, At
  <2>3. gate.post \notin {"none", "sent"}
    BY <2>1, UntouchedGate
  <2>4. /\ gate'.post = gate.post /\ gate'.st = gate.st /\ gate'.cust = gate.cust
        /\ gate'.adding = gate.adding /\ gate'.att = gate.att
        /\ gate'.sweeps = gate.sweeps
    BY <2>1
  <2>5. job.pc \notin Early
    BY <2>3 DEF PostInv
  <2> QED
    BY <2>1, <2>2, <2>3, <2>4, <2>5 DEF PostInv, Handled, Early
<1>44. CASE DeadLetterLost
  BY <1>44 DEF DeadLetterLost, At, TypeOK, JobRecords, PostInv, Early, Past
<1>45. CASE CleanupRefused
  <2>1. PICK s \in gate.sweeps, refused \in SUBSET {"customer", "media", "bridge"} :
          Swipe(s, refused)
    BY <1>45 DEF CleanupRefused
  <2>2. /\ s \in gate.sweeps /\ s \in {"both", "media"}
        /\ gate'.post = gate.post /\ gate'.st = gate.st
        /\ gate'.sweeps = gate.sweeps \ {s} /\ gate'.adding \in {"no", gate.adding}
        /\ (gate.att = "no" => gate'.att = "no")
        /\ gate'.cust \in {gate.cust, "gone"}
        /\ (gate.cust = "none" => gate'.cust = "none")
        /\ (letGo => letGo')
        /\ (s = "both" /\ gate.cust # "none" => gate'.cust = "gone" \/ letGo')
        /\ (s = "media" => letGo')
    BY <2>1, SwipeOK
  <2>3. gate.post \notin {"none", "sent"} /\ job.pc \notin Early
    BY <2>2, UntouchedGate DEF PostInv
  <2>4. Handled'
    BY <2>2 DEF Handled, PostInv
  <2>5. gate'.sweeps \subseteq gate.sweeps /\ (gate.cust = "none" <=> gate'.cust = "none")
    BY <2>2
  <2>6. UNCHANGED <<job, entry, missed>>
    BY <2>1 DEF Swipe
  <2> QED
    BY ONLY PostInv, <2>2, <2>3, <2>4, <2>5, <2>6 DEF PostInv
<1>46. CASE UNCHANGED vars
  BY <1>46 DEF vars, PostInv, Handled
<1> QED
  BY <1>1, <1>2, <1>3, <1>4, <1>5, <1>6, <1>7, <1>8, <1>9, <1>10, <1>11, <1>12,
     <1>13, <1>14, <1>15, <1>16, <1>17, <1>18, <1>19, <1>20, <1>21, <1>22, <1>23, <1>24,
     <1>25, <1>26, <1>27, <1>28, <1>29, <1>30, <1>31, <1>32, <1>33, <1>34, <1>35, <1>36,
     <1>37, <1>38, <1>39, <1>40, <1>41, <1>42, <1>43, <1>44, <1>45, <1>46
  DEF Next, Job, Clock, Trouble, GatewayStep, Phone, Media

(* Every step leaves a customer whose call has ended handled.              *)
LEMMA SweepInvStep == IInv /\ [Next]_vars => SweepInv'
<1> SUFFICES ASSUME IInv, [Next]_vars PROVE SweepInv'
  OBVIOUS
<1> USE DEF IInv
<1>1. CASE NotAllowed
  BY <1>1 DEF NotAllowed, Goto, SweepInv, Handled, Past
<1>2. CASE ContactIsDnc
  BY <1>2 DEF ContactIsDnc, Goto, SweepInv, Handled, Past
<1>3. CASE Allowed
  BY <1>3 DEF Allowed, Goto, SweepInv, Handled, Past
<1>4. CASE CreateRow
  BY <1>4 DEF CreateRow, Goto, SweepInv, Handled, Past
<1>5. CASE MarkCalling
  BY <1>5 DEF MarkCalling, Goto, SweepInv, Handled, Past
<1>6. CASE Dial
  BY <1>6 DEF Dial, Goto, AtGate, SweepInv, Handled, Past
<1>7. CASE DialAnswered
  BY <1>7 DEF DialAnswered, Goto, SweepInv, Handled, Past
<1>8. CASE DialRefused
  BY <1>8 DEF DialRefused, Goto, TypeOK, JobRecords, SweepInv, Handled, Past
<1>9. CASE MarkRinging
  BY <1>9 DEF MarkRinging, Goto, SweepInv, Handled, Past
<1>10. CASE StartBridge
  BY <1>10 DEF StartBridge, SweepInv, Handled, Past
<1>11. CASE HangUp
  BY <1>11 DEF HangUp, Goto, AtGate, SweepInv, Handled, Past
<1>12. CASE HungUp
  BY <1>12 DEF HungUp, At, SweepInv, Handled
<1>13. CASE SaveRow
  BY <1>13 DEF SaveRow, At, SweepInv, Handled, Past
<1>14. CASE ReportContact
  BY <1>14 DEF ReportContact, At, SweepInv, Handled, Past
<1>15. CASE Finish
  BY <1>15 DEF Finish, Goto, SweepInv, Handled, Past
<1>16. CASE DeadLetter
  BY <1>16 DEF DeadLetter, Goto, SweepInv, Handled, Past
<1>17. CASE StalledRequeue
  <2>1. CASE job.run < MaxRuns
    <3>1. job'.pc = "waiting" /\ gate' = NoCall
      BY <1>17, <2>1 DEF StalledRequeue, AtGate, TypeOK, JobRecords
    <3> QED
      BY <3>1, NoCallFields DEF SweepInv, Past
  <2>2. CASE ~(job.run < MaxRuns)
    <3>1. job'.pc = "failing" /\ UNCHANGED <<gate, letGo>>
      BY <1>17, <2>2 DEF StalledRequeue, Goto, TypeOK, JobRecords
    <3> QED
      BY <3>1 DEF SweepInv, Past, Handled
  <2> QED
    BY <2>1, <2>2
<1>18. CASE FiveSeconds
  BY <1>18 DEF FiveSeconds, SweepInv, Handled
<1>19. CASE HardTimeout
  BY <1>19 DEF HardTimeout, Goto, SweepInv, Handled, Past
<1>20. CASE SweepEntry
  BY <1>20 DEF SweepEntry, SweepInv, Handled
<1>21. CASE BridgeEndsItself
  BY <1>21 DEF BridgeEndsItself, Goto, SweepInv, Handled, Past
<1>22. CASE DialLost
  BY <1>22 DEF DialLost, SweepInv, Handled
<1>23. CASE HangUpLost
  BY <1>23 DEF HangUpLost, SweepInv, Handled
<1>24. CASE JobThrows
  BY <1>24 DEF JobThrows, Breaks, TypeOK, SweepInv, Handled, Past
<1>25. CASE Crash
  BY <1>25 DEF Crash, Breaks, AtGate, VoiceGone, Failed, TypeOK, SweepInv, Handled, Past
<1>26. CASE VoiceCannotConnect
  BY <1>26 DEF VoiceCannotConnect, AtGate, VoiceGone, Failed, SweepInv, Handled
<1>27. CASE SocketBreaks
  BY <1>27 DEF SocketBreaks, AtGate, VoiceGone, Failed, EndsBridge, SweepInv, Handled,
     Past
<1>28. CASE EventLost
  BY <1>28 DEF EventLost, AtGate, SweepInv, Handled
<1>29. CASE Accept
  BY <1>29 DEF Accept, AtGate, SweepInv, Handled
<1>30. CASE DialCustomer
  BY <1>30 DEF DialCustomer, AtGate, SweepInv, Handled
<1>31. CASE Dialed
  BY <1>31 DEF Dialed, AtGate, SweepInv, Handled
<1>32. CASE Refuse
  BY <1>32 DEF Refuse, AtGate, SweepInv, PostInv
<1>33. CASE Delete
  BY <1>33 DEF Delete, AtGate, Ended, SweepInv, Handled
<1>34. CASE Cleanup
  <2>1. PICK s \in gate.sweeps : Swipe(s, {})
    BY <1>34 DEF Cleanup
  <2>2. /\ s \in {"both", "media"} /\ s \in gate.sweeps
        /\ (s = "both" /\ gate.cust # "none" => gate'.cust = "gone" \/ letGo')
        /\ (s = "media" => letGo')
    BY <2>1, SwipeOK
  <2>3. Handled'
    BY <2>2 DEF Handled, PostInv
  <2> QED
    BY <2>3 DEF SweepInv
<1>35. CASE AddReturns
  BY <1>35 DEF AddReturns, AtGate, SweepInv, Handled
<1>36. CASE CustomerRings
  BY <1>36 DEF CustomerRings, AtGate, Attached, Replaced, Known, SweepInv, Handled
<1>37. CASE CustomerAnswers
  BY <1>37 DEF CustomerAnswers, AtGate, Attached, Replaced, Known, SweepInv, Handled
<1>38. CASE CustomerLeaves
  BY <1>38 DEF CustomerLeaves, AtGate, Ended, Known, SweepInv, Handled
<1>39. CASE AsteriskConnects
  BY <1>39 DEF AsteriskConnects, AtGate, Copied, Replaced, SweepInv, Handled
<1>40. CASE VoiceConnects
  <2>1. gate.vsock = "connecting" /\ UNCHANGED <<job, letGo, missed>>
    BY <1>40 DEF VoiceConnects
  <2>2. entry'.here = entry.here /\ entry'.attached = entry.attached
    BY <1>40 DEF VoiceConnects, TypeOK, EntryRecords
  <2>3. gate' = [gate EXCEPT !.vsock = "open"] \/ gate' = VoiceGone(gate)
    BY <1>40 DEF VoiceConnects, AtGate
  <2>4. /\ gate'.del = gate.del /\ gate'.st = gate.st /\ gate'.cust = gate.cust
        /\ gate'.adding = gate.adding /\ gate'.att = gate.att
        /\ gate.sweeps \subseteq gate'.sweeps
        /\ "both" \in gate'.sweeps => "both" \in gate.sweeps \/ gate.att # "no"
    <3>1. CASE gate' = [gate EXCEPT !.vsock = "open"]
      BY <3>1
    <3>2. CASE gate' = VoiceGone(gate)
      BY <3>2, VoiceGoneFields DEF TypeOK
    <3> QED
      BY <2>3, <3>1, <3>2
  <2> QED
    BY <2>1, <2>4 DEF SweepInv, Handled
<1>41. CASE AsteriskCloses
  BY <1>41 DEF AsteriskCloses, AtGate, Ended, SweepInv, Handled
<1>42. CASE EngineHearsStop
  BY <1>42 DEF EngineHearsStop, AtGate, VoiceGone, Failed, EndsBridge, SweepInv,
     Handled, Past
<1>43. CASE Event
  BY <1>43 DEF Event, AtGate, EndsBridge, SweepInv, Handled, Past
<1>44. CASE DeadLetterLost
  BY <1>44 DEF DeadLetterLost, SweepInv, Handled, TypeOK, JobRecords, Past
<1>45. CASE CleanupRefused
  <2>1. PICK s \in gate.sweeps, refused \in SUBSET {"customer", "media", "bridge"} :
          Swipe(s, refused)
    BY <1>45 DEF CleanupRefused
  <2>2. /\ s \in {"both", "media"} /\ s \in gate.sweeps
        /\ (s = "both" /\ gate.cust # "none" => gate'.cust = "gone" \/ letGo')
        /\ (s = "media" => letGo')
    BY <2>1, SwipeOK
  <2>3. Handled'
    BY <2>2 DEF Handled, PostInv
  <2> QED
    BY <2>3 DEF SweepInv
<1>46. CASE UNCHANGED vars
  BY <1>46 DEF vars, SweepInv, Handled
<1> QED
  BY <1>1, <1>2, <1>3, <1>4, <1>5, <1>6, <1>7, <1>8, <1>9, <1>10, <1>11, <1>12,
     <1>13, <1>14, <1>15, <1>16, <1>17, <1>18, <1>19, <1>20, <1>21, <1>22, <1>23, <1>24,
     <1>25, <1>26, <1>27, <1>28, <1>29, <1>30, <1>31, <1>32, <1>33, <1>34, <1>35, <1>36,
     <1>37, <1>38, <1>39, <1>40, <1>41, <1>42, <1>43, <1>44, <1>45, <1>46
  DEF Next, Job, Clock, Trouble, GatewayStep, Phone, Media

(* Every step leaves an end that nobody was told of still to be told.      *)
LEMMA EndInvStep == IInv /\ [Next]_vars => EndInv'
<1> SUFFICES ASSUME IInv, [Next]_vars PROVE EndInv'
  OBVIOUS
<1> USE DEF IInv
<1>1. CASE NotAllowed
  BY <1>1 DEF NotAllowed, Goto, EndInv, InCall
<1>2. CASE ContactIsDnc
  BY <1>2 DEF ContactIsDnc, Goto, EndInv, InCall
<1>3. CASE Allowed
  BY <1>3 DEF Allowed, Goto, EndInv, InCall
<1>4. CASE CreateRow
  BY <1>4 DEF CreateRow, Goto, EndInv, InCall
<1>5. CASE MarkCalling
  BY <1>5 DEF MarkCalling, Goto, EndInv, InCall
<1>6. CASE Dial
  BY <1>6 DEF Dial, At, AtGate, EndInv, PostInv, Early, NoCall
<1>7. CASE DialAnswered
  BY <1>7 DEF DialAnswered, At, EndInv, InCall
<1>8. CASE DialRefused
  BY <1>8 DEF DialRefused, Goto, TypeOK, JobRecords, EndInv, InCall
<1>9. CASE MarkRinging
  BY <1>9 DEF MarkRinging, At, EndInv, InCall
<1>10. CASE StartBridge
  BY <1>10 DEF StartBridge, At, EndInv, InCall
<1>11. CASE HangUp
  BY <1>11 DEF HangUp, Goto, EndInv, InCall
<1>12. CASE HungUp
  BY <1>12 DEF HungUp, Goto, EndInv, InCall
<1>13. CASE SaveRow
  BY <1>13 DEF SaveRow, Goto, EndInv, InCall
<1>14. CASE ReportContact
  BY <1>14 DEF ReportContact, Goto, EndInv, InCall
<1>15. CASE Finish
  BY <1>15 DEF Finish, Goto, EndInv, InCall
<1>16. CASE DeadLetter
  BY <1>16 DEF DeadLetter, Goto, EndInv, InCall
<1>17. CASE StalledRequeue
  BY <1>17 DEF StalledRequeue, Goto, TypeOK, JobRecords, EndInv, InCall
<1>18. CASE FiveSeconds
  BY <1>18 DEF FiveSeconds, EndInv
<1>19. CASE HardTimeout
  BY <1>19 DEF HardTimeout, Goto, EndInv, InCall
<1>20. CASE SweepEntry
  BY <1>20 DEF SweepEntry, EndInv
<1>21. CASE BridgeEndsItself
  BY <1>21 DEF BridgeEndsItself, Goto, EndInv, InCall
<1>22. CASE DialLost
  BY <1>22 DEF DialLost, Goto, EndInv, InCall
<1>23. CASE HangUpLost
  BY <1>23 DEF HangUpLost, AtGate, EndInv
<1>24. CASE JobThrows
  BY <1>24 DEF JobThrows, Breaks, TypeOK, JobRecords, EndInv, InCall
<1>25. CASE Crash
  BY <1>25 DEF Crash, VoiceGone, Failed, EndInv
<1>26. CASE VoiceCannotConnect
  BY <1>26 DEF VoiceCannotConnect, AtGate, VoiceGone, Failed, EndInv
<1>27. CASE SocketBreaks
  BY <1>27 DEF SocketBreaks, AtGate, VoiceGone, Failed, EndsBridge, TypeOK, EndInv,
     InCall
<1>28. CASE EventLost
  BY <1>28 DEF EventLost, EndInv
<1>29. CASE Accept
  BY <1>29 DEF Accept, AtGate, EndInv
<1>30. CASE DialCustomer
  BY <1>30 DEF DialCustomer, AtGate, EndInv
<1>31. CASE Dialed
  BY <1>31 DEF Dialed, AtGate, EndInv
<1>32. CASE Refuse
  BY <1>32 DEF Refuse, AtGate, EndInv
<1>33. CASE Delete
  BY <1>33 DEF Delete, AtGate, Ended, EndInv
<1>34. CASE Cleanup
  BY <1>34 DEF Cleanup, Swipe, EndInv
<1>35. CASE AddReturns
  BY <1>35 DEF AddReturns, AtGate, EndInv
<1>36. CASE CustomerRings
  BY <1>36 DEF CustomerRings, AtGate, Attached, Replaced, Known, EndInv
<1>37. CASE CustomerAnswers
  BY <1>37 DEF CustomerAnswers, AtGate, Attached, Replaced, Known, EndInv, PostInv,
     NoCall
<1>38. CASE CustomerLeaves
  BY <1>38 DEF CustomerLeaves, AtGate, Ended, Known, EndInv, PostInv, NoCall
<1>39. CASE AsteriskConnects
  BY <1>39 DEF AsteriskConnects, AtGate, Copied, Replaced, EndInv
<1>40. CASE VoiceConnects
  <2>1. UNCHANGED <<job, missed>>
    BY <1>40 DEF VoiceConnects
  <2>2. CASE gate' = [gate EXCEPT !.vsock = "open"]
    <3>1. /\ gate'.st = gate.st /\ gate'.cust = gate.cust /\ gate'.event = gate.event
          /\ gate'.adding = gate.adding /\ gate'.sweeps = gate.sweeps
      BY <2>2
    <3> QED
      BY <2>1, <3>1 DEF EndInv
  <2>3. CASE gate' = VoiceGone(gate)
    BY <2>1, <2>3, VoiceGoneFields DEF EndInv, TypeOK
  <2> QED
    BY <1>40, <2>2, <2>3 DEF VoiceConnects, AtGate
<1>41. CASE AsteriskCloses
  BY <1>41 DEF AsteriskCloses, AtGate, Ended, EndInv
<1>42. CASE EngineHearsStop
  BY <1>42 DEF EngineHearsStop, AtGate, VoiceGone, Failed, EndsBridge, TypeOK, EndInv,
     InCall
<1>43. CASE Event
  <2>1. CASE EndsBridge
    BY <1>43, <2>1 DEF Event, EndInv, InCall
  <2>2. CASE ~EndsBridge
    <3>1. UNCHANGED job /\ missed' = (missed \/ ~entry.attached)
      BY <1>43, <2>2 DEF Event
    <3>2. job.pc \in InCall /\ entry.attached => EndsBridge
      BY DEF EndsBridge, At, InCall, PostInv
    <3> QED
      BY <2>2, <3>1, <3>2 DEF EndInv
  <2> QED
    BY <2>1, <2>2
<1>44. CASE DeadLetterLost
  BY <1>44 DEF DeadLetterLost, TypeOK, JobRecords, EndInv, InCall
<1>45. CASE CleanupRefused
  BY <1>45 DEF CleanupRefused, Swipe, EndInv
<1>46. CASE UNCHANGED vars
  BY <1>46 DEF vars, EndInv
<1> QED
  BY <1>1, <1>2, <1>3, <1>4, <1>5, <1>6, <1>7, <1>8, <1>9, <1>10, <1>11, <1>12,
     <1>13, <1>14, <1>15, <1>16, <1>17, <1>18, <1>19, <1>20, <1>21, <1>22, <1>23, <1>24,
     <1>25, <1>26, <1>27, <1>28, <1>29, <1>30, <1>31, <1>32, <1>33, <1>34, <1>35, <1>36,
     <1>37, <1>38, <1>39, <1>40, <1>41, <1>42, <1>43, <1>44, <1>45, <1>46
  DEF Next, Job, Clock, Trouble, GatewayStep, Phone, Media

(* The inductive invariant holds at the start, and every step keeps it.     *)
LEMMA InitIInv == Init => IInv
<1> SUFFICES ASSUME Init PROVE IInv
  OBVIOUS
<1>1. gate \in GateRecords
  BY NoCallOK DEF Init
<1>2. job \in JobRecords
  <2>1. 1 \in 1..MaxRuns /\ "waiting" \in JobSteps
    BY RunsAssumption DEF JobSteps
  <2> QED
    BY <2>1 DEF Init, JobRecords, Rows
<1>3. entry \in EntryRecords
  BY DEF Init, NoEntry, EntryRecords
<1>4. TypeOK
  <2>1. contact \in Contacts /\ row \in Rows
    BY DEF Init, Contacts, Rows
  <2>2. missed \in BOOLEAN /\ letGo \in BOOLEAN
    BY DEF Init
  <2>3. faults \in 0..MaxFaults
    BY RunsAssumption DEF Init
  <2> QED
    BY <1>1, <1>2, <1>3, <2>1, <2>2, <2>3 DEF TypeOK
<1>5. RowInv /\ EndInv
  BY DEF Init, RowInv, EndInv, OutcomesAgree, At, InCall, Under, Called, CutShort
<1>6. PostInv /\ SweepInv
  BY NoCallFields DEF Init, PostInv, SweepInv, Past, NoEntry
<1> QED
  BY <1>4, <1>5, <1>6 DEF IInv

(* The inductive invariant.                                                *)
LEMMA Invariant == Spec => []IInv
<1>1. IInv /\ [Next]_vars => IInv'
  BY TypeOKStep, RowInvStep, PostInvStep, SweepInvStep, EndInvStep DEF IInv
<1> QED
  BY InitIInv, <1>1, PTL DEF Spec

(* A customer left on the line was let go: his call is over, or there is   *)
(* none.                                                                   *)
LEMMA Explained == IInv => EndsExplained
<1> SUFFICES ASSUME IInv PROVE EndsExplained
  OBVIOUS
<1>1. TypeOK
  BY DEF IInv
<1>2. DeafBridgeExplained
  BY DEF IInv, EndInv, InCall, DeafBridgeExplained, Over, At
<1>3. GhostExplained
  <2> SUFFICES ASSUME job.pc \in Settled, Ghost PROVE letGo
    BY DEF GhostExplained
  <2>1. gate.cust \notin {"none", "gone"} /\ gate.sweeps = {} /\ gate.post = "ok"
    BY DEF Ghost, IInv, PostInv
  <2> QED
    BY <2>1 DEF IInv, PostInv, Handled, Settled
<1> QED
  BY <1>1, <1>2, <1>3 DEF EndsExplained

(* For any number of runs and faults: no end of a call stays unexplained,  *)
(* neither a bridge that outlives its call nor a customer left on the line *)
(* when the job has settled.                                               *)
THEOREM ExplainedEnds == Spec => []EndsExplained
  BY Invariant, Explained, PTL

(* For any number of runs and faults: a settled job leaves the contact as  *)
(* its row says, or as the property names it: as a run that died left it,  *)
(* dnc, or failed.                                                         *)
THEOREM AgreeingOutcomes == Spec => []OutcomesAgree
<1>1. IInv => OutcomesAgree
  BY DEF IInv, RowInv
<1> QED
  BY Invariant, <1>1, PTL
=============================================================================
