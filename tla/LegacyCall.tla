---------------------------- MODULE LegacyCall ----------------------------
(***************************************************************************)
(* The legacy engine (apps/voice-engine) and its gateway                   *)
(* (asterisk-gateway) around ONE call job: the BullMQ job that             *)
(* processCallJob runs, the campaign contact and the call row it writes,   *)
(* the registry of pending calls in sip-routes, the gateway's record of    *)
(* the call with the two Asterisk channels and the two media sockets, and  *)
(* what travels between the two processes: POST /calls, DELETE /calls, the *)
(* lifecycle events, the media WebSocket.                                  *)
(*                                                                         *)
(* The engine may die in mid-call; BullMQ then runs the stalled job once   *)
(* more, under a new call row and a new call; of the one before only the   *)
(* status its row was left with is remembered.                             *)
(*                                                                         *)
(* Left out: the audio (LegacyBridge), and what nobody reads back: the     *)
(* quota counter, the audit log, the recording, which status of a live     *)
(* call the gateway's record and the registry show.                        *)
(***************************************************************************)
EXTENDS Naturals, FiniteSets

CONSTANTS
    MaxRuns,    \* runs of one job: BullMQ starts a stalled job once more
    MaxFaults   \* failing requests, lost messages, broken sockets, crashes

ASSUME RunsAssumption == MaxRuns \in Nat \ {0} /\ MaxFaults \in Nat

VARIABLES
    job,      \* the job: where it stands, its run, its bridge's clock; and
              \* for the properties past, the row of the run that died, late:
              \* something failed after the row was saved, and mute: the dead
              \* letter was not written
    contact,  \* campaign_contacts.status
    row,      \* calls.status of the current run's row
    entry,    \* pendingCalls: the engine's registry
    gate,     \* the gateway's record of the call, its channels, sockets
    faults,   \* faults so far (bounded by MaxFaults)
    missed,   \* the end of the call was told to nobody
    letGo     \* no hang-up came through, or the clean-up knew no customer
              \* channel, or Asterisk refused to delete it

vars == <<job, contact, row, entry, gate, faults, missed, letGo>>

Settled == {"done", "failed"}
JobSteps ==
    {"waiting", "checked", "created", "marked", "dialing", "dialed",
     "ringing", "bridged", "ended", "hanging", "hungUp", "saved",
     "reported", "refused", "failing", "stalled"} \cup Settled
Rows == {"none", "initiated", "ringing", "connected",
         "completed", "no_answer", "failed"}
Contacts == {"pending", "calling", "completed", "no_answer", "failed", "dnc"}

(* An entry of pendingCalls: whether it is there, whether the bridge's     *)
(* handlers are attached, whether it holds a gateway socket.               *)
NoEntry == [here |-> FALSE, attached |-> FALSE, socket |-> FALSE]

(* The call at the gateway.  st: "live" stands for creating, dialing,      *)
(* ringing, connected and media_connected, and for bridge_failed too: the  *)
(* guards look for failed and ended only.                                  *)
(* att: customerChannelId is set; "lost": it is not, but channelToCall     *)
(* still leads to the call; "unmapped": the other way round.  orig: whether the map still holds the object  *)
(* POST /calls made, and if not, whether that object was given the         *)
(* customer's channel before it was replaced (asked until POST answers).   *)
(* adding: the status the customer's addChannel will write back.  sweeps:  *)
(* clean-ups under way, with or without the customer's channel.  event: a  *)
(* lifecycle event of the call's end is on the way.  The media channel's   *)
(* addChannel is one step with its start.                                  *)
NoCall == [st |-> "none", att |-> "no", orig |-> "stored", adding |-> "no",
           sweeps |-> {}, event |-> FALSE, post |-> "none", del |-> FALSE,
           cust |-> "none", media |-> FALSE, asock |-> "none", vsock |-> "none"]

Init ==
    /\ job = [pc |-> "waiting", run |-> 1, short |-> TRUE,
              past |-> "none", late |-> FALSE, mute |-> FALSE]
    /\ contact = "pending"
    /\ row = "none"
    /\ entry = NoEntry
    /\ gate = NoCall
    /\ faults = 0
    /\ missed = FALSE
    /\ letGo = FALSE

At(pc) == job.pc = pc
Goto(pc) == job' = [job EXCEPT !.pc = pc]
SetRow(status) == row' = status
Breaks(pc) ==
    job' = [job EXCEPT !.pc = pc, !.late = @ \/ job.pc \in {"saved", "reported"}]
AtGate(g) == gate' = g
Fault == faults < MaxFaults /\ faults' = faults + 1
Unregister == entry' = NoEntry

(* The bridge's end: endBridge does nothing when it has already ended.     *)
EndsBridge == At("bridged") /\ entry.attached

-----------------------------------------------------------------------------
(* THE JOB UP TO THE DIAL                                                  *)

(* An entity is missing, or the campaign, the schedule or the limit says   *)
(* no: the job returns and leaves the contact as it was.                   *)
NotAllowed ==
    /\ At("waiting")
    /\ Goto("done")
    /\ UNCHANGED <<contact, row, entry, gate, faults, missed, letGo>>

ContactIsDnc ==
    /\ At("waiting")
    /\ contact' = "dnc"
    /\ Goto("done")
    /\ UNCHANGED <<row, entry, gate, faults, missed, letGo>>

Allowed ==
    /\ At("waiting")
    /\ Goto("checked")
    /\ UNCHANGED <<contact, row, entry, gate, faults, missed, letGo>>

CreateRow ==
    /\ At("checked")
    /\ SetRow("initiated")
    /\ Goto("created")
    /\ UNCHANGED <<contact, entry, gate, faults, missed, letGo>>

MarkCalling ==
    /\ At("created")
    /\ contact' = "calling"
    /\ Goto("marked")
    /\ UNCHANGED <<row, entry, gate, faults, missed, letGo>>

(* registerPendingCall, then POST /calls without an await between them.    *)
Dial ==
    /\ At("marked")
    /\ entry' = [NoEntry EXCEPT !.here = TRUE]
    /\ AtGate([gate EXCEPT !.post = "sent"])
    /\ Goto("dialing")
    /\ UNCHANGED <<contact, row, faults, missed, letGo>>

DialAnswered ==
    /\ At("dialing") /\ gate.post \in {"ok", "refused"}
    /\ Goto(IF gate.post = "ok" THEN "dialed" ELSE "refused")
    /\ UNCHANGED <<contact, row, entry, gate, faults, missed, letGo>>

(* The answer, or the request itself, is lost: for the engine the dial has *)
(* failed, and it keeps no sipCallId to hang up.                           *)
DialLost ==
    /\ At("dialing")
    /\ Fault
    /\ \/ UNCHANGED gate
       \/ gate.post = "sent" /\ AtGate(NoCall)
    /\ letGo' = TRUE
    /\ Goto("refused")
    /\ UNCHANGED <<contact, row, entry, missed>>

DialRefusedSilently ==
    /\ At("refused")
    /\ SetRow("failed")
    /\ Unregister
    /\ Goto("done")
    /\ UNCHANGED <<contact, gate, faults, missed, letGo>>

(* Both requests of the failure path, either of which may throw.           *)
DialRefused ==
    /\ At("refused")
    /\ IF row = "failed"
       THEN /\ contact' = "failed"
            /\ Unregister
            /\ Goto("done")
            /\ UNCHANGED row
       ELSE /\ SetRow("failed")
            /\ UNCHANGED <<contact, entry, job>>
    /\ UNCHANGED <<gate, faults, missed, letGo>>

MarkRinging ==
    /\ At("dialed")
    /\ SetRow("ringing")
    /\ Goto("ringing")
    /\ UNCHANGED <<contact, entry, gate, faults, missed, letGo>>

(* The row says connected whatever the phone does; bridge.start() and      *)
(* attachMediaEvents follow in one go.  An entry swept by then is not made *)
(* anew: the bridge is deaf.  The clock of the bridge started before the   *)
(* request.                                                                *)
StartBridge ==
    /\ At("ringing")
    /\ SetRow("connected")
    /\ entry' = [entry EXCEPT !.attached = @ \/ entry.here]
    /\ missed' = (missed \/ ~entry.here)
    /\ job' = [job EXCEPT !.pc = "bridged", !.short = TRUE]
    /\ UNCHANGED <<contact, gate, faults, letGo>>

-----------------------------------------------------------------------------
(* THE BRIDGE'S CLOCK AND ITS OWN ENDS                                     *)

FiveSeconds ==
    /\ At("bridged") /\ job.short
    /\ job' = [job EXCEPT !.short = FALSE]
    /\ UNCHANGED <<contact, row, entry, gate, faults, missed, letGo>>

(* The sweep of the registry: entries without a socket, two minutes after  *)
(* registerPendingCall.                                                    *)
SweepEntry ==
    /\ entry.here /\ ~entry.socket
    /\ At("bridged") => ~job.short
    /\ entry' = NoEntry
    /\ missed' = TRUE
    /\ UNCHANGED <<job, contact, row, gate, faults, letGo>>

HardTimeoutOnceConnected ==
    /\ At("bridged") /\ ~job.short /\ entry.socket
    /\ Goto("ended")
    /\ UNCHANGED <<contact, row, entry, gate, faults, missed, letGo>>

(* callHardTimeoutMs: five minutes.                                        *)
HardTimeout ==
    /\ At("bridged") /\ ~job.short
    /\ Goto("ended")
    /\ UNCHANGED <<contact, row, entry, gate, faults, missed, letGo>>

(* The agent's end_call, or a session that could not be reconnected.       *)
BridgeEndsItself ==
    /\ At("bridged")
    /\ Goto("ended")
    /\ UNCHANGED <<contact, row, entry, gate, faults, missed, letGo>>

-----------------------------------------------------------------------------
(* THE JOB AFTER THE CALL                                                  *)

HangUpByClosing ==
    /\ At("ended")
    /\ Goto("hanging")
    /\ UNCHANGED <<contact, row, entry, gate, faults, missed, letGo>>

HangUp ==
    /\ At("ended")
    /\ AtGate([gate EXCEPT !.del = TRUE])
    /\ Goto("hanging")
    /\ UNCHANGED <<contact, row, entry, faults, missed, letGo>>

(* hangup() swallows its error.                                            *)
HangUpLost ==
    /\ At("hanging") /\ gate.del
    /\ Fault
    /\ AtGate([gate EXCEPT !.del = FALSE])
    /\ letGo' = TRUE
    /\ UNCHANGED <<job, contact, row, entry, missed>>

(* DELETE has been answered (or lost): cleanup, removePendingCall.         *)
HungUp ==
    /\ At("hanging") /\ ~gate.del
    /\ Unregister
    /\ Goto("hungUp")
    /\ UNCHANGED <<contact, row, gate, faults, missed, letGo>>

(* No answer is told from an answer by the length of the bridge alone: no  *)
(* reason the gateway gives is "no_answer".                                *)
Outcome == IF job.short THEN "no_answer" ELSE "completed"

SaveRow ==
    /\ At("hungUp")
    /\ SetRow(Outcome)
    /\ Goto("saved")
    /\ UNCHANGED <<contact, entry, gate, faults, missed, letGo>>

(* After the transcript, which may throw (JobThrows).                      *)
ReportContact ==
    /\ At("saved")
    /\ contact' = Outcome
    /\ Goto("reported")
    /\ UNCHANGED <<row, entry, gate, faults, missed, letGo>>

(* The follow-up and the audit log: reads and writes that may throw.       *)
Finish ==
    /\ At("reported")
    /\ Goto("done")
    /\ UNCHANGED <<contact, row, entry, gate, faults, missed, letGo>>

(* A request to the database fails and nothing catches it.  The bridge is  *)
(* awaited in a try block; the DELETE and the dial catch their own errors. *)
JobThrows ==
    /\ job.pc \in {"waiting", "checked", "created", "marked", "dialed",
                   "ringing", "hungUp", "saved", "reported", "refused"}
    /\ Fault
    /\ Breaks("failing")
    /\ letGo' = (letGo \/ gate.post = "ok")
    /\ UNCHANGED <<contact, row, entry, gate, missed>>

(* The failed event of the worker: handleDeadLetter.                       *)
DeadLetter ==
    /\ At("failing")
    /\ contact' = "failed"
    /\ Goto("failed")
    /\ UNCHANGED <<row, entry, gate, faults, missed, letGo>>

(* Its request fails, or the process dies first: the job stays failed and  *)
(* nobody writes the contact.                                              *)
DeadLetterLost ==
    /\ At("failing")
    /\ Fault
    /\ job' = [job EXCEPT !.pc = "failed", !.mute = TRUE]
    /\ UNCHANGED <<contact, row, entry, gate, missed, letGo>>

-----------------------------------------------------------------------------
(* THE GATEWAY: endCall, failCall, cleanupAsteriskResources               *)

Swept(g) == IF g.att \in {"yes", "unmapped"} THEN "both" ELSE "media"

Ended(g) ==
    IF g.st = "ended" THEN g
    ELSE [g EXCEPT !.st = "ended", !.event = TRUE, !.sweeps = @ \cup {Swept(g)}]

Failed(g) ==
    IF g.st \in {"failed", "ended"} THEN g
    ELSE [g EXCEPT !.event = TRUE, !.sweeps = @ \cup {Swept(g)}]

(* markCall and attachMedia replace the record by a copy.                  *)
Replaced(g, how) ==
    IF g.post = "creating" /\ g.orig = "stored" THEN how ELSE g.orig

Copied(g) == [g EXCEPT !.orig = Replaced(g, "bare")]

(* attachCustomerChannel: attachChannel writes into the stored object,     *)
(* then markCall copies it.                                                *)
Attached(g) ==
    [g EXCEPT !.att = "yes", !.orig = Replaced(g, "attached")]

(* findCallForCustomerChannel knows no failed or ended calls; an attached  *)
(* channel is found by channelToCall whatever the status.                  *)
Known(g) == g.att \in {"yes", "lost"} \/ g.st = "live"

(* The end event has been posted: the channels the record knew, the        *)
(* bridge.  Where a DELETE of refused fails, the error is swallowed and    *)
(* channelToCall forgets the channel all the same.  An addChannel that is  *)
(* still out fails on a bridge or a channel that is gone.                  *)
Swipe(s, refused) ==
    LET custGone == s = "both" /\ gate.cust # "none" /\ "customer" \notin refused
    IN /\ s \in gate.sweeps /\ ~gate.event
       /\ AtGate([gate EXCEPT
            !.sweeps = @ \ {s},
            !.media = @ /\ "media" \in refused,
            !.adding = IF "bridge" \in refused /\ ~custGone THEN @ ELSE "no",
            !.att = IF s = "media" THEN @
                    ELSE IF @ \in {"yes", "unmapped"} THEN "unmapped" ELSE "no",
            !.cust = IF custGone THEN "gone" ELSE @])
       /\ letGo' = (letGo \/ s = "media" \/ "customer" \in refused)
       /\ UNCHANGED <<job, contact, row, entry, missed>>

Cleanup == \E s \in gate.sweeps : Swipe(s, {}) /\ UNCHANGED faults

CleanupRefused ==
    \E s \in gate.sweeps, refused \in SUBSET {"customer", "media", "bridge"} :
        refused # {} /\ Swipe(s, refused) /\ Fault

(* POST /calls up to the customer's channel: record, bridge, media channel.*)
Accept ==
    /\ gate.post = "sent"
    /\ AtGate([gate EXCEPT !.post = "creating", !.st = "live",
                                 !.media = TRUE])
    /\ UNCHANGED <<job, contact, row, entry, faults, missed, letGo>>

(* Asterisk makes the customer's channel before it answers the request.    *)
DialCustomer ==
    /\ gate.post = "creating" /\ gate.cust = "none"
    /\ AtGate([gate EXCEPT !.cust = "dialed"])
    /\ UNCHANGED <<job, contact, row, entry, faults, missed, letGo>>

(* The answer of POST /channels: markCall writes the ORIGINAL record back, *)
(* whatever happened to the stored one meanwhile.                          *)
Dialed ==
    /\ gate.post = "creating" /\ gate.cust # "none"
    /\ AtGate([gate EXCEPT !.post = "ok", !.st = "live",
                                 !.att = IF gate.orig # "attached" /\ @ = "yes"
                                         THEN "lost" ELSE @,
                                 !.orig = "stored"])
    /\ UNCHANGED <<job, contact, row, entry, faults, missed, letGo>>

(* An ARI request of the set-up fails: 502, with the original record; the  *)
(* clean-up is one like any other.                                         *)
Refuse ==
    /\ gate.post \in {"sent", "creating"} /\ gate.cust = "none"
    /\ AtGate([gate EXCEPT !.post = "refused", !.st = "failed",
                    !.event = TRUE, !.sweeps = @ \cup {"media"}])
    /\ UNCHANGED <<job, contact, row, entry, faults, missed, letGo>>

CustomerRings ==
    /\ gate.cust = "dialed" /\ gate.att = "no" /\ Known(gate)
    /\ AtGate([Attached(gate) EXCEPT !.st = "live"])
    /\ UNCHANGED <<job, contact, row, entry, faults, missed, letGo>>

(* StasisStart and the change to Up: attach, add to the bridge, connected. *)
CustomerAnswers ==
    /\ gate.cust = "dialed"
    /\ AtGate(IF Known(gate)
                 THEN [Attached(gate) EXCEPT !.cust = "up", !.st = "live",
                         !.adding = gate.st]
                 ELSE [gate EXCEPT !.cust = "up"])
    /\ UNCHANGED <<job, contact, row, entry, faults, missed, letGo>>

(* addChannel returns and markCall writes the record it was called with    *)
(* back: a call that ended meanwhile is live again.                        *)
AddReturns ==
    /\ gate.adding # "no"
    /\ AtGate([gate EXCEPT !.adding = "no", !.st = gate.adding,
                    !.att = IF @ \in {"yes", "lost"} THEN "yes" ELSE "unmapped"])
    /\ UNCHANGED <<job, contact, row, entry, faults, missed, letGo>>

(* The customer, or the trunk, ends the call: StasisEnd, ChannelDestroyed. *)
CustomerLeaves ==
    /\ gate.cust \in {"dialed", "up"}
    /\ LET g == [gate EXCEPT !.cust = "gone"]
       IN AtGate(IF Known(gate) THEN Ended(g) ELSE g)
    /\ UNCHANGED <<job, contact, row, entry, faults, missed, letGo>>

(* DELETE /calls/:sipCallId.                                               *)
Delete ==
    /\ gate.del
    /\ AtGate([Ended(gate) EXCEPT !.del = FALSE])
    /\ UNCHANGED <<job, contact, row, entry, faults, missed, letGo>>

-----------------------------------------------------------------------------
(* THE MEDIA SOCKETS                                                       *)

(* Asterisk opens /asterisk-media for the media channel; findCall looks at *)
(* no status, and noteMediaStarted makes an ended call media_connected.    *)
AsteriskConnects ==
    /\ gate.media /\ gate.asock = "none"
    /\ AtGate([Copied(gate) EXCEPT !.asock = "open", !.st = "live",
                                         !.vsock = "connecting"])
    /\ UNCHANGED <<job, contact, row, entry, faults, missed, letGo>>

(* The close handler of the gateway's socket to the engine.                *)
VoiceGone(g) ==
    [Failed(g) EXCEPT !.vsock = "closed", !.asock = IF @ = "open" THEN "closing" ELSE @]

(* The engine takes the socket of a call it knows and turns others away    *)
(* (4004).                                                                 *)
VoiceConnects ==
    /\ gate.vsock = "connecting"
    /\ IF entry.here
       THEN /\ entry' = [entry EXCEPT !.socket = TRUE]
            /\ AtGate([gate EXCEPT !.vsock = "open"])
       ELSE /\ AtGate(VoiceGone(gate))
            /\ UNCHANGED entry
    /\ UNCHANGED <<job, contact, row, faults, missed, letGo>>

VoiceCannotConnect ==
    /\ gate.vsock = "connecting"
    /\ Fault
    /\ AtGate(VoiceGone(gate))
    /\ UNCHANGED <<job, contact, row, entry, missed, letGo>>

(* Asterisk closes its socket when the media channel is gone; the gateway  *)
(* sends stop and closes the other one if that one is open (one that is    *)
(* still connecting is left alone), and ends the call.                     *)
AsteriskCloses ==
    /\ gate.asock \in {"open", "closing"}
    /\ \/ ~gate.media /\ UNCHANGED faults
       \/ gate.asock = "closing" /\ UNCHANGED faults
       \/ Fault
    /\ AtGate([Ended(gate) EXCEPT !.asock = "closed", !.media = FALSE,
                    !.vsock = IF @ = "open" THEN "stopping" ELSE @])
    /\ UNCHANGED <<job, contact, row, entry, missed, letGo>>

(* The engine reads stop and the close of the socket; a close without a    *)
(* code counts as an unexpected one.                                       *)
EngineHearsStop ==
    /\ gate.vsock = "stopping"
    /\ AtGate(VoiceGone(gate))
    /\ entry' = [entry EXCEPT !.socket = FALSE]
    /\ job' = IF EndsBridge THEN [job EXCEPT !.pc = "ended"] ELSE job
    /\ missed' = (missed \/ ~entry.attached)
    /\ UNCHANGED <<contact, row, faults, letGo>>

SocketBreaks ==
    /\ gate.vsock \in {"open", "stopping"}
    /\ Fault
    /\ AtGate(VoiceGone(gate))
    /\ entry' = [entry EXCEPT !.socket = FALSE]
    /\ job' = IF EndsBridge THEN [job EXCEPT !.pc = "ended"] ELSE job
    /\ missed' = (missed \/ ~entry.attached)
    /\ UNCHANGED <<contact, row, letGo>>

(* POST /api/v1/sip-events with ended, failed or bridge_failed.            *)
Event ==
    /\ gate.event
    /\ AtGate([gate EXCEPT !.event = FALSE])
    /\ job' = IF EndsBridge THEN [job EXCEPT !.pc = "ended"] ELSE job
    /\ missed' = (missed \/ ~entry.attached)
    /\ UNCHANGED <<contact, row, entry, faults, letGo>>

(* sendLifecycleEvent posts once and only logs a failure.                  *)
EventLost ==
    /\ gate.event
    /\ Fault
    /\ AtGate([gate EXCEPT !.event = FALSE])
    /\ missed' = TRUE
    /\ UNCHANGED <<job, contact, row, entry, letGo>>

-----------------------------------------------------------------------------
(* THE ENGINE DIES AND COMES BACK                                          *)

(* Registry, bridge and sockets are gone; the gateway sees its sockets     *)
(* close.  attempts: 1 does not keep BullMQ from running a stalled job     *)
(* again.                                                                  *)
Crash ==
    /\ job.pc \notin Settled \cup {"waiting", "stalled", "failing"}
    /\ Fault
    /\ Breaks("stalled")
    /\ entry' = NoEntry
    /\ AtGate(IF gate.vsock \in {"open", "stopping"} THEN VoiceGone(gate) ELSE gate)
    /\ letGo' = (letGo \/ gate.post # "none")
    /\ missed' = TRUE
    /\ UNCHANGED <<contact, row>>

(* The stalled job runs once more, under a new call; the call of the run    *)
(* that died is left alone from now on, and so is the model's record of it. *)
StalledRequeue ==
    /\ At("stalled")
    /\ IF job.run < MaxRuns
       THEN /\ job' = [job EXCEPT !.pc = "waiting", !.run = @ + 1, !.short = TRUE,
                         !.past = IF row = "none" THEN @ ELSE row]
            /\ row' = "none"
            /\ AtGate(NoCall)
            /\ missed' = FALSE
            /\ letGo' = FALSE
       ELSE /\ Goto("failing")
            /\ UNCHANGED <<row, gate, missed, letGo>>
    /\ UNCHANGED <<contact, entry, faults>>

-----------------------------------------------------------------------------
Job ==
    \/ NotAllowed \/ ContactIsDnc \/ Allowed \/ CreateRow \/ MarkCalling
    \/ Dial \/ DialAnswered \/ DialRefused \/ MarkRinging \/ StartBridge
    \/ HangUp \/ HungUp \/ SaveRow \/ ReportContact \/ Finish
    \/ DeadLetter \/ StalledRequeue

GatewayStep ==
    \/ Accept \/ DialCustomer \/ Dialed \/ Refuse \/ Delete
    \/ Cleanup \/ AddReturns

Phone == CustomerRings \/ CustomerAnswers \/ CustomerLeaves

Media ==
    \/ AsteriskConnects \/ VoiceConnects \/ AsteriskCloses
    \/ EngineHearsStop \/ Event

Clock == FiveSeconds \/ HardTimeout \/ SweepEntry

Trouble ==
    \/ DialLost \/ HangUpLost \/ JobThrows \/ Crash
    \/ VoiceCannotConnect \/ SocketBreaks \/ EventLost
    \/ DeadLetterLost \/ CleanupRefused

Next ==
    \/ Job \/ Clock \/ BridgeEndsItself \/ Trouble
    \/ GatewayStep \/ Phone \/ Media

Spec == Init /\ [][Next]_vars

(* Node runs what is ready, requests are answered or fail, timers fire;    *)
(* nobody has to call, answer, speak or hang up.  Each of these steps      *)
(* happens a bounded number of times, so that one fairness condition for   *)
(* all of them starves none.                                               *)
Own == Job \/ Clock \/ GatewayStep \/ Media

FairSpec == Spec /\ WF_vars(Own)

-----------------------------------------------------------------------------
(* PROPERTIES                                                              *)

JobRecords == [pc : JobSteps, run : 1..MaxRuns, short : BOOLEAN,
               past : Rows, late : BOOLEAN, mute : BOOLEAN]

EntryRecords == [here : BOOLEAN, attached : BOOLEAN, socket : BOOLEAN]

GateRecords ==
    [st : {"none", "live", "failed", "ended"},
     att : {"no", "lost", "yes", "unmapped"}, orig : {"stored", "bare", "attached"},
     adding : {"no", "live", "failed", "ended"},
     sweeps : SUBSET {"both", "media"}, event : BOOLEAN,
     post : {"none", "sent", "creating", "ok", "refused"}, del : BOOLEAN,
     cust : {"none", "dialed", "up", "gone"}, media : BOOLEAN,
     asock : {"none", "open", "closing", "closed"},
     vsock : {"none", "connecting", "open", "stopping", "closed"}]

TypeOK ==
    /\ job \in JobRecords
    /\ contact \in Contacts
    /\ row \in Rows
    /\ entry \in EntryRecords
    /\ gate \in GateRecords
    /\ faults \in 0..MaxFaults
    /\ missed \in BOOLEAN
    /\ letGo \in BOOLEAN

(* What a run that was cut short can leave of the contact when its row was *)
(* last written r: still pending without a row, calling, or the outcome.   *)
(* Before MarkCalling the contact is as the run found it.                  *)
CutShort(r, c) ==
    \/ r = "none" /\ c = "pending"
    \/ r = "initiated"
    \/ r # "none" /\ c \in {"calling", r}

Called == {"completed", "no_answer"}

(* What processCallJob leaves of contact and row once the job is settled.  *)
(* A run that dialed leaves the contact with its row's status.  A run that *)
(* was turned away made it dnc or left it as it was: pending, or, if a run *)
(* before it died, whatever that one left, calling for ever included.  A   *)
(* job that failed leaves the contact failed unless the dead letter was    *)
(* not written; the row then says that somebody was called only if what    *)
(* failed came after the row was saved.                                    *)
OutcomesAgree ==
    /\ At("done") =>
         \/ row # "none" /\ contact = row
         \/ row = "none" /\ (contact = "dnc" \/ CutShort(job.past, contact))
    /\ At("failed") =>
         /\ contact = "failed" \/ job.mute
         /\ row \in Called \/ job.past \in Called => job.late

(* Nothing of the call is left at the gateway and nothing is on its way.   *)
Over ==
    /\ gate.cust = "gone" /\ ~gate.media /\ ~gate.event
    /\ gate.vsock \in {"none", "closed"} /\ gate.asock \in {"none", "closed"}
    /\ gate.sweeps = {}

(* A bridge that goes on waiting after its call is over, until the hard    *)
(* timeout, is one that nobody could tell: the end event was lost, or it   *)
(* came before the bridge was attached or after the entry was swept.       *)
DeafBridgeExplained == (At("bridged") /\ Over) => missed

(* The customer is on the line, and neither a socket nor a request nor a   *)
(* clean-up is under way that would take him off it.                       *)
Ghost ==
    /\ gate.cust \in {"dialed", "up"}
    /\ gate.post \in {"ok", "refused"} /\ gate.sweeps = {}
    /\ ~gate.del /\ ~gate.event
    /\ gate.vsock \notin {"connecting", "stopping"}
    /\ gate.asock # "closing" /\ (gate.asock = "open" => gate.media)

(* When the job is settled, a customer is left on a dead line only if the  *)
(* engine gave the call up without a hang-up that arrived (it died, its    *)
(* job threw, a request was lost), a clean-up did not know his channel, or *)
(* Asterisk refused to delete it, which the gateway never tries again.     *)
GhostExplained ==
    (job.pc \in Settled /\ Ghost) => letGo

(* The types, and both: no end of a call stays unexplained.                *)
EndsExplained == TypeOK /\ DeafBridgeExplained /\ GhostExplained

(* Every job settles, whatever the phone, the gateway and the events do:   *)
(* the hard timeout is the last resort.                                    *)
JobSettles == <>(job.pc \in Settled)
=============================================================================
