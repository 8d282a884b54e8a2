----------------------------- MODULE CallBridge -----------------------------
(***************************************************************************)
(* One phone call from the moment its CallBridge is registered: the bridge *)
(* of call-bridge.js, the ElevenLabs session it drives, its owner          *)
(* (processCallJob for an outbound call, handleInboundCall with the        *)
(* inbound finalizer for an inbound one), the gateway of server.js, the    *)
(* Asterisk media socket of media-bridge.js and the calls row.             *)
(*                                                                         *)
(* Node runs one handler at a time; an await on Asterisk, Postgres or the  *)
(* network ends a step.  CallJobs sees all of this as the single step      *)
(* between its "call" label and what follows.                              *)
(***************************************************************************)
EXTENDS Naturals

CONSTANTS
  Directions,  \* \subseteq {"outbound", "inbound"}
  Faults       \* "request": an update of the calls row may fail

ASSUME BridgeAssumption ==
  /\ Directions \subseteq {"outbound", "inbound"}
  /\ Directions # {}
  /\ Faults \subseteq {"request"}

VARIABLES
  direction,    \* which owner the call has
  owner,        \* where the owner is
  state,        \* bridge._state
  finalized,    \* bridge.finalized
  failed,       \* bridge.failureReason # null
  registered,   \* activeBridges.has(callId)
  pending,      \* bridge._pendingCustomerAnswered
  promise,      \* of bridge.start(); callEndedResolve is set while it is "pending"
  report,       \* the result that promise resolved to
  setup,        \* where _startAsync is
  closing,      \* where each run of _finalizeAndResolve is: "end" from endBridge or
                \* cleanup, "fail" from the setup or a session error
  session,      \* the ElevenLabs WebSocket
  talking,      \* session._conversationStarted
  row,          \* calls.status
  rowFailed,    \* calls.failure_reason_t is not null
  customer,     \* the customer's channel; "dialled" until the gateway attaches it
  answer,       \* the "Up" event of the customer's channel on its way to the bridge
  media,        \* the Asterisk media socket
  dropping,     \* channels the gateway has asked Asterisk to delete
  lost,         \* history: an update of the row failed
  cut           \* history: where _startAsync was when the media socket closed, or "no"

bridgeVars == <<state, finalized, failed, registered, pending, promise, report, setup, closing>>
lineVars   == <<session, talking>>
rowVars    == <<row, rowFailed, lost>>
phoneVars  == <<customer, answer, media, dropping, cut>>
vars       == <<direction, owner, bridgeVars, lineVars, rowVars, phoneVars>>

States    == {"created", "pre_warming", "pre_warmed", "live", "finalized"}
Attached  == {"ringing", "up"}
Finishers == {"end", "fail"}

FlagsOK ==
  /\ finalized \in BOOLEAN
  /\ failed \in BOOLEAN
  /\ registered \in BOOLEAN
  /\ pending \in BOOLEAN
  /\ talking \in BOOLEAN
  /\ rowFailed \in BOOLEAN
  /\ lost \in BOOLEAN

PlacesOK ==
  /\ direction \in Directions
  /\ owner \in {"register", "dial", "dialCustomer", "dialFailed", "start", "wait", "done"}
  /\ state \in States
  /\ promise \in {"none", "pending", "resolved"}
  /\ report \in {"none", "completed", "failed"}
  /\ setup \in {"idle", "lookup", "over"}
  /\ closing \in [Finishers -> {"no", "write", "drain", "done"}]
  /\ session \in {"none", "connecting", "open", "closed"}
  /\ row \in {"initiated", "connected", "completed", "failed"}
  /\ customer \in {"none", "dialled", "gone"} \cup Attached
  /\ answer \in {"no", "coming", "given"}
  /\ media \in {"none", "dialled", "open", "closed"}
  /\ dropping \subseteq {"customer", "media"}
  /\ cut \in {"no", "idle", "lookup", "over"}

TypeOK == FlagsOK /\ PlacesOK

Init ==
  /\ direction \in Directions
  /\ owner = "register"
  /\ state = "created"
  /\ finalized = FALSE
  /\ failed = FALSE
  /\ registered = FALSE
  /\ pending = FALSE
  /\ promise = "none"
  /\ report = "none"
  /\ setup = "idle"
  /\ closing = [f \in Finishers |-> "no"]
  /\ session = "none"
  /\ talking = FALSE
  /\ row = IF direction = "inbound" THEN "connected" ELSE "initiated"
  /\ rowFailed = FALSE
  /\ customer = IF direction = "inbound" THEN "up" ELSE "none"
  /\ answer = "no"
  /\ media = "none"
  /\ dropping = {}
  /\ lost = FALSE
  /\ cut = "no"

----------------------------------------------------------------------------
(* Pieces of several handlers *)

(* Mutant of WriteRow: the reason of the failure goes into the status. *)
WriteRowReason(s, f) ==
  /\ row' = IF f THEN "el_ws_dropped" ELSE s
  /\ rowFailed' = f
  /\ UNCHANGED lost

(* An update of the calls row whose error is logged at most. *)
WriteRow(s, f) ==
  \/ row' = s /\ rowFailed' = f /\ UNCHANGED lost
  \/ "request" \in Faults /\ lost' = TRUE /\ UNCHANGED <<row, rowFailed>>

(* Mutant of CloseSession: the session is left to its own timers. *)
CloseSessionNever == UNCHANGED session

(* session.close(): synchronous, a second close does nothing. *)
CloseSession == session' = IF session = "none" THEN "none" ELSE "closed"

(* _finalizeAndResolve up to its first request.  _transition refuses to go *)
(* from "created" to "finalized": the state stays, the flag is set.        *)
Finalize(f) ==
  /\ state' = IF state = "created" THEN "created" ELSE "finalized"
  /\ finalized' = TRUE
  /\ failed' = (f = "fail")
  /\ CloseSession
  /\ registered' = FALSE
  /\ closing' = [closing EXCEPT ![f] = "write"]
  /\ UNCHANGED <<pending, promise, report, talking>>

Unfinalized == UNCHANGED <<state, finalized, failed, registered, closing, pending,
                           promise, report, lineVars>>

(* cleanup() and endBridge() return at once when the flag is set; so does  *)
(* the handler of a session error.                                         *)
EndBridge == IF finalized THEN Unfinalized ELSE Finalize("end")

(* gatewayState.endCall: both channels are deleted, the customer's only if *)
(* an event has attached it to the call.                                   *)
EndCall ==
  dropping' = dropping \cup {"media"} \cup IF customer \in Attached THEN {"customer"} ELSE {}

----------------------------------------------------------------------------
(* The owner of the call *)

(* preRegisterBridge, then the gateway is asked for the media channel. *)
Register ==
  /\ owner = "register"
  /\ registered' = TRUE
  /\ owner' = "dial"
  /\ UNCHANGED <<direction, state, finalized, failed, pending, promise, report, setup,
                 closing, lineVars, rowVars, phoneVars>>

DialMedia ==
  /\ owner = "dial"
  /\ media' = "dialled"
  /\ owner' = IF direction = "inbound" THEN "start" ELSE "dialCustomer"
  /\ UNCHANGED <<direction, bridgeVars, lineVars, rowVars, customer, answer, dropping, cut>>

DialCustomer ==
  /\ owner = "dialCustomer"
  /\ customer' = "dialled"
  /\ owner' = "start"
  /\ UNCHANGED <<direction, bridgeVars, lineVars, rowVars, answer, media, dropping, cut>>

(* Asterisk refuses a request of initiateCall: what exists is deleted. *)
DialFails ==
  /\ direction = "outbound"
  /\ owner \in {"dial", "dialCustomer"}
  /\ owner' = "dialFailed"
  /\ dropping' = dropping \cup {"media"}
  /\ UNCHANGED <<direction, bridgeVars, lineVars, rowVars, customer, answer, media, cut>>

(* The row is failed as voicenter_busy before the bridge is cleaned up.    *)
RecordDialFailure ==
  /\ owner = "dialFailed"
  /\ owner' = "done"
  /\ row' = "failed"
  /\ rowFailed' = TRUE
  /\ EndBridge
  /\ UNCHANGED <<direction, setup, lost, phoneVars>>

(* The inbound path deletes the caller's channel and forgets the bridge.   *)
InboundDialFails ==
  /\ direction = "inbound"
  /\ owner = "dial"
  /\ owner' = "done"
  /\ dropping' = dropping \cup {"customer"}
  /\ UNCHANGED <<direction, bridgeVars, lineVars, rowVars, customer, answer, media, cut>>

(* bridge.start(): registers again and runs _startAsync to its first await. *)
Start ==
  /\ registered' = TRUE
  /\ promise' = "pending"
  /\ setup' = "lookup"
  /\ owner' = "wait"
  /\ UNCHANGED <<direction, state, finalized, failed, pending, report, closing, lineVars>>

StartOutbound ==
  /\ direction = "outbound"
  /\ owner = "start"
  /\ row' = "connected"
  /\ Start
  /\ UNCHANGED <<rowFailed, lost, phoneVars>>

(* callDal.update throws, unlike the updates of the bridge: the job fails  *)
(* and the bridge stays registered, neither started nor cleaned up.        *)
OwnerThrows ==
  /\ "request" \in Faults
  /\ direction = "outbound"
  /\ owner \in {"dialFailed", "start"}
  /\ owner' = "done"
  /\ UNCHANGED <<direction, bridgeVars, lineVars, rowVars, phoneVars>>

(* The inbound bridge is told of the answer in the same turn of the event  *)
(* loop, in state "created", where handleCustomerAnswered only logs.       *)
StartInbound ==
  /\ direction = "inbound"
  /\ owner = "start"
  /\ Start
  /\ answer' = "given"
  /\ UNCHANGED <<rowVars, customer, media, dropping, cut>>

(* The worker decides on the row's reason, it writes nothing to the row;   *)
(* the inbound finalizer writes the result it was given.                   *)
OwnerResumes ==
  /\ owner = "wait"
  /\ promise = "resolved"
  /\ owner' = "done"
  /\ IF direction = "outbound"
       THEN UNCHANGED rowVars
       ELSE WriteRow(report, rowFailed \/ report = "failed")
  /\ UNCHANGED <<direction, bridgeVars, lineVars, phoneVars>>

----------------------------------------------------------------------------
(* _startAsync *)

(* No agent snapshot, the campaign row cannot be read or has changed, or   *)
(* the session cannot be constructed.                                      *)
SetupFails ==
  /\ setup = "lookup"
  /\ setup' = "over"
  /\ Finalize("fail")
  /\ UNCHANGED <<direction, owner, rowVars, phoneVars>>

(* The campaign row is as it was: a session is connected, whether or not   *)
(* the bridge has been finalized during the lookup.                        *)
OpenSession ==
  /\ setup = "lookup"
  /\ setup' = "over"
  /\ state' = "pre_warming"
  /\ session' = "connecting"
  /\ UNCHANGED <<direction, owner, finalized, failed, registered, pending, promise, report,
                 closing, talking, rowVars, phoneVars>>

----------------------------------------------------------------------------
(* The ElevenLabs session *)

(* startConversation: what it sends is dropped when the socket is closed. *)
StartConversation == talking' = (talking \/ session = "open")

(* Mutant of SessionOpens: the queued answer is not looked at. *)
SessionOpensOnly ==
  /\ session = "connecting"
  /\ session' = "open"
  /\ state' = "pre_warmed"
  /\ UNCHANGED <<direction, owner, finalized, failed, registered, promise, report, setup,
                 closing, pending, talking, rowVars, phoneVars>>

(* Mutant of SessionOpens: the conversation starts with the socket. *)
SessionOpensAtOnce ==
  /\ session = "connecting"
  /\ session' = "open"
  /\ state' = "live"
  /\ talking' = TRUE
  /\ pending' = FALSE
  /\ UNCHANGED <<direction, owner, finalized, failed, registered, promise, report, setup,
                 closing, rowVars, phoneVars>>

(* ws_open: pre_warmed, or live when the customer has answered already. *)
SessionOpens ==
  /\ session = "connecting"
  /\ session' = "open"
  /\ state' = IF pending THEN "live" ELSE "pre_warmed"
  /\ talking' = pending
  /\ pending' = FALSE
  /\ UNCHANGED <<direction, owner, finalized, failed, registered, promise, report, setup,
                 closing, rowVars, phoneVars>>

(* Connecting fails, no message for 30 seconds, the 10-minute limit, a bad *)
(* message or a bad audio format: the session emits "error" and closes.    *)
SessionFails ==
  /\ session \in {"connecting", "open"}
  /\ IF finalized
       THEN /\ session' = "closed"
            /\ UNCHANGED <<state, finalized, failed, registered, closing, pending,
                           promise, report, talking>>
       ELSE Finalize("fail")
  /\ UNCHANGED <<direction, owner, setup, rowVars, phoneVars>>

(* ElevenLabs closes the socket: its timers stop, the bridge only logs. *)
SessionCloses ==
  /\ session = "open"
  /\ session' = "closed"
  /\ UNCHANGED <<direction, owner, bridgeVars, talking, rowVars, phoneVars>>

(* Eight seconds after the agent's end_call tool. *)
ToolEndsCall ==
  /\ talking
  /\ ~finalized
  /\ Finalize("end")
  /\ UNCHANGED <<direction, owner, setup, rowVars, phoneVars>>

----------------------------------------------------------------------------
(* _finalizeAndResolve after its first request *)

(* _persistFinalState updates the row with the reason this run was given;  *)
(* a run without a reason leaves the reason column alone.                  *)
PersistRow(f) ==
  /\ closing[f] = "write"
  /\ closing' = [closing EXCEPT ![f] = "drain"]
  /\ WriteRow(IF f = "fail" THEN "failed" ELSE "completed", rowFailed \/ f = "fail")
  /\ UNCHANGED <<direction, owner, state, finalized, failed, registered, pending, promise,
                 report, setup, lineVars, phoneVars>>

(* Mutant of Resolve: the result is given out before the row is written. *)
ResolveFirst(f) ==
  /\ closing[f] = "write"
  /\ promise' = IF promise = "pending" THEN "resolved" ELSE promise
  /\ report' = IF promise = "pending" THEN IF failed THEN "failed" ELSE "completed" ELSE report
  /\ UNCHANGED <<direction, owner, state, finalized, failed, registered, pending, setup,
                 closing, lineVars, rowVars, phoneVars>>

(* Mutant of Resolve: the caller of start() is forgotten. *)
ResolveNobody(f) ==
  /\ closing[f] = "drain"
  /\ closing' = [closing EXCEPT ![f] = "done"]
  /\ UNCHANGED <<direction, owner, state, finalized, failed, registered, pending, promise,
                 report, setup, lineVars, rowVars, phoneVars>>

(* Metrics and turns are written; callEndedResolve, if start() has set it. *)
Resolve(f) ==
  /\ closing[f] = "drain"
  /\ closing' = [closing EXCEPT ![f] = "done"]
  /\ IF promise = "pending"
       THEN /\ promise' = "resolved"
            /\ report' = IF failed THEN "failed" ELSE "completed"
       ELSE UNCHANGED <<promise, report>>
  /\ UNCHANGED <<direction, owner, state, finalized, failed, registered, pending, setup,
                 lineVars, rowVars, phoneVars>>

----------------------------------------------------------------------------
(* The gateway, the customer's channel and the media socket *)

(* The first event of the customer's channel attaches it. *)
CustomerRings ==
  /\ customer = "dialled"
  /\ customer' = "ringing"
  /\ UNCHANGED <<direction, owner, bridgeVars, lineVars, rowVars, answer, media, dropping, cut>>

CustomerAnswers ==
  /\ customer \in {"dialled", "ringing"}
  /\ customer' = "up"
  /\ answer' = "coming"
  /\ UNCHANGED <<direction, owner, bridgeVars, lineVars, rowVars, media, dropping, cut>>

(* The handler of "Up" finds the bridge in the registry, or nobody hears   *)
(* of the answer; handleCustomerAnswered acts in two states only.          *)
SignalAnswer ==
  /\ answer = "coming"
  /\ answer' = "given"
  /\ pending' = (pending \/ (registered /\ state = "pre_warming"))
  /\ IF registered /\ state = "pre_warmed"
       THEN state' = "live" /\ StartConversation
       ELSE UNCHANGED <<state, talking>>
  /\ UNCHANGED <<direction, owner, finalized, failed, registered, promise, report, setup,
                 closing, session, rowVars, customer, media, dropping, cut>>

(* Busy, no answer, or one side hangs up: the channel is gone. *)
CustomerGone ==
  /\ customer \in {"dialled"} \cup Attached
  /\ customer' = "gone"
  /\ EndCall
  /\ UNCHANGED <<direction, owner, bridgeVars, lineVars, rowVars, answer, media, cut>>

(* Asterisk deletes a channel as it was asked to. *)
HangUpCustomer ==
  /\ "customer" \in dropping
  /\ customer \in Attached
  /\ customer' = "gone"
  /\ dropping' = dropping \cup {"media"}
  /\ UNCHANGED <<direction, owner, bridgeVars, lineVars, rowVars, answer, media, cut>>

(* Asterisk connects the media socket; without a bridge it is turned away  *)
(* and the end of its channel ends the call.                               *)
ConnectMedia ==
  /\ media = "dialled"
  /\ IF registered
       THEN media' = "open" /\ UNCHANGED dropping
       ELSE media' = "closed" /\ EndCall
  /\ UNCHANGED <<direction, owner, bridgeVars, lineVars, rowVars, customer, answer, cut>>

(* The media channel is deleted before its socket is there. *)
DropMedia ==
  /\ "media" \in dropping
  /\ media = "dialled"
  /\ media' = "closed"
  /\ UNCHANGED <<direction, owner, bridgeVars, lineVars, rowVars, customer, answer, dropping, cut>>

(* The media socket closes: detachMedia, bridge.cleanup(), endCall. *)
CloseMedia ==
  /\ media = "open"
  /\ media' = "closed"
  /\ cut' = setup
  /\ EndBridge
  /\ EndCall
  /\ UNCHANGED <<direction, owner, setup, rowVars, customer, answer>>

----------------------------------------------------------------------------
OwnerStep ==
  Register \/ DialMedia \/ DialCustomer \/ DialFails \/ RecordDialFailure
    \/ InboundDialFails \/ StartOutbound \/ StartInbound \/ OwnerThrows \/ OwnerResumes
SessionStep == SessionOpens \/ SessionFails \/ SessionCloses \/ ToolEndsCall
FinishStep  == \E f \in Finishers : PersistRow(f) \/ Resolve(f)
SetupStep   == SetupFails \/ OpenSession
GatewayStep == SignalAnswer \/ HangUpCustomer \/ DropMedia
PhoneStep   == CustomerRings \/ CustomerAnswers \/ CustomerGone \/ ConnectMedia \/ CloseMedia

Next == OwnerStep \/ SetupStep \/ SessionStep \/ FinishStep \/ GatewayStep \/ PhoneStep

Spec == Init /\ [][Next]_vars

(* The code's own steps happen: requests are answered, the gateway delivers *)
(* its events and Asterisk carries out a deletion, also of a media channel  *)
(* whose socket is open.                                                    *)
Fairness ==
  /\ WF_vars(OwnerStep)
  /\ WF_vars(SetupStep)
  /\ WF_vars(FinishStep)
  /\ WF_vars(SessionOpens \/ SessionFails)
  /\ WF_vars(GatewayStep)
  /\ WF_vars("media" \in dropping /\ CloseMedia)

CodeSpec == Spec /\ Fairness

(* No phone call lasts for ever. *)
CallsEnd == WF_vars(CustomerGone)

FairSpec == CodeSpec /\ CallsEnd

----------------------------------------------------------------------------
(* Properties *)

(* The agent starts to speak only to somebody who has picked up, whichever *)
(* of the session and the telephone was faster (handleCustomerAnswered and *)
(* the ws_open handler).                                                   *)
SpeaksAfterAnswer == talking => customer \in {"up", "gone"} /\ answer = "given"

(* An answer queued while the session connects is served when it opens or  *)
(* dies with the bridge; it never waits in a later state.                  *)
AnswerKept == pending => state = "pre_warming" \/ finalized

(* The end of a call leaves nothing behind: no ElevenLabs session, which is *)
(* billed by the minute, no entry in the registry, on which shutdown waits, *)
(* and no owner without a result, unless the media socket closed before the *)
(* set-up was over.  During the lookup that costs a session, before start() *)
(* the result and the entry as well.                                        *)
EndLeavesNothing ==
  finalized =>
    /\ session \in {"connecting", "open"} => cut \in {"idle", "lookup"}
    /\ registered => cut = "idle"
    /\ promise = "pending" /\ cut # "idle" =>
         \E f \in Finishers : closing[f] \in {"write", "drain"}

(* When start() resolves after a finalization in the state machine, the    *)
(* calls row, from which the worker decides about a retry, holds the same  *)
(* outcome as the result, unless an update was lost.                       *)
ReportMatchesRow ==
  state = "finalized" /\ promise = "resolved" /\ ~lost =>
    row = report /\ (rowFailed <=> report = "failed")

(* A call that has its media socket when it starts ends: the owner gets a  *)
(* result and the bridge leaves the registry on which shutdown waits.      *)
CallEnds ==
  (promise = "pending" /\ media = "open") ~> (promise = "resolved" /\ ~registered)
=============================================================================
