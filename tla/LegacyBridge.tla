--------------------------- MODULE LegacyBridge ---------------------------
(***************************************************************************)
(* The audio side of the legacy engine: CallBridge between a Gemini Live   *)
(* session and the gateway's media socket, with the half-duplex gate that  *)
(* both of them keep.  The bridge shuts the caller out while the agent     *)
(* speaks and tells the gateway to do the same by control messages in the  *)
(* stream of audio; a watchdog replaces a session that has gone deaf;      *)
(* tool calls are answered into whatever session is current.               *)
(*                                                                         *)
(* The model at the other end of the session says what it likes when it    *)
(* likes.  Left out: what is said, the transcript, nudges and corrections  *)
(* (texts sent without effect on the state here), and Asterisk's XOFF.     *)
(***************************************************************************)
EXTENDS Naturals, Sequences

CONSTANTS
    MaxReconnects,  \* MAX_GEMINI_RECONNECTS
    MaxTools,       \* tool calls under way at once (bound)
    MaxQueue        \* messages under way to the gateway (bound)

ASSUME BridgeAssumption ==
    MaxReconnects \in Nat /\ MaxTools \in Nat /\ MaxQueue \in Nat

VARIABLES
    bridge,   \* CallBridge's fields
    ws,       \* GeminiSession.ws: the number of the current session, 0: null
    ready,    \* GeminiSession._isReady
    session,  \* every session opened so far
    tools,    \* handleToolCalls waiting for a tool
    queue,    \* what the engine has sent to the gateway
    gate,     \* the gateway's mediaState
    caller,   \* a chunk of the caller's voice is on its way to the engine
    hist      \* history, for the properties

vars == <<bridge, ws, ready, session, tools, queue, gate, caller, hist>>

Sessions == 1..(1 + MaxReconnects)

(* setup: setupComplete has come.                                          *)
NoSession == [st |-> "none", setup |-> FALSE]

(* hush: the timers in the future, suppressCallerAudioUntil ("turn") and   *)
(* postToolOutputGateUntil ("tool").  deaf: ten seconds of speech without  *)
(* an answer.  turns: protectedAssistantTurnCount, which is only asked     *)
(* whether it is above one.  farewell: the eight seconds of end_call run.  *)
(* late: the gateway came in when a turn was going on, or had been.        *)
(* orphan: the session that was still connecting when the bridge ended.    *)
Init ==
    /\ bridge = [ended |-> FALSE, prot |-> FALSE, turns |-> 0, hush |-> {},
                 deaf |-> FALSE, active |-> FALSE, greeted |-> FALSE,
                 farewell |-> FALSE, reconnects |-> 0]
    /\ ws = 1
    /\ ready = FALSE
    /\ session = [s \in Sessions |->
                    IF s = 1 THEN [NoSession EXCEPT !.st = "connecting"] ELSE NoSession]
    /\ tools = {}
    /\ queue = <<>>
    /\ gate = [sock |-> "none", prot |-> FALSE, hush |-> FALSE, partial |-> FALSE]
    /\ caller = FALSE
    /\ hist = [late |-> "no", orphan |-> 0, overlap |-> FALSE, stray |-> FALSE]

IsOpen == ws # 0 /\ session[ws].st = "open"

-----------------------------------------------------------------------------
(* THE BRIDGE'S TURNS                                                      *)

(* sendToGateway: nothing is sent, and nobody told, without an open socket.*)
SendToGateway(msgs) ==
    queue' = IF gate.sock = "open" THEN queue \o msgs ELSE queue

Begun(b) ==
    IF b.prot THEN b
    ELSE [b EXCEPT !.prot = TRUE, !.hush = @ \ {"turn"},
                   !.turns = IF @ < 2 THEN @ + 1 ELSE @]

BeginMsg(b) == IF b.prot THEN <<>> ELSE <<"on">>

EndedTurn(b) ==
    IF b.prot THEN [b EXCEPT !.prot = FALSE, !.hush = @ \cup {"turn"}] ELSE b

EndMsg(b) == IF b.prot THEN <<"off">> ELSE <<>>

(* The late turn is over when the bridge ends a turn.                      *)
TurnOver == [hist EXCEPT !.late = IF @ = "during" /\ bridge.prot THEN "after" ELSE @]

(* The bridge's end.  gemini.close() shuts an open socket, lets go of one  *)
(* that is still connecting, and keeps its listeners in both cases.        *)
EndBridge ==
    /\ ~bridge.ended
    /\ bridge' = [bridge EXCEPT !.ended = TRUE, !.farewell = FALSE]
    /\ ready' = FALSE
    /\ session' = IF IsOpen THEN [session EXCEPT ![ws].st = "closing"] ELSE session
    /\ hist' = [hist EXCEPT !.orphan =
                  IF ws # 0 /\ session[ws].st = "connecting" THEN ws ELSE @]
    /\ ws' = 0

-----------------------------------------------------------------------------
(* THE GEMINI SESSION                                                      *)

(* Sessions whose events reach the bridge: reconnect() takes the listeners *)
(* off the old one, close() does not.                                      *)
Hears(s) == session[s].st \in {"open", "closing"}
Talks(s) == Hears(s) /\ session[s].setup
Room == Len(queue) + 2 <= MaxQueue

SessionOpens(s) ==
    /\ session[s].st = "connecting"
    /\ session' = [session EXCEPT ![s].st = "open"]
    /\ UNCHANGED <<bridge, ws, ready, tools, queue, gate, caller, hist>>

(* setupComplete of a first or of a later session: only the first is       *)
(* greeted, whether or not anybody is on the line yet.                     *)
SetupComplete(s) ==
    /\ Hears(s) /\ ~session[s].setup /\ Room
    /\ session' = [session EXCEPT ![s].setup = TRUE]
    /\ ready' = TRUE
    /\ IF bridge.greeted
       THEN UNCHANGED <<bridge, queue>>
       ELSE /\ bridge' = [Begun(bridge) EXCEPT !.greeted = TRUE]
            /\ SendToGateway(BeginMsg(bridge))
    /\ UNCHANGED <<ws, tools, gate, caller, hist>>

AgentSpeaks(s) ==
    /\ Talks(s) /\ Room
    /\ bridge' = [Begun(bridge) EXCEPT !.hush = @ \ {"tool"}, !.deaf = FALSE]
    /\ SendToGateway(BeginMsg(bridge) \o <<"audio">>)
    /\ UNCHANGED <<ws, ready, session, tools, gate, caller, hist>>

TurnComplete(s) ==
    /\ Talks(s) /\ Room
    /\ bridge' = [EndedTurn(bridge) EXCEPT !.deaf = FALSE]
    /\ SendToGateway(EndMsg(bridge))
    /\ hist' = TurnOver
    /\ UNCHANGED <<ws, ready, session, tools, gate, caller>>

GenerationCompleteUntold(s) ==
    /\ Talks(s) /\ Room
    /\ bridge.prot /\ bridge.turns > 1
    /\ bridge' = EndedTurn(bridge)
    /\ hist' = TurnOver
    /\ UNCHANGED <<ws, ready, session, tools, queue, gate, caller>>

(* The greeting is not over when it is generated: it waits for the turn.   *)
GenerationComplete(s) ==
    /\ Talks(s) /\ Room
    /\ bridge.prot /\ bridge.turns > 1
    /\ bridge' = EndedTurn(bridge)
    /\ SendToGateway(EndMsg(bridge))
    /\ hist' = TurnOver
    /\ UNCHANGED <<ws, ready, session, tools, gate, caller>>

Interrupted(s) ==
    /\ Talks(s) /\ Room
    /\ bridge' = EndedTurn(bridge)
    /\ SendToGateway(EndMsg(bridge))
    /\ hist' = TurnOver
    /\ UNCHANGED <<ws, ready, session, tools, gate, caller>>

(* error: the turn ends; the socket's close follows.                       *)
SessionErrs(s) ==
    /\ session[s].st \in {"connecting", "open"} /\ Room
    /\ session' = [session EXCEPT ![s].st = "closing"]
    /\ bridge' = EndedTurn(bridge)
    /\ SendToGateway(EndMsg(bridge))
    /\ hist' = TurnOver
    /\ UNCHANGED <<ws, ready, tools, gate, caller>>

(* close, whatever the code: _isReady is cleared before handleGeminiClose  *)
(* asks for it, so that no close counts as abnormal: nothing reconnects,   *)
(* nothing ends the bridge.                                                *)
SessionCloses(s) ==
    /\ session[s].st \in {"open", "closing"} /\ Room
    /\ session' = [session EXCEPT ![s].st = "closed"]
    /\ ready' = FALSE
    /\ bridge' = EndedTurn(bridge)
    /\ SendToGateway(EndMsg(bridge) \o <<"gone">>)
    /\ hist' = TurnOver
    /\ UNCHANGED <<ws, tools, gate, caller>>

-----------------------------------------------------------------------------
(* TOOL CALLS                                                              *)

(* One handleToolCalls; ends: end_call is among its calls.                 *)
ToolCall(s) ==
    /\ Talks(s)
    /\ \E k \in 1..MaxTools, ends \in BOOLEAN :
         /\ \A t \in tools : t.id # k
         /\ \A j \in 1..(k - 1) : \E t \in tools : t.id = j
         /\ tools' = tools \cup {[id |-> k, from |-> s, ends |-> ends]}
    /\ bridge' = [bridge EXCEPT !.active = TRUE, !.hush = @ \cup {"turn"}]
    /\ hist' = [hist EXCEPT !.overlap = @ \/ tools # {}]
    /\ UNCHANGED <<ws, ready, session, queue, gate, caller>>

(* The answers go into the session that is current by now, if it is open.  *)
ToolDone(t) ==
    /\ tools' = tools \ {t}
    /\ bridge' = [bridge EXCEPT !.active = FALSE, !.deaf = FALSE,
                    !.hush = {"turn", "tool"},
                    !.farewell = (@ \/ t.ends) /\ ~bridge.ended]
    /\ hist' = [hist EXCEPT !.stray = @ \/ (IsOpen /\ ws # t.from)]
    /\ UNCHANGED <<ws, ready, session, queue, gate, caller>>

-----------------------------------------------------------------------------
(* TIMERS: gates, farewell, hard timeout, watchdog                         *)

HushLapses ==
    /\ bridge.hush # {}
    /\ \E h \in bridge.hush : bridge' = [bridge EXCEPT !.hush = @ \ {h}]
    /\ UNCHANGED <<ws, ready, session, tools, queue, gate, caller, hist>>

FarewellOver ==
    /\ bridge.farewell
    /\ EndBridge
    /\ UNCHANGED <<tools, queue, gate, caller>>

HardTimeout == EndBridge /\ UNCHANGED <<tools, queue, gate, caller>>

WatchdogLooksDuringTools ==
    ~bridge.ended /\ ready /\ IsOpen /\ ~bridge.prot

WatchdogLooks ==
    ~bridge.ended /\ ready /\ IsOpen /\ ~bridge.prot /\ ~bridge.active

(* reconnect() closes the old socket, without its listeners, and opens the *)
(* next; prot is cleared without a word to the gateway.                    *)
OldKept(s) == session[s]
OldClosed(s) == [session[s] EXCEPT !.st = "closed"]

ReconnectsLeft == bridge.reconnects < MaxReconnects

Reconnect ==
    /\ WatchdogLooks /\ bridge.deaf
    /\ ReconnectsLeft
    /\ bridge' = [bridge EXCEPT !.reconnects = @ + 1, !.prot = FALSE,
                    !.hush = {"turn"}, !.active = FALSE, !.deaf = FALSE]
    /\ ready' = FALSE
    /\ ws' = ws + 1
    /\ session' = [session EXCEPT
                     ![ws] = OldClosed(ws),
                     ![ws + 1] = [NoSession EXCEPT !.st = "connecting"]]
    /\ UNCHANGED <<tools, queue, gate, caller, hist>>

NoReconnectLeft ==
    /\ WatchdogLooks /\ bridge.deaf
    /\ ~ReconnectsLeft
    /\ EndBridge
    /\ UNCHANGED <<tools, queue, gate, caller>>

-----------------------------------------------------------------------------
(* THE GATEWAY                                                             *)

GatewayConnects ==
    /\ gate.sock = "none" /\ ~bridge.ended
    /\ gate' = [gate EXCEPT !.sock = "open"]
    /\ hist' = [hist EXCEPT !.late = IF bridge.prot THEN "during" ELSE "no"]
    /\ UNCHANGED <<bridge, ws, ready, session, tools, queue, caller>>

(* removePendingCall, when the job has hung up: the socket stays open, but *)
(* sendToGateway does not find it any more.                                *)
Unregister ==
    /\ bridge.ended /\ gate.sock = "open"
    /\ gate' = [gate EXCEPT !.sock = "forgotten"]
    /\ UNCHANGED <<bridge, ws, ready, session, tools, queue, caller, hist>>

(* The socket closes, from either end.                                     *)
GatewayLeaves ==
    /\ gate.sock \in {"open", "forgotten"}
    /\ gate' = [gate EXCEPT !.sock = "closed"]
    /\ queue' = <<>>
    /\ caller' = FALSE
    /\ \/ EndBridge
       \/ bridge.ended /\ UNCHANGED <<bridge, ws, ready, session, hist>>
    /\ UNCHANGED tools

ReleasedUnflushed(g) ==
    IF g.prot THEN [g EXCEPT !.prot = FALSE, !.hush = TRUE] ELSE g

(* flushPendingPartialFrame, once the turn it belongs to is over.          *)
Released(g) ==
    IF g.prot THEN [g EXCEPT !.prot = FALSE, !.hush = TRUE, !.partial = FALSE] ELSE g

GatewayReceives ==
    /\ queue # <<>>
    /\ \/ /\ Head(queue) = "on"
          /\ gate' = [gate EXCEPT !.prot = TRUE, !.hush = FALSE]
       \/ /\ Head(queue) \in {"off", "gone"}
          /\ gate' = Released(gate)
       \/ /\ Head(queue) = "audio"
          /\ \E rest \in BOOLEAN : gate' = [gate EXCEPT !.partial = rest]
    /\ queue' = Tail(queue)
    /\ UNCHANGED <<bridge, ws, ready, session, tools, caller, hist>>

GateLapses ==
    /\ gate.hush
    /\ gate' = [gate EXCEPT !.hush = FALSE]
    /\ UNCHANGED <<bridge, ws, ready, session, tools, queue, caller, hist>>

(* A chunk of the caller's passes the gateway's gate ...                   *)
CallerSpeaks ==
    /\ gate.sock = "open" /\ ~gate.prot /\ ~gate.hush /\ ~caller
    /\ caller' = TRUE
    /\ UNCHANGED <<bridge, ws, ready, session, tools, queue, gate, hist>>

(* ... and the bridge's; silence of 600 ms makes it forget the speech.     *)
CallerHeard ==
    /\ caller
    /\ caller' = FALSE
    /\ IF ready /\ IsOpen /\ ~bridge.prot /\ bridge.hush = {}
       THEN \E speech \in BOOLEAN : bridge' = [bridge EXCEPT !.deaf = speech]
       ELSE UNCHANGED bridge
    /\ UNCHANGED <<ws, ready, session, tools, queue, gate, hist>>

-----------------------------------------------------------------------------
Session(s) ==
    \/ SessionOpens(s) \/ SetupComplete(s) \/ AgentSpeaks(s) \/ TurnComplete(s)
    \/ GenerationComplete(s) \/ Interrupted(s) \/ SessionErrs(s)
    \/ SessionCloses(s) \/ ToolCall(s)

Timers == HushLapses \/ FarewellOver \/ HardTimeout \/ Reconnect \/ NoReconnectLeft

Gateway ==
    \/ GatewayConnects \/ Unregister \/ GatewayLeaves \/ GatewayReceives
    \/ GateLapses \/ CallerSpeaks \/ CallerHeard

Next ==
    \/ \E s \in Sessions : Session(s)
    \/ \E t \in tools : ToolDone(t)
    \/ Timers \/ Gateway

Spec == Init /\ [][Next]_vars

-----------------------------------------------------------------------------
(* PROPERTIES                                                              *)

Bridges == [ended : BOOLEAN, prot : BOOLEAN, turns : 0..2,
            hush : SUBSET {"turn", "tool"}, deaf : BOOLEAN,
            active : BOOLEAN, greeted : BOOLEAN, farewell : BOOLEAN,
            reconnects : 0..MaxReconnects]

BridgeOK == bridge \in Bridges

SessionRecords ==
    [st : {"none", "connecting", "open", "closing", "closed"}, setup : BOOLEAN]

SessionsOK ==
    /\ ws \in {0} \cup Sessions
    /\ ready \in BOOLEAN
    /\ session \in [Sessions -> SessionRecords]
    /\ tools \subseteq [id : 1..MaxTools, from : Sessions, ends : BOOLEAN]

Messages == {"on", "off", "gone", "audio"}

Gates ==
    [sock : {"none", "open", "forgotten", "closed"}, prot : BOOLEAN,
     hush : BOOLEAN, partial : BOOLEAN]

LineOK ==
    /\ queue \in Seq(Messages) /\ Len(queue) <= MaxQueue
    /\ gate \in Gates
    /\ caller \in BOOLEAN

HistOK ==
    hist \in [late : {"no", "during", "after"}, orphan : {0} \cup Sessions,
              overlap : BOOLEAN, stray : BOOLEAN]

TypeOK == BridgeOK /\ SessionsOK /\ LineOK /\ HistOK

(* A gate that is p now, when it has read the first n messages of q: the   *)
(* last one that is not audio decides.                                     *)
Shut(p, q, n) ==
    \/ p /\ \A i \in 1..n : q[i] = "audio"
    \/ \E i \in 1..n : q[i] = "on" /\ \A j \in (i + 1)..n : q[j] = "audio"

(* The gateway's gate when it has read what is on its way.                 *)
GateToBe == Shut(gate.prot, queue, Len(queue))

(* While the call is registered, the two half-duplex gates agree once the  *)
(* gateway has read its messages: it never goes on muting a caller whom    *)
(* the bridge would hear, and lets him through during a turn only if it    *)
(* came in when that turn had begun.                                       *)
GatesAgree ==
    gate.sock = "open" =>
        \/ GateToBe <=> bridge.prot
        \/ bridge.prot /\ hist.late = "during"

(* The end of a turn leaves no piece of its last frame at the gateway, to  *)
(* be played at the start of the next one, unless the gateway came in      *)
(* during a turn, whose end it takes for nothing.                          *)
TailFlushed == (gate.partial /\ hist.late = "no") => gate.prot

(* No session is open or opening beside the current one, and none when the *)
(* bridge has ended, except one that was still connecting at that moment:  *)
(* nobody will ever close it.                                              *)
NoStraySession == \A s \in Sessions :
    session[s].st \in {"connecting", "open"} => s \in {ws, hist.orphan}

(* The types, and no stray session.                                        *)
SessionsSafe == TypeOK /\ NoStraySession

(* A tool's answer goes to the session that asked for it, whatever         *)
(* reconnects come between, unless two tool calls overlapped: the first to *)
(* finish tells the watchdog that no tool is active.                       *)
ToolAnswerHome == hist.stray => hist.overlap
=============================================================================
