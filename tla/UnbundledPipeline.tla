-------------------------- MODULE UnbundledPipeline --------------------------
(***************************************************************************)
(* One call on the unbundled voice pipeline: the state machine of          *)
(* unbundled-pipeline.js, the Deepgram session it transcribes with, one    *)
(* LLM run and one TTS socket per turn, and the CallBridge that owns it.   *)
(*                                                                         *)
(* Turn 1 is the greeting, which has no LLM run.  The bridge handles an    *)
(* "error" event by finalizing and closing the pipeline before emit()      *)
(* returns, so whatever emits an error ends the call in the same step.     *)
(* What an abort or a stop rejects is settled in microtasks, before the    *)
(* next event, hence also in the same step.                                *)
(***************************************************************************)
EXTENDS Naturals, Sequences, FiniteSets

CONSTANTS
  MaxTurns,    \* bound: turns of the call, the greeting included
  MaxRounds,   \* LLM_MAX_ROUNDS_PER_CALL
  Window,      \* LLM_HISTORY_WINDOW_TURNS
  BargeLimit,  \* BARGE_LOOP_THRESHOLD
  MaxTools,    \* MAX_TOOL_ROUNDS: rounds of a run that may call a tool
  Faults,      \* what may fail: "stt", "tts", "llm", "prompt", "rejection"
  MaxFaults    \* bound: failures in the life of the call

ASSUME PipelineAssumption ==
  /\ {MaxTurns, MaxRounds, Window, BargeLimit, MaxTools, MaxFaults} \subseteq Nat \ {0}
  /\ Faults \subseteq {"stt", "tts", "llm", "prompt", "rejection"}

VARIABLES
  bridge,      \* CallBridge._state; "died" when the process is gone
  pending,     \* CallBridge._pendingCustomerAnswered
  state,       \* _state, at the end of each handler
  closed,      \* _closed
  connecting,  \* where connect() is
  maxTimer,    \* _maxDurationTimer is armed
  endTimer,    \* the timer that end_call starts
  closeWait,   \* close() waits for _currentToolPromise before it closes Deepgram
  dg,          \* the Deepgram socket
  dgClosed,    \* DeepgramSession._closed
  dgRetried,   \* DeepgramSession._reconnectAttempted
  heard,       \* _latestPartialText is not empty
  turn,        \* turns begun
  llm,         \* turn -> where its LLM run is
  tools,       \* turn -> tool calls it has made
  before,      \* turn -> prevState of its tool call
  ending,      \* turn -> that tool is end_call
  said,        \* turn -> its agentResponseText is not empty
  tts,         \* turn -> its TTS socket
  over,        \* turn -> "stopped" by stop(), "done" when its end was reported
  finished,    \* turn -> the end of its text was sent or queued
  curTts,      \* turn of _currentTts, 0 for null
  curAbort,    \* turn of _currentLlmAbort, 0 for null
  curTool,     \* turn of _currentToolPromise, 0 for null
  messages,    \* _messages without the system prompt
  rounds,      \* _roundCountThisCall
  barges,      \* _bargeTimestamps inside the window
  faults,      \* failures so far
  deaf,        \* turns whose abort came while no request listened for it
  cut,         \* history: turns whose speech was reported over before their text
  late,        \* history: turns whose text reached the bridge after it had finalized
  orphan       \* history: what was opened after close()

bridgeVars  == <<bridge, pending>>
timerVars   == <<maxTimer, endTimer, closeWait>>
dgVars      == <<dg, dgClosed, dgRetried>>
llmVars     == <<llm, tools, before, ending, said, deaf>>
ttsVars     == <<tts, over, finished, cut>>
curVars     == <<curTts, curAbort, curTool>>
dialogVars  == <<messages, rounds, turn, late>>
closingVars == <<closed, state, maxTimer, closeWait, dg, dgClosed>>
vars == <<bridgeVars, state, closed, connecting, timerVars, dgVars, heard, llmVars,
          ttsVars, curVars, dialogVars, barges, faults, orphan>>

Turns  == 1 .. MaxTurns
Live   == bridge # "died"
States == {"idle", "connected", "greeting", "listening", "speaking", "tool_running",
           "filler_audio", "closed"}
InTool == {"tool_running", "filler_audio"}
Requesting == {"fetch", "stream"}

PlacesOK ==
  /\ bridge \in {"pre_warming", "pre_warmed", "live", "finalized", "died"}
  /\ state \in States
  /\ connecting \in {"synth", "dial", "done", "failed"}
  /\ dg \in {"none", "dialing", "open", "backoff", "redialing", "down"}
  /\ {pending, closed, maxTimer, endTimer, closeWait, dgClosed, dgRetried, heard}
       \subseteq BOOLEAN
  /\ turn \in 0 .. MaxTurns
  /\ {curTts, curAbort, curTool} \subseteq 0 .. MaxTurns
  /\ barges \in 0 .. BargeLimit
  /\ faults \in 0 .. MaxFaults
  /\ orphan \subseteq {"stt", "greeting", "turn"}

TurnsOK ==
  /\ llm \in [Turns -> {"none", "fetch", "stream", "backoff", "tool", "over"}]
  /\ tts \in [Turns -> {"none", "dial", "wait", "redial", "open", "gone"}]
  /\ over \in [Turns -> {"no", "done", "stopped"}]
  /\ before \in [Turns -> States]
  /\ tools \in [Turns -> 0 .. MaxTools]
  /\ {ending, said, finished} \subseteq [Turns -> BOOLEAN]
  /\ {deaf, cut, late} \subseteq SUBSET Turns

\* Every variable keeps its type, and the history its window: the text of one
\* user turn and the answers to the turns since the greeting may exceed it
\* (_applySlidingWindow).
TypeOK == /\ PlacesOK
          /\ TurnsOK
          /\ \A i \in DOMAIN messages : messages[i] \in {"user", "agent"} \X Turns
          /\ Len(messages) =< 2 * Window + MaxTurns - 1

Init ==
  /\ bridge = "pre_warming"
  /\ pending = FALSE
  /\ state = "idle"
  /\ closed = FALSE
  /\ connecting = "synth"
  /\ maxTimer = FALSE
  /\ endTimer = FALSE
  /\ closeWait = FALSE
  /\ dg = "none"
  /\ dgClosed = FALSE
  /\ dgRetried = FALSE
  /\ heard = FALSE
  /\ turn = 0
  /\ llm = [t \in Turns |-> "none"]
  /\ tools = [t \in Turns |-> 0]
  /\ before = [t \in Turns |-> "idle"]
  /\ ending = [t \in Turns |-> FALSE]
  /\ said = [t \in Turns |-> FALSE]
  /\ tts = [t \in Turns |-> "none"]
  /\ over = [t \in Turns |-> "no"]
  /\ finished = [t \in Turns |-> FALSE]
  /\ curTts = 0
  /\ curAbort = 0
  /\ curTool = 0
  /\ messages = <<>>
  /\ rounds = 0
  /\ barges = 0
  /\ faults = 0
  /\ deaf = {}
  /\ cut = {}
  /\ late = {}
  /\ orphan = {}

----------------------------------------------------------------------------
(* Stopping what runs *)

(* abort() of a turn's controller: a request made before it rejects; a run *)
(* that waits for a tool or a retry does not notice, nor do the requests   *)
(* it makes afterwards, which listen for an event that is past.            *)
Unheard(t) == t # 0 /\ (llm[t] \in {"tool", "backoff"} \/ t \in deaf)
Rejects(t) == t # 0 /\ llm[t] \in Requesting /\ t \notin deaf

(* Mutant of AbortRun: a request in progress is not torn down. *)
AbortNothing(l) ==
  /\ llm' = l
  /\ deaf' = deaf

AbortRun(l) ==
  /\ llm' = [t \in Turns |-> IF t = curAbort /\ Rejects(t) THEN "over" ELSE l[t]]
  /\ deaf' = deaf \cup {t \in {curAbort} : Unheard(t) /\ l[t] # "over"}

(* TTSSession.stop(): closing a socket in its first handshake fails the    *)
(* attempt, which is then retried, stopped or not; in its second one the   *)
(* start() rejects.                                                        *)
StopSpeech(s, o) ==
  LET hit(t) == t = curTts /\ o[t] = "no"
  IN  /\ over' = [t \in Turns |-> IF hit(t) THEN "stopped" ELSE o[t]]
      /\ tts' = [t \in Turns |->
           CASE ~hit(t) -> s[t]
             [] s[t] \in {"dial", "wait"} -> "wait"
             [] OTHER -> "gone"]

(* What the abort and the stop reject is emitted as an error. *)
StoppingFails == \/ Rejects(curAbort)
                 \/ curTts # 0 /\ tts[curTts] = "redial" /\ over[curTts] = "no"

(* Mutant of CloseDeepgram: the session is left open when a tool runs. *)
CloseDeepgramUnlessBusy ==
  IF curTool # 0
    THEN UNCHANGED <<closeWait, dg, dgClosed>>
    ELSE /\ closeWait' = FALSE
         /\ dgClosed' = (dg # "none")
         /\ dg' = IF dg = "open" THEN "down" ELSE dg

(* The end of close(): Deepgram is closed when no tool runs.  A socket that *)
(* is still in its handshake is not closed.                                 *)
CloseDeepgram ==
  IF curTool # 0
    THEN closeWait' = TRUE /\ UNCHANGED <<dg, dgClosed>>
    ELSE /\ closeWait' = FALSE
         /\ dgClosed' = (dg # "none")
         /\ dg' = IF dg = "open" THEN "down" ELSE dg

(* The first close() but for what it stops. *)
ShutDown ==
  /\ closed' = TRUE
  /\ state' = "closed"
  /\ maxTimer' = FALSE
  /\ CloseDeepgram

(* close(), in a handler that has already made the LLM runs l, the sockets  *)
(* s and their ends o.                                                      *)
Close(l, s, o) ==
  IF closed
    THEN /\ llm' = l
         /\ tts' = s
         /\ over' = o
         /\ UNCHANGED <<closingVars, deaf>>
    ELSE /\ ShutDown
         /\ AbortRun(l)
         /\ StopSpeech(s, o)

(* The bridge finalizes, on an error of the pipeline or for a reason of its *)
(* own, and closes the pipeline.                                            *)
EndCall(l, s, o) ==
  /\ bridge' = "finalized"
  /\ Close(l, s, o)

(* One more thing fails. *)
Fault(kind) ==
  /\ kind \in Faults /\ faults < MaxFaults
  /\ faults' = faults + 1

Fail(kind, l, s, o) == Fault(kind) /\ EndCall(l, s, o)

----------------------------------------------------------------------------
(* Setting the call up *)

(* startConversation() for turn 1, from a state the caller has checked. *)
Greet ==
  /\ state' = "greeting"
  /\ turn' = 1
  /\ messages' = <<<<"agent", 1>>>>
  /\ tts' = [tts EXCEPT ![1] = "dial"]
  /\ curTts' = 1
  /\ orphan' = IF closed THEN orphan \cup {"greeting"} ELSE orphan
  /\ UNCHANGED <<closed, maxTimer, closeWait, dgClosed, over, llm, deaf>>

(* Mutant of ArmKillSwitch: the timer waits for the greeting. *)
ArmLater == UNCHANGED maxTimer

ArmKillSwitch == maxTimer' = TRUE

(* getBootSynthBuffers returns, with buffers or without.  close() may have  *)
(* been called meanwhile; connect() does not look.                          *)
SynthDone ==
  /\ Live /\ connecting = "synth"
  /\ connecting' = "dial"
  /\ ArmKillSwitch
  /\ dg' = "dialing"
  /\ orphan' = IF closed THEN orphan \cup {"stt"} ELSE orphan
  /\ UNCHANGED <<bridgeVars, state, closed, endTimer, closeWait, dgClosed, dgRetried, heard,
                 llmVars, ttsVars, curVars, dialogVars, barges, faults>>

(* The socket opens and "ws_open" reaches the bridge, which starts the     *)
(* conversation of a customer who has already answered even when it has    *)
(* finalized.  A campaign without a prompt ends the call.                  *)
DialOpens ==
  /\ Live /\ connecting = "dial" /\ dg = "dialing"
  /\ connecting' = "done"
  /\ pending' = FALSE
  /\ UNCHANGED <<endTimer, dgRetried, heard, tools, before, ending, said, finished, cut,
                 curAbort, curTool, rounds, late, barges>>
  /\ \/ /\ ~pending /\ UNCHANGED faults
        /\ bridge' = IF bridge = "pre_warming" THEN "pre_warmed" ELSE bridge
        /\ state' = "connected"
        /\ dg' = "open"
        /\ UNCHANGED <<closed, maxTimer, closeWait, dgClosed, llm, deaf, tts, over,
                       messages, turn, curTts, orphan>>
     \/ /\ pending /\ UNCHANGED faults
        /\ bridge' = IF bridge = "pre_warming" THEN "live" ELSE bridge
        /\ dg' = "open"
        /\ Greet
     \/ /\ pending /\ Fault("prompt")
        /\ bridge' = "finalized"
        /\ closed' = TRUE
        /\ state' = IF closed THEN "connected" ELSE "closed"
        /\ maxTimer' = IF closed THEN maxTimer ELSE FALSE
        /\ dgClosed' = IF closed THEN dgClosed ELSE TRUE
        /\ dg' = IF closed THEN "open" ELSE "down"
        /\ UNCHANGED <<closeWait, llm, deaf, tts, over, messages, turn, curTts, orphan>>

(* The socket cannot be opened; connect() reports it and throws. *)
DialFails ==
  /\ Live /\ connecting = "dial" /\ dg = "dialing"
  /\ connecting' = "failed"
  /\ Fail("stt", llm, tts, over)
  /\ UNCHANGED <<pending, endTimer, dgRetried, heard, tools, before, ending, said, finished,
                 cut, curVars, dialogVars, barges, orphan>>

(* handleCustomerAnswered. *)
CustomerAnswers ==
  /\ Live
  /\ UNCHANGED <<connecting, endTimer, dgRetried, heard, tools, before, ending, said,
                 finished, cut, curAbort, curTool, rounds, late, barges>>
  /\ \/ /\ bridge = "pre_warming" /\ ~pending
        /\ pending' = TRUE
        /\ UNCHANGED <<bridge, closingVars, llm, deaf, tts, over, turn, messages, curTts,
                       faults, orphan>>
     \/ /\ bridge = "pre_warmed" /\ state = "connected"
        /\ bridge' = "live"
        /\ Greet
        /\ UNCHANGED <<pending, dg, faults>>
     \/ /\ bridge = "pre_warmed" /\ state = "connected"
        /\ Fail("prompt", llm, tts, over)
        /\ UNCHANGED <<pending, turn, messages, curTts, orphan>>

----------------------------------------------------------------------------
(* Deepgram *)

dgRest == <<pending, connecting, endTimer, heard, tools, before, ending, said, finished,
            cut, curVars, dialogVars, barges, orphan>>

(* The running socket drops: the first time it is dialled again, the second *)
(* time, or on an error of the socket, the call ends.                       *)
DeepgramDrops ==
  /\ Live /\ Fault("stt") /\ dg = "open" /\ ~dgClosed
  /\ UNCHANGED dgRest
  /\ \/ /\ ~dgRetried
        /\ dg' = "backoff"
        /\ dgRetried' = TRUE
        /\ UNCHANGED <<bridge, state, closed, maxTimer, closeWait, dgClosed, llm, deaf, tts,
                       over>>
     \/ EndCall(llm, tts, over) /\ UNCHANGED dgRetried

(* The back-off ends; close() has been called, or the socket is dialled. *)
DeepgramRedials ==
  /\ Live /\ dg = "backoff"
  /\ dg' = IF dgClosed THEN "down" ELSE "redialing"
  /\ UNCHANGED <<dgRest, faults, bridge, state, closed, maxTimer, closeWait, dgClosed,
                 dgRetried, llm, deaf, tts, over>>

DeepgramReopens ==
  /\ Live /\ dg = "redialing"
  /\ dg' = "open"
  /\ UNCHANGED <<dgRest, faults, bridge, state, closed, maxTimer, closeWait, dgClosed,
                 dgRetried, llm, deaf, tts, over>>

DeepgramRedialFails ==
  /\ Live /\ dg = "redialing"
  /\ UNCHANGED <<dgRest, dgRetried>>
  /\ \/ /\ dgClosed
        /\ dg' = "down"
        /\ UNCHANGED <<faults, bridge, state, closed, maxTimer, closeWait, dgClosed, llm,
                       deaf, tts, over>>
     \/ ~dgClosed /\ EndCall(llm, tts, over) /\ UNCHANGED faults

(* A socket that opened after its session was closed gets no audio and no  *)
(* keep-alive; the service drops it.                                       *)
DeepgramTimesOut ==
  /\ Live /\ dg = "open" /\ dgClosed
  /\ dg' = "down"
  /\ UNCHANGED <<dgRest, faults, bridge, state, closed, maxTimer, closeWait, dgClosed,
                 dgRetried, llm, deaf, tts, over>>

----------------------------------------------------------------------------
(* Turns *)

(* _applySlidingWindow. *)
Windowed(m) == IF Len(m) =< 2 * Window THEN m ELSE SubSeq(m, Len(m) - 2 * Window + 1, Len(m))

(* A partial or final transcript that does not pass the barge gate. *)
Hear ==
  /\ Live /\ dg = "open" /\ bridge = "live"
  /\ ~heard
  /\ heard' = TRUE
  /\ UNCHANGED <<bridgeVars, state, closed, connecting, timerVars, dgVars, llmVars, ttsVars,
                 curVars, dialogVars, barges, faults, orphan>>

(* Mutant of CommitUserTurn: the state of the machine is not looked at. *)
CommitAlways(t) ==
  /\ Live /\ bridge = "live" /\ heard
  /\ state \in {"listening", "speaking"} /\ turn \in Turns /\ t = turn + 1 /\ t \in Turns
  /\ heard' = FALSE
  /\ messages' = Windowed(Append(messages, <<"user", t>>))
  /\ UNCHANGED <<pending, connecting, endTimer, dgRetried, tools, before, ending, said,
                 finished, cut, rounds, late, curTool, barges, faults>>
  /\ turn' = t
  /\ state' = "speaking"
  /\ llm' = [llm EXCEPT ![t] = "fetch"]
  /\ tts' = [tts EXCEPT ![t] = "dial"]
  /\ curTts' = t
  /\ curAbort' = t
  /\ orphan' = IF closed THEN orphan \cup {"turn"} ELSE orphan
  /\ UNCHANGED <<bridge, closed, maxTimer, closeWait, dg, dgClosed, deaf, over>>

(* The bridge's VAD says the caller has stopped; commitUserTurn runs up to  *)
(* its first await.                                                         *)
CommitUserTurn(t) ==
  /\ Live /\ bridge = "live" /\ heard
  /\ state = "listening" /\ turn \in Turns /\ t = turn + 1 /\ t \in Turns
  /\ heard' = FALSE
  /\ messages' = Windowed(Append(messages, <<"user", t>>))
  /\ UNCHANGED <<pending, connecting, endTimer, dgRetried, tools, before, ending, said,
                 finished, cut, rounds, late, curTool, barges, faults>>
  /\ \/ /\ rounds >= MaxRounds
        /\ EndCall(llm, tts, over)
        /\ UNCHANGED <<turn, curTts, curAbort, orphan>>
     \/ /\ rounds < MaxRounds
        /\ turn' = t
        /\ state' = "speaking"
        /\ llm' = [llm EXCEPT ![t] = "fetch"]
        /\ tts' = [tts EXCEPT ![t] = "dial"]
        /\ curTts' = t
        /\ curAbort' = t
        /\ orphan' = IF closed THEN orphan \cup {"turn"} ELSE orphan
        /\ UNCHANGED <<bridge, closed, maxTimer, closeWait, dg, dgClosed, deaf, over>>

(* A partial that passes the gate while the agent speaks.  When the abort  *)
(* or the stop makes something reject, its error ends the call.            *)
Barge ==
  /\ Live /\ dg = "open" /\ ~dgClosed /\ state = "speaking"
  /\ heard' = TRUE
  /\ UNCHANGED <<pending, connecting, endTimer, dgRetried, tools, before, ending, said,
                 finished, cut, dialogVars, curTool, faults, orphan>>
  /\ \/ /\ barges = BargeLimit
        /\ EndCall(llm, tts, over)
        /\ UNCHANGED <<barges, curTts, curAbort>>
     \/ /\ barges < BargeLimit
        /\ barges' = barges + 1
        /\ curTts' = 0
        /\ curAbort' = 0
        /\ AbortRun(llm)
        /\ StopSpeech(tts, over)
        /\ bridge' = IF StoppingFails THEN "finalized" ELSE bridge
        /\ \/ StoppingFails /\ ~closed /\ ShutDown
           \/ /\ ~StoppingFails \/ closed
              /\ state' = "listening"
              /\ UNCHANGED <<closed, maxTimer, closeWait, dg, dgClosed>>

(* A barge leaves the window of BARGE_LOOP_WINDOW_MS. *)
BargeExpires ==
  /\ Live /\ barges > 0
  /\ barges' = barges - 1
  /\ UNCHANGED <<bridgeVars, state, closed, connecting, timerVars, dgVars, heard, llmVars,
                 ttsVars, curVars, dialogVars, faults, orphan>>

----------------------------------------------------------------------------
(* The LLM run of a turn *)

llmRest == <<pending, connecting, endTimer, dgRetried, heard, turn, finished, cut, barges,
             orphan>>
quiet   == <<bridge, closingVars, tts, over>>

(* A request is answered, retried after a back-off, or given up. *)
Fetched(t) ==
  /\ Live /\ llm[t] = "fetch"
  /\ UNCHANGED <<llmRest, tools, before, ending, said, curVars, messages, rounds, late>>
  /\ \/ /\ llm' = [llm EXCEPT ![t] = "stream"]
        /\ UNCHANGED <<quiet, deaf, faults>>
     \/ /\ Fault("llm")
        /\ llm' = [llm EXCEPT ![t] = "backoff"]
        /\ UNCHANGED <<quiet, deaf>>
     \/ Fail("llm", [llm EXCEPT ![t] = "over"], tts, over)

BackoffEnds(t) ==
  /\ Live /\ llm[t] = "backoff"
  /\ llm' = [llm EXCEPT ![t] = "fetch"]
  /\ UNCHANGED <<llmRest, quiet, faults, deaf, tools, before, ending, said, curVars, messages, rounds,
                 late>>

(* A sentence goes to the turn's TTS session and into the text. *)
Sentence(t) ==
  /\ Live /\ llm[t] = "stream" /\ ~said[t]
  /\ said' = [said EXCEPT ![t] = TRUE]
  /\ UNCHANGED <<llmRest, quiet, faults, llm, deaf, tools, before, ending, curVars, messages, rounds,
                 late>>

StreamFails(t) ==
  /\ Live /\ llm[t] = "stream"
  /\ Fail("llm", [llm EXCEPT ![t] = "over"], tts, over)
  /\ UNCHANGED <<llmRest, tools, before, ending, said, curVars, messages, rounds, late>>

(* The round ends in a tool call, which _handleToolCall starts. *)
AsksTool(t, e) ==
  /\ Live /\ llm[t] = "stream" /\ tools[t] < MaxTools
  /\ llm' = [llm EXCEPT ![t] = "tool"]
  /\ tools' = [tools EXCEPT ![t] = @ + 1]
  /\ before' = [before EXCEPT ![t] = state]
  /\ ending' = [ending EXCEPT ![t] = e]
  /\ state' = "tool_running"
  /\ curTool' = t
  /\ UNCHANGED <<llmRest, faults, bridge, closed, maxTimer, closeWait, dg, dgClosed, tts, over, deaf,
                 said, curTts, curAbort, messages, rounds, late>>

FillerPlays ==
  /\ Live /\ state = "tool_running" /\ \E t \in Turns : llm[t] = "tool"
  /\ state' = "filler_audio"
  /\ UNCHANGED <<bridgeVars, closed, connecting, timerVars, dgVars, heard, llmVars, ttsVars,
                 curVars, dialogVars, barges, faults, orphan>>

(* Mutant of Resumed: the state before the tool is forgotten. *)
ResumedNever(t) == state

(* The state after a tool: the one before it when the agent was speaking, and *)
(* for every other one, and after end_call, it stays as it is.                *)
Resumed(t) == IF ~ending[t] /\ before[t] = "speaking" THEN "speaking" ELSE state

(* The tool settles.  The "tool_call" event makes the bridge run it again   *)
(* and answer with a reply that the event does not carry: the rejection of  *)
(* that listener has no handler, and ends the process where Node says so.   *)
ToolReturns(t) ==
  /\ Live /\ llm[t] = "tool"
  /\ llm' = [llm EXCEPT ![t] = "fetch"]
  /\ state' = Resumed(t)
  /\ curTool' = 0
  /\ before' = [before EXCEPT ![t] = "idle"]
  /\ endTimer' = (endTimer \/ ending[t])
  /\ \/ UNCHANGED <<bridge, faults>>
     \/ Fault("rejection") /\ bridge' = "died"
  /\ UNCHANGED <<pending, connecting, dgRetried, heard, turn, finished, cut, barges, orphan,
                 closed, maxTimer, closeWait, dg, dgClosed, tts, over, deaf, tools, ending,
                 said, curTts, curAbort, messages, rounds, late>>

Answered(t) == IF said[t] THEN Append(messages, <<"agent", t>>) ELSE messages

(* The run is over: the text joins the history and the bridge, whichever   *)
(* turn is the current one by now.                                         *)
RunEnds(t) ==
  /\ Live /\ llm[t] = "stream"
  /\ llm' = [llm EXCEPT ![t] = "over"]
  /\ finished' = [finished EXCEPT ![t] = TRUE]
  /\ messages' = Answered(t)
  /\ late' = IF said[t] /\ bridge = "finalized" THEN late \cup {t} ELSE late
  /\ curAbort' = 0
  /\ rounds' = rounds + 1
  /\ UNCHANGED <<pending, connecting, endTimer, dgRetried, heard, turn, cut, barges, orphan,
                 faults, quiet, deaf, tools, before, ending, said, curTts, curTool>>

----------------------------------------------------------------------------
(* The TTS session of a turn *)

ttsRest == <<pending, connecting, endTimer, dgRetried, heard, tools, before, ending, said,
             turn, messages, rounds, curVars, barges, orphan>>
callSame == <<bridge, closed, maxTimer, closeWait, dg, dgClosed, llm, deaf>>

(* The socket opens, stopped or not, and start() resolves: the greeting is *)
(* sent and reported to the bridge.                                        *)
TtsOpens(t) ==
  /\ Live /\ tts[t] \in {"dial", "redial"}
  /\ tts' = [tts EXCEPT ![t] = "open"]
  /\ finished' = IF t = 1 THEN [finished EXCEPT ![t] = TRUE] ELSE finished
  /\ late' = IF t = 1 /\ bridge = "finalized" THEN late \cup {t} ELSE late
  /\ UNCHANGED <<ttsRest, callSame, faults, state, over, cut>>

TtsDialFails(t) ==
  /\ Live /\ UNCHANGED <<ttsRest, finished, cut, late>>
  /\ \/ /\ tts[t] = "dial" /\ Fault("tts")
        /\ tts' = [tts EXCEPT ![t] = "wait"]
        /\ UNCHANGED <<callSame, state, over>>
     \/ /\ tts[t] = "redial"
        /\ Fail("tts", llm, [tts EXCEPT ![t] = "gone"], over)

TtsRetries(t) ==
  /\ Live /\ tts[t] = "wait"
  /\ tts' = [tts EXCEPT ![t] = "redial"]
  /\ UNCHANGED <<ttsRest, callSame, faults, state, over, finished, cut, late>>

(* The "done" handler: the caller may speak, except while a tool runs. *)
AfterSpeech == IF state \in {"greeting", "speaking"} THEN "listening" ELSE state

(* The service says that all text is spoken, or closes the socket early.    *)
(* It is not asked which session has ended.                                 *)
TtsDone(t) ==
  /\ Live /\ tts[t] = "open" /\ over[t] = "no"
  /\ \/ finished[t] /\ UNCHANGED faults
     \/ ~finished[t] /\ Fault("tts")
  /\ tts' = [tts EXCEPT ![t] = "gone"]
  /\ over' = [over EXCEPT ![t] = "done"]
  /\ state' = AfterSpeech
  /\ cut' = IF finished[t] THEN cut ELSE cut \cup {t}
  /\ UNCHANGED <<ttsRest, callSame, finished, late>>

(* FIRST_BYTE_TIMEOUT_MS without audio. *)
TtsSilent(t) ==
  /\ Live /\ tts[t] = "open" /\ over[t] = "no" /\ (t = 1 \/ said[t])
  /\ Fail("tts", llm, tts, over)
  /\ UNCHANGED <<ttsRest, finished, cut, late>>

(* A socket that opened after stop() forwards nothing and is not closed;    *)
(* the service closes it.                                                   *)
TtsForgotten(t) ==
  /\ Live /\ tts[t] = "open" /\ over[t] = "stopped"
  /\ tts' = [tts EXCEPT ![t] = "gone"]
  /\ UNCHANGED <<ttsRest, callSame, faults, state, over, finished, cut, late>>

----------------------------------------------------------------------------
(* The end of the call *)

endRest == <<pending, connecting, dgRetried, heard, tools, before, ending, said, finished,
             cut, curVars, dialogVars, barges, faults, orphan>>

(* A hang-up, or any other reason the bridge has to end. *)
HangUp ==
  /\ Live /\ bridge # "finalized"
  /\ EndCall(llm, tts, over)
  /\ UNCHANGED <<endRest, endTimer>>

(* The kill switch.  When connect() armed it after close(), nothing is left *)
(* for it to do.                                                            *)
MaxDuration ==
  /\ Live /\ maxTimer
  /\ UNCHANGED <<endRest, endTimer>>
  /\ \/ ~closed /\ EndCall(llm, tts, over)
     \/ closed /\ maxTimer' = FALSE
        /\ UNCHANGED <<bridge, closed, state, closeWait, dg, dgClosed, llm, deaf, tts, over>>

(* Ten seconds after end_call the pipeline closes.  The bridge only logs   *)
(* that, unless the abort or the stop reports an error.                    *)
EndCallTimer ==
  /\ Live /\ endTimer
  /\ endTimer' = FALSE
  /\ bridge' = IF ~closed /\ StoppingFails THEN "finalized" ELSE bridge
  /\ Close(llm, tts, over)
  /\ UNCHANGED endRest

(* close() has waited five seconds, or for the tool. *)
CloseSettles ==
  /\ Live /\ closeWait
  /\ closeWait' = FALSE
  /\ dgClosed' = (dg # "none")
  /\ dg' = IF dg = "open" THEN "down" ELSE dg
  /\ UNCHANGED <<endRest, endTimer, bridge, state, closed, maxTimer, llm, deaf, tts, over>>

TurnStep(t) ==
  \/ CommitUserTurn(t)
  \/ Fetched(t) \/ BackoffEnds(t) \/ Sentence(t) \/ StreamFails(t)
  \/ \E e \in BOOLEAN : AsksTool(t, e)
  \/ ToolReturns(t) \/ RunEnds(t)
  \/ TtsOpens(t) \/ TtsDialFails(t) \/ TtsRetries(t) \/ TtsDone(t) \/ TtsSilent(t)
  \/ TtsForgotten(t)

Next ==
  \/ SynthDone \/ DialOpens \/ DialFails \/ CustomerAnswers
  \/ DeepgramDrops \/ DeepgramRedials \/ DeepgramReopens \/ DeepgramRedialFails
  \/ DeepgramTimesOut
  \/ Hear \/ Barge \/ BargeExpires \/ FillerPlays
  \/ HangUp \/ MaxDuration \/ EndCallTimer \/ CloseSettles
  \/ \E t \in Turns : TurnStep(t)

(* Fetches of the boot phrases end; timers fire. *)
Spec == Init /\ [][Next]_vars /\ WF_vars(SynthDone) /\ WF_vars(MaxDuration)

----------------------------------------------------------------------------
(* Turns that went on after the machine had left them. *)
Slipped == deaf \cup cut

(* A turn that slipped, or one that began after it: the end of a slipped   *)
(* run takes the abort controller of the current one away.                 *)
Disordered(t) == \E u \in Slipped : u =< t

\* At most one TTS session speaks or may come to speak: "done" of any session
\* changes the state of the machine, whichever turn it belongs to.
OneVoice == Cardinality({t \in Turns : tts[t] # "none" /\ over[t] = "no"}) =< 1

\* An answer joins the history before the caller's next words, unless its turn
\* or an earlier one was aborted where no request listened or cut short.
HistoryInOrder ==
  \A i, j \in DOMAIN messages :
    i < j /\ messages[i][2] > messages[j][2] => Disordered(messages[j][2])

\* While the machine says "speaking" a voice is there to report its end, unless
\* an earlier turn slipped: without one only a barge reopens the microphone.
SpeakingHasVoice ==
  state = "speaking" /\ ~closed /\ Slipped = {} => curTts # 0 /\ over[curTts] = "no"

\* The machine leaves the tool states with the tool, or the timer of end_call is
\* going to close it, unless a turn slipped: in those states the caller is not
\* listened to.
ToolModeEnds ==
  state \in InTool /\ ~closed /\ Slipped = {} =>
    endTimer \/ \E t \in Turns : llm[t] = "tool"

\* Text reaches the bridge after it has finalized, and with it the turn writer
\* after flushAndClose, only from the greeting or from turns that slipped or
\* came after one that did.
LateTextExplained == \A t \in late : t = 1 \/ Disordered(t)

\* What was said is recorded in order and in time.
TextInOrder == HistoryInOrder /\ LateTextExplained

\* No state outlives what it waits for.
ModesSafe == TypeOK /\ SpeakingHasVoice /\ ToolModeEnds

\* A closed pipeline has closed its Deepgram session, has no kill switch armed
\* and no voice, unless connect(), its "ws_open" or a turn came after close(); and
\* no turn does but behind one that slipped.
ClosedIsReleased ==
  /\ closed /\ ~closeWait /\ Live =>
       /\ dg = "none" \/ dgClosed \/ "stt" \in orphan
       /\ ~maxTimer \/ "stt" \in orphan
       /\ \/ {"greeting", "turn"} \cap orphan # {}
          \/ \A t \in Turns : tts[t] # "none" => over[t] # "no"
  /\ "turn" \in orphan => Slipped # {}

\* The pipeline has closed itself after end_call, and the bridge, which only
\* logs that a session closes, has not heard of it: no kill switch is left.
LeftByTool == closed /\ \E t \in Turns : ending[t]

\* Whatever fails, and whoever aborts what, every call is finalized: by the kill
\* switch at the latest, unless the agent's end_call has closed the pipeline
\* and left the bridge to the caller's hang-up.
CallBounded == <>(bridge \in {"finalized", "died"} \/ LeftByTool)

=============================================================================
