----------------------- MODULE UnbundledPipelineProofs -----------------------
(***************************************************************************)
(* Proofs about UnbundledPipeline, for any numbers of turns, rounds,       *)
(* tools, barges and faults.  The invariant says what each step relies on: *)
(* that a voice belongs to the current session and never sounds while the  *)
(* caller is listened to (VoiceInv), that a run which an abort would not   *)
(* reach belongs to a turn that slipped or to one behind it                *)
(* (DisorderInv), that a mode of the machine has what ends it (ModeInv),   *)
(* what a close leaves (ReleaseInv), and that the history has room for the *)
(* answers of the runs under way (MessageInv).                             *)
(***************************************************************************)
EXTENDS UnbundledPipeline, FiniteSetTheorems, TLAPS

Active(t) == llm[t] \in {"fetch", "stream", "backoff", "tool"}
Voice(t)  == tts[t] # "none" /\ over[t] = "no"

(* Turns begin one after the other, and none before the customer is there. *)
BeginInv ==
  /\ \A t \in Turns : t > turn => llm[t] = "none" /\ tts[t] = "none" /\ over[t] = "no"
  /\ \A t \in Turns : t = 1 => llm[t] = "none"
  /\ \A t \in Turns : finished[t] => t = 1 \/ llm[t] = "over"
  /\ connecting # "done" \/ bridge \in {"pre_warming", "pre_warmed"} => turn = 0
  /\ bridge \in {"pre_warmed", "live"} => connecting = "done"
  /\ endTimer => turn # 0
  /\ closed => bridge \notin {"pre_warming", "pre_warmed"}
  /\ bridge = "finalized" => closed
  /\ curTts \in {0, turn} /\ curAbort <= turn
  /\ Slipped \subseteq 1 .. turn
  /\ "turn" \in orphan => Slipped # {}

(* The only voice is the current session's, and there is none while the    *)
(* caller is listened to.                                                  *)
VoiceInv ==
  /\ \A t \in Turns : Voice(t) => t = curTts /\ state # "listening"
  /\ closed => {"greeting", "turn"} \cap orphan # {} \/ \A t \in Turns : ~Voice(t)

(* A run that an abort would not reach belongs to a turn that slipped, or   *)
(* to one after it.                                                         *)
DisorderInv ==
  /\ \A t \in Turns : Active(t) /\ ~Disordered(t) =>
       t = turn /\ t = curAbort /\ state # "listening" /\ ~closed
  /\ closed /\ bridge = "live" /\ state # "closed" => Slipped # {}
  /\ \A t \in late : t = 1 \/ Disordered(t)

ModeInv == ~closed /\ Slipped = {} =>
  /\ \A t \in Turns : Active(t) =>
       t = curTts /\ over[t] = "no" /\ state \in {"speaking"} \cup InTool
  /\ state = "speaking" => curTts # 0 /\ over[curTts] = "no"
  /\ state \in InTool => endTimer \/ \E t \in Turns : llm[t] = "tool"
  /\ \A t \in Turns : llm[t] = "tool" /\ before[t] # "speaking" => endTimer

ReleaseInv == closed =>
  /\ closeWait \/ dg = "none" \/ dgClosed \/ "stt" \in orphan
  /\ ~maxTimer \/ "stt" \in orphan

MessageInv ==
  /\ messages \in Seq({"user", "agent"} \X Turns)
  /\ \A i \in DOMAIN messages : messages[i][2] <= turn \/ bridge \in {"finalized", "died"}
  /\ HistoryInOrder
  /\ Len(messages) + Cardinality({t \in Turns : Active(t)}) <= 2 * Window + MaxTurns - 1

IInv == /\ PlacesOK /\ TurnsOK
        /\ BeginInv /\ VoiceInv /\ DisorderInv /\ ModeInv /\ ReleaseInv /\ MessageInv

-----------------------------------------------------------------------------
(* Types                                                                   *)

Runs    == {"none", "fetch", "stream", "backoff", "tool", "over"}
Sockets == {"none", "dial", "wait", "redial", "open", "gone"}
Bridges == {"pre_warming", "pre_warmed", "live", "finalized", "died"}
Conns   == {"synth", "dial", "done", "failed"}
Dgs     == {"none", "dialing", "open", "backoff", "redialing", "down"}

(* PlacesOK and TurnsOK, one variable after the other.                     *)
Flags ==
  /\ pending \in BOOLEAN /\ closed \in BOOLEAN /\ maxTimer \in BOOLEAN
  /\ endTimer \in BOOLEAN /\ closeWait \in BOOLEAN /\ dgClosed \in BOOLEAN
  /\ dgRetried \in BOOLEAN /\ heard \in BOOLEAN
Places == bridge \in Bridges /\ state \in States /\ connecting \in Conns /\ dg \in Dgs
Counts ==
  /\ turn \in 0 .. MaxTurns /\ curTts \in 0 .. MaxTurns /\ curAbort \in 0 .. MaxTurns
  /\ curTool \in 0 .. MaxTurns /\ barges \in 0 .. BargeLimit /\ faults \in 0 .. MaxFaults
  /\ tools \in [Turns -> 0 .. MaxTools]
TurnMaps ==
  /\ llm \in [Turns -> Runs] /\ tts \in [Turns -> Sockets]
  /\ over \in [Turns -> {"no", "done", "stopped"}] /\ before \in [Turns -> States]
TurnFlags ==
  /\ ending \in [Turns -> BOOLEAN] /\ said \in [Turns -> BOOLEAN]
  /\ finished \in [Turns -> BOOLEAN]
TurnSets ==
  /\ deaf \subseteq Turns /\ cut \subseteq Turns /\ late \subseteq Turns
  /\ orphan \subseteq {"stt", "greeting", "turn"}

Types == Flags /\ Places /\ Counts /\ TurnMaps /\ TurnFlags /\ TurnSets

(* The two halves of the type invariant, one group of variables after the  *)
(* other.                                                                  *)
LEMMA TypesUnfold == PlacesOK /\ TurnsOK <=> Types
BY DEF PlacesOK, TurnsOK, Types, Flags, Places, Counts, TurnMaps, TurnFlags, TurnSets,
  Bridges, Conns, Dgs, Runs, Sockets

(* The bounds are positive numbers and so are the turns.                   *)
LEMMA Numbers ==
  /\ MaxTurns \in Nat \ {0} /\ MaxRounds \in Nat \ {0}
  /\ Window \in Nat \ {0} /\ BargeLimit \in Nat \ {0}
  /\ MaxTools \in Nat \ {0} /\ MaxFaults \in Nat \ {0}
  /\ Turns \subseteq Nat
BY PipelineAssumption DEF Turns

(* What a step that closes the pipeline leaves in order.                   *)
CloseTyped ==
  /\ closed' = TRUE /\ state' \in States /\ dg' \in Dgs
  /\ maxTimer' \in BOOLEAN /\ closeWait' \in BOOLEAN /\ dgClosed' \in BOOLEAN
  /\ llm' \in [Turns -> Runs] /\ tts' \in [Turns -> Sockets]
  /\ over' \in [Turns -> {"no", "done", "stopped"}] /\ deaf' \subseteq Turns

(* Only turns are aborted where no request listens.                        *)
LEMMA DeafTypes ==
  ASSUME Types, NEW l, AbortRun(l)
  PROVE  deaf' \subseteq Turns
<1>1. curAbort # 0 => curAbort \in Turns
  BY Numbers DEF Types, Counts, Turns
<1>2. \A t \in deaf' \ deaf : t = curAbort /\ t # 0
  BY DEF AbortRun, Unheard
<1> QED
  BY <1>1, <1>2 DEF Types, TurnSets

(* close() keeps its types, called once or again.                          *)
LEMMA CloseTypes ==
  ASSUME Types, NEW l \in [Turns -> Runs], NEW s \in [Turns -> Sockets],
         Close(l, s, over)
  PROVE  CloseTyped
<1> USE DEF Types, Close, CloseTyped
<1>1. CASE closed
  BY <1>1 DEF closingVars, Flags, Places, TurnMaps, TurnSets
<1>2. CASE ~closed
  <2>1. ShutDown /\ AbortRun(l) /\ StopSpeech(s, over)
    BY <1>2
  <2>2. llm' \in [Turns -> Runs]
    BY <2>1 DEF AbortRun, Runs
  <2>3. deaf' \subseteq Turns
    BY <2>1, DeafTypes
  <2>4. tts' \in [Turns -> Sockets] /\ over' \in [Turns -> {"no", "done", "stopped"}]
    BY <2>1 DEF StopSpeech, Sockets, TurnMaps
  <2>5. closed' = TRUE /\ state' \in States /\ dg' \in Dgs
    BY <2>1 DEF ShutDown, CloseDeepgram, States, Dgs, Places
  <2>6. maxTimer' \in BOOLEAN /\ closeWait' \in BOOLEAN /\ dgClosed' \in BOOLEAN
    BY <2>1 DEF ShutDown, CloseDeepgram, Flags
  <2> QED
    BY <2>2, <2>3, <2>4, <2>5, <2>6
<1> QED
  BY <1>1, <1>2

(* The maps that a run or a socket at its end writes.                      *)
LEMMA Functions ==
  ASSUME Types, NEW t \in Turns
  PROVE  /\ [llm EXCEPT ![t] = "over"] \in [Turns -> Runs]
         /\ [tts EXCEPT ![t] = "gone"] \in [Turns -> Sockets]
         /\ llm \in [Turns -> Runs] /\ tts \in [Turns -> Sockets]
BY DEF Types, TurnMaps, Runs, Sockets

(* A step that closes the pipeline and touches nothing of a turn keeps the *)
(* types.                                                                  *)
LEMMA ClosedTypes ==
  ASSUME Types, CloseTyped, bridge' \in Bridges, faults' \in 0 .. MaxFaults,
         connecting' \in Conns, barges' \in 0 .. BargeLimit, pending' \in BOOLEAN,
         endTimer' \in BOOLEAN, heard' \in BOOLEAN, dgRetried' \in BOOLEAN,
         UNCHANGED <<turn, curVars, tools, before, ending, said, finished, cut, late, orphan>>
  PROVE  Types'
BY DEF Types, CloseTyped, curVars, Flags, Places, Counts, TurnMaps, TurnFlags, TurnSets

(* Faults are counted up to their bound.                                   *)
LEMMA FaultTypes ==
  ASSUME Types, NEW kind, Fault(kind)
  PROVE  faults' \in 0 .. MaxFaults
BY Numbers DEF Types, Fault, Counts

(* Boot, dial and answer keep the types.                                   *)
LEMMA SetUpTypes ==
  ASSUME Types, SynthDone \/ DialOpens \/ DialFails \/ CustomerAnswers
  PROVE  Types'
<1> USE DEF Types, EndCall, Fail, closingVars, bridgeVars, timerVars, dgVars, llmVars, ttsVars,
            curVars, dialogVars
<1>1. CASE SynthDone
  <2> USE <1>1 DEF SynthDone, ArmKillSwitch
  <2>1. Flags'
    BY DEF Flags
  <2>2. Places' /\ Counts' /\ TurnMaps' /\ TurnFlags' /\ TurnSets'
    BY DEF Places, Bridges, States, Conns, Dgs, Counts, TurnMaps, TurnFlags, TurnSets
  <2> QED
    BY <2>1, <2>2
<1>n. 1 \in 0 .. MaxTurns /\ 1 \in Turns
  BY Numbers DEF Turns
<1>g. ASSUME Greet PROVE Counts' <=> /\ curAbort' \in 0 .. MaxTurns /\ curTool' \in 0 .. MaxTurns
                                     /\ barges' \in 0 .. BargeLimit /\ faults' \in 0 .. MaxFaults
                                     /\ tools' \in [Turns -> 0 .. MaxTools]
  BY <1>g, <1>n DEF Greet, Counts
<1>h. ASSUME Greet, UNCHANGED before PROVE TurnMaps'
  BY <1>h, <1>n DEF Greet, TurnMaps, Sockets
<1>2. CASE DialOpens
  <2> USE <1>2 DEF DialOpens
  <2>1. Flags'
    BY DEF Flags, Greet
  <2>2. Places'
    BY DEF Places, Bridges, States, Conns, Dgs, Greet
  <2>f. faults' \in 0 .. MaxFaults
    BY FaultTypes DEF Counts
  <2>3. Counts'
    BY <2>f, <1>g DEF Counts
  <2>4. TurnMaps'
    BY <1>h DEF TurnMaps
  <2>5. TurnFlags' /\ TurnSets'
    BY DEF TurnFlags, TurnSets, Greet
  <2> QED
    BY <2>1, <2>2, <2>3, <2>4, <2>5
<1>3. CASE DialFails
  <2>1. CloseTyped
    BY <1>3, CloseTypes DEF DialFails, TurnMaps
  <2>2. faults' \in 0 .. MaxFaults
    BY <1>3, FaultTypes DEF DialFails
  <2> QED
    BY <1>3, <2>1, <2>2, ClosedTypes DEF DialFails, Flags, Bridges, Conns, Counts
<1>4. CASE CustomerAnswers
  <2> USE <1>4 DEF CustomerAnswers
  <2>1. CASE bridge = "pre_warming"
    BY <2>1 DEF Flags, Places, Bridges, Conns, Counts, TurnMaps, TurnFlags, TurnSets
  <2>2. CASE bridge = "pre_warmed" /\ bridge' = "live" /\ Greet /\ UNCHANGED <<pending, dg, faults>>
    <3>1. Flags'
      BY <2>2 DEF Flags, Greet
    <3>2. Places'
      BY <2>2 DEF Places, Bridges, States, Conns, Dgs, Greet
    <3>3. Counts'
      BY <1>g, <2>2 DEF Counts
    <3>4. TurnMaps'
      BY <1>h, <2>2 DEF TurnMaps
    <3>5. TurnFlags' /\ TurnSets'
      BY <2>2 DEF TurnFlags, TurnSets, Greet
    <3> QED
      BY <3>1, <3>2, <3>3, <3>4, <3>5
  <2>3. CASE Fail("prompt", llm, tts, over) /\ UNCHANGED <<pending, turn, messages, curTts, orphan>>
    <3>1. CloseTyped
      BY <2>3, CloseTypes DEF TurnMaps
    <3>2. faults' \in 0 .. MaxFaults
      BY <2>3, FaultTypes
    <3> QED
      BY <2>3, <3>1, <3>2, ClosedTypes DEF Flags, Bridges, Places, Counts
  <2> QED
    BY <2>1, <2>2, <2>3
<1> QED
  BY <1>1, <1>2, <1>3, <1>4

(* What happens to the Deepgram socket keeps the types.                    *)
LEMMA DeepgramTypes ==
  ASSUME Types,
         \/ DeepgramDrops \/ DeepgramRedials \/ DeepgramReopens \/ DeepgramRedialFails
         \/ DeepgramTimesOut
  PROVE  Types'
<1> USE DEF Types, dgRest, EndCall, curVars, dialogVars
<1>1. ASSUME UNCHANGED <<dgRest, state, closed, maxTimer, closeWait, dgClosed, llm, deaf, tts, over>>,
             faults' \in 0 .. MaxFaults, bridge' \in Bridges, dg' \in Dgs, dgRetried' \in BOOLEAN
      PROVE  Types'
  BY <1>1 DEF Flags, Places, Counts, TurnMaps, TurnFlags, TurnSets
<1>2. ASSUME EndCall(llm, tts, over), UNCHANGED <<dgRest, dgRetried>>, faults' \in 0 .. MaxFaults
      PROVE  Types'
  <2>1. CloseTyped
    BY <1>2, CloseTypes DEF TurnMaps
  <2> QED
    BY <1>2, <2>1, ClosedTypes DEF Flags, Bridges, Places, Counts
<1>3. CASE DeepgramDrops
  <2>0. faults' \in 0 .. MaxFaults
    BY <1>3, FaultTypes DEF DeepgramDrops
  <2> QED
    BY <1>1, <1>2, <1>3, <2>0 DEF DeepgramDrops, Bridges, Dgs, Places
<1>4. CASE DeepgramRedials \/ DeepgramReopens \/ DeepgramTimesOut
  BY <1>1, <1>4 DEF DeepgramRedials, DeepgramReopens, DeepgramTimesOut, Places, Counts, Flags, Dgs
<1>5. CASE DeepgramRedialFails
  BY <1>1, <1>2, <1>5 DEF DeepgramRedialFails, Places, Counts, Flags, Dgs
<1> QED
  BY <1>3, <1>4, <1>5

(* The caller's interruptions, the filler and the ends of the call keep    *)
(* the types.                                                              *)
LEMMA DialogTypes ==
  ASSUME Types,
         \/ Hear \/ FillerPlays \/ BargeExpires \/ Barge
         \/ HangUp \/ MaxDuration \/ EndCallTimer \/ CloseSettles
  PROVE  Types'
<1> USE DEF Types, EndCall, closingVars, bridgeVars, timerVars, dgVars, llmVars, ttsVars, curVars,
            dialogVars, endRest
<1>1. CASE Hear \/ FillerPlays
  <2>1. Flags' /\ TurnFlags' /\ TurnSets'
    BY <1>1 DEF Hear, FillerPlays, Flags, TurnFlags, TurnSets
  <2>2. Places' /\ Counts' /\ TurnMaps'
    BY <1>1 DEF Hear, FillerPlays, Places, Counts, TurnMaps, States
  <2> QED
    BY <2>1, <2>2
<1>2. CASE BargeExpires
  <2>1. Flags' /\ TurnFlags' /\ TurnSets'
    BY <1>2 DEF BargeExpires, Flags, TurnFlags, TurnSets
  <2>2. Places' /\ TurnMaps'
    BY <1>2 DEF BargeExpires, Places, TurnMaps
  <2>3. barges' \in 0 .. BargeLimit
    BY <1>2, Numbers DEF BargeExpires, Counts
  <2>4. Counts'
    BY <1>2, <2>3 DEF BargeExpires, Counts
  <2> QED
    BY <2>1, <2>2, <2>4
<1>3. CASE Barge
  <2>1. CASE barges = BargeLimit /\ EndCall(llm, tts, over) /\ UNCHANGED <<barges, curTts, curAbort>>
    <3>1. CloseTyped
      BY <2>1, CloseTypes DEF TurnMaps
    <3> QED
      BY <1>3, <2>1, <3>1, ClosedTypes DEF Barge, Flags, Bridges, Places, Counts
  <2>2. CASE barges < BargeLimit /\ barges' = barges + 1 /\ AbortRun(llm) /\ StopSpeech(tts, over)
    <3> USE <1>3, <2>2 DEF Barge
    <3>1. TurnMaps'
      <4>1. llm' \in [Turns -> Runs]
        BY DEF AbortRun, TurnMaps, Runs
      <4>2. tts' \in [Turns -> Sockets] /\ over' \in [Turns -> {"no", "done", "stopped"}]
        BY DEF StopSpeech, TurnMaps, Sockets
      <4> QED
        BY <4>1, <4>2 DEF TurnMaps
    <3>2. TurnFlags'
      BY DEF TurnFlags
    <3>d. deaf' \subseteq Turns
      BY DeafTypes
    <3>6. TurnSets'
      BY <3>d DEF TurnSets
    <3>3. Places'
      BY DEF Places, States, Bridges, Dgs, ShutDown, CloseDeepgram
    <3>4. Flags'
      <4>1. CASE ShutDown
        BY <4>1 DEF Flags, ShutDown, CloseDeepgram
      <4>2. CASE UNCHANGED <<closed, maxTimer, closeWait, dg, dgClosed>>
        BY <4>2 DEF Flags
      <4> QED
        BY <4>1, <4>2
    <3>5. Counts'
      BY Numbers DEF Counts
    <3> QED
      BY <3>1, <3>2, <3>3, <3>4, <3>5, <3>6
  <2> QED
    BY <1>3, <2>1, <2>2 DEF Barge
<1>4. ASSUME Close(llm, tts, over), UNCHANGED endRest, bridge' \in Bridges, endTimer' \in BOOLEAN
      PROVE  Types'
  <2>1. CloseTyped
    BY <1>4, CloseTypes DEF TurnMaps
  <2> QED
    BY <1>4, <2>1, ClosedTypes DEF Flags, Places, Counts
<1>5. CASE HangUp
  BY <1>4, <1>5 DEF HangUp, Bridges, Flags
<1>6. CASE EndCallTimer
  BY <1>4, <1>6 DEF EndCallTimer, Bridges, Places
<1>7. CASE MaxDuration
  <2>1. CASE closed
    BY <1>7, <2>1 DEF MaxDuration, Flags, Places, Counts, TurnMaps, TurnFlags, TurnSets
  <2> QED
    BY <1>4, <1>7, <2>1 DEF MaxDuration, Bridges, Flags
<1>8. CASE CloseSettles
  <2>1. Flags' /\ TurnFlags' /\ TurnSets'
    BY <1>8 DEF CloseSettles, Flags, TurnFlags, TurnSets
  <2>2. Places' /\ Counts' /\ TurnMaps'
    BY <1>8 DEF CloseSettles, Places, Counts, TurnMaps, Dgs
  <2> QED
    BY <2>1, <2>2
<1> QED
  BY <1>1, <1>2, <1>3, <1>5, <1>6, <1>7, <1>8

(* A step of a turn keeps the types.                                       *)
LEMMA TurnTypes ==
  ASSUME Types, NEW t \in Turns, TurnStep(t)
  PROVE  Types'
<1> USE DEF Types, EndCall, Fail, closingVars, bridgeVars, timerVars, dgVars, llmVars, ttsVars,
            curVars, dialogVars, llmRest, quiet, ttsRest, callSame
<1>0. t \in 0 .. MaxTurns
  BY Numbers DEF Turns
<1>1. CASE CommitUserTurn(t)
  <2>1. CASE EndCall(llm, tts, over) /\ UNCHANGED <<turn, curTts, curAbort, orphan>>
    <3>1. CloseTyped
      BY <2>1, CloseTypes DEF TurnMaps
    <3> QED
      BY <1>1, <2>1, <3>1, ClosedTypes DEF CommitUserTurn, Flags, Bridges, Places, Counts
  <2>2. CASE /\ turn' = t /\ curTts' = t /\ curAbort' = t /\ state' = "speaking"
             /\ llm' = [llm EXCEPT ![t] = "fetch"] /\ tts' = [tts EXCEPT ![t] = "dial"]
             /\ orphan' = IF closed THEN orphan \cup {"turn"} ELSE orphan
             /\ UNCHANGED <<bridge, closed, maxTimer, closeWait, dg, dgClosed, deaf, over>>
    <3> USE <1>1, <2>2 DEF CommitUserTurn
    <3>1. Flags' /\ TurnFlags' /\ TurnSets'
      BY DEF Flags, TurnFlags, TurnSets
    <3>2. Places'
      BY DEF Places, States
    <3>3. TurnMaps'
      BY DEF TurnMaps, Runs, Sockets
    <3>4. Counts'
      BY <1>0 DEF Counts
    <3> QED
      BY <3>1, <3>2, <3>3, <3>4
  <2> QED
    BY <1>1, <2>1, <2>2 DEF CommitUserTurn
<1>2. ASSUME NEW l \in [Turns -> Runs], NEW s \in [Turns -> Sockets], NEW kind, Fail(kind, l, s, over),
             UNCHANGED <<pending, connecting, endTimer, dgRetried, heard, turn, finished, cut, barges,
                         orphan, tools, before, ending, said, curVars, late>>
      PROVE  Types'
  <2>1. CloseTyped
    BY <1>2, CloseTypes
  <2>2. faults' \in 0 .. MaxFaults
    BY <1>2, FaultTypes
  <2> QED
    BY <1>2, <2>1, <2>2, ClosedTypes DEF Flags, Bridges, Places, Counts
<1>3. ASSUME UNCHANGED <<llmRest, quiet, deaf, ending, said, curTts, late>>,
             llm' \in [Turns -> Runs], tools' \in [Turns -> 0 .. MaxTools],
             before' \in [Turns -> States], faults' \in 0 .. MaxFaults,
             curAbort' \in 0 .. MaxTurns, curTool' \in 0 .. MaxTurns
      PROVE  Types'
  <2>1. Flags' /\ TurnFlags' /\ TurnSets'
    BY <1>3 DEF Flags, TurnFlags, TurnSets
  <2>2. Places' /\ Counts' /\ TurnMaps'
    BY <1>3 DEF Places, Counts, TurnMaps
  <2> QED
    BY <2>1, <2>2
<1>4. CASE Fetched(t)
  <2>1. CASE Fail("llm", [llm EXCEPT ![t] = "over"], tts, over)
    BY <1>2, <1>4, <2>1, Functions DEF Fetched
  <2>2. CASE llm' = [llm EXCEPT ![t] = "stream"] /\ UNCHANGED <<quiet, deaf, faults>>
    BY <1>3, <1>4, <2>2 DEF Fetched, TurnMaps, Runs, Counts
  <2>3. CASE Fault("llm") /\ llm' = [llm EXCEPT ![t] = "backoff"] /\ UNCHANGED <<quiet, deaf>>
    <3>1. faults' \in 0 .. MaxFaults
      BY <2>3, FaultTypes
    <3> QED
      BY <1>3, <1>4, <2>3, <3>1 DEF Fetched, TurnMaps, Runs, Counts
  <2> QED
    BY <1>4, <2>1, <2>2, <2>3 DEF Fetched
<1>5. CASE BackoffEnds(t)
  BY <1>3, <1>5 DEF BackoffEnds, TurnMaps, Runs, Counts
<1>6. CASE Sentence(t)
  <2>1. Flags' /\ TurnFlags' /\ TurnSets'
    BY <1>6 DEF Sentence, Flags, TurnFlags, TurnSets
  <2>2. Places' /\ Counts' /\ TurnMaps'
    BY <1>6 DEF Sentence, Places, Counts, TurnMaps
  <2> QED
    BY <2>1, <2>2
<1>7. CASE StreamFails(t)
  BY <1>2, <1>7, Functions DEF StreamFails
<1>8. ASSUME NEW e \in BOOLEAN, AsksTool(t, e)
      PROVE  Types'
  <2>1. Flags' /\ TurnFlags' /\ TurnSets'
    BY <1>8 DEF AsksTool, Flags, TurnFlags, TurnSets
  <2>2. Places' /\ TurnMaps'
    BY <1>8 DEF AsksTool, Places, TurnMaps, Runs, States
  <2>3. Counts'
    <3>1. tools' \in [Turns -> 0 .. MaxTools]
      <4>1. tools[t] + 1 \in 0 .. MaxTools
        BY <1>8, Numbers DEF AsksTool, Counts
      <4> QED
        BY <1>8, <4>1 DEF AsksTool, Counts
    <3> QED
      BY <1>0, <1>8, <3>1 DEF AsksTool, Counts
  <2> QED
    BY <2>1, <2>2, <2>3
<1>9. CASE ToolReturns(t)
  <2>1. Flags'
    BY <1>9 DEF ToolReturns, Flags, TurnFlags
  <2>2. TurnFlags' /\ TurnSets'
    BY <1>9 DEF ToolReturns, TurnFlags, TurnSets
  <2>3. Places' /\ TurnMaps'
    BY <1>9 DEF ToolReturns, Resumed, Places, Bridges, TurnMaps, Runs, States
  <2>4. Counts'
    <3>1. faults' \in 0 .. MaxFaults
      BY <1>9, FaultTypes DEF ToolReturns, Counts
    <3>2. 0 \in 0 .. MaxTurns
      BY Numbers
    <3> QED
      BY <1>9, <3>1, <3>2 DEF ToolReturns, Counts
  <2> QED
    BY <2>1, <2>2, <2>3, <2>4
<1>10. CASE RunEnds(t)
  <2>1. Flags' /\ TurnFlags' /\ TurnSets'
    BY <1>10 DEF RunEnds, Flags, TurnFlags, TurnSets
  <2>2. Places' /\ TurnMaps'
    BY <1>10 DEF RunEnds, Places, TurnMaps, Runs
  <2>3. Counts'
    BY <1>10, Numbers DEF RunEnds, Counts
  <2> QED
    BY <2>1, <2>2, <2>3
<1>11. ASSUME UNCHANGED <<ttsRest, callSame>>, tts' \in [Turns -> Sockets], state' \in States,
              over' \in [Turns -> {"no", "done", "stopped"}], faults' \in 0 .. MaxFaults,
              finished' \in [Turns -> BOOLEAN], cut' \subseteq Turns, late' \subseteq Turns
       PROVE  Types'
  <2>1. Flags' /\ TurnFlags' /\ TurnSets'
    BY <1>11 DEF Flags, TurnFlags, TurnSets
  <2>2. Places' /\ Counts' /\ TurnMaps'
    BY <1>11 DEF Places, Counts, TurnMaps
  <2> QED
    BY <2>1, <2>2
<1>12. CASE TtsOpens(t)
  <2>1. finished' \in [Turns -> BOOLEAN]
    BY <1>12 DEF TtsOpens, TurnFlags
  <2>2. tts' \in [Turns -> Sockets] /\ late' \subseteq Turns
    BY <1>12 DEF TtsOpens, TurnMaps, Sockets, TurnSets
  <2> QED
    BY <1>11, <1>12, <2>1, <2>2 DEF TtsOpens, Places, TurnMaps, TurnSets, Counts
<1>13. CASE TtsRetries(t) \/ TtsForgotten(t)
  <2>1. finished' \in [Turns -> BOOLEAN]
    BY <1>13 DEF TtsRetries, TtsForgotten, TurnFlags
  <2>2. tts' \in [Turns -> Sockets] /\ late' \subseteq Turns
    BY <1>13 DEF TtsRetries, TtsForgotten, TurnMaps, Sockets, TurnSets
  <2> QED
    BY <1>11, <1>13, <2>1, <2>2 DEF TtsRetries, TtsForgotten, Places, TurnMaps, TurnSets, Counts
<1>14. CASE TtsDone(t)
  <2>1. finished' \in [Turns -> BOOLEAN]
    BY <1>14 DEF TtsDone, TurnFlags
  <2>2. tts' \in [Turns -> Sockets] /\ late' \subseteq Turns /\ state' \in States
    BY <1>14 DEF TtsDone, TurnMaps, Sockets, TurnSets, AfterSpeech, Places, States
  <2>3. faults' \in 0 .. MaxFaults
    BY <1>14, FaultTypes DEF TtsDone, Counts
  <2>4. over' \in [Turns -> {"no", "done", "stopped"}] /\ cut' \subseteq Turns
    BY <1>14 DEF TtsDone, TurnMaps, TurnSets
  <2> QED
    BY <1>11, <1>14, <2>1, <2>2, <2>3, <2>4 DEF TtsDone
<1>15. CASE TtsDialFails(t)
  <2>1. CASE Fail("tts", llm, [tts EXCEPT ![t] = "gone"], over)
    BY <1>2, <1>15, <2>1, Functions DEF TtsDialFails
  <2>2. CASE Fault("tts") /\ tts' = [tts EXCEPT ![t] = "wait"] /\ UNCHANGED <<callSame, state, over>>
    <3>1. faults' \in 0 .. MaxFaults
      BY <2>2, FaultTypes
    <3>2. finished' \in [Turns -> BOOLEAN]
      BY <1>15 DEF TtsDialFails, TurnFlags
    <3> QED
      BY <1>11, <1>15, <2>2, <3>1, <3>2 DEF TtsDialFails, Places, TurnMaps, Sockets, TurnSets
  <2> QED
    BY <1>15, <2>1, <2>2 DEF TtsDialFails
<1>16. CASE TtsSilent(t)
  BY <1>2, <1>16, Functions DEF TtsSilent
<1> QED
  BY <1>1, <1>4, <1>5, <1>6, <1>7, <1>8, <1>9, <1>10, <1>12, <1>13, <1>14, <1>15, <1>16 DEF TurnStep

(* Every step keeps the types.                                             *)
LEMMA TypesStep ==
  ASSUME Types, [Next]_vars
  PROVE  Types'
<1>1. CASE UNCHANGED vars
  BY <1>1 DEF vars, bridgeVars, timerVars, dgVars, llmVars, ttsVars, curVars, dialogVars, Types,
    Flags, Places, Counts, TurnMaps, TurnFlags, TurnSets
<1> QED
  BY <1>1, SetUpTypes, DeepgramTypes, DialogTypes, TurnTypes DEF Next

-----------------------------------------------------------------------------
(* A step that closes the pipeline                                         *)

Safe == BeginInv /\ VoiceInv /\ DisorderInv /\ ModeInv /\ ReleaseInv

(* What it stops is the current run, unless an abort does not reach it, and *)
(* the current voice; on a closed pipeline nothing.                        *)
Stops ==
  /\ \A t \in Turns : llm'[t] = llm[t] \/ (llm'[t] = "over" /\ llm[t] # "none")
  /\ \A t \in Turns : tts[t] = "none" /\ t # curTts => tts'[t] = "none"
  /\ \A t \in Turns : t # curTts => over'[t] = over[t]
  /\ \A t \in Turns : tts'[t] # "none" /\ over'[t] = "no" =>
       tts[t] # "none" /\ over[t] = "no" /\ (closed \/ t # curTts)
  /\ deaf \subseteq deaf' /\ deaf' \subseteq deaf \cup ({curAbort} \ {0})
  /\ ~closed => \A t \in Turns : t = curAbort /\ llm'[t] \notin {"none", "over"} => t \in deaf'

Shuts ==
  /\ closed' = TRUE
  /\ closed => UNCHANGED <<state, maxTimer, closeWait, dg, dgClosed>>
  /\ ~closed => /\ state' = "closed" /\ maxTimer' = FALSE
                /\ closeWait' \/ dg' = "none" \/ dgClosed'

Halts ==
  /\ \A t \in Turns : llm'[t] = llm[t] \/ (llm'[t] = "over" /\ llm[t] # "none")
  /\ \A t \in Turns : tts[t] = "none" /\ t # curTts => tts'[t] = "none"
  /\ \A t \in Turns : t # curTts => over'[t] = over[t]
  /\ \A t \in Turns : tts'[t] # "none" /\ over'[t] = "no" =>
       tts[t] # "none" /\ over[t] = "no" /\ t # curTts
  /\ deaf \subseteq deaf' /\ deaf' \subseteq deaf \cup ({curAbort} \ {0})
  /\ \A t \in Turns : t = curAbort /\ llm'[t] \notin {"none", "over"} => t \in deaf'

(* abortRun() followed by stopSpeech() leaves no voice, and no run but one *)
(* that slipped.                                                           *)
LEMMA AbortHalts ==
  ASSUME Types, NEW l \in [Turns -> Runs], NEW s \in [Turns -> Sockets],
         \A t \in Turns : l[t] = llm[t] \/ (l[t] = "over" /\ llm[t] # "none"),
         \A t \in Turns : s[t] = "none" <=> tts[t] = "none",
         AbortRun(l), StopSpeech(s, over)
  PROVE  Halts
<1>2. \A t \in Turns : llm'[t] = llm[t] \/ (llm'[t] = "over" /\ llm[t] # "none")
  BY DEF AbortRun, Rejects, Requesting
<1>3. deaf \subseteq deaf' /\ deaf' \subseteq deaf \cup ({curAbort} \ {0})
  BY DEF AbortRun, Unheard
<1>4. \A t \in Turns : t = curAbort /\ llm'[t] \notin {"none", "over"} => t \in deaf'
  <2> SUFFICES ASSUME NEW t \in Turns, t = curAbort, llm'[t] \notin {"none", "over"},
                      t \notin deaf'
               PROVE  FALSE
    OBVIOUS
  <2>1. l[t] \notin {"none", "over"} /\ llm[t] = l[t] /\ ~Rejects(t)
    BY DEF AbortRun
  <2>2. ~Unheard(t) /\ t # 0
    BY <2>1, Numbers DEF AbortRun, Turns
  <2> QED
    BY <2>1, <2>2 DEF Unheard, Rejects, Requesting, Types, TurnMaps, Runs
<1>5. /\ \A t \in Turns : tts[t] = "none" /\ t # curTts => tts'[t] = "none"
      /\ \A t \in Turns : t # curTts => over'[t] = over[t]
      /\ \A t \in Turns : tts'[t] # "none" /\ over'[t] = "no" =>
           tts[t] # "none" /\ over[t] = "no" /\ t # curTts
  BY DEF StopSpeech
<1> QED
  BY <1>2, <1>3, <1>4, <1>5 DEF Halts

(* close() leaves no voice and, on a pipeline still open, no run but one   *)
(* that slipped.                                                           *)
LEMMA CloseStops ==
  ASSUME Types, NEW l \in [Turns -> Runs], NEW s \in [Turns -> Sockets],
         \A t \in Turns : l[t] = llm[t] \/ (l[t] = "over" /\ llm[t] # "none"),
         \A t \in Turns : s[t] = "none" <=> tts[t] = "none",
         Close(l, s, over)
  PROVE  Stops /\ Shuts
<1>1. CASE closed
  BY <1>1 DEF Types, TurnMaps, Close, closingVars, Stops, Shuts
<1>2. CASE ~closed
  <2>0. ShutDown /\ AbortRun(l) /\ StopSpeech(s, over)
    BY <1>2 DEF Close
  <2>1. Shuts
    BY <1>2, <2>0 DEF Shuts, ShutDown, CloseDeepgram
  <2>2. Halts
    BY <2>0, AbortHalts
  <2> QED
    BY <1>2, <2>1, <2>2 DEF Stops, Halts
<1> QED
  BY <1>1, <1>2

(* Everything else that an ending step may do.                             *)
Ends ==
  /\ Stops /\ Shuts
  /\ bridge' = "finalized" \/ (bridge' = bridge /\ turn # 0)
  /\ UNCHANGED <<turn, curTts, curAbort, finished, cut, late, orphan>>
  /\ endTimer' => endTimer
  /\ connecting # "done" \/ connecting' = connecting

(* A turn that has slipped stays so, and with it the turns behind it.      *)
LEMMA SlippedGrows ==
  ASSUME deaf \subseteq deaf', cut \subseteq cut'
  PROVE  \A t \in Turns : Disordered(t) => Disordered(t)'
BY DEF Disordered, Slipped

(* What a step must leave alone to disturb no more than the Deepgram socket. *)
coreVars == <<bridge, state, closed, connecting, endTimer, llm, before, tts, over, finished,
              curTts, curAbort, turn, deaf, cut, late, orphan>>

(* A step that touches neither turn, run, voice nor mode keeps the         *)
(* invariant.                                                              *)
LEMMA CoreSafe ==
  ASSUME Safe, ReleaseInv', UNCHANGED coreVars
  PROVE  Safe'
<1> USE DEF Safe, coreVars
<1>1. BeginInv'
  BY DEF BeginInv, Slipped
<1>2. VoiceInv'
  BY DEF VoiceInv, Voice
<1>3. DisorderInv'
  BY DEF DisorderInv, Active, Disordered, Slipped
<1>4. ModeInv'
  BY DEF ModeInv, Active, Slipped
<1> QED
  BY <1>1, <1>2, <1>3, <1>4

(* A step that ends the call keeps the invariant.                          *)
LEMMA EndsSafe ==
  ASSUME Types, Safe, Live, Ends
  PROVE  Safe'
<1> USE DEF Ends, Safe
<1>0. \A t \in Turns : Disordered(t) => Disordered(t)'
  BY SlippedGrows DEF Stops
<1>t. turn \in Nat /\ curAbort \in Nat
  BY Numbers DEF Types, Counts
<1>1. BeginInv'
  <2>1. \A t \in Turns : t > turn => llm'[t] = "none" /\ tts'[t] = "none" /\ over'[t] = "no"
    <3> SUFFICES ASSUME NEW t \in Turns, t > turn
                 PROVE  llm'[t] = "none" /\ tts'[t] = "none" /\ over'[t] = "no"
      OBVIOUS
    <3>1. t # curTts /\ t # curAbort /\ llm[t] = "none" /\ tts[t] = "none" /\ over[t] = "no"
      BY <1>t, Numbers DEF BeginInv, Turns
    <3> QED
      BY <3>1 DEF Stops
  <2>2. \A t \in Turns : t = 1 => llm'[t] = "none"
    BY DEF BeginInv, Stops
  <2>3. \A t \in Turns : finished'[t] => t = 1 \/ llm'[t] = "over"
    BY DEF BeginInv, Stops
  <2>4. Slipped' \subseteq 1 .. turn' /\ ("turn" \in orphan' => Slipped' # {})
    <3>1. curAbort # 0 => curAbort \in 1 .. turn
      BY <1>t DEF BeginInv
    <3> QED
      BY <3>1 DEF BeginInv, Stops, Slipped
  <2>5. /\ connecting' # "done" \/ bridge' \in {"pre_warming", "pre_warmed"} => turn' = 0
        /\ bridge' \in {"pre_warmed", "live"} => connecting' = "done"
        /\ endTimer' => turn' # 0
        /\ closed' => bridge' \notin {"pre_warming", "pre_warmed"}
        /\ bridge' = "finalized" => closed'
        /\ curTts' \in {0, turn'} /\ curAbort' <= turn'
    BY DEF BeginInv, Shuts
  <2> QED
    BY <2>1, <2>2, <2>3, <2>4, <2>5 DEF BeginInv
<1>2. VoiceInv'
  <2>1. \A t \in Turns : Voice(t)' => Voice(t) /\ (closed \/ t # curTts)
    BY DEF Stops, Voice
  <2>2. \A t \in Turns : Voice(t)' => t = curTts' /\ state' # "listening"
    BY <2>1 DEF VoiceInv, Shuts
  <2>3. {"greeting", "turn"} \cap orphan' # {} \/ \A t \in Turns : ~Voice(t)'
    BY <2>1 DEF VoiceInv
  <2> QED
    BY <2>2, <2>3 DEF VoiceInv
<1>3. DisorderInv'
  <2>1. \A t \in Turns : Active(t)' => Disordered(t)'
    <3> SUFFICES ASSUME NEW t \in Turns, Active(t)' PROVE Disordered(t)'
      OBVIOUS
    <3>1. Active(t)
      BY DEF Active, Stops
    <3>2. CASE Disordered(t)
      BY <1>0, <3>2
    <3>3. CASE ~Disordered(t)
      <4>1. t = curAbort /\ ~closed
        BY <3>1, <3>3 DEF DisorderInv
      <4>2. t \in deaf'
        BY <4>1 DEF Stops, Active
      <4> QED
        BY <4>2, Numbers DEF Disordered, Slipped, Turns
    <3> QED
      BY <3>2, <3>3
  <2>2. closed' /\ bridge' = "live" /\ state' # "closed" => Slipped' # {}
    BY DEF DisorderInv, Shuts, Stops, Slipped
  <2>3. \A t \in late' : t = 1 \/ Disordered(t)'
    BY <1>0 DEF DisorderInv, Types, TurnSets
  <2> QED
    BY <2>1, <2>2, <2>3 DEF DisorderInv
<1>4. ModeInv' /\ ReleaseInv'
  BY DEF ModeInv, ReleaseInv, Shuts
<1> QED
  BY <1>1, <1>2, <1>3, <1>4

(* A step that ends the call, with what it has made of runs and sockets.    *)
LEMMA EndCallSafe ==
  ASSUME Types, Safe, Live,
         NEW l \in [Turns -> Runs], NEW s \in [Turns -> Sockets],
         \A t \in Turns : l[t] = llm[t] \/ (l[t] = "over" /\ llm[t] # "none"),
         \A t \in Turns : s[t] = "none" <=> tts[t] = "none",
         EndCall(l, s, over),
         UNCHANGED <<turn, curTts, curAbort, finished, cut, late, orphan>>,
         endTimer' => endTimer, connecting # "done" \/ connecting' = connecting
  PROVE  Safe'
<1>1. Close(l, s, over) /\ bridge' = "finalized"
  BY DEF EndCall
<1>2. Stops /\ Shuts
  BY <1>1, CloseStops
<1>3. bridge' = "finalized" \/ (bridge' = bridge /\ turn # 0)
  BY <1>1
<1>4. UNCHANGED <<turn, curTts, curAbort, finished, cut, late, orphan>>
  OBVIOUS
<1>5. (endTimer' => endTimer) /\ (connecting # "done" \/ connecting' = connecting)
  OBVIOUS
<1>6. Ends
  BY <1>2, <1>3, <1>4, <1>5 DEF Ends
<1> QED
  BY <1>6, EndsSafe

(* A call that ends with runs and sockets as they were.                    *)
LEMMA PlainEndSafe ==
  ASSUME Types, Safe, Live, EndCall(llm, tts, over),
         UNCHANGED <<turn, curTts, curAbort, finished, cut, late, orphan>>,
         endTimer' => endTimer, connecting # "done" \/ connecting' = connecting
  PROVE  Safe'
<1>1. /\ llm \in [Turns -> Runs] /\ tts \in [Turns -> Sockets]
  BY DEF Types, TurnMaps
<1>2. \A t \in Turns : llm[t] = llm[t] \/ (llm[t] = "over" /\ llm[t] # "none")
  OBVIOUS
<1>3. \A t \in Turns : tts[t] = "none" <=> tts[t] = "none"
  OBVIOUS
<1> QED
  BY <1>1, <1>2, <1>3, EndCallSafe

-----------------------------------------------------------------------------
(* Setting up                                                              *)

(* Before the greeting there is no run, no voice and no slipped turn.      *)
LEMMA NoTurn ==
  ASSUME Types, BeginInv, turn = 0
  PROVE  /\ \A t \in Turns : llm[t] = "none" /\ tts[t] = "none" /\ over[t] = "no"
         /\ Slipped = {} /\ curTts = 0 /\ ~endTimer /\ "turn" \notin orphan
         /\ curAbort = 0
<1>1. \A t \in Turns : t > turn
  BY Numbers DEF Turns
<1>2. Slipped = {}
  BY DEF BeginInv
<1>3. curAbort = 0
  BY Numbers DEF BeginInv, Types, Counts
<1> QED
  BY <1>1, <1>2, <1>3 DEF BeginInv

(* The greeting, the first turn, keeps the invariant.                      *)
LEMMA GreetSafe ==
  ASSUME Types, Safe, turn = 0, Greet, bridge' # "pre_warming",
         bridge' # "pre_warmed", bridge' = "finalized" => closed, connecting' = "done",
         UNCHANGED <<endTimer, before, finished, cut, curAbort, late>>,
         bridge' = "live" => ~closed, closed => dg # "none"
  PROVE  Safe'
<1> USE DEF Safe, Greet
<1>0. /\ \A t \in Turns : llm[t] = "none" /\ tts[t] = "none" /\ over[t] = "no"
      /\ Slipped = {} /\ curTts = 0 /\ ~endTimer /\ "turn" \notin orphan /\ curAbort = 0
  BY NoTurn
<1>1. 1 \in Turns
  BY Numbers DEF Turns
<1>2. \A t \in Turns : ~Active(t)'
  BY <1>0 DEF Active
<1>3. \A t \in Turns : Voice(t)' => t = 1
  BY <1>0 DEF Voice, Types, TurnMaps
<1>4. Slipped' = {}
  BY <1>0 DEF Slipped
<1>5. BeginInv'
  <2>1. \A t \in Turns : t > 1 => llm'[t] = "none" /\ tts'[t] = "none" /\ over'[t] = "no"
    BY <1>0 DEF Types, TurnMaps
  <2>2. \A t \in Turns : finished'[t] => t = 1 \/ llm'[t] = "over"
    BY DEF BeginInv
  <2> QED
    BY <1>0, <1>4, <2>1, <2>2 DEF BeginInv
<1>6. VoiceInv'
  BY <1>3 DEF VoiceInv
<1>7. DisorderInv'
  <2>1. \A t \in late : t = 1 \/ Disordered(t)'
    BY <1>0 DEF DisorderInv, Disordered, Types, TurnSets
  <2> QED
    BY <1>2, <2>1 DEF DisorderInv
<1>8. ModeInv'
  BY <1>2, <1>0 DEF ModeInv, InTool, Active
<1>9. ReleaseInv'
  BY DEF ReleaseInv
<1> QED
  BY <1>5, <1>6, <1>7, <1>8, <1>9

(* Boot, dial and answer keep the invariant.                               *)
LEMMA SetUpSafe ==
  ASSUME Types, Safe, SynthDone \/ DialOpens \/ DialFails \/ CustomerAnswers
  PROVE  Safe'
<1> USE DEF closingVars, bridgeVars, timerVars, dgVars, llmVars, ttsVars, curVars, dialogVars
<1>1. CASE SynthDone
  <2>1. ReleaseInv'
    BY <1>1 DEF SynthDone, ReleaseInv
  <2>2. BeginInv'
    BY <1>1 DEF SynthDone, Safe, BeginInv, Slipped
  <2>3. VoiceInv'
    BY <1>1 DEF SynthDone, Safe, VoiceInv, Voice
  <2>4. DisorderInv' /\ ModeInv'
    BY <1>1 DEF SynthDone, Safe, DisorderInv, ModeInv, Active, Slipped, Disordered
  <2> QED
    BY <2>1, <2>2, <2>3, <2>4 DEF Safe
<1>2. CASE DialOpens
  <2>0. /\ turn = 0 /\ dg = "dialing" /\ Live /\ connecting' = "done"
        /\ bridge \notin {"pre_warmed", "live"}
        /\ closed => bridge # "pre_warming"
    BY <1>2 DEF DialOpens, Safe, BeginInv
  <2>s. Slipped = {} /\ \A t \in Turns : ~Active(t) /\ ~Voice(t)
    BY <2>0, NoTurn DEF Safe, Active, Voice
  <2>1. CASE ~pending
    <3>1. UNCHANGED <<endTimer, finished, cut, curAbort, late, closed, maxTimer, closeWait, dgClosed,
                      llm, deaf, tts, over, turn, curTts, orphan, before>>
      BY <1>2, <2>1 DEF DialOpens
    <3>2. /\ state' = "connected" /\ dg' = "open"
          /\ bridge' = IF bridge = "pre_warming" THEN "pre_warmed" ELSE bridge
      BY <1>2, <2>1 DEF DialOpens
    <3>3. BeginInv'
      BY <2>0, <3>1, <3>2 DEF Safe, BeginInv, Slipped
    <3>4. VoiceInv' /\ ReleaseInv'
      BY <2>0, <3>1, <3>2 DEF Safe, VoiceInv, Voice, ReleaseInv
    <3>5. \A t \in Turns : ~Active(t)'
      BY <2>s, <3>1 DEF Active
    <3>6. bridge' # "live"
      BY <2>0, <3>2
    <3>7. \A t \in late' : t = 1 \/ Disordered(t)'
      BY <3>1 DEF Safe, DisorderInv, Disordered, Slipped
    <3>8. DisorderInv'
      BY <3>5, <3>6, <3>7 DEF DisorderInv
    <3>9. ModeInv'
      BY <3>2, <3>5 DEF ModeInv, InTool, Active
    <3> QED
      BY <3>3, <3>4, <3>8, <3>9 DEF Safe
  <2>2. CASE Greet /\ bridge' = IF bridge = "pre_warming" THEN "live" ELSE bridge
    <3>1. UNCHANGED <<endTimer, before, finished, cut, curAbort, late>>
      BY <1>2 DEF DialOpens
    <3>2. /\ bridge' # "pre_warming" /\ bridge' # "pre_warmed"
          /\ bridge' = "finalized" => closed
          /\ bridge' = "live" => ~closed
      BY <2>0, <2>2 DEF Safe, BeginInv
    <3>3. closed => dg # "none"
      BY <2>0
    <3> QED
      BY <2>0, <2>2, <3>1, <3>2, <3>3, GreetSafe
  <2>3. CASE /\ bridge' = "finalized" /\ closed' = TRUE
             /\ state' = IF closed THEN "connected" ELSE "closed"
             /\ maxTimer' = IF closed THEN maxTimer ELSE FALSE
             /\ dgClosed' = IF closed THEN dgClosed ELSE TRUE
             /\ UNCHANGED <<closeWait, llm, deaf, tts, over, turn, curTts, orphan>>
    <3>1. UNCHANGED <<endTimer, finished, cut, curAbort, late, before>>
      BY <1>2 DEF DialOpens
    <3>3. BeginInv'
      BY <2>0, <2>3, <3>1 DEF Safe, BeginInv, Slipped
    <3>4. \A t \in Turns : ~Active(t)' /\ ~Voice(t)'
      BY <2>s, <2>3, <3>1 DEF Active, Voice
    <3>5. VoiceInv' /\ ReleaseInv'
      BY <2>0, <2>3, <3>1, <3>4 DEF Safe, VoiceInv, ReleaseInv
    <3>6. \A t \in late' : t = 1 \/ Disordered(t)'
      BY <2>3, <3>1 DEF Safe, DisorderInv, Disordered, Slipped
    <3>7. DisorderInv'
      BY <2>3, <3>4, <3>6 DEF DisorderInv
    <3>8. ModeInv'
      BY <2>3 DEF ModeInv
    <3> QED
      BY <3>3, <3>5, <3>7, <3>8 DEF Safe
  <2> QED
    BY <1>2, <2>1, <2>2, <2>3 DEF DialOpens
<1>3. CASE DialFails
  <2>1. /\ Live /\ EndCall(llm, tts, over)
        /\ UNCHANGED <<turn, curTts, curAbort, finished, cut, late, orphan>>
        /\ endTimer' = endTimer /\ connecting # "done"
    BY <1>3 DEF DialFails, Fail
  <2> QED
    BY <2>1, PlainEndSafe
<1>4. CASE CustomerAnswers
  <2>0. /\ Live /\ UNCHANGED <<connecting, endTimer, before, finished, cut, curAbort, late>>
    BY <1>4 DEF CustomerAnswers
  <2>1. CASE UNCHANGED <<bridge, closingVars, llm, deaf, tts, over, turn, curTts, orphan>>
    <3>1. UNCHANGED coreVars
      BY <2>0, <2>1 DEF coreVars
    <3>2. ReleaseInv'
      BY <2>1 DEF Safe, ReleaseInv
    <3> QED
      BY <3>1, <3>2, CoreSafe
  <2>2. CASE bridge = "pre_warmed" /\ bridge' = "live" /\ Greet /\ dg' = dg
    <3>1. connecting = "done" /\ connecting' = "done" /\ turn = 0 /\ ~closed
      BY <2>0, <2>2 DEF Safe, BeginInv
    <3>2. /\ bridge' # "pre_warming" /\ bridge' # "pre_warmed"
          /\ bridge' = "finalized" => closed
          /\ bridge' = "live" => ~closed
      BY <2>2, <3>1
    <3> QED
      BY <2>0, <2>2, <3>1, <3>2, GreetSafe
  <2>3. CASE Fail("prompt", llm, tts, over) /\ UNCHANGED <<turn, curTts, orphan>>
    <3>1. EndCall(llm, tts, over)
      BY <2>3 DEF Fail
    <3> QED
      BY <2>0, <2>3, <3>1, PlainEndSafe
  <2> QED
    BY <1>4, <2>1, <2>2, <2>3 DEF CustomerAnswers
<1> QED
  BY <1>1, <1>2, <1>3, <1>4

(* What happens to the Deepgram socket keeps the invariant.                *)
LEMMA DeepgramSafe ==
  ASSUME Types, Safe,
         DeepgramDrops \/ DeepgramRedials \/ DeepgramReopens \/ DeepgramRedialFails
           \/ DeepgramTimesOut
  PROVE  Safe'
<1> USE DEF dgRest, curVars, dialogVars
<1>1. /\ Live
      /\ UNCHANGED <<connecting, endTimer, before, finished, cut, curTts, curAbort, turn, late, orphan>>
  BY DEF DeepgramDrops, DeepgramRedials, DeepgramReopens, DeepgramRedialFails, DeepgramTimesOut
<1>2. CASE EndCall(llm, tts, over)
  BY <1>1, <1>2, PlainEndSafe
<1>3. CASE /\ UNCHANGED <<bridge, state, closed, maxTimer, closeWait, dgClosed, llm, deaf, tts, over>>
           /\ dg # "none"
  <2>1. UNCHANGED coreVars
    BY <1>1, <1>3 DEF coreVars
  <2>2. ReleaseInv'
    BY <1>1, <1>3 DEF Safe, ReleaseInv
  <2> QED
    BY <2>1, <2>2, CoreSafe
<1> QED
  BY <1>2, <1>3 DEF DeepgramDrops, DeepgramRedials, DeepgramReopens, DeepgramRedialFails,
    DeepgramTimesOut

-----------------------------------------------------------------------------
(* The dialogue and the end of the call                                    *)

(* A barge that does not reach its limit.                                   *)
Barges ==
  /\ Halts
  /\ curTts' = 0 /\ curAbort' = 0 /\ state = "speaking"
  /\ UNCHANGED <<connecting, endTimer, before, finished, cut, turn, late, orphan>>
  /\ \/ /\ ~closed /\ bridge' = "finalized" /\ closed' = TRUE /\ state' = "closed"
        /\ maxTimer' = FALSE /\ (closeWait' \/ dg' = "none" \/ dgClosed')
     \/ /\ state' = "listening"
        /\ bridge' = bridge \/ (bridge' = "finalized" /\ closed)
        /\ UNCHANGED <<closed, maxTimer, closeWait, dg, dgClosed>>

(* A barge keeps the invariant: it aborts the run and stops the voice of   *)
(* the turn, or the turn slips.                                            *)
LEMMA BargesSafe ==
  ASSUME Types, Safe, Live, Barges
  PROVE  Safe'
<1> USE DEF Barges, Safe
<1>0. \A t \in Turns : Disordered(t) => Disordered(t)'
  BY SlippedGrows DEF Halts
<1>t. turn \in Nat /\ curAbort \in Nat
  BY Numbers DEF Types, Counts
<1>1. BeginInv'
  <2>1. \A t \in Turns : t > turn => llm'[t] = "none" /\ tts'[t] = "none" /\ over'[t] = "no"
    <3> SUFFICES ASSUME NEW t \in Turns, t > turn
                 PROVE  llm'[t] = "none" /\ tts'[t] = "none" /\ over'[t] = "no"
      OBVIOUS
    <3>1. t # curTts /\ t # curAbort /\ llm[t] = "none" /\ tts[t] = "none" /\ over[t] = "no"
      BY <1>t, Numbers DEF BeginInv, Turns
    <3> QED
      BY <3>1 DEF Halts
  <2>2. \A t \in Turns : t = 1 => llm'[t] = "none"
    BY DEF BeginInv, Halts
  <2>3. \A t \in Turns : finished'[t] => t = 1 \/ llm'[t] = "over"
    BY DEF BeginInv, Halts
  <2>4. Slipped' \subseteq 1 .. turn' /\ ("turn" \in orphan' => Slipped' # {})
    <3>1. curAbort # 0 => curAbort \in 1 .. turn
      BY <1>t DEF BeginInv
    <3> QED
      BY <3>1 DEF BeginInv, Halts, Slipped
  <2>5. /\ connecting' # "done" \/ bridge' \in {"pre_warming", "pre_warmed"} => turn' = 0
        /\ bridge' \in {"pre_warmed", "live"} => connecting' = "done"
        /\ endTimer' => turn' # 0
        /\ closed' => bridge' \notin {"pre_warming", "pre_warmed"}
        /\ bridge' = "finalized" => closed'
        /\ curTts' \in {0, turn'} /\ curAbort' <= turn'
    BY <1>t DEF BeginInv
  <2> QED
    BY <2>1, <2>2, <2>3, <2>4, <2>5 DEF BeginInv
<1>2. \A t \in Turns : ~Voice(t)'
  BY DEF VoiceInv, Voice, Halts
<1>3. VoiceInv'
  BY <1>2 DEF VoiceInv
<1>4. \A t \in Turns : Active(t)' => Disordered(t)'
  <2> SUFFICES ASSUME NEW t \in Turns, Active(t)' PROVE Disordered(t)'
    OBVIOUS
  <2>1. Active(t)
    BY DEF Active, Halts
  <2>2. CASE Disordered(t)
    BY <1>0, <2>2
  <2>3. CASE ~Disordered(t)
    <3>1. t = curAbort
      BY <2>1, <2>3 DEF DisorderInv
    <3>2. t \in deaf'
      BY <3>1 DEF Halts, Active
    <3> QED
      BY <3>2, Numbers DEF Disordered, Slipped, Turns
  <2> QED
    BY <2>2, <2>3
<1>5. DisorderInv'
  <2>1. closed' /\ bridge' = "live" /\ state' # "closed" => Slipped' # {}
    BY DEF DisorderInv, Halts, Slipped
  <2>2. \A t \in late' : t = 1 \/ Disordered(t)'
    BY <1>0 DEF DisorderInv, Types, TurnSets
  <2> QED
    BY <1>4, <2>1, <2>2 DEF DisorderInv
<1>6. ModeInv'
  <2>1. Slipped' = {} => \A t \in Turns : ~Active(t)'
    BY <1>4 DEF Disordered
  <2> QED
    BY <2>1 DEF ModeInv, Active, InTool
<1>7. ReleaseInv'
  <2>1. CASE maxTimer' = FALSE /\ (closeWait' \/ dg' = "none" \/ dgClosed')
    BY <2>1 DEF ReleaseInv
  <2>2. CASE UNCHANGED <<closed, maxTimer, closeWait, dg, dgClosed>>
    BY <2>2 DEF ReleaseInv
  <2> QED
    BY <2>1, <2>2
<1> QED
  BY <1>1, <1>3, <1>5, <1>6, <1>7

(* The caller's interruptions, the filler and the ends of the call keep    *)
(* the invariant.                                                          *)
LEMMA DialogSafe ==
  ASSUME Types, Safe,
         \/ Hear \/ Barge \/ BargeExpires \/ FillerPlays
         \/ HangUp \/ MaxDuration \/ EndCallTimer \/ CloseSettles
  PROVE  Safe'
<1> USE DEF closingVars, bridgeVars, timerVars, dgVars, llmVars, ttsVars, curVars, dialogVars, endRest
<1>1. CASE Hear \/ BargeExpires
  <2>1. UNCHANGED coreVars
    BY <1>1 DEF Hear, BargeExpires, coreVars
  <2>2. ReleaseInv'
    BY <1>1 DEF Hear, BargeExpires, Safe, ReleaseInv
  <2> QED
    BY <2>1, <2>2, CoreSafe
<1>2. CASE FillerPlays
  <2>1. /\ UNCHANGED <<bridge, closed, connecting, endTimer, llm, before, tts, over, finished,
                       curTts, curAbort, turn, deaf, cut, late, orphan>>
        /\ state = "tool_running" /\ state' = "filler_audio"
        /\ UNCHANGED <<closeWait, dg, dgClosed, maxTimer>>
    BY <1>2 DEF FillerPlays
  <2>2. BeginInv'
    BY <2>1 DEF Safe, BeginInv, Slipped
  <2>3. VoiceInv' /\ ReleaseInv'
    BY <2>1 DEF Safe, VoiceInv, Voice, ReleaseInv
  <2>4. DisorderInv'
    BY <2>1 DEF Safe, DisorderInv, Active, Disordered, Slipped
  <2>5. ModeInv'
    BY <2>1 DEF Safe, ModeInv, Active, Slipped, InTool
  <2> QED
    BY <2>2, <2>3, <2>4, <2>5 DEF Safe
<1>3. CASE Barge
  <2>1. /\ Live /\ state = "speaking"
        /\ UNCHANGED <<connecting, endTimer, before, finished, cut, turn, late, orphan>>
    BY <1>3 DEF Barge
  <2>2. CASE EndCall(llm, tts, over) /\ UNCHANGED <<curTts, curAbort>>
    BY <2>1, <2>2, PlainEndSafe
  <2>3. CASE /\ curTts' = 0 /\ curAbort' = 0 /\ AbortRun(llm) /\ StopSpeech(tts, over)
             /\ bridge' = IF StoppingFails THEN "finalized" ELSE bridge
             /\ \/ StoppingFails /\ ~closed /\ ShutDown
                \/ /\ ~StoppingFails \/ closed
                   /\ state' = "listening"
                   /\ UNCHANGED <<closed, maxTimer, closeWait, dg, dgClosed>>
    <3>1. /\ llm \in [Turns -> Runs] /\ tts \in [Turns -> Sockets]
      BY DEF Types, TurnMaps
    <3>2. \A t \in Turns : llm[t] = llm[t] \/ (llm[t] = "over" /\ llm[t] # "none")
      OBVIOUS
    <3>3. \A t \in Turns : tts[t] = "none" <=> tts[t] = "none"
      OBVIOUS
    <3>4. Halts
      BY <2>3, <3>1, <3>2, <3>3, AbortHalts
    <3>5. ShutDown => /\ closed' = TRUE /\ state' = "closed" /\ maxTimer' = FALSE
                      /\ closeWait' \/ dg' = "none" \/ dgClosed'
      BY DEF ShutDown, CloseDeepgram
    <3>6. Barges
      BY <2>1, <2>3, <3>4, <3>5 DEF Barges
    <3> QED
      BY <2>1, <3>6, BargesSafe
  <2> QED
    BY <1>3, <2>2, <2>3 DEF Barge
<1>4. CASE HangUp
  <2>1. /\ Live /\ EndCall(llm, tts, over)
        /\ UNCHANGED <<turn, curTts, curAbort, finished, cut, late, orphan, endTimer, connecting>>
    BY <1>4 DEF HangUp
  <2> QED
    BY <2>1, PlainEndSafe
<1>5. CASE MaxDuration
  <2>1. /\ Live
        /\ UNCHANGED <<turn, curTts, curAbort, finished, cut, late, orphan, endTimer, connecting, before>>
    BY <1>5 DEF MaxDuration
  <2>2. CASE EndCall(llm, tts, over)
    BY <2>1, <2>2, PlainEndSafe
  <2>3. CASE /\ maxTimer' = FALSE
             /\ UNCHANGED <<bridge, closed, state, closeWait, dg, dgClosed, llm, deaf, tts, over>>
    <3>1. UNCHANGED coreVars
      BY <2>1, <2>3 DEF coreVars
    <3>2. ReleaseInv'
      BY <2>1, <2>3 DEF Safe, ReleaseInv
    <3> QED
      BY <3>1, <3>2, CoreSafe
  <2> QED
    BY <1>5, <2>2, <2>3 DEF MaxDuration
<1>6. CASE EndCallTimer
  <2>1. /\ Live /\ turn # 0 /\ Close(llm, tts, over)
        /\ bridge' = "finalized" \/ bridge' = bridge
        /\ UNCHANGED <<turn, curTts, curAbort, finished, cut, late, orphan, connecting>>
        /\ endTimer' = FALSE
    BY <1>6 DEF EndCallTimer, Safe, BeginInv
  <2>2. /\ llm \in [Turns -> Runs] /\ tts \in [Turns -> Sockets]
    BY DEF Types, TurnMaps
  <2>3. \A t \in Turns : llm[t] = llm[t] \/ (llm[t] = "over" /\ llm[t] # "none")
    OBVIOUS
  <2>4. \A t \in Turns : tts[t] = "none" <=> tts[t] = "none"
    OBVIOUS
  <2>5. Stops /\ Shuts
    BY <2>1, <2>2, <2>3, <2>4, CloseStops
  <2>6. Ends
    BY <2>1, <2>5 DEF Ends
  <2> QED
    BY <2>1, <2>6, EndsSafe
<1>7. CASE CloseSettles
  <2>1. UNCHANGED coreVars
    BY <1>7 DEF CloseSettles, coreVars
  <2>2. ReleaseInv'
    BY <1>7 DEF CloseSettles, Safe, ReleaseInv
  <2> QED
    BY <2>1, <2>2, CoreSafe
<1> QED
  BY <1>1, <1>2, <1>3, <1>4, <1>5, <1>6, <1>7

-----------------------------------------------------------------------------
(* The run and the socket of a turn                                        *)

(* Disorder spreads to every later turn.                                   *)
LEMMA DisorderSpreads ==
  ASSUME Types, NEW t \in Turns, NEW u \in Turns, Disordered(t), t <= u
  PROVE  Disordered(u)
<1>1. PICK w \in Slipped : w <= t
  BY DEF Disordered
<1>2. w \in Nat /\ t \in Nat /\ u \in Nat
  BY Numbers DEF Types, TurnSets, Slipped
<1> QED
  BY <1>1, <1>2 DEF Disordered

(* A turn of which there is a trace has begun.                             *)
LEMMA Begun ==
  ASSUME Types, Safe, NEW t \in Turns,
         llm[t] # "none" \/ tts[t] # "none" \/ over[t] # "no"
  PROVE  t <= turn /\ turn # 0 /\ t \in Nat /\ turn \in Nat
BY Numbers DEF Safe, BeginInv, Types, Counts, Turns

(* What a closed pipeline still runs has slipped.                           *)
LEMMA ClosedRun ==
  ASSUME Safe, NEW t \in Turns, Active(t), closed
  PROVE  Disordered(t) /\ Slipped # {}
BY DEF Safe, DisorderInv, Disordered

(* A new turn of the caller keeps the invariant.                           *)
LEMMA CommitSafe ==
  ASSUME Types, Safe, NEW t \in Turns, CommitUserTurn(t)
  PROVE  Safe'
<1>1. /\ Live /\ bridge = "live" /\ state = "listening" /\ turn \in Turns /\ t = turn + 1
      /\ UNCHANGED <<connecting, endTimer, before, finished, cut, late>>
  BY DEF CommitUserTurn
<1>2. CASE EndCall(llm, tts, over) /\ UNCHANGED <<turn, curTts, curAbort, orphan>>
  BY <1>1, <1>2, PlainEndSafe
<1>3. CASE /\ turn' = t /\ state' = "speaking" /\ curTts' = t /\ curAbort' = t
           /\ llm' = [llm EXCEPT ![t] = "fetch"] /\ tts' = [tts EXCEPT ![t] = "dial"]
           /\ orphan' = IF closed THEN orphan \cup {"turn"} ELSE orphan
           /\ UNCHANGED <<bridge, closed, maxTimer, closeWait, dg, dgClosed, deaf, over>>
  <2> USE <1>1, <1>3 DEF Safe
  <2>0. t \in Nat /\ turn \in Nat /\ t > turn /\ t # 1 /\ t # 0
    BY Numbers DEF Turns
  <2>1. llm[t] = "none" /\ tts[t] = "none" /\ over[t] = "no" /\ ~finished[t]
    BY <2>0 DEF BeginInv
  <2>2. Slipped' = Slipped /\ Slipped \subseteq 1 .. turn /\ (closed => Slipped # {})
    BY DEF Slipped, BeginInv, DisorderInv
  <2>3. \A u \in Turns : Disordered(u)' <=> Disordered(u)
    BY <2>2 DEF Disordered
  <2>4. ASSUME closed PROVE Disordered(t)
    <3>1. PICK w \in Slipped : TRUE
      BY <2>2, <2>4
    <3>2. w <= t
      BY <2>0, <2>2, <3>1
    <3> QED
      BY <3>1, <3>2 DEF Disordered
  <2>5. \A u \in Turns \ {t} : llm'[u] = llm[u] /\ tts'[u] = tts[u]
    BY DEF Types, TurnMaps
  <2>6. llm'[t] = "fetch"
    BY DEF Types, TurnMaps
  <2>7. BeginInv'
    <3>1. \A u \in Turns : u > turn' => llm'[u] = "none" /\ tts'[u] = "none" /\ over'[u] = "no"
      <4> SUFFICES ASSUME NEW u \in Turns, u > turn'
                   PROVE  llm'[u] = "none" /\ tts'[u] = "none" /\ over'[u] = "no"
        OBVIOUS
      <4>1. u # t /\ u > turn
        BY <2>0, Numbers
      <4> QED
        BY <2>5, <4>1 DEF BeginInv
    <3>2. \A u \in Turns : u = 1 => llm'[u] = "none"
      BY <2>0, <2>5 DEF BeginInv
    <3>3. \A u \in Turns : finished'[u] => u = 1 \/ llm'[u] = "over"
      BY <2>1, <2>5 DEF BeginInv
    <3>4. Slipped' \subseteq 1 .. turn' /\ ("turn" \in orphan' => Slipped' # {})
      BY <2>0, <2>2 DEF BeginInv
    <3>5. /\ connecting' # "done" \/ bridge' \in {"pre_warming", "pre_warmed"} => turn' = 0
          /\ bridge' \in {"pre_warmed", "live"} => connecting' = "done"
          /\ endTimer' => turn' # 0
          /\ closed' => bridge' \notin {"pre_warming", "pre_warmed"}
          /\ bridge' = "finalized" => closed'
          /\ curTts' \in {0, turn'} /\ curAbort' <= turn'
      BY <2>0 DEF BeginInv
    <3> QED
      BY <3>1, <3>2, <3>3, <3>4, <3>5 DEF BeginInv
  <2>8. \A u \in Turns : Voice(u)' => u = t
    BY <2>5 DEF VoiceInv, Voice
  <2>9. VoiceInv'
    BY <2>8 DEF VoiceInv
  <2>10. \A u \in Turns : Active(u)' => u = t \/ Disordered(u)
    BY <2>5 DEF DisorderInv, Active
  <2>11. DisorderInv'
    <3>1. \A u \in Turns : Active(u)' /\ ~Disordered(u)' =>
            u = turn' /\ u = curAbort' /\ state' # "listening" /\ ~closed'
      BY <2>3, <2>4, <2>10
    <3>2. \A u \in late' : u = 1 \/ Disordered(u)'
      BY <2>3 DEF DisorderInv, Types, TurnSets
    <3> QED
      BY <2>2, <3>1, <3>2 DEF DisorderInv
  <2>12. ModeInv'
    <3>1. Slipped' = {} => \A u \in Turns : Active(u)' => u = t
      BY <2>2, <2>10 DEF Disordered
    <3> QED
      BY <2>0, <2>1, <2>6, <3>1 DEF ModeInv, InTool, Active
  <2>13. ReleaseInv'
    BY DEF ReleaseInv
  <2> QED
    BY <2>7, <2>9, <2>11, <2>12, <2>13
<1> QED
  BY <1>2, <1>3 DEF CommitUserTurn

(* A run goes from one place to another.                                    *)
LEMMA RunMoves ==
  ASSUME Types, Safe, NEW t \in Turns, NEW x \in {"fetch", "stream", "backoff"},
         llm[t] \in {"fetch", "stream", "backoff"}, llm' = [llm EXCEPT ![t] = x],
         UNCHANGED <<bridge, state, closed, connecting, endTimer, before, tts, over, finished,
              curTts, curAbort, turn, deaf, cut, late, orphan, maxTimer, closeWait, dg, dgClosed>>
  PROVE  Safe'
<1> USE DEF Safe
<1>0. llm'[t] = x /\ \A u \in Turns \ {t} : llm'[u] = llm[u]
  BY DEF Types, TurnMaps
<1>1. \A u \in Turns : (Active(u)' <=> Active(u)) /\ (llm'[u] = "tool" <=> llm[u] = "tool")
  BY <1>0 DEF Active
<1>2. BeginInv'
  <2>1. \A u \in Turns : llm[u] \in {"none", "over"} => llm'[u] = llm[u]
    BY <1>0
  <2>2. \A u \in Turns : u > turn => llm'[u] = "none" /\ tts[u] = "none" /\ over[u] = "no"
    BY <2>1 DEF BeginInv
  <2>3. \A u \in Turns : u = 1 => llm'[u] = "none"
    BY <2>1 DEF BeginInv
  <2>4. \A u \in Turns : finished[u] => u = 1 \/ llm'[u] = "over"
    BY <2>1 DEF BeginInv
  <2>5. Slipped' = Slipped
    BY DEF Slipped
  <2> QED
    BY <2>2, <2>3, <2>4, <2>5 DEF BeginInv
<1>3. VoiceInv'
  BY DEF VoiceInv, Voice
<1>4. DisorderInv'
  BY <1>1 DEF DisorderInv, Disordered, Slipped
<1>5. ModeInv'
  BY <1>1 DEF ModeInv, Slipped
<1>6. ReleaseInv'
  BY DEF ReleaseInv
<1> QED
  BY <1>2, <1>3, <1>4, <1>5, <1>6

(* A run that fails for good ends the call.                                *)
LEMMA RunFails ==
  ASSUME Types, Safe, Live, NEW t \in Turns,
         llm[t] \in {"fetch", "stream"}, Fail("llm", [llm EXCEPT ![t] = "over"], tts, over),
         UNCHANGED <<turn, curTts, curAbort, finished, cut, late, orphan, endTimer, connecting>>
  PROVE  Safe'
<1>1. /\ [llm EXCEPT ![t] = "over"] \in [Turns -> Runs] /\ tts \in [Turns -> Sockets]
      /\ \A u \in Turns : \/ [llm EXCEPT ![t] = "over"][u] = llm[u]
                          \/ ([llm EXCEPT ![t] = "over"][u] = "over" /\ llm[u] # "none")
  BY DEF Types, TurnMaps, Runs
<1>2. \A u \in Turns : tts[u] = "none" <=> tts[u] = "none"
  OBVIOUS
<1>3. EndCall([llm EXCEPT ![t] = "over"], tts, over)
  BY DEF Fail
<1> QED
  BY <1>1, <1>2, <1>3, EndCallSafe

(* A socket goes from one place to another.                                 *)
LEMMA SocketMoves ==
  ASSUME Types, Safe, NEW t \in Turns, NEW x \in Sockets \ {"none"}, tts[t] # "none",
         tts' = [tts EXCEPT ![t] = x],
         UNCHANGED <<bridge, state, closed, connecting, endTimer, llm, before, over, curTts,
                curAbort, turn, deaf, cut, orphan, maxTimer, closeWait, dg, dgClosed>>,
         finished' = finished \/ (t = 1 /\ finished' = [finished EXCEPT ![t] = TRUE]),
         late' = late \/ (t = 1 /\ late' = late \cup {t})
  PROVE  Safe'
<1> USE DEF Safe
<1>1. \A u \in Turns : tts'[u] = "none" <=> tts[u] = "none"
  BY DEF Types, TurnMaps
<1>2. BeginInv'
  <2>1. \A u \in Turns : u # 1 => finished'[u] = finished[u]
    BY DEF Types, TurnFlags
  <2>2. Slipped' = Slipped
    BY DEF Slipped
  <2> QED
    BY <1>1, <2>1, <2>2 DEF BeginInv
<1>3. VoiceInv'
  BY <1>1 DEF VoiceInv, Voice
<1>4. DisorderInv'
  BY DEF DisorderInv, Active, Disordered, Slipped
<1>5. ModeInv'
  BY DEF ModeInv, Active, Slipped
<1>6. ReleaseInv'
  BY DEF ReleaseInv
<1> QED
  BY <1>2, <1>3, <1>4, <1>5, <1>6


(* A request for a tool keeps the invariant.                               *)
LEMMA AskSafe ==
  ASSUME Types, Safe, NEW t \in Turns, NEW e \in BOOLEAN, AsksTool(t, e)
  PROVE  Safe'
<1> USE DEF Safe
<1>1. /\ llm[t] = "stream" /\ llm' = [llm EXCEPT ![t] = "tool"]
      /\ before' = [before EXCEPT ![t] = state] /\ state' = "tool_running"
      /\ UNCHANGED <<bridge, closed, connecting, endTimer, tts, over, finished, curTts, curAbort,
                     turn, deaf, cut, late, orphan, maxTimer, closeWait, dg, dgClosed>>
  BY DEF AsksTool, llmRest
<1>2. /\ llm'[t] = "tool" /\ \A u \in Turns \ {t} : llm'[u] = llm[u] /\ before'[u] = before[u]
      /\ before'[t] = state
  BY <1>1 DEF Types, TurnMaps
<1>3. \A u \in Turns : Active(u)' <=> Active(u)
  BY <1>1, <1>2 DEF Active
<1>4. Active(t) /\ Slipped' = Slipped /\ \A u \in Turns : Disordered(u)' <=> Disordered(u)
  BY <1>1 DEF Active, Slipped, Disordered
<1>5. BeginInv'
  <2>1. \A u \in Turns : llm[u] \in {"none", "over"} => llm'[u] = llm[u]
    BY <1>1, <1>2
  <2>2. \A u \in Turns : u > turn => llm'[u] = "none" /\ tts[u] = "none" /\ over[u] = "no"
    BY <2>1 DEF BeginInv
  <2>3. \A u \in Turns : u = 1 => llm'[u] = "none"
    BY <2>1 DEF BeginInv
  <2>4. \A u \in Turns : finished[u] => u = 1 \/ llm'[u] = "over"
    BY <2>1 DEF BeginInv
  <2> QED
    BY <1>1, <1>4, <2>2, <2>3, <2>4 DEF BeginInv
<1>6. VoiceInv'
  BY <1>1 DEF VoiceInv, Voice
<1>7. DisorderInv'
  <2>1. closed => Slipped # {}
    BY <1>4, ClosedRun
  <2>2. \A u \in Turns : Active(u)' /\ ~Disordered(u)' =>
          u = turn' /\ u = curAbort' /\ state' # "listening" /\ ~closed'
    BY <1>1, <1>3, <1>4 DEF DisorderInv
  <2>3. \A u \in late' : u = 1 \/ Disordered(u)'
    BY <1>1, <1>4 DEF DisorderInv, Types, TurnSets
  <2> QED
    BY <1>1, <1>4, <2>1, <2>2, <2>3 DEF DisorderInv
<1>8. ModeInv'
  <2> SUFFICES ASSUME ~closed, Slipped = {} PROVE ModeInv'
    BY <1>1, <1>4 DEF ModeInv
  <2>1. \A u \in Turns : Active(u) => u = curTts /\ over[u] = "no" /\ state \in {"speaking"} \cup InTool
    BY DEF ModeInv
  <2>2. \A u \in Turns : llm[u] # "tool"
    BY <1>1, <1>4, <2>1 DEF Active
  <2>3. state # "speaking" => endTimer
    BY <1>4, <2>1, <2>2 DEF ModeInv
  <2>4. \A u \in Turns : llm'[u] = "tool" /\ before'[u] # "speaking" => endTimer'
    BY <1>1, <1>2, <2>2, <2>3
  <2>5. \A u \in Turns : Active(u)' =>
          u = curTts' /\ over'[u] = "no" /\ state' \in {"speaking"} \cup InTool
    BY <1>1, <1>3, <2>1 DEF InTool
  <2> QED
    BY <1>1, <1>2, <2>4, <2>5 DEF ModeInv
<1>9. ReleaseInv'
  BY <1>1 DEF ReleaseInv
<1> QED
  BY <1>5, <1>6, <1>7, <1>8, <1>9

(* A tool that returns keeps the invariant, whoever was aborted meanwhile. *)
LEMMA ToolSafe ==
  ASSUME Types, Safe, NEW t \in Turns, ToolReturns(t)
  PROVE  Safe'
<1> USE DEF Safe
<1>1. /\ llm[t] = "tool" /\ llm' = [llm EXCEPT ![t] = "fetch"]
      /\ before' = [before EXCEPT ![t] = "idle"]
      /\ UNCHANGED <<closed, connecting, tts, over, finished, curTts, curAbort, turn, deaf, cut,
                     late, orphan, maxTimer, closeWait, dg, dgClosed>>
      /\ bridge' = bridge \/ bridge' = "died"
      /\ state' = "speaking" \/ state' = state
  BY DEF ToolReturns, Resumed
<1>2. /\ endTimer => endTimer'
      /\ state' = "speaking" \/ (endTimer' \/ before[t] # "speaking")
  BY DEF ToolReturns, Resumed, Types, TurnFlags
<1>3. /\ llm'[t] = "fetch" /\ \A u \in Turns \ {t} : llm'[u] = llm[u] /\ before'[u] = before[u]
  BY <1>1 DEF Types, TurnMaps
<1>4. \A u \in Turns : Active(u)' <=> Active(u)
  BY <1>1, <1>3 DEF Active
<1>5. Active(t) /\ Slipped' = Slipped /\ \A u \in Turns : Disordered(u)' <=> Disordered(u)
  BY <1>1 DEF Active, Slipped, Disordered
<1>6. turn # 0
  BY <1>1, Begun
<1>7. BeginInv'
  <2>1. \A u \in Turns : llm[u] \in {"none", "over"} => llm'[u] = llm[u]
    BY <1>1, <1>3
  <2>2. \A u \in Turns : u > turn => llm'[u] = "none" /\ tts[u] = "none" /\ over[u] = "no"
    BY <2>1 DEF BeginInv
  <2>3. \A u \in Turns : u = 1 => llm'[u] = "none"
    BY <2>1 DEF BeginInv
  <2>4. \A u \in Turns : finished[u] => u = 1 \/ llm'[u] = "over"
    BY <2>1 DEF BeginInv
  <2> QED
    BY <1>1, <1>5, <1>6, <2>2, <2>3, <2>4 DEF BeginInv
<1>8. VoiceInv'
  BY <1>1 DEF VoiceInv, Voice
<1>9. DisorderInv'
  <2>1. closed => Slipped # {}
    BY <1>5, ClosedRun
  <2>2. \A u \in Turns : Active(u)' /\ ~Disordered(u)' =>
          u = turn' /\ u = curAbort' /\ state' # "listening" /\ ~closed'
    BY <1>1, <1>4, <1>5 DEF DisorderInv
  <2>3. \A u \in late' : u = 1 \/ Disordered(u)'
    BY <1>1, <1>5 DEF DisorderInv, Types, TurnSets
  <2> QED
    BY <1>1, <1>5, <2>1, <2>2, <2>3 DEF DisorderInv
<1>10. ModeInv'
  <2> SUFFICES ASSUME ~closed, Slipped = {} PROVE ModeInv'
    BY <1>1, <1>5 DEF ModeInv
  <2>1. \A u \in Turns : Active(u) => u = curTts /\ over[u] = "no" /\ state \in {"speaking"} \cup InTool
    BY DEF ModeInv
  <2>2. \A u \in Turns : llm'[u] # "tool"
    BY <1>1, <1>3, <1>5, <2>1 DEF Active
  <2>3. before[t] # "speaking" => endTimer'
    BY <1>1, <1>2 DEF ModeInv
  <2>4. state' = "speaking" \/ endTimer'
    BY <1>2, <2>3
  <2>5. \A u \in Turns : Active(u)' =>
          u = curTts' /\ over'[u] = "no" /\ state' \in {"speaking"} \cup InTool
    BY <1>1, <1>4, <2>1
  <2>6. curTts # 0 /\ over[curTts] = "no"
    BY <1>5, <2>1, Numbers DEF Turns
  <2>7. state' \in InTool => endTimer'
    BY <2>4 DEF InTool
  <2> QED
    BY <1>1, <2>2, <2>5, <2>6, <2>7 DEF ModeInv
<1>11. ReleaseInv'
  BY <1>1 DEF ReleaseInv
<1> QED
  BY <1>7, <1>8, <1>9, <1>10, <1>11

(* A run that ends, with whatever sentence it still holds, keeps the       *)
(* invariant.                                                              *)
LEMMA RunEndsSafe ==
  ASSUME Types, Safe, NEW t \in Turns, RunEnds(t)
  PROVE  Safe'
<1> USE DEF Safe
<1>1. /\ llm[t] = "stream" /\ llm' = [llm EXCEPT ![t] = "over"]
      /\ finished' = [finished EXCEPT ![t] = TRUE] /\ curAbort' = 0
      /\ late' = late \/ (bridge = "finalized" /\ late' = late \cup {t})
      /\ UNCHANGED <<bridge, state, closed, connecting, endTimer, before, tts, over, curTts, turn,
                     deaf, cut, orphan, maxTimer, closeWait, dg, dgClosed>>
  BY DEF RunEnds, llmRest, quiet, closingVars
<1>2. /\ llm'[t] = "over" /\ \A u \in Turns \ {t} : llm'[u] = llm[u] /\ finished'[u] = finished[u]
  BY <1>1 DEF Types, TurnMaps, TurnFlags
<1>3. \A u \in Turns : Active(u)' => Active(u) /\ u # t
  BY <1>2 DEF Active
<1>4. Active(t) /\ Slipped' = Slipped /\ \A u \in Turns : Disordered(u)' <=> Disordered(u)
  BY <1>1 DEF Active, Slipped, Disordered
<1>5. t <= turn /\ turn \in Nat /\ t \in Nat
  BY <1>1, Begun
<1>6. BeginInv'
  <2>1. \A u \in Turns : u > turn => llm'[u] = "none" /\ tts[u] = "none" /\ over[u] = "no"
    <3> SUFFICES ASSUME NEW u \in Turns, u > turn
                 PROVE  llm'[u] = "none" /\ tts[u] = "none" /\ over[u] = "no"
      OBVIOUS
    <3>1. u # t
      BY <1>5
    <3> QED
      BY <1>2, <3>1 DEF BeginInv
  <2>2. \A u \in Turns : u = 1 => llm'[u] = "none"
    BY <1>1, <1>2 DEF BeginInv
  <2>3. \A u \in Turns : finished'[u] => u = 1 \/ llm'[u] = "over"
    BY <1>2 DEF BeginInv
  <2> QED
    BY <1>1, <1>4, <1>5, <2>1, <2>2, <2>3 DEF BeginInv
<1>7. VoiceInv'
  BY <1>1 DEF VoiceInv, Voice
<1>8. DisorderInv'
  <2>1. \A u \in Turns : Active(u)' => Disordered(u)
    <3> SUFFICES ASSUME NEW u \in Turns, Active(u), u # t, ~Disordered(u) PROVE FALSE
      BY <1>3
    <3>1. u = turn
      BY DEF DisorderInv
    <3>2. Disordered(t)
      BY <1>4, <3>1 DEF DisorderInv
    <3> QED
      BY <1>5, <3>1, <3>2, DisorderSpreads
  <2>2. bridge = "finalized" => Disordered(t)
    BY <1>4, ClosedRun DEF BeginInv
  <2>3. \A u \in late' : u = 1 \/ Disordered(u)'
    BY <1>1, <1>4, <2>2 DEF DisorderInv, Types, TurnSets
  <2> QED
    BY <1>1, <1>4, <2>1, <2>3 DEF DisorderInv
<1>9. ModeInv'
  <2> SUFFICES ASSUME ~closed, Slipped = {} PROVE ModeInv'
    BY <1>1, <1>4 DEF ModeInv
  <2>1. \A u \in Turns : (llm'[u] = "tool" <=> llm[u] = "tool")
    BY <1>1, <1>2
  <2> QED
    BY <1>1, <1>3, <2>1 DEF ModeInv
<1>10. ReleaseInv'
  BY <1>1 DEF ReleaseInv
<1> QED
  BY <1>6, <1>7, <1>8, <1>9, <1>10

(* A session that reports its end keeps the invariant.                     *)
LEMMA DoneSafe ==
  ASSUME Types, Safe, NEW t \in Turns, TtsDone(t)
  PROVE  Safe'
<1> USE DEF Safe
<1>1. /\ tts[t] = "open" /\ over[t] = "no" /\ tts' = [tts EXCEPT ![t] = "gone"]
      /\ over' = [over EXCEPT ![t] = "done"] /\ state' = AfterSpeech
      /\ cut' = IF finished[t] THEN cut ELSE cut \cup {t}
      /\ UNCHANGED <<bridge, closed, connecting, endTimer, llm, before, finished, curTts, curAbort,
                     turn, deaf, late, orphan, maxTimer, closeWait, dg, dgClosed>>
  BY DEF TtsDone, ttsRest, callSame, curVars
<1>2. \A u \in Turns \ {t} : tts'[u] = tts[u] /\ over'[u] = over[u]
  BY <1>1 DEF Types, TurnMaps
<1>3. over'[t] = "done"
  BY <1>1 DEF Types, TurnMaps
<1>4. t <= turn /\ turn \in Nat /\ t \in Nat /\ t = curTts /\ t = turn /\ t # 0
  <2>1. t <= turn /\ turn \in Nat /\ t \in Nat /\ t # 0
    BY <1>1, Begun, Numbers DEF Turns
  <2>2. t = curTts
    BY <1>1 DEF VoiceInv, Voice
  <2> QED
    BY <2>1, <2>2 DEF BeginInv
<1>5. finished[t] => ~Active(t)
  BY DEF BeginInv, Active
<1>6. ~finished[t] => t \in Slipped'
  BY <1>1 DEF Slipped
<1>7. \A u \in Turns : Disordered(u) => Disordered(u)'
  BY <1>1, SlippedGrows
<1>8. \A u \in Turns : Active(u)' <=> Active(u)
  BY <1>1 DEF Active
<1>9. state # "closed" \/ state' = "closed"
  BY <1>1 DEF AfterSpeech
<1>10. BeginInv'
  <2>1. \A u \in Turns : u > turn => llm'[u] = "none" /\ tts'[u] = "none" /\ over'[u] = "no"
    BY <1>1, <1>2, <1>4 DEF BeginInv
  <2>2. Slipped' \subseteq 1 .. turn /\ Slipped \subseteq Slipped'
    BY <1>1, <1>4 DEF BeginInv, Slipped
  <2>3. /\ \A u \in Turns : u = 1 => llm'[u] = "none"
        /\ \A u \in Turns : finished'[u] => u = 1 \/ llm'[u] = "over"
    BY <1>1 DEF BeginInv
  <2> QED
    BY <1>1, <2>1, <2>2, <2>3 DEF BeginInv
<1>11. \A u \in Turns : ~Voice(u)'
  BY <1>1, <1>2, <1>3, <1>4 DEF VoiceInv, Voice
<1>12. VoiceInv'
  BY <1>11 DEF VoiceInv
<1>13. \A u \in Turns : Active(u)' => Disordered(u)'
  <2> SUFFICES ASSUME NEW u \in Turns, Active(u), ~Disordered(u) PROVE Disordered(u)'
    BY <1>7, <1>8
  <2>1. u = t
    BY <1>4 DEF DisorderInv
  <2>2. t \in Slipped'
    BY <1>5, <1>6, <2>1
  <2> QED
    BY <1>4, <2>1, <2>2 DEF Disordered
<1>14. DisorderInv'
  <2>1. closed' /\ bridge' = "live" /\ state' # "closed" => Slipped' # {}
    BY <1>1, <1>9 DEF DisorderInv, Slipped
  <2>2. \A u \in late' : u = 1 \/ Disordered(u)'
    BY <1>1, <1>7 DEF DisorderInv, Types, TurnSets
  <2> QED
    BY <1>13, <2>1, <2>2 DEF DisorderInv
<1>15. ModeInv'
  <2> SUFFICES ASSUME ~closed, Slipped' = {} PROVE ModeInv'
    BY <1>1 DEF ModeInv
  <2>1. Slipped = {}
    BY <1>1 DEF Slipped
  <2>2. \A u \in Turns : ~Active(u)' /\ ~Active(u)
    BY <1>8, <1>13 DEF Disordered
  <2>3. state' # "speaking" /\ (state' \in InTool => state' = state)
    BY <1>1 DEF AfterSpeech, InTool
  <2>4. state' \in InTool => endTimer'
    BY <1>1, <2>1, <2>2, <2>3 DEF ModeInv, Active
  <2> QED
    BY <2>2, <2>3, <2>4 DEF ModeInv, Active
<1>16. ReleaseInv'
  BY <1>1 DEF ReleaseInv
<1> QED
  BY <1>10, <1>12, <1>14, <1>15, <1>16

(* Every step of a turn keeps the invariant.                               *)
LEMMA TurnSafe ==
  ASSUME Types, Safe, NEW t \in Turns, TurnStep(t)
  PROVE  Safe'
<1> USE DEF llmRest, quiet, closingVars, ttsRest, callSame, curVars
<1>1. CASE Fetched(t)
  <2>1. /\ Live /\ llm[t] = "fetch"
        /\ UNCHANGED <<turn, curTts, curAbort, finished, cut, late, orphan, endTimer, connecting, before>>
    BY <1>1 DEF Fetched
  <2>2. CASE llm' = [llm EXCEPT ![t] = "stream"] /\ UNCHANGED <<quiet, deaf>>
    BY <2>1, <2>2, RunMoves
  <2>3. CASE llm' = [llm EXCEPT ![t] = "backoff"] /\ UNCHANGED <<quiet, deaf>>
    BY <2>1, <2>3, RunMoves
  <2>4. CASE Fail("llm", [llm EXCEPT ![t] = "over"], tts, over)
    BY <2>1, <2>4, RunFails
  <2> QED
    BY <1>1, <2>2, <2>3, <2>4 DEF Fetched
<1>2. CASE BackoffEnds(t)
  BY <1>2, RunMoves DEF BackoffEnds
<1>3. CASE Sentence(t)
  <2>1. UNCHANGED coreVars
    BY <1>3 DEF Sentence, coreVars
  <2>2. ReleaseInv'
    BY <1>3 DEF Sentence, Safe, ReleaseInv
  <2> QED
    BY <2>1, <2>2, CoreSafe
<1>4. CASE StreamFails(t)
  BY <1>4, RunFails DEF StreamFails
<1>5. CASE TtsOpens(t)
  <2>1. "open" \in Sockets \ {"none"} /\ tts[t] # "none" /\ tts' = [tts EXCEPT ![t] = "open"]
    BY <1>5 DEF TtsOpens, Sockets
  <2>2. UNCHANGED <<bridge, state, closed, connecting, endTimer, llm, before, over, curTts,
                curAbort, turn, deaf, cut, orphan, maxTimer, closeWait, dg, dgClosed>>
    BY <1>5 DEF TtsOpens
  <2>3. /\ finished' = finished \/ (t = 1 /\ finished' = [finished EXCEPT ![t] = TRUE])
        /\ late' = late \/ (t = 1 /\ late' = late \cup {t})
    BY <1>5 DEF TtsOpens
  <2> QED
    BY <2>1, <2>2, <2>3, SocketMoves
<1>6. CASE TtsRetries(t) \/ TtsForgotten(t)
  <2>1. /\ tts[t] # "none"
        /\ tts' = [tts EXCEPT ![t] = "redial"] \/ tts' = [tts EXCEPT ![t] = "gone"]
        /\ UNCHANGED <<bridge, state, closed, connecting, endTimer, llm, before, over, curTts,
                curAbort, turn, deaf, cut, orphan, maxTimer, closeWait, dg, dgClosed, finished, late>>
    BY <1>6 DEF TtsRetries, TtsForgotten
  <2>2. "redial" \in Sockets \ {"none"} /\ "gone" \in Sockets \ {"none"}
    BY DEF Sockets
  <2> QED
    BY <2>1, <2>2, SocketMoves
<1>7. CASE TtsDialFails(t)
  <2>1. Live /\ UNCHANGED <<turn, curTts, curAbort, finished, cut, late, orphan, endTimer, connecting,
                            before>>
    BY <1>7 DEF TtsDialFails
  <2>2. CASE tts[t] = "dial" /\ tts' = [tts EXCEPT ![t] = "wait"] /\ UNCHANGED <<callSame, state, over>>
    <3>1. "wait" \in Sockets \ {"none"}
      BY DEF Sockets
    <3> QED
      BY <2>1, <2>2, <3>1, SocketMoves
  <2>3. CASE tts[t] = "redial" /\ Fail("tts", llm, [tts EXCEPT ![t] = "gone"], over)
    <3>1. /\ llm \in [Turns -> Runs] /\ [tts EXCEPT ![t] = "gone"] \in [Turns -> Sockets]
          /\ \A u \in Turns : [tts EXCEPT ![t] = "gone"][u] = "none" <=> tts[u] = "none"
      BY <2>3 DEF Types, TurnMaps, Sockets
    <3>2. \A u \in Turns : llm[u] = llm[u] \/ (llm[u] = "over" /\ llm[u] # "none")
      OBVIOUS
    <3>3. EndCall(llm, [tts EXCEPT ![t] = "gone"], over)
      BY <2>3 DEF Fail
    <3> QED
      BY <2>1, <3>1, <3>2, <3>3, EndCallSafe
  <2> QED
    BY <1>7, <2>2, <2>3 DEF TtsDialFails
<1>8. CASE TtsSilent(t)
  BY <1>8, PlainEndSafe DEF TtsSilent, Fail
<1> QED
  BY <1>1, <1>2, <1>3, <1>4, <1>5, <1>6, <1>7, <1>8, CommitSafe, AskSafe, ToolSafe, RunEndsSafe,
    DoneSafe DEF TurnStep

(* Every step keeps all of the invariant but the part about the history.   *)
LEMMA SafeStep ==
  ASSUME Types, Safe, [Next]_vars
  PROVE  Safe'
<1>1. CASE UNCHANGED vars
  <2>1. UNCHANGED coreVars
    BY <1>1 DEF vars, bridgeVars, timerVars, dgVars, llmVars, ttsVars, curVars, dialogVars, coreVars
  <2>2. ReleaseInv'
    BY <1>1 DEF vars, timerVars, dgVars, Safe, ReleaseInv
  <2> QED
    BY <2>1, <2>2, CoreSafe
<1> QED
  BY <1>1, SetUpSafe, DeepgramSafe, DialogSafe, TurnSafe DEF Next

-----------------------------------------------------------------------------
(* The history                                                             *)

Words   == {"user", "agent"} \X Turns
Running == {t \in Turns : Active(t)}

(* Of the turns after the greeting there are at most MaxTurns - 1.         *)
LEMMA FewTurns ==
  ASSUME NEW S \in SUBSET (2 .. MaxTurns)
  PROVE  Cardinality(S) <= MaxTurns - 1 /\ Cardinality(S) \in Nat
<1>1. MaxTurns \in Int /\ 2 \in Int /\ MaxTurns - 2 + 1 = MaxTurns - 1 /\ MaxTurns >= 1
  BY Numbers
<1>2. /\ IsFiniteSet(2 .. MaxTurns)
      /\ Cardinality(2 .. MaxTurns) = IF 2 > MaxTurns THEN 0 ELSE MaxTurns - 2 + 1
  BY <1>1, FS_Interval
<1>3. Cardinality(2 .. MaxTurns) = MaxTurns - 1
  BY <1>1, <1>2
<1> QED
  BY <1>2, <1>3, FS_Subset, FS_CardinalityType

(* The runs are finitely many.                                             *)
LEMMA FewRun ==
  IsFiniteSet(Running) /\ Cardinality(Running) \in Nat
<1>1. IsFiniteSet(Turns)
  BY Numbers, FS_Interval DEF Turns
<1> QED
  BY <1>1, FS_Subset, FS_CardinalityType DEF Running

(* The window is the end of the history.                                    *)
LEMMA WindowedIs ==
  ASSUME NEW m \in Seq(Words)
  PROVE  /\ Windowed(m) \in Seq(Words) /\ Len(Windowed(m)) <= 2 * Window
         /\ \E d \in Nat : /\ d + Len(Windowed(m)) = Len(m)
                           /\ \A i \in 1 .. Len(Windowed(m)) : Windowed(m)[i] = m[i + d]
<1>0. Len(m) \in Nat /\ Window \in Nat
  BY Numbers
<1>1. CASE Len(m) <= 2 * Window
  <2>1. Windowed(m) = m
    BY <1>1 DEF Windowed
  <2>2. 0 \in Nat /\ 0 + Len(m) = Len(m) /\ \A i \in 1 .. Len(m) : m[i] = m[i + 0]
    BY <1>0
  <2> QED
    BY <1>1, <2>1, <2>2
<1>2. CASE ~(Len(m) <= 2 * Window)
  <2> DEFINE d == Len(m) - 2 * Window
  <2>1. d \in Nat /\ d + 1 \in 1 .. Len(m) /\ Len(m) - (d + 1) + 1 = 2 * Window
    <3>1. ASSUME NEW n \in Nat, NEW w \in Nat, ~(n <= w), w > 0
          PROVE  n - w \in Nat /\ n - w + 1 \in 1 .. n /\ n - (n - w + 1) + 1 = w
      BY <3>1
    <3>2. 2 * Window \in Nat /\ 2 * Window > 0
      BY Numbers
    <3> QED
      BY <1>0, <1>2, <3>1, <3>2
  <2>2. Windowed(m) = SubSeq(m, d + 1, Len(m))
    BY <1>2 DEF Windowed
  <2>3. Len(Windowed(m)) = 2 * Window /\ Windowed(m) \in Seq(Words)
    BY <1>0, <2>1, <2>2
  <2>4. \A i \in 1 .. 2 * Window : Windowed(m)[i] = m[i + d]
    BY <1>0, <2>1, <2>2
  <2>5. d + Len(Windowed(m)) = Len(m)
    BY <1>0, <2>3
  <2>6. \A i \in 1 .. Len(Windowed(m)) : Windowed(m)[i] = m[i + d]
    BY <2>3, <2>4
  <2>7. Len(Windowed(m)) <= 2 * Window
    BY <1>0, <2>3
  <2> HIDE DEF d
  <2> QED
    BY <2>1, <2>3, <2>5, <2>6, <2>7
<1> QED
  BY <1>1, <1>2

(* The order of a history, given the turns that need not keep it.           *)
InOrder(m, S) ==
  \A i, j \in 1 .. Len(m) : i < j /\ m[i][2] > m[j][2] => m[j][2] \in S

Stray == {t \in Turns : Disordered(t)}

(* The order of the history, said of a sequence and the turns excused.     *)
LEMMA HistoryIs == messages \in Seq(Words) => (HistoryInOrder <=> InOrder(messages, Stray))
<1> SUFFICES ASSUME messages \in Seq(Words) PROVE HistoryInOrder <=> InOrder(messages, Stray)
  OBVIOUS
<1>1. DOMAIN messages = 1 .. Len(messages)
  OBVIOUS
<1>2. \A j \in 1 .. Len(messages) : messages[j][2] \in Turns
  BY DEF Words
<1> QED
  BY <1>1, <1>2 DEF HistoryInOrder, InOrder, Stray

(* An entry may be appended if its turn is the latest or excused.          *)
LEMMA Appended ==
  ASSUME NEW m \in Seq(Words), NEW e \in Words, NEW S, NEW R, S \subseteq R,
         InOrder(m, S), e[2] \in R \/ \A i \in 1 .. Len(m) : m[i][2] <= e[2]
  PROVE  InOrder(Append(m, e), R)
<1> DEFINE n == Append(m, e)
<1>1. /\ Len(m) \in Nat /\ Len(n) = Len(m) + 1 /\ n[Len(m) + 1] = e
      /\ \A i \in 1 .. Len(m) : n[i] = m[i]
  OBVIOUS
<1>2. \A i \in 1 .. Len(m) : m[i][2] \in Nat
  <2>1. \A i \in 1 .. Len(m) : m[i] \in Words
    OBVIOUS
  <2>2. \A x \in Words : x[2] \in Nat
    BY Numbers DEF Words
  <2> QED
    BY <2>1, <2>2
<1>3. e[2] \in Nat
  BY Numbers DEF Words
<1> HIDE DEF n
<1> SUFFICES ASSUME NEW i \in 1 .. Len(n), NEW j \in 1 .. Len(n), i < j, n[i][2] > n[j][2]
             PROVE  n[j][2] \in R
  BY DEF InOrder, n
<1>4. i \in 1 .. Len(m) /\ n[i] = m[i]
  BY <1>1
<1>5. CASE j = Len(m) + 1
  <2>1. n[j] = e
    BY <1>1, <1>5
  <2>2. ~(m[i][2] <= e[2])
    BY <1>2, <1>3, <1>4, <2>1
  <2> QED
    BY <1>4, <2>1, <2>2
<1>6. CASE j \in 1 .. Len(m)
  <2>1. n[j] = m[j]
    BY <1>1, <1>6
  <2> QED
    BY <1>4, <1>6, <2>1 DEF InOrder
<1> QED
  BY <1>1, <1>5, <1>6

(* A window on an ordered history is ordered.                              *)
LEMMA WindowedInOrder ==
  ASSUME NEW m \in Seq(Words), NEW S, InOrder(m, S)
  PROVE  InOrder(Windowed(m), S)
<1>1. PICK d \in Nat : /\ d + Len(Windowed(m)) = Len(m)
                       /\ \A i \in 1 .. Len(Windowed(m)) : Windowed(m)[i] = m[i + d]
  BY WindowedIs
<1>2. Len(m) \in Nat /\ Len(Windowed(m)) \in Nat
  BY WindowedIs
<1> SUFFICES ASSUME NEW i \in 1 .. Len(Windowed(m)), NEW j \in 1 .. Len(Windowed(m)), i < j,
                    Windowed(m)[i][2] > Windowed(m)[j][2]
             PROVE  Windowed(m)[j][2] \in S
  BY DEF InOrder
<1>3. i + d \in 1 .. Len(m) /\ j + d \in 1 .. Len(m) /\ i + d < j + d
  <2>1. d + Len(Windowed(m)) = Len(m)
    BY <1>1
  <2>2. ASSUME NEW k \in Nat, NEW n \in Nat, k + n = Len(m), i \in 1 .. n, j \in 1 .. n
        PROVE  i + k \in 1 .. Len(m) /\ j + k \in 1 .. Len(m) /\ i + k < j + k
    BY <1>2, <2>2
  <2> QED
    BY <1>2, <2>1, <2>2
<1>4. Windowed(m)[i] = m[i + d] /\ Windowed(m)[j] = m[j + d]
  BY <1>1
<1> QED
  BY <1>3, <1>4 DEF InOrder

(* A step that writes nothing and starts nothing.                           *)
Mild ==
  /\ UNCHANGED <<messages, turn>> /\ deaf \subseteq deaf' /\ cut \subseteq cut'
  /\ \A t \in Turns : Active(t)' => Active(t)
  /\ bridge \in {"finalized", "died"} => bridge' \in {"finalized", "died"}

(* A step that writes no message and starts no run keeps the part about    *)
(* the history.                                                            *)
LEMMA MildKeeps ==
  ASSUME Types, MessageInv, Mild
  PROVE  MessageInv'
<1> USE DEF Mild
<1>1. \A t \in Turns : Disordered(t) => Disordered(t)'
  BY SlippedGrows
<1>2. HistoryInOrder'
  <2> SUFFICES ASSUME NEW i \in DOMAIN messages, NEW j \in DOMAIN messages, i < j,
                      messages[i][2] > messages[j][2]
               PROVE  Disordered(messages[j][2])'
    BY DEF HistoryInOrder
  <2>1. messages[j][2] \in Turns
    BY DEF MessageInv
  <2>2. Disordered(messages[j][2])
    BY DEF MessageInv, HistoryInOrder
  <2> QED
    BY <1>1, <2>1, <2>2
<1>3. Len(messages') + Cardinality(Running') <= 2 * Window + MaxTurns - 1
  <2>1. Running' \subseteq Running
    BY DEF Running
  <2>2. Cardinality(Running') <= Cardinality(Running) /\ Cardinality(Running') \in Nat
    BY <2>1, FewRun, FS_Subset, FS_CardinalityType
  <2>3. Len(messages) + Cardinality(Running) <= 2 * Window + MaxTurns - 1
    BY DEF MessageInv, Running
  <2>4. Len(messages) \in Nat /\ Cardinality(Running) \in Nat /\ messages' = messages
    BY FewRun DEF MessageInv
  <2> QED
    BY <2>2, <2>3, <2>4, Numbers
<1> QED
  BY <1>2, <1>3 DEF MessageInv, Running


(* A step that closes the pipeline is such a step.                         *)
LEMMA ClosingMild ==
  ASSUME Types, NEW l \in [Turns -> Runs], NEW s \in [Turns -> Sockets],
         \A t \in Turns : l[t] = llm[t] \/ (l[t] = "over" /\ llm[t] # "none"),
         \A t \in Turns : s[t] = "none" <=> tts[t] = "none",
         Close(l, s, over), bridge' = "finalized" \/ bridge' = bridge,
         UNCHANGED <<messages, turn, cut>>
  PROVE  Mild
<1>1. Stops
  BY CloseStops
<1>2. \A t \in Turns : Active(t)' => Active(t)
  BY <1>1 DEF Stops, Active
<1> QED
  BY <1>1, <1>2 DEF Mild, Stops

(* So is one that closes it with runs and sockets as they were.            *)
LEMMA PlainClosingMild ==
  ASSUME Types, Close(llm, tts, over),
         bridge' = "finalized" \/ bridge' = bridge, UNCHANGED <<messages, turn, cut>>
  PROVE  Mild
<1>1. /\ llm \in [Turns -> Runs] /\ tts \in [Turns -> Sockets]
  BY DEF Types, TurnMaps
<1>2. \A t \in Turns : llm[t] = llm[t] \/ (llm[t] = "over" /\ llm[t] # "none")
  OBVIOUS
<1>3. \A t \in Turns : tts[t] = "none" <=> tts[t] = "none"
  OBVIOUS
<1> QED
  BY <1>1, <1>2, <1>3, ClosingMild

(* So are the steps of the call other than the greeting,                   *)
LEMMA CallMild ==
  ASSUME Types,
         \/ SynthDone \/ DialFails
         \/ DeepgramDrops \/ DeepgramRedials \/ DeepgramReopens \/ DeepgramRedialFails
         \/ DeepgramTimesOut
         \/ Hear \/ Barge \/ BargeExpires \/ FillerPlays
         \/ HangUp \/ MaxDuration \/ EndCallTimer \/ CloseSettles
  PROVE  Mild
<1> USE DEF closingVars, bridgeVars, timerVars, dgVars, llmVars, ttsVars, curVars, dialogVars, endRest,
            dgRest, EndCall, Fail
<1>1. CASE SynthDone \/ Hear \/ BargeExpires \/ FillerPlays \/ CloseSettles
  BY <1>1 DEF SynthDone, Hear, BargeExpires, FillerPlays, CloseSettles, Mild, Active
<1>2. CASE DialFails \/ HangUp \/ EndCallTimer
  <2>1. /\ Close(llm, tts, over) /\ UNCHANGED <<messages, turn, cut>>
        /\ bridge' = "finalized" \/ bridge' = bridge
    BY <1>2 DEF DialFails, HangUp, EndCallTimer
  <2> QED
    BY <2>1, PlainClosingMild
<1>3. CASE DeepgramDrops \/ DeepgramRedials \/ DeepgramReopens \/ DeepgramRedialFails \/ DeepgramTimesOut
  <2>1. UNCHANGED <<messages, turn, cut>>
    BY <1>3 DEF DeepgramDrops, DeepgramRedials, DeepgramReopens, DeepgramRedialFails, DeepgramTimesOut
  <2>2. CASE Close(llm, tts, over) /\ bridge' = "finalized"
    BY <2>1, <2>2, PlainClosingMild
  <2>3. CASE UNCHANGED <<bridge, llm, deaf>>
    BY <2>1, <2>3 DEF Mild, Active
  <2> QED
    BY <1>3, <2>2, <2>3 DEF DeepgramDrops, DeepgramRedials, DeepgramReopens, DeepgramRedialFails,
      DeepgramTimesOut
<1>4. CASE MaxDuration
  <2>1. UNCHANGED <<messages, turn, cut>>
    BY <1>4 DEF MaxDuration
  <2>2. CASE Close(llm, tts, over) /\ bridge' = "finalized"
    BY <2>1, <2>2, PlainClosingMild
  <2>3. CASE UNCHANGED <<bridge, llm, deaf>>
    BY <2>1, <2>3 DEF Mild, Active
  <2> QED
    BY <1>4, <2>2, <2>3 DEF MaxDuration
<1>5. CASE Barge
  <2>1. UNCHANGED <<messages, turn, cut>>
    BY <1>5 DEF Barge
  <2>2. CASE Close(llm, tts, over) /\ bridge' = "finalized"
    BY <2>1, <2>2, PlainClosingMild
  <2>3. CASE AbortRun(llm) /\ bridge' = IF StoppingFails THEN "finalized" ELSE bridge
    <3>1. \A t \in Turns : Active(t)' => Active(t)
      BY <2>3 DEF AbortRun, Active
    <3>2. deaf \subseteq deaf'
      BY <2>3 DEF AbortRun
    <3> QED
      BY <2>1, <2>3, <3>1, <3>2 DEF Mild
  <2> QED
    BY <1>5, <2>2, <2>3 DEF Barge
<1> QED
  BY <1>1, <1>2, <1>3, <1>4, <1>5

(* and those of a turn other than its beginning and its end.               *)
LEMMA TurnMild ==
  ASSUME Types, NEW t \in Turns,
         \/ Fetched(t) \/ BackoffEnds(t) \/ Sentence(t) \/ StreamFails(t)
         \/ \E e \in BOOLEAN : AsksTool(t, e)
         \/ ToolReturns(t)
         \/ TtsOpens(t) \/ TtsDialFails(t) \/ TtsRetries(t) \/ TtsDone(t) \/ TtsSilent(t)
         \/ TtsForgotten(t)
  PROVE  Mild
<1> USE DEF llmRest, quiet, closingVars, ttsRest, callSame, curVars, Fail, EndCall
<1>1. ASSUME NEW x \in {"fetch", "stream", "backoff", "tool"}, Active(t),
             llm' = [llm EXCEPT ![t] = x], UNCHANGED <<messages, turn, deaf, cut>>,
             bridge' = bridge \/ (Live /\ bridge' = "died")
      PROVE  Mild
  <2>1. \A u \in Turns : Active(u)' => Active(u)
    BY <1>1 DEF Types, TurnMaps, Active
  <2> QED
    BY <1>1, <2>1 DEF Mild
<1>2. CASE Fetched(t)
  <2>1. UNCHANGED <<messages, turn, cut>> /\ Active(t)
    BY <1>2 DEF Fetched, Active
  <2>2. CASE UNCHANGED <<bridge, deaf>> /\ llm' = [llm EXCEPT ![t] = "stream"]
    BY <1>1, <2>1, <2>2
  <2>3. CASE UNCHANGED <<bridge, deaf>> /\ llm' = [llm EXCEPT ![t] = "backoff"]
    BY <1>1, <2>1, <2>3
  <2>4. CASE Close([llm EXCEPT ![t] = "over"], tts, over) /\ bridge' = "finalized"
    <3>1. /\ [llm EXCEPT ![t] = "over"] \in [Turns -> Runs] /\ tts \in [Turns -> Sockets]
          /\ \A u \in Turns : \/ [llm EXCEPT ![t] = "over"][u] = llm[u]
                              \/ ([llm EXCEPT ![t] = "over"][u] = "over" /\ llm[u] # "none")
      BY <1>2 DEF Types, TurnMaps, Runs, Fetched
    <3>2. \A u \in Turns : tts[u] = "none" <=> tts[u] = "none"
      OBVIOUS
    <3> QED
      BY <2>1, <2>4, <3>1, <3>2, ClosingMild
  <2> QED
    BY <1>2, <2>2, <2>3, <2>4 DEF Fetched
<1>3. CASE StreamFails(t)
  <2>1. /\ [llm EXCEPT ![t] = "over"] \in [Turns -> Runs] /\ tts \in [Turns -> Sockets]
        /\ \A u \in Turns : \/ [llm EXCEPT ![t] = "over"][u] = llm[u]
                            \/ ([llm EXCEPT ![t] = "over"][u] = "over" /\ llm[u] # "none")
    BY <1>3 DEF Types, TurnMaps, Runs, StreamFails
  <2>2. \A u \in Turns : tts[u] = "none" <=> tts[u] = "none"
    OBVIOUS
  <2>3. /\ Close([llm EXCEPT ![t] = "over"], tts, over) /\ bridge' = "finalized"
        /\ UNCHANGED <<messages, turn, cut>>
    BY <1>3 DEF StreamFails
  <2> QED
    BY <2>1, <2>2, <2>3, ClosingMild
<1>4. CASE BackoffEnds(t)
  BY <1>1, <1>4 DEF BackoffEnds, Active
<1>5. CASE \E e \in BOOLEAN : AsksTool(t, e)
  BY <1>1, <1>5 DEF AsksTool, Active
<1>6. CASE ToolReturns(t)
  BY <1>1, <1>6 DEF ToolReturns, Active
<1>7. CASE Sentence(t) \/ TtsOpens(t) \/ TtsRetries(t) \/ TtsForgotten(t) \/ TtsDone(t)
  BY <1>7 DEF Sentence, TtsOpens, TtsRetries, TtsForgotten, TtsDone, Mild, Active
<1>8. CASE TtsSilent(t)
  BY <1>8, PlainClosingMild DEF TtsSilent
<1>9. CASE TtsDialFails(t)
  <2>1. UNCHANGED <<messages, turn, cut>>
    BY <1>9 DEF TtsDialFails
  <2>2. CASE UNCHANGED callSame
    BY <2>1, <2>2 DEF Mild, Active
  <2>3. CASE /\ tts[t] = "redial" /\ bridge' = "finalized"
             /\ Close(llm, [tts EXCEPT ![t] = "gone"], over)
    <3>1. /\ llm \in [Turns -> Runs] /\ [tts EXCEPT ![t] = "gone"] \in [Turns -> Sockets]
          /\ \A u \in Turns : [tts EXCEPT ![t] = "gone"][u] = "none" <=> tts[u] = "none"
      BY <2>3 DEF Types, TurnMaps, Sockets
    <3>2. \A u \in Turns : llm[u] = llm[u] \/ (llm[u] = "over" /\ llm[u] # "none")
      OBVIOUS
    <3> QED
      BY <2>1, <2>3, <3>1, <3>2, ClosingMild
  <2> QED
    BY <1>9, <2>2, <2>3 DEF TtsDialFails
<1> QED
  BY <1>2, <1>3, <1>4, <1>5, <1>6, <1>7, <1>8, <1>9

(* The greeting is the only entry, and no run is there.                     *)
LEMMA GreetMessages ==
  ASSUME Types, Safe, turn = 0, Greet
  PROVE  MessageInv'
<1>1. 1 \in Turns /\ \A t \in Turns : ~Active(t)'
  BY NoTurn, Numbers DEF Safe, Greet, Active, Turns
<1>2. messages' = <<<<"agent", 1>>>> /\ turn' = 1
  BY DEF Greet
<1>3. messages' \in Seq(Words) /\ Len(messages') = 1 /\ DOMAIN messages' = {1}
  BY <1>1, <1>2 DEF Words
<1>4. Running' = {}
  BY <1>1 DEF Running
<1>5. Cardinality(Running') = 0
  BY <1>4, FS_EmptySet
<1>6. HistoryInOrder'
  BY <1>3 DEF HistoryInOrder
<1>7. \A i \in DOMAIN messages' : messages'[i][2] <= turn'
  BY <1>2, <1>3
<1> QED
  BY <1>3, <1>5, <1>6, <1>7, Numbers DEF MessageInv, Words, Running

(* The words of the caller come last, and the window bounds the rest.       *)
LEMMA CommitMessages ==
  ASSUME Types, Safe, MessageInv, Safe', NEW t \in Turns, CommitUserTurn(t)
  PROVE  MessageInv'
<1> DEFINE m == Append(messages, <<"user", t>>)
<1>1. /\ bridge = "live" /\ t = turn + 1 /\ messages' = Windowed(m) /\ cut' = cut
      /\ turn' = t \/ bridge' = "finalized"
  BY DEF CommitUserTurn, EndCall
<1>2. deaf \subseteq deaf'
  <2>1. CASE Close(llm, tts, over)
    <3>1. /\ llm \in [Turns -> Runs] /\ tts \in [Turns -> Sockets]
      BY DEF Types, TurnMaps
    <3>2. \A u \in Turns : llm[u] = llm[u] \/ (llm[u] = "over" /\ llm[u] # "none")
      OBVIOUS
    <3>3. \A u \in Turns : tts[u] = "none" <=> tts[u] = "none"
      OBVIOUS
    <3> QED
      BY <2>1, <3>1, <3>2, <3>3, CloseStops DEF Stops
  <2> QED
    BY <2>1 DEF CommitUserTurn, EndCall
<1>3. Stray \subseteq Stray'
  <2>1. \A u \in Turns : Disordered(u) => Disordered(u)'
    BY <1>1, <1>2, SlippedGrows
  <2> QED
    BY <2>1 DEF Stray
<1>4. turn \in Nat /\ t \in Nat /\ t > turn
  BY <1>1, Numbers DEF Types, Counts
<1>5. messages \in Seq(Words) /\ <<"user", t>> \in Words /\ Len(messages) \in Nat
  BY DEF MessageInv, Words
<1>6. \A i \in 1 .. Len(messages) : messages[i][2] \in Nat /\ messages[i][2] <= t
  <2> SUFFICES ASSUME NEW i \in 1 .. Len(messages)
               PROVE  messages[i][2] \in Nat /\ messages[i][2] <= t
    OBVIOUS
  <2>1. messages[i] \in Words /\ messages[i][2] <= turn
    BY <1>1, <1>5 DEF MessageInv
  <2>2. messages[i][2] \in Nat
    BY <2>1, Numbers DEF Words
  <2> QED
    BY <1>4, <2>1, <2>2
<1>7. m \in Seq(Words) /\ InOrder(m, Stray')
  <2>1. InOrder(messages, Stray)
    BY <1>5, HistoryIs DEF MessageInv
  <2> QED
    BY <1>3, <1>5, <1>6, <2>1, Appended
<1>8. \A i \in 1 .. Len(m) : m[i][2] <= t
  <2>1. /\ Len(m) = Len(messages) + 1 /\ m[Len(messages) + 1] = <<"user", t>>
        /\ \A i \in 1 .. Len(messages) : m[i] = messages[i]
    BY <1>5
  <2> SUFFICES ASSUME NEW i \in 1 .. Len(m) PROVE m[i][2] <= t
    OBVIOUS
  <2>2. i = Len(messages) + 1 \/ i \in 1 .. Len(messages)
    BY <1>5, <2>1
  <2> QED
    BY <1>4, <1>6, <2>1, <2>2
<1> HIDE DEF m
<1>9. messages' \in Seq(Words) /\ Len(messages') <= 2 * Window /\ InOrder(messages', Stray')
  BY <1>1, <1>7, WindowedIs, WindowedInOrder
<1>10. HistoryInOrder'
  <2>1. (messages \in Seq(Words) => (HistoryInOrder <=> InOrder(messages, Stray)))'
    BY HistoryIs, PTL
  <2> QED
    BY <1>9, <2>1
<1>11. \A i \in DOMAIN messages' : messages'[i][2] <= turn' \/ bridge' \in {"finalized", "died"}
  <2>1. PICK d \in Nat : /\ d + Len(messages') = Len(m)
                         /\ \A i \in 1 .. Len(messages') : messages'[i] = m[i + d]
    BY <1>1, <1>7, WindowedIs
  <2>2. Len(messages') \in Nat /\ Len(m) \in Nat /\ DOMAIN messages' = 1 .. Len(messages')
    BY <1>7, <1>9
  <2>3. \A i \in 1 .. Len(messages') : i + d \in 1 .. Len(m)
    BY <2>1, <2>2
  <2> QED
    BY <1>1, <1>8, <2>1, <2>2, <2>3
<1>12. Len(messages') + Cardinality(Running') <= 2 * Window + MaxTurns - 1
  <2>1. \A u \in Turns : u = 1 => llm'[u] = "none"
    BY DEF Safe, BeginInv
  <2>2. Running' \subseteq 2 .. MaxTurns
    BY <2>1, Numbers DEF Running, Active, Turns
  <2>3. Cardinality(Running') <= MaxTurns - 1 /\ Cardinality(Running') \in Nat
    BY <2>2, FewTurns
  <2>4. Len(messages') \in Nat
    BY <1>9
  <2> QED
    BY <1>9, <2>3, <2>4, Numbers
<1> QED
  BY <1>9, <1>10, <1>11, <1>12 DEF MessageInv, Words, Running

(* An answer comes last too, and its run leaves room for it.                *)
LEMMA AnswerMessages ==
  ASSUME Types, Safe, MessageInv, NEW t \in Turns, RunEnds(t)
  PROVE  MessageInv'
<1>1. /\ Live /\ llm[t] = "stream" /\ llm' = [llm EXCEPT ![t] = "over"] /\ messages' = Answered(t)
      /\ UNCHANGED <<deaf, cut, turn, bridge>>
  BY DEF RunEnds, llmRest, quiet
<1>2. Stray' = Stray
  BY <1>1 DEF Stray, Disordered, Slipped
<1>3. t <= turn /\ turn \in Nat /\ t \in Nat /\ Active(t)
  BY <1>1, Begun DEF Active
<1>4. messages \in Seq(Words) /\ <<"agent", t>> \in Words /\ Len(messages) \in Nat
  BY DEF MessageInv, Words
<1>5. /\ IsFiniteSet(Running) /\ t \in Running /\ Running' = Running \ {t}
      /\ Cardinality(Running) \in Nat
  <2>1. Running' = Running \ {t}
    BY <1>1 DEF Running, Active, Types, TurnMaps
  <2> QED
    BY <1>3, <2>1, FewRun DEF Running
<1>6. Cardinality(Running') = Cardinality(Running) - 1
  BY <1>5, FS_RemoveElement
<1>7. Len(messages) + Cardinality(Running) <= 2 * Window + MaxTurns - 1
  BY DEF MessageInv, Running
<1>8. InOrder(messages, Stray)
  BY <1>4, HistoryIs DEF MessageInv
<1>9. (messages \in Seq(Words) => (HistoryInOrder <=> InOrder(messages, Stray)))'
  BY HistoryIs, PTL
<1>10. CASE messages' = messages
  <2>1. HistoryInOrder'
    BY <1>2, <1>4, <1>8, <1>9, <1>10
  <2>2. Len(messages') + Cardinality(Running') <= 2 * Window + MaxTurns - 1
    BY <1>4, <1>5, <1>6, <1>7, <1>10, Numbers
  <2> QED
    BY <1>1, <1>10, <2>1, <2>2 DEF MessageInv, Running
<1>11. CASE messages' = Append(messages, <<"agent", t>>)
  <2>1. /\ messages' \in Seq(Words) /\ Len(messages') = Len(messages) + 1
        /\ messages'[Len(messages) + 1] = <<"agent", t>>
        /\ \A i \in 1 .. Len(messages) : messages'[i] = messages[i]
    BY <1>4, <1>11
  <2>2. \A i \in 1 .. Len(messages) : messages[i][2] <= turn \/ bridge \in {"finalized", "died"}
    BY <1>4 DEF MessageInv
  <2>3. \A i \in DOMAIN messages' : messages'[i][2] <= turn' \/ bridge' \in {"finalized", "died"}
    <3> SUFFICES ASSUME NEW i \in 1 .. Len(messages')
                 PROVE  messages'[i][2] <= turn' \/ bridge' \in {"finalized", "died"}
      BY <2>1
    <3>1. i = Len(messages) + 1 \/ i \in 1 .. Len(messages)
      BY <1>4, <2>1
    <3> QED
      BY <1>1, <1>3, <2>1, <2>2, <3>1
  <2>4. t \in Stray \/ \A i \in 1 .. Len(messages) : messages[i][2] <= t
    <3>1. CASE ~Disordered(t)
      <4>1. t = turn /\ ~closed
        BY <1>3, <3>1 DEF Safe, DisorderInv
      <4>2. bridge \notin {"finalized", "died"}
        BY <1>1, <4>1 DEF Safe, BeginInv, Live
      <4> QED
        BY <2>2, <4>1, <4>2
    <3> QED
      BY <3>1 DEF Stray
  <2>5. InOrder(messages', Stray')
    BY <1>2, <1>4, <1>8, <1>11, <2>4, Appended
  <2>6. HistoryInOrder'
    BY <1>9, <2>1, <2>5
  <2>7. Len(messages') + Cardinality(Running') <= 2 * Window + MaxTurns - 1
    BY <1>4, <1>5, <1>6, <1>7, <2>1, Numbers
  <2> QED
    BY <2>1, <2>3, <2>6, <2>7 DEF MessageInv, Words, Running
<1> QED
  BY <1>1, <1>10, <1>11 DEF Answered

(* Every step keeps the part about the history.                            *)
LEMMA MessageStep ==
  ASSUME Types, Safe, MessageInv, Safe', [Next]_vars
  PROVE  MessageInv'
<1> USE DEF closingVars, bridgeVars, timerVars, dgVars, llmVars, ttsVars, curVars, dialogVars
<1>1. CASE UNCHANGED vars
  <2>1. Mild
    BY <1>1 DEF vars, Mild, Active
  <2> QED
    BY <2>1, MildKeeps
<1>2. CASE DialOpens
  <2>1. turn = 0
    BY <1>2 DEF DialOpens, Safe, BeginInv
  <2>2. CASE Greet
    BY <2>1, <2>2, GreetMessages
  <2>3. CASE UNCHANGED <<llm, deaf, messages, turn>> /\ cut' = cut
             /\ (bridge \in {"finalized", "died"} => bridge' \in {"finalized", "died"})
    <3>1. Mild
      BY <2>3 DEF Mild, Active
    <3> QED
      BY <3>1, MildKeeps
  <2> QED
    BY <1>2, <2>2, <2>3 DEF DialOpens
<1>3. CASE CustomerAnswers
  <2>1. CASE Greet /\ bridge = "pre_warmed"
    <3>1. turn = 0
      BY <2>1 DEF Safe, BeginInv
    <3> QED
      BY <2>1, <3>1, GreetMessages
  <2>2. CASE UNCHANGED <<bridge, llm, deaf, messages, turn, cut>>
    <3>1. Mild
      BY <2>2 DEF Mild, Active
    <3> QED
      BY <3>1, MildKeeps
  <2>3. CASE Fail("prompt", llm, tts, over) /\ UNCHANGED <<turn, messages, cut>>
    <3>1. Close(llm, tts, over) /\ bridge' = "finalized"
      BY <2>3 DEF Fail, EndCall
    <3>2. Mild
      BY <2>3, <3>1, PlainClosingMild
    <3> QED
      BY <3>2, MildKeeps
  <2> QED
    BY <1>3, <2>1, <2>2, <2>3 DEF CustomerAnswers
<1>4. ASSUME NEW t \in Turns, TurnStep(t) PROVE MessageInv'
  BY <1>4, CommitMessages, AnswerMessages, TurnMild, MildKeeps DEF TurnStep
<1> QED
  BY <1>1, <1>2, <1>3, <1>4, CallMild, MildKeeps DEF Next

-----------------------------------------------------------------------------
(* The theorems                                                            *)

(* The invariant holds initially,                                          *)
LEMMA Start ==
  ASSUME Init
  PROVE  IInv
<1> USE DEF Init
<1>1. Flags /\ TurnSets
  BY DEF Flags, TurnSets
<1>2. Places
  BY DEF Places, Bridges, States, Conns, Dgs
<1>3. Counts
  BY Numbers DEF Counts
<1>4. TurnMaps
  BY DEF TurnMaps, Runs, Sockets, States
<1>5. TurnFlags
  BY DEF TurnFlags
<1>6. PlacesOK /\ TurnsOK
  BY <1>1, <1>2, <1>3, <1>4, <1>5, TypesUnfold DEF Types
<1>7. Slipped = {} /\ \A t \in Turns : ~Active(t) /\ ~Voice(t)
  BY DEF Slipped, Active, Voice
<1>8. BeginInv
  BY <1>7, Numbers DEF BeginInv
<1>9. VoiceInv /\ DisorderInv /\ ModeInv /\ ReleaseInv
  BY <1>7 DEF VoiceInv, DisorderInv, ModeInv, ReleaseInv, InTool
<1>10. MessageInv
  <2>1. Running = {}
    BY <1>7 DEF Running
  <2>2. Cardinality(Running) = 0
    BY <2>1, FS_EmptySet
  <2>3. HistoryInOrder
    BY DEF HistoryInOrder
  <2>4. messages \in Seq({"user", "agent"} \X Turns) /\ Len(messages) = 0 /\ DOMAIN messages = {}
    OBVIOUS
  <2> QED
    BY <2>2, <2>3, <2>4, Numbers DEF MessageInv, Running
<1> QED
  BY <1>6, <1>8, <1>9, <1>10 DEF IInv

(* every step preserves it,                                                *)
LEMMA Preserved ==
  ASSUME IInv, [Next]_vars
  PROVE  IInv'
<1>1. Types /\ Safe /\ MessageInv
  BY TypesUnfold DEF IInv, Safe
<1>2. Types'
  BY <1>1, TypesStep
<1>3. Safe'
  BY <1>1, SafeStep
<1>4. MessageInv'
  BY <1>1, <1>3, MessageStep
<1>5. (PlacesOK /\ TurnsOK <=> Types)'
  BY TypesUnfold, PTL
<1> QED
  BY <1>2, <1>3, <1>4, <1>5 DEF IInv, Safe

(* and so it always holds.                                                 *)
LEMMA Always == Spec => []IInv
<1>1. IInv /\ [Next]_vars => IInv'
  BY Preserved
<1> QED
  BY <1>1, Start, PTL DEF Spec

(* At most one TTS session of a call speaks or may come to speak: the      *)
(* "done" of any session changes the state of the machine, whichever turn  *)
(* it belongs to (unbundled-pipeline.js).                                  *)
THEOREM PipelineOneVoice == Spec => []OneVoice
<1>1. IInv => OneVoice
  <2> SUFFICES ASSUME IInv PROVE Cardinality({t \in Turns : Voice(t)}) <= 1
    BY DEF OneVoice, Voice
  <2>1. {t \in Turns : Voice(t)} \subseteq {curTts}
    BY DEF IInv, VoiceInv
  <2>2. IsFiniteSet({curTts}) /\ Cardinality({curTts}) = 1
    BY FS_Singleton
  <2>3. Cardinality({t \in Turns : Voice(t)}) <= Cardinality({curTts})
    BY <2>1, <2>2, FS_Subset
  <2> QED
    BY <2>2, <2>3
<1> QED
  BY <1>1, Always, PTL

(* Text out of order, or handed to the bridge after its end, comes from    *)
(* the greeting or from a turn at or behind one that slipped past its      *)
(* abort or was cut short.                                                 *)
THEOREM PipelineTextInOrder == Spec => []TextInOrder
<1>1. IInv => TextInOrder
  BY DEF IInv, MessageInv, DisorderInv, TextInOrder, LateTextExplained
<1> QED
  BY <1>1, Always, PTL

(* Types; the history stays within its window and the runs under way; and  *)
(* unless a turn slipped, "speaking" has a voice and the tool modes have a *)
(* tool or the timer of end_call.                                          *)
THEOREM PipelineModesSafe == Spec => []ModesSafe
<1>1. IInv => ModesSafe
  <2> SUFFICES ASSUME IInv PROVE ModesSafe
    OBVIOUS
  <2>1. SpeakingHasVoice /\ ToolModeEnds
    BY DEF IInv, ModeInv, SpeakingHasVoice, ToolModeEnds
  <2>2. \A i \in DOMAIN messages : messages[i] \in {"user", "agent"} \X Turns
    BY DEF IInv, MessageInv
  <2>3. Len(messages) <= 2 * Window + MaxTurns - 1
    <3>1. Len(messages) \in Nat /\ Cardinality(Running) \in Nat
      BY FewRun DEF IInv, MessageInv
    <3>2. Len(messages) + Cardinality(Running) <= 2 * Window + MaxTurns - 1
      BY DEF IInv, MessageInv, Running
    <3> QED
      BY <3>1, <3>2, Numbers
  <2> QED
    BY <2>1, <2>2, <2>3 DEF IInv, ModesSafe, TypeOK
<1> QED
  BY <1>1, Always, PTL

(* A closed pipeline keeps no Deepgram session, kill switch or voice but   *)
(* one opened behind the close, and a turn opens one there only behind a   *)
(* turn that slipped.                                                      *)
THEOREM PipelineClosedIsReleased == Spec => []ClosedIsReleased
<1>1. IInv => ClosedIsReleased
  BY DEF IInv, ReleaseInv, VoiceInv, BeginInv, Voice, ClosedIsReleased
<1> QED
  BY <1>1, Always, PTL
=============================================================================
