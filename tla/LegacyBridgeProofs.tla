------------------------ MODULE LegacyBridgeProofs ------------------------
(***************************************************************************)
(* The four promises of the legacy bridge, for any number of reconnects,   *)
(* tool calls and messages under way.  The inductive invariant adds to the *)
(* types which sessions are alive (SessionInv), which session the tool     *)
(* under way came from (ToolInv) and in what state of the gate each chunk  *)
(* of audio will find the gateway (LineInv).                               *)
(***************************************************************************)
EXTENDS LegacyBridge, SequenceTheorems, TLAPS

SessionInv ==
    /\ NoStraySession
    /\ bridge.ended <=> ws = 0
    /\ ~bridge.ended => hist.orphan = 0 /\ ws = bridge.reconnects + 1
    /\ ~bridge.ended => \A s \in Sessions : s # ws => session[s].st \in {"none", "closed"}

ToolInv ==
    /\ ToolAnswerHome
    /\ ~hist.overlap =>
         /\ \A t, u \in tools : t = u
         /\ ~bridge.ended => \A t \in tools : t.from = ws /\ bridge.active

(* A chunk of audio finds the gateway's gate shut.                         *)
AudioInTurn == \A i \in 1..Len(queue) :
    queue[i] = "audio" => Shut(gate.prot, queue, i - 1)

LineInv ==
    /\ gate.sock = "none" =>
         queue = <<>> /\ ~gate.prot /\ ~gate.partial /\ hist.late = "no"
    /\ GatesAgree
    /\ hist.late = "no" => AudioInTurn
    /\ TailFlushed

IInv == TypeOK /\ SessionInv /\ ToolInv /\ LineInv

-----------------------------------------------------------------------------
(* WHAT A MESSAGE DOES TO THE GATE                                         *)

(* r is q with m at its end, and m decides, unless it is audio.            *)
Appended(p, q, m, r) ==
    /\ r \in Seq(Messages) /\ Len(r) = Len(q) + 1
    /\ r[Len(r)] = m /\ \A i \in 1..Len(q) : r[i] = q[i]
    /\ \A n \in 0..Len(q) : Shut(p, r, n) <=> Shut(p, q, n)
    /\ Shut(p, r, Len(r)) <=> m = "on" \/ (m = "audio" /\ Shut(p, q, Len(q)))

(* A message at the end of the queue decides, unless it is audio.          *)
LEMMA ShutAppend ==
  ASSUME NEW q \in Seq(Messages), NEW m \in Messages, NEW p \in BOOLEAN
  PROVE  Appended(p, q, m, Append(q, m))
<1> DEFINE r == Append(q, m)
<1>1. /\ r \in Seq(Messages) /\ Len(r) = Len(q) + 1 /\ Len(q) \in Nat
      /\ r[Len(r)] = m /\ \A i \in 1..Len(q) : r[i] = q[i]
  OBVIOUS
<1>2. ASSUME NEW n \in 0..Len(q) PROVE Shut(p, r, n) <=> Shut(p, q, n)
  BY <1>1 DEF Shut
<1>3. Shut(p, r, Len(r)) <=> m = "on" \/ (m = "audio" /\ Shut(p, q, Len(q)))
  <2>1. CASE m = "on"
    BY <1>1, <2>1 DEF Shut
  <2>2. CASE m = "audio"
    <3>1. Shut(p, r, Len(r)) <=> Shut(p, r, Len(q))
      BY <1>1, <2>2 DEF Shut
    <3> QED
      BY <1>1, <1>2, <2>2, <3>1
  <2>3. CASE m \in {"off", "gone"}
    BY <1>1, <2>3 DEF Shut
  <2> QED
    BY <2>1, <2>2, <2>3 DEF Messages
<1> QED
  BY <1>1, <1>2, <1>3 DEF Appended

(* Reading the first message moves the gate to what it says.               *)
LEMMA ShutTail ==
  ASSUME NEW q \in Seq(Messages), q # <<>>, NEW p \in BOOLEAN, NEW p2 \in BOOLEAN,
         p2 <=> Head(q) = "on" \/ (Head(q) = "audio" /\ p)
  PROVE  /\ Tail(q) \in Seq(Messages) /\ Len(Tail(q)) = Len(q) - 1
         /\ \A i \in 1..Len(Tail(q)) : Tail(q)[i] = q[i + 1]
         /\ \A n \in 0..Len(Tail(q)) : Shut(p2, Tail(q), n) <=> Shut(p, q, n + 1)
<1>1. /\ Tail(q) \in Seq(Messages) /\ Len(Tail(q)) = Len(q) - 1 /\ Len(q) \in Nat \ {0}
      /\ \A i \in 1..Len(Tail(q)) : Tail(q)[i] = q[i + 1]
      /\ Head(q) = q[1]
  OBVIOUS
<1>2. ASSUME NEW n \in 0..Len(Tail(q)) PROVE Shut(p2, Tail(q), n) <=> Shut(p, q, n + 1)
  <2>1. ASSUME Shut(p2, Tail(q), n) PROVE Shut(p, q, n + 1)
    <3>1. CASE p2 /\ \A i \in 1..n : Tail(q)[i] = "audio"
      <4>1. \A i \in 2..(n + 1) : q[i] = "audio"
        <5> TAKE i \in 2..(n + 1)
        <5>1. i - 1 \in 1..n
          OBVIOUS
        <5> QED
          BY <1>1, <3>1, <5>1
      <4> QED
        BY <1>1, <3>1, <4>1 DEF Shut
    <3>2. CASE \E i \in 1..n : /\ Tail(q)[i] = "on"
                               /\ \A j \in (i + 1)..n : Tail(q)[j] = "audio"
      <4>1. PICK i \in 1..n : /\ Tail(q)[i] = "on"
                              /\ \A j \in (i + 1)..n : Tail(q)[j] = "audio"
        BY <3>2
      <4>2. q[i + 1] = "on" /\ i + 1 \in 1..(n + 1)
        BY <1>1, <4>1
      <4>3. \A j \in (i + 2)..(n + 1) : q[j] = "audio"
        <5> TAKE j \in (i + 2)..(n + 1)
        <5>1. j - 1 \in (i + 1)..n /\ j - 1 \in 1..Len(Tail(q))
          BY <1>1
        <5> QED
          BY <1>1, <4>1, <5>1
      <4> QED
        BY <4>2, <4>3 DEF Shut
    <3> QED
      BY <2>1, <3>1, <3>2 DEF Shut
  <2>2. ASSUME Shut(p, q, n + 1) PROVE Shut(p2, Tail(q), n)
    <3>1. CASE p /\ \A i \in 1..(n + 1) : q[i] = "audio"
      BY <1>1, <3>1 DEF Shut
    <3>2. CASE \E i \in 1..(n + 1) : /\ q[i] = "on"
                                     /\ \A j \in (i + 1)..(n + 1) : q[j] = "audio"
      <4>1. PICK i \in 1..(n + 1) : /\ q[i] = "on"
                                    /\ \A j \in (i + 1)..(n + 1) : q[j] = "audio"
        BY <3>2
      <4>2. CASE i = 1
        BY <1>1, <4>1, <4>2 DEF Shut
      <4>3. CASE i # 1
        <5>1. i - 1 \in 1..n /\ Tail(q)[i - 1] = "on"
          BY <1>1, <4>1, <4>3
        <5>2. \A j \in i..n : Tail(q)[j] = "audio"
          BY <1>1, <4>1, <4>3
        <5> QED
          BY <5>1, <5>2 DEF Shut
      <4> QED
        BY <4>2, <4>3
    <3> QED
      BY <2>2, <3>1, <3>2 DEF Shut
  <2> QED
    BY <2>1, <2>2
<1> QED
  BY <1>1, <1>2

(* One message sent: what the gate comes to, and that audio sent to a shut *)
(* gate is audio in a turn.                                                *)
LEMMA SendOne ==
  ASSUME LineOK, NEW m \in Messages, SendToGateway(<<m>>), gate' = gate
  PROVE  /\ queue' \in Seq(Messages) /\ Len(queue') <= Len(queue) + 1
         /\ gate.sock = "open" =>
              (GateToBe' <=> m = "on" \/ (m = "audio" /\ GateToBe))
         /\ gate.sock # "open" => queue' = queue
         /\ AudioInTurn /\ (gate.sock = "open" /\ m = "audio" => GateToBe) => AudioInTurn'
<1>1. CASE gate.sock # "open"
  BY <1>1 DEF SendToGateway, LineOK, AudioInTurn
<1>2. CASE gate.sock = "open"
  <2>1. queue \in Seq(Messages) /\ queue' = Append(queue, m) /\ gate.prot \in BOOLEAN
    BY <1>2 DEF SendToGateway, LineOK, Gates
  <2>2. Appended(gate.prot, queue, m, queue')
    BY <2>1, ShutAppend
  <2>3. GateToBe' <=> m = "on" \/ (m = "audio" /\ GateToBe)
    BY <2>2 DEF Appended, GateToBe
  <2>4. ASSUME AudioInTurn, m = "audio" => GateToBe PROVE AudioInTurn'
    <3> SUFFICES ASSUME NEW i \in 1..Len(queue'), queue'[i] = "audio"
                 PROVE  Shut(gate.prot, queue', i - 1)
      BY DEF AudioInTurn
    <3>1. CASE i \in 1..Len(queue)
      BY <2>1, <2>2, <2>4, <3>1 DEF Appended, AudioInTurn
    <3>2. CASE i = Len(queue')
      BY <2>1, <2>2, <2>4, <3>2 DEF Appended, GateToBe
    <3> QED
      BY <2>1, <2>2, <3>1, <3>2 DEF Appended
  <2> QED
    BY <1>2, <2>1, <2>2, <2>3, <2>4 DEF Appended
<1> QED
  BY <1>1, <1>2

(* Nothing sent.                                                           *)
LEMMA SendNone ==
  ASSUME LineOK, SendToGateway(<<>>), gate' = gate
  PROVE  /\ queue' = queue
         /\ GateToBe' <=> GateToBe
         /\ AudioInTurn' <=> AudioInTurn
<1>1. queue' = queue
  BY DEF SendToGateway, LineOK
<1> QED
  BY <1>1 DEF GateToBe, AudioInTurn

(* One message and another are two.                                       *)
LEMMA Pair ==
  ASSUME NEW a \in Messages, NEW b \in Messages
  PROVE  <<a>> \o <<b>> = <<a, b>>
<1> DEFINE s == <<a>> \o <<b>>
           t == <<a, b>>
<1>1. <<a>> \in Seq(Messages) /\ <<b>> \in Seq(Messages) /\ t \in Seq(Messages)
  OBVIOUS
<1>2. Len(s) = 2 /\ s \in Seq(Messages) /\ Len(t) = 2
  BY <1>1
<1>3. s[1] = a /\ s[2] = b /\ t[1] = a /\ t[2] = b
  BY <1>1
<1> HIDE DEF s, t
<1>4. \A i \in 1..Len(s) : s[i] = t[i]
  BY <1>2, <1>3
<1>5. s = t
  BY <1>1, <1>2, <1>4, SeqEqual
<1> QED
  BY <1>5 DEF s, t

(* Two messages sent, the first of which is not audio.                     *)
LEMMA SendTwo ==
  ASSUME LineOK, NEW a \in Messages \ {"audio"}, NEW b \in Messages,
         SendToGateway(<<a, b>>), gate' = gate
  PROVE  /\ queue' \in Seq(Messages) /\ Len(queue') <= Len(queue) + 2
         /\ gate.sock = "open" =>
              (GateToBe' <=> b = "on" \/ (b = "audio" /\ a = "on"))
         /\ gate.sock # "open" => queue' = queue
         /\ AudioInTurn /\ (b = "audio" => a = "on") => AudioInTurn'
<1>1. CASE gate.sock # "open"
  BY <1>1 DEF SendToGateway, LineOK, AudioInTurn
<1>2. CASE gate.sock = "open"
  <2> DEFINE q == Append(queue, a)
  <2>1. queue \in Seq(Messages) /\ gate.prot \in BOOLEAN
    BY <1>2 DEF LineOK, Gates
  <2>2. Appended(gate.prot, queue, a, q)
    BY <2>1, ShutAppend
  <2>3. queue' = Append(q, b)
    BY <1>2, <2>1 DEF SendToGateway
  <2> HIDE DEF q
  <2>4. Appended(gate.prot, q, b, queue')
    <3>1. q \in Seq(Messages)
      BY <2>2 DEF Appended
    <3> QED
      BY <2>1, <2>3, <3>1, ShutAppend
  <2>5. GateToBe' <=> b = "on" \/ (b = "audio" /\ a = "on")
    BY <2>2, <2>4 DEF Appended, GateToBe
  <2>6. ASSUME AudioInTurn, b = "audio" => a = "on" PROVE AudioInTurn'
    <3> SUFFICES ASSUME NEW i \in 1..Len(queue'), queue'[i] = "audio"
                 PROVE  Shut(gate.prot, queue', i - 1)
      BY DEF AudioInTurn
    <3>1. CASE i \in 1..Len(queue)
      BY <2>1, <2>2, <2>4, <2>6, <3>1 DEF Appended, AudioInTurn
    <3>2. CASE i = Len(q)
      BY <2>1, <2>2, <2>4, <3>2 DEF Appended
    <3>3. CASE i = Len(queue')
      BY <2>1, <2>2, <2>4, <2>6, <3>3 DEF Appended
    <3> QED
      BY <2>1, <2>2, <2>4, <3>1, <3>2, <3>3 DEF Appended
  <2> QED
    BY <1>2, <2>1, <2>2, <2>4, <2>5, <2>6 DEF Appended
<1> QED
  BY <1>1, <1>2

-----------------------------------------------------------------------------
(* THE INVARIANT                                                           *)

(* The bridge's fields keep their types when a turn begins or ends.        *)
LEMMA BegunOK == ASSUME NEW b \in Bridges PROVE Begun(b) \in Bridges
<1>1. CASE b.prot
  BY <1>1 DEF Begun
<1>2. CASE ~b.prot
  <2> DEFINE c == [b EXCEPT !.prot = TRUE, !.hush = @ \ {"turn"}]
  <2>1. c \in Bridges
    BY DEF Bridges
  <2> HIDE DEF c
  <2>2. [c EXCEPT !.turns = IF @ < 2 THEN @ + 1 ELSE @] \in Bridges
    BY <2>1 DEF Bridges
  <2>3. Begun(b) = [c EXCEPT !.turns = IF @ < 2 THEN @ + 1 ELSE @]
    BY <1>2 DEF Begun, c, Bridges
  <2> QED
    BY <2>2, <2>3
<1> QED
  BY <1>1, <1>2

(* The end of a turn.                                                      *)
LEMMA EndedTurnOK == ASSUME NEW b \in Bridges PROVE EndedTurn(b) \in Bridges
  BY DEF EndedTurn, Bridges

(* Every step keeps the types of the bridge's fields.                      *)
LEMMA BridgeStep == BridgeOK /\ [Next]_vars => BridgeOK'
<1> SUFFICES ASSUME BridgeOK, [Next]_vars PROVE BridgeOK'
  OBVIOUS
<1>1. ASSUME NEW s \in Sessions, SessionOpens(s) PROVE BridgeOK'
  BY <1>1 DEF SessionOpens, BridgeOK
<1>2. ASSUME NEW s \in Sessions, SetupComplete(s) PROVE BridgeOK'
  <2>1. Begun(bridge) \in Bridges
    BY BegunOK DEF BridgeOK
  <2>2. [Begun(bridge) EXCEPT !.greeted = TRUE] \in Bridges
    BY <2>1 DEF Bridges
  <2> QED
    BY <1>2, <2>2 DEF SetupComplete, BridgeOK
<1>3. ASSUME NEW s \in Sessions, AgentSpeaks(s) PROVE BridgeOK'
  <2>1. Begun(bridge) \in Bridges
    BY BegunOK DEF BridgeOK
  <2>2. [Begun(bridge) EXCEPT !.hush = @ \ {"tool"}, !.deaf = FALSE] \in Bridges
    BY <2>1 DEF Bridges
  <2> QED
    BY <1>3, <2>2 DEF AgentSpeaks, BridgeOK
<1>4. ASSUME NEW s \in Sessions, TurnComplete(s) PROVE BridgeOK'
  <2>1. EndedTurn(bridge) \in Bridges
    BY EndedTurnOK DEF BridgeOK
  <2>2. [EndedTurn(bridge) EXCEPT !.deaf = FALSE] \in Bridges
    BY <2>1 DEF Bridges
  <2> QED
    BY <1>4, <2>2 DEF TurnComplete, BridgeOK
<1>5. ASSUME NEW s \in Sessions, GenerationComplete(s) PROVE BridgeOK'
  BY <1>5, EndedTurnOK DEF GenerationComplete, BridgeOK
<1>6. ASSUME NEW s \in Sessions, Interrupted(s) PROVE BridgeOK'
  BY <1>6, EndedTurnOK DEF Interrupted, BridgeOK
<1>7. ASSUME NEW s \in Sessions, SessionErrs(s) PROVE BridgeOK'
  BY <1>7, EndedTurnOK DEF SessionErrs, BridgeOK
<1>8. ASSUME NEW s \in Sessions, SessionCloses(s) PROVE BridgeOK'
  BY <1>8, EndedTurnOK DEF SessionCloses, BridgeOK
<1>9. ASSUME NEW s \in Sessions, ToolCall(s) PROVE BridgeOK'
  BY <1>9 DEF ToolCall, BridgeOK, Bridges
<1>10. ASSUME NEW t \in tools, ToolDone(t) PROVE BridgeOK'
  BY <1>10 DEF ToolDone, BridgeOK, Bridges
<1>11. CASE HushLapses
  BY <1>11 DEF HushLapses, BridgeOK, Bridges
<1>12. CASE FarewellOver
  BY <1>12 DEF FarewellOver, EndBridge, BridgeOK, Bridges
<1>13. CASE HardTimeout
  BY <1>13 DEF HardTimeout, EndBridge, BridgeOK, Bridges
<1>14. CASE Reconnect
  <2>1. bridge \in Bridges /\ bridge.reconnects + 1 \in 0..MaxReconnects
    BY <1>14, BridgeAssumption DEF Reconnect, ReconnectsLeft, BridgeOK, Bridges
  <2>2. [bridge EXCEPT !.reconnects = @ + 1, !.prot = FALSE,
           !.hush = {"turn"}, !.active = FALSE, !.deaf = FALSE] \in Bridges
    BY <2>1 DEF Bridges
  <2> QED
    BY <1>14, <2>2 DEF Reconnect, BridgeOK
<1>15. CASE NoReconnectLeft
  BY <1>15 DEF NoReconnectLeft, EndBridge, BridgeOK, Bridges
<1>16. CASE GatewayConnects
  BY <1>16 DEF GatewayConnects, BridgeOK
<1>17. CASE Unregister
  BY <1>17 DEF Unregister, BridgeOK
<1>18. CASE GatewayLeaves
  BY <1>18 DEF GatewayLeaves, EndBridge, BridgeOK, Bridges
<1>19. CASE GatewayReceives
  BY <1>19 DEF GatewayReceives, BridgeOK
<1>20. CASE GateLapses
  BY <1>20 DEF GateLapses, BridgeOK
<1>21. CASE CallerSpeaks
  BY <1>21 DEF CallerSpeaks, BridgeOK
<1>22. CASE CallerHeard
  <2>1. \A speech \in BOOLEAN : [bridge EXCEPT !.deaf = speech] \in Bridges
    BY DEF BridgeOK, Bridges
  <2> QED
    BY <1>22, <2>1 DEF CallerHeard, BridgeOK
<1>23. CASE UNCHANGED vars
  BY <1>23 DEF vars, BridgeOK
<1> QED
  BY <1>1, <1>2, <1>3, <1>4, <1>5, <1>6, <1>7, <1>8, <1>9, <1>10, <1>11, <1>12,
     <1>13, <1>14, <1>15, <1>16, <1>17, <1>18, <1>19, <1>20, <1>21, <1>22, <1>23
  DEF Next, Session, Timers, Gateway

(* The end of the bridge keeps the types of the sessions.                  *)
LEMMA EndBridgeSessions ==
  ASSUME SessionsOK, EndBridge, UNCHANGED tools PROVE SessionsOK'
  BY DEF EndBridge, IsOpen, SessionsOK, SessionRecords

(* Every step keeps the types of the sessions.                             *)
LEMMA SessionStep == IInv /\ [Next]_vars => SessionsOK'
<1> SUFFICES ASSUME IInv, [Next]_vars PROVE SessionsOK'
  OBVIOUS
<1>0. SessionsOK
  BY DEF IInv, TypeOK
<1> USE <1>0
<1>1. ASSUME NEW s \in Sessions, SessionOpens(s) PROVE SessionsOK'
  BY <1>1 DEF SessionOpens, SessionsOK, SessionRecords
<1>2. ASSUME NEW s \in Sessions, SetupComplete(s) PROVE SessionsOK'
  BY <1>2 DEF SetupComplete, SessionsOK, SessionRecords
<1>3. ASSUME NEW s \in Sessions, AgentSpeaks(s) PROVE SessionsOK'
  BY <1>3 DEF AgentSpeaks, SessionsOK
<1>4. ASSUME NEW s \in Sessions, TurnComplete(s) PROVE SessionsOK'
  BY <1>4 DEF TurnComplete, SessionsOK
<1>5. ASSUME NEW s \in Sessions, GenerationComplete(s) PROVE SessionsOK'
  BY <1>5 DEF GenerationComplete, SessionsOK
<1>6. ASSUME NEW s \in Sessions, Interrupted(s) PROVE SessionsOK'
  BY <1>6 DEF Interrupted, SessionsOK
<1>7. ASSUME NEW s \in Sessions, SessionErrs(s) PROVE SessionsOK'
  BY <1>7 DEF SessionErrs, SessionsOK, SessionRecords
<1>8. ASSUME NEW s \in Sessions, SessionCloses(s) PROVE SessionsOK'
  BY <1>8 DEF SessionCloses, SessionsOK, SessionRecords
<1>9. ASSUME NEW s \in Sessions, ToolCall(s) PROVE SessionsOK'
  <2>1. \A k \in 1..MaxTools, ends \in BOOLEAN :
          [id |-> k, from |-> s, ends |-> ends] \in [id : 1..MaxTools, from : Sessions, ends : BOOLEAN]
    OBVIOUS
  <2>2. tools' \subseteq [id : 1..MaxTools, from : Sessions, ends : BOOLEAN]
    BY <1>9, <2>1 DEF ToolCall, SessionsOK
  <2> QED
    BY <1>9, <2>2 DEF ToolCall, SessionsOK
<1>10. ASSUME NEW t \in tools, ToolDone(t) PROVE SessionsOK'
  BY <1>10 DEF ToolDone, SessionsOK
<1>11. CASE HushLapses
  BY <1>11 DEF HushLapses, SessionsOK
<1>12. CASE FarewellOver
  BY <1>12, EndBridgeSessions DEF FarewellOver, SessionsOK
<1>13. CASE HardTimeout
  BY <1>13, EndBridgeSessions DEF HardTimeout, SessionsOK
<1>14. CASE Reconnect
  <2>1. ws \in Sessions /\ ws + 1 \in Sessions
    BY <1>14, BridgeAssumption DEF Reconnect, WatchdogLooks, IsOpen, ReconnectsLeft, IInv, TypeOK,
      BridgeOK, Bridges, SessionsOK, SessionInv, Sessions
  <2>2. OldClosed(ws) \in SessionRecords /\ [NoSession EXCEPT !.st = "connecting"] \in SessionRecords
    BY <2>1 DEF OldClosed, NoSession, SessionsOK, SessionRecords
  <2>3. session' \in [Sessions -> SessionRecords]
    BY <1>14, <2>1, <2>2 DEF Reconnect, SessionsOK
  <2> QED
    BY <1>14, <2>1, <2>3 DEF Reconnect, SessionsOK
<1>15. CASE NoReconnectLeft
  BY <1>15, EndBridgeSessions DEF NoReconnectLeft, SessionsOK
<1>16. CASE GatewayConnects
  BY <1>16 DEF GatewayConnects, SessionsOK
<1>17. CASE Unregister
  BY <1>17 DEF Unregister, SessionsOK
<1>18. CASE GatewayLeaves
  <2>1. CASE EndBridge
    BY <1>18, <2>1, EndBridgeSessions DEF GatewayLeaves
  <2>2. CASE bridge.ended /\ UNCHANGED <<bridge, ws, ready, session, hist>>
    BY <1>18, <2>2 DEF GatewayLeaves, SessionsOK
  <2> QED
    BY <1>18, <2>1, <2>2 DEF GatewayLeaves
<1>19. CASE GatewayReceives
  BY <1>19 DEF GatewayReceives, SessionsOK
<1>20. CASE GateLapses
  BY <1>20 DEF GateLapses, SessionsOK
<1>21. CASE CallerSpeaks
  BY <1>21 DEF CallerSpeaks, SessionsOK
<1>22. CASE CallerHeard
  BY <1>22 DEF CallerHeard, SessionsOK
<1>23. CASE UNCHANGED vars
  BY <1>23 DEF vars, SessionsOK
<1> QED
  BY <1>1, <1>2, <1>3, <1>4, <1>5, <1>6, <1>7, <1>8, <1>9, <1>10, <1>11, <1>12,
     <1>13, <1>14, <1>15, <1>16, <1>17, <1>18, <1>19, <1>20, <1>21, <1>22, <1>23
  DEF Next, Session, Timers, Gateway

(* Every step keeps the types of the history.                              *)
LEMMA HistStep == IInv /\ [Next]_vars => HistOK'
<1> SUFFICES ASSUME IInv, [Next]_vars PROVE HistOK'
  OBVIOUS
<1>0. HistOK /\ SessionsOK
  BY DEF IInv, TypeOK
<1> USE <1>0
<1>1. ASSUME NEW s \in Sessions, SessionOpens(s) PROVE HistOK'
  BY <1>1 DEF SessionOpens, HistOK
<1>2. ASSUME NEW s \in Sessions, SetupComplete(s) PROVE HistOK'
  BY <1>2 DEF SetupComplete, HistOK
<1>3. ASSUME NEW s \in Sessions, AgentSpeaks(s) PROVE HistOK'
  BY <1>3 DEF AgentSpeaks, HistOK
<1>4. ASSUME NEW s \in Sessions, TurnComplete(s) PROVE HistOK'
  BY <1>4 DEF TurnComplete, TurnOver, HistOK
<1>5. ASSUME NEW s \in Sessions, GenerationComplete(s) PROVE HistOK'
  BY <1>5 DEF GenerationComplete, TurnOver, HistOK
<1>6. ASSUME NEW s \in Sessions, Interrupted(s) PROVE HistOK'
  BY <1>6 DEF Interrupted, TurnOver, HistOK
<1>7. ASSUME NEW s \in Sessions, SessionErrs(s) PROVE HistOK'
  BY <1>7 DEF SessionErrs, TurnOver, HistOK
<1>8. ASSUME NEW s \in Sessions, SessionCloses(s) PROVE HistOK'
  BY <1>8 DEF SessionCloses, TurnOver, HistOK
<1>9. ASSUME NEW s \in Sessions, ToolCall(s) PROVE HistOK'
  BY <1>9 DEF ToolCall, HistOK
<1>10. ASSUME NEW t \in tools, ToolDone(t) PROVE HistOK'
  BY <1>10 DEF ToolDone, IsOpen, HistOK
<1>11. CASE HushLapses
  BY <1>11 DEF HushLapses, HistOK
<1>12. CASE FarewellOver
  BY <1>12 DEF FarewellOver, EndBridge, HistOK, SessionsOK
<1>13. CASE HardTimeout
  BY <1>13 DEF HardTimeout, EndBridge, HistOK, SessionsOK
<1>14. CASE Reconnect
  BY <1>14 DEF Reconnect, HistOK
<1>15. CASE NoReconnectLeft
  BY <1>15 DEF NoReconnectLeft, EndBridge, HistOK, SessionsOK
<1>16. CASE GatewayConnects
  BY <1>16 DEF GatewayConnects, HistOK
<1>17. CASE Unregister
  BY <1>17 DEF Unregister, HistOK
<1>18. CASE GatewayLeaves
  BY <1>18 DEF GatewayLeaves, EndBridge, HistOK, SessionsOK
<1>19. CASE GatewayReceives
  BY <1>19 DEF GatewayReceives, HistOK
<1>20. CASE GateLapses
  BY <1>20 DEF GateLapses, HistOK
<1>21. CASE CallerSpeaks
  BY <1>21 DEF CallerSpeaks, HistOK
<1>22. CASE CallerHeard
  BY <1>22 DEF CallerHeard, HistOK
<1>23. CASE UNCHANGED vars
  BY <1>23 DEF vars, HistOK
<1> QED
  BY <1>1, <1>2, <1>3, <1>4, <1>5, <1>6, <1>7, <1>8, <1>9, <1>10, <1>11, <1>12,
     <1>13, <1>14, <1>15, <1>16, <1>17, <1>18, <1>19, <1>20, <1>21, <1>22, <1>23
  DEF Next, Session, Timers, Gateway

-----------------------------------------------------------------------------
(* THE LINE TO THE GATEWAY                                                 *)

(* What the line promises survives a step that sends messages and leaves   *)
(* the gate to be what the bridge's turn is, or what both were.            *)
LEMMA LineAfterSend ==
  ASSUME LineInv, gate' = gate,
         gate.sock # "open" => queue' = queue,
         gate.sock = "open" =>
           \/ GateToBe' <=> bridge'.prot
           \/ (GateToBe' <=> GateToBe) /\ (bridge'.prot <=> bridge.prot) /\ hist'.late = hist.late,
         hist'.late = "no" <=> hist.late = "no",
         hist.late = "no" => AudioInTurn'
  PROVE  LineInv'
<1>1. gate.sock = "none" =>
        queue' = <<>> /\ ~gate'.prot /\ ~gate'.partial /\ hist'.late = "no"
  BY DEF LineInv
<1>2. GatesAgree'
  <2> SUFFICES ASSUME gate.sock = "open"
               PROVE  (GateToBe' <=> bridge'.prot) \/ (bridge'.prot /\ hist'.late = "during")
    BY DEF GatesAgree
  <2>1. CASE GateToBe' <=> bridge'.prot
    BY <2>1
  <2>2. CASE (GateToBe' <=> GateToBe) /\ (bridge'.prot <=> bridge.prot) /\ hist'.late = hist.late
    BY <2>2 DEF LineInv, GatesAgree
  <2> QED
    BY <2>1, <2>2
<1>3. TailFlushed'
  BY DEF LineInv, TailFlushed
<1> QED
  BY <1>1, <1>2, <1>3 DEF LineInv

(* The same for a step that leaves the line, the turn and the history be.  *)
LEMMA LineUntouched ==
  ASSUME LineInv, UNCHANGED <<gate, queue>>, bridge'.prot = bridge.prot,
         hist'.late = hist.late
  PROVE  LineInv'
<1>1. (GateToBe' <=> GateToBe) /\ (AudioInTurn' <=> AudioInTurn)
  BY DEF GateToBe, AudioInTurn, Shut
<1> QED
  BY <1>1 DEF LineInv, GatesAgree, TailFlushed

(* The line: its types and what it promises.                               *)
Line == LineOK /\ LineInv

(* Every step keeps the line's types and promises; Room bounds what is     *)
(* under way.                                                              *)
LEMMA LineStep == IInv /\ [Next]_vars => Line'
<1> SUFFICES ASSUME IInv, [Next]_vars PROVE Line'
  OBVIOUS
<1>0. Line /\ BridgeOK /\ HistOK
  BY DEF IInv, TypeOK, Line
<1> USE <1>0
<1>1. ASSUME NEW s \in Sessions, SessionOpens(s) PROVE Line'
  <2>1. UNCHANGED <<gate, queue>> /\ caller' \in BOOLEAN
    BY <1>1 DEF SessionOpens, Line, LineOK
  <2>2. bridge'.prot = bridge.prot /\ hist'.late = hist.late
    BY <1>1 DEF SessionOpens, BridgeOK, Bridges, HistOK
  <2> QED
    BY <2>1, <2>2, LineUntouched DEF Line, LineOK
<1>2. ASSUME NEW s \in Sessions, SetupComplete(s) PROVE Line'
  <2>1. gate' = gate /\ caller' = caller /\ Len(queue) + 2 <= MaxQueue
    BY <1>2 DEF SetupComplete, Room
  <2>2. CASE bridge.greeted
    <3>2. queue' = queue /\ (GateToBe' <=> GateToBe) /\ (AudioInTurn' <=> AudioInTurn)
      BY <1>2, <2>1, <2>2 DEF SetupComplete, GateToBe, AudioInTurn, Shut
    <3>3. (bridge'.prot <=> bridge.prot) /\ hist'.late = hist.late
      BY <1>2, <2>2 DEF SetupComplete, BridgeOK, Bridges, HistOK
    <3> QED
      BY <2>1, <3>2, <3>3, LineAfterSend DEF Line, LineInv, LineOK
  <2>3. CASE ~bridge.greeted /\ bridge.prot
    <3>1. SendToGateway(<<>>)
      BY <1>2, <2>3 DEF SetupComplete, BeginMsg
    <3>2. queue' = queue /\ (GateToBe' <=> GateToBe) /\ (AudioInTurn' <=> AudioInTurn)
      BY <2>1, <3>1, SendNone DEF Line
    <3>3. (bridge'.prot <=> bridge.prot) /\ hist'.late = hist.late
      BY <1>2, <2>3 DEF SetupComplete, Begun, BridgeOK, Bridges, HistOK
    <3> QED
      BY <2>1, <3>2, <3>3, LineAfterSend DEF Line, LineInv, LineOK
  <2>4. CASE ~bridge.greeted /\ ~bridge.prot
    <3>1. SendToGateway(<<"on">>)
      BY <1>2, <2>4 DEF SetupComplete, BeginMsg
    <3>2. /\ queue' \in Seq(Messages) /\ Len(queue') <= Len(queue) + 2
          /\ gate.sock = "open" => GateToBe'
          /\ gate.sock # "open" => queue' = queue
          /\ AudioInTurn => AudioInTurn'
      BY <2>1, <3>1, SendOne DEF Line, LineOK, Messages
    <3>3. bridge'.prot /\ hist'.late = hist.late
      BY <1>2, <2>4 DEF SetupComplete, Begun, BridgeOK, Bridges, HistOK
    <3>5. LineInv'
      BY <2>1, <3>2, <3>3, LineAfterSend DEF Line, LineInv
    <3>6. LineOK'
      BY <2>1, <3>2, BridgeAssumption DEF Line, LineOK
    <3> QED
      BY <3>5, <3>6 DEF Line
  <2> QED
    BY <2>2, <2>3, <2>4
<1>3. ASSUME NEW s \in Sessions, AgentSpeaks(s) PROVE Line'
  <2>1. gate' = gate /\ caller' = caller /\ Len(queue) + 2 <= MaxQueue
    BY <1>3 DEF AgentSpeaks, Room
  <2>2. CASE bridge.prot
    <3>1. SendToGateway(<<"audio">>)
      BY <1>3, <2>2 DEF AgentSpeaks, BeginMsg
    <3>2. /\ queue' \in Seq(Messages) /\ Len(queue') <= Len(queue) + 2
          /\ gate.sock = "open" => (GateToBe' <=> GateToBe)
          /\ gate.sock # "open" => queue' = queue
          /\ AudioInTurn /\ (gate.sock = "open" => GateToBe) => AudioInTurn'
      BY <2>1, <3>1, SendOne DEF Line, LineOK, Messages
    <3>3. (bridge'.prot <=> bridge.prot) /\ hist'.late = hist.late
      BY <1>3, <2>2 DEF AgentSpeaks, Begun, BridgeOK, Bridges, HistOK
    <3>4. gate.sock = "open" /\ hist.late = "no" => GateToBe
      BY <2>2 DEF Line, LineInv, GatesAgree
    <3>5. LineInv'
      BY <2>1, <3>2, <3>3, <3>4, LineAfterSend DEF Line, LineInv
    <3>6. LineOK'
      BY <2>1, <3>2, BridgeAssumption DEF Line, LineOK
    <3> QED
      BY <3>5, <3>6 DEF Line
  <2>3. CASE ~bridge.prot
    <3>0. <<"on">> \o <<"audio">> = <<"on", "audio">>
      BY Pair DEF Messages
    <3>1. SendToGateway(<<"on", "audio">>)
      BY <1>3, <2>3, <3>0 DEF AgentSpeaks, BeginMsg
    <3>2. /\ queue' \in Seq(Messages) /\ Len(queue') <= Len(queue) + 2
          /\ gate.sock = "open" => GateToBe'
          /\ gate.sock # "open" => queue' = queue
          /\ AudioInTurn => AudioInTurn'
      BY <2>1, <3>1, SendTwo DEF Line, LineOK, Messages
    <3>3. bridge'.prot /\ hist'.late = hist.late
      BY <1>3, <2>3 DEF AgentSpeaks, Begun, BridgeOK, Bridges, HistOK
    <3>5. LineInv'
      BY <2>1, <3>2, <3>3, LineAfterSend DEF Line, LineInv
    <3>6. LineOK'
      BY <2>1, <3>2, BridgeAssumption DEF Line, LineOK
    <3> QED
      BY <3>5, <3>6 DEF Line
  <2> QED
    BY <2>2, <2>3
<1>4. ASSUME NEW s \in Sessions, TurnComplete(s) PROVE Line'
  <2>1. gate' = gate /\ caller' = caller /\ Len(queue) + 2 <= MaxQueue
    BY <1>4 DEF TurnComplete, Room
  <2>2. CASE ~bridge.prot
    <3>1. SendToGateway(<<>>)
      BY <1>4, <2>2 DEF TurnComplete, EndMsg
    <3>2. queue' = queue /\ (GateToBe' <=> GateToBe) /\ (AudioInTurn' <=> AudioInTurn)
      BY <2>1, <3>1, SendNone DEF Line
    <3>3. (bridge'.prot <=> bridge.prot) /\ hist'.late = hist.late
      BY <1>4, <2>2 DEF TurnComplete, EndedTurn, TurnOver, BridgeOK, Bridges, HistOK
    <3> QED
      BY <2>1, <3>2, <3>3, LineAfterSend DEF Line, LineInv, LineOK
  <2>3. CASE bridge.prot
    <3>1. SendToGateway(<<"off">>)
      BY <1>4, <2>3 DEF TurnComplete, EndMsg
    <3>2. /\ queue' \in Seq(Messages) /\ Len(queue') <= Len(queue) + 2
          /\ gate.sock = "open" => ~GateToBe'
          /\ gate.sock # "open" => queue' = queue
          /\ AudioInTurn => AudioInTurn'
      BY <2>1, <3>1, SendOne DEF Line, LineOK, Messages
    <3>3. ~bridge'.prot /\ (hist'.late = "no" <=> hist.late = "no")
      BY <1>4, <2>3 DEF TurnComplete, EndedTurn, TurnOver, BridgeOK, Bridges, HistOK
    <3>5. LineInv'
      BY <2>1, <3>2, <3>3, LineAfterSend DEF Line, LineInv
    <3>6. LineOK'
      BY <2>1, <3>2, BridgeAssumption DEF Line, LineOK
    <3> QED
      BY <3>5, <3>6 DEF Line
  <2> QED
    BY <2>2, <2>3
<1>5. ASSUME NEW s \in Sessions, GenerationComplete(s) PROVE Line'
  <2>1. gate' = gate /\ caller' = caller /\ Len(queue) + 2 <= MaxQueue
    BY <1>5 DEF GenerationComplete, Room
  <2>2. CASE ~bridge.prot
    <3>1. SendToGateway(<<>>)
      BY <1>5, <2>2 DEF GenerationComplete, EndMsg
    <3>2. queue' = queue /\ (GateToBe' <=> GateToBe) /\ (AudioInTurn' <=> AudioInTurn)
      BY <2>1, <3>1, SendNone DEF Line
    <3>3. (bridge'.prot <=> bridge.prot) /\ hist'.late = hist.late
      BY <1>5, <2>2 DEF GenerationComplete, EndedTurn, TurnOver, BridgeOK, Bridges, HistOK
    <3> QED
      BY <2>1, <3>2, <3>3, LineAfterSend DEF Line, LineInv, LineOK
  <2>3. CASE bridge.prot
    <3>1. SendToGateway(<<"off">>)
      BY <1>5, <2>3 DEF GenerationComplete, EndMsg
    <3>2. /\ queue' \in Seq(Messages) /\ Len(queue') <= Len(queue) + 2
          /\ gate.sock = "open" => ~GateToBe'
          /\ gate.sock # "open" => queue' = queue
          /\ AudioInTurn => AudioInTurn'
      BY <2>1, <3>1, SendOne DEF Line, LineOK, Messages
    <3>3. ~bridge'.prot /\ (hist'.late = "no" <=> hist.late = "no")
      BY <1>5, <2>3 DEF GenerationComplete, EndedTurn, TurnOver, BridgeOK, Bridges, HistOK
    <3>5. LineInv'
      BY <2>1, <3>2, <3>3, LineAfterSend DEF Line, LineInv
    <3>6. LineOK'
      BY <2>1, <3>2, BridgeAssumption DEF Line, LineOK
    <3> QED
      BY <3>5, <3>6 DEF Line
  <2> QED
    BY <2>2, <2>3
<1>6. ASSUME NEW s \in Sessions, Interrupted(s) PROVE Line'
  <2>1. gate' = gate /\ caller' = caller /\ Len(queue) + 2 <= MaxQueue
    BY <1>6 DEF Interrupted, Room
  <2>2. CASE ~bridge.prot
    <3>1. SendToGateway(<<>>)
      BY <1>6, <2>2 DEF Interrupted, EndMsg
    <3>2. queue' = queue /\ (GateToBe' <=> GateToBe) /\ (AudioInTurn' <=> AudioInTurn)
      BY <2>1, <3>1, SendNone DEF Line
    <3>3. (bridge'.prot <=> bridge.prot) /\ hist'.late = hist.late
      BY <1>6, <2>2 DEF Interrupted, EndedTurn, TurnOver, BridgeOK, Bridges, HistOK
    <3> QED
      BY <2>1, <3>2, <3>3, LineAfterSend DEF Line, LineInv, LineOK
  <2>3. CASE bridge.prot
    <3>1. SendToGateway(<<"off">>)
      BY <1>6, <2>3 DEF Interrupted, EndMsg
    <3>2. /\ queue' \in Seq(Messages) /\ Len(queue') <= Len(queue) + 2
          /\ gate.sock = "open" => ~GateToBe'
          /\ gate.sock # "open" => queue' = queue
          /\ AudioInTurn => AudioInTurn'
      BY <2>1, <3>1, SendOne DEF Line, LineOK, Messages
    <3>3. ~bridge'.prot /\ (hist'.late = "no" <=> hist.late = "no")
      BY <1>6, <2>3 DEF Interrupted, EndedTurn, TurnOver, BridgeOK, Bridges, HistOK
    <3>5. LineInv'
      BY <2>1, <3>2, <3>3, LineAfterSend DEF Line, LineInv
    <3>6. LineOK'
      BY <2>1, <3>2, BridgeAssumption DEF Line, LineOK
    <3> QED
      BY <3>5, <3>6 DEF Line
  <2> QED
    BY <2>2, <2>3
<1>7. ASSUME NEW s \in Sessions, SessionErrs(s) PROVE Line'
  <2>1. gate' = gate /\ caller' = caller /\ Len(queue) + 2 <= MaxQueue
    BY <1>7 DEF SessionErrs, Room
  <2>2. CASE ~bridge.prot
    <3>1. SendToGateway(<<>>)
      BY <1>7, <2>2 DEF SessionErrs, EndMsg
    <3>2. queue' = queue /\ (GateToBe' <=> GateToBe) /\ (AudioInTurn' <=> AudioInTurn)
      BY <2>1, <3>1, SendNone DEF Line
    <3>3. (bridge'.prot <=> bridge.prot) /\ hist'.late = hist.late
      BY <1>7, <2>2 DEF SessionErrs, EndedTurn, TurnOver, BridgeOK, Bridges, HistOK
    <3> QED
      BY <2>1, <3>2, <3>3, LineAfterSend DEF Line, LineInv, LineOK
  <2>3. CASE bridge.prot
    <3>1. SendToGateway(<<"off">>)
      BY <1>7, <2>3 DEF SessionErrs, EndMsg
    <3>2. /\ queue' \in Seq(Messages) /\ Len(queue') <= Len(queue) + 2
          /\ gate.sock = "open" => ~GateToBe'
          /\ gate.sock # "open" => queue' = queue
          /\ AudioInTurn => AudioInTurn'
      BY <2>1, <3>1, SendOne DEF Line, LineOK, Messages
    <3>3. ~bridge'.prot /\ (hist'.late = "no" <=> hist.late = "no")
      BY <1>7, <2>3 DEF SessionErrs, EndedTurn, TurnOver, BridgeOK, Bridges, HistOK
    <3>5. LineInv'
      BY <2>1, <3>2, <3>3, LineAfterSend DEF Line, LineInv
    <3>6. LineOK'
      BY <2>1, <3>2, BridgeAssumption DEF Line, LineOK
    <3> QED
      BY <3>5, <3>6 DEF Line
  <2> QED
    BY <2>2, <2>3
<1>8. ASSUME NEW s \in Sessions, SessionCloses(s) PROVE Line'
  <2>1. gate' = gate /\ caller' = caller /\ Len(queue) + 2 <= MaxQueue
    BY <1>8 DEF SessionCloses, Room
  <2>2. CASE ~bridge.prot
    <3>1. SendToGateway(<<"gone">>)
      BY <1>8, <2>2 DEF SessionCloses, EndMsg
    <3>2. /\ queue' \in Seq(Messages) /\ Len(queue') <= Len(queue) + 2
          /\ gate.sock = "open" => ~GateToBe'
          /\ gate.sock # "open" => queue' = queue
          /\ AudioInTurn => AudioInTurn'
      BY <2>1, <3>1, SendOne DEF Line, LineOK, Messages
    <3>3. ~bridge'.prot /\ (hist'.late = "no" <=> hist.late = "no")
      BY <1>8, <2>2 DEF SessionCloses, EndedTurn, TurnOver, BridgeOK, Bridges, HistOK
    <3>5. LineInv'
      BY <2>1, <3>2, <3>3, LineAfterSend DEF Line, LineInv
    <3>6. LineOK'
      BY <2>1, <3>2, BridgeAssumption DEF Line, LineOK
    <3> QED
      BY <3>5, <3>6 DEF Line
  <2>3. CASE bridge.prot
    <3>0. <<"off">> \o <<"gone">> = <<"off", "gone">>
      BY Pair DEF Messages
    <3>1. SendToGateway(<<"off", "gone">>)
      BY <1>8, <2>3, <3>0 DEF SessionCloses, EndMsg
    <3>2. /\ queue' \in Seq(Messages) /\ Len(queue') <= Len(queue) + 2
          /\ gate.sock = "open" => ~GateToBe'
          /\ gate.sock # "open" => queue' = queue
          /\ AudioInTurn => AudioInTurn'
      BY <2>1, <3>1, SendTwo DEF Line, LineOK, Messages
    <3>3. ~bridge'.prot /\ (hist'.late = "no" <=> hist.late = "no")
      BY <1>8, <2>3 DEF SessionCloses, EndedTurn, TurnOver, BridgeOK, Bridges, HistOK
    <3>5. LineInv'
      BY <2>1, <3>2, <3>3, LineAfterSend DEF Line, LineInv
    <3>6. LineOK'
      BY <2>1, <3>2, BridgeAssumption DEF Line, LineOK
    <3> QED
      BY <3>5, <3>6 DEF Line
  <2> QED
    BY <2>2, <2>3
<1>9. ASSUME NEW s \in Sessions, ToolCall(s) PROVE Line'
  <2>1. UNCHANGED <<gate, queue>> /\ caller' \in BOOLEAN
    BY <1>9 DEF ToolCall, Line, LineOK
  <2>2. bridge'.prot = bridge.prot /\ hist'.late = hist.late
    BY <1>9 DEF ToolCall, BridgeOK, Bridges, HistOK
  <2> QED
    BY <2>1, <2>2, LineUntouched DEF Line, LineOK
<1>10. ASSUME NEW t \in tools, ToolDone(t) PROVE Line'
  <2>1. UNCHANGED <<gate, queue>> /\ caller' \in BOOLEAN
    BY <1>10 DEF ToolDone, Line, LineOK
  <2>2. bridge'.prot = bridge.prot /\ hist'.late = hist.late
    BY <1>10 DEF ToolDone, BridgeOK, Bridges, HistOK
  <2> QED
    BY <2>1, <2>2, LineUntouched DEF Line, LineOK
<1>11. CASE HushLapses
  <2>1. UNCHANGED <<gate, queue>> /\ caller' \in BOOLEAN
    BY <1>11 DEF HushLapses, Line, LineOK
  <2>2. bridge'.prot = bridge.prot /\ hist'.late = hist.late
    BY <1>11 DEF HushLapses, BridgeOK, Bridges, HistOK
  <2> QED
    BY <2>1, <2>2, LineUntouched DEF Line, LineOK
<1>12. CASE FarewellOver
  <2>1. UNCHANGED <<gate, queue>> /\ caller' \in BOOLEAN
    BY <1>12 DEF FarewellOver, EndBridge, Line, LineOK
  <2>2. bridge'.prot = bridge.prot /\ hist'.late = hist.late
    BY <1>12 DEF FarewellOver, EndBridge, BridgeOK, Bridges, HistOK
  <2> QED
    BY <2>1, <2>2, LineUntouched DEF Line, LineOK
<1>13. CASE HardTimeout
  <2>1. UNCHANGED <<gate, queue>> /\ caller' \in BOOLEAN
    BY <1>13 DEF HardTimeout, EndBridge, Line, LineOK
  <2>2. bridge'.prot = bridge.prot /\ hist'.late = hist.late
    BY <1>13 DEF HardTimeout, EndBridge, BridgeOK, Bridges, HistOK
  <2> QED
    BY <2>1, <2>2, LineUntouched DEF Line, LineOK
<1>14. CASE Reconnect
  <2>1. UNCHANGED <<gate, queue>> /\ caller' \in BOOLEAN
    BY <1>14 DEF Reconnect, WatchdogLooks, Line, LineOK
  <2>2. bridge'.prot = bridge.prot /\ hist'.late = hist.late
    BY <1>14 DEF Reconnect, WatchdogLooks, BridgeOK, Bridges, HistOK
  <2> QED
    BY <2>1, <2>2, LineUntouched DEF Line, LineOK
<1>15. CASE NoReconnectLeft
  <2>1. UNCHANGED <<gate, queue>> /\ caller' \in BOOLEAN
    BY <1>15 DEF NoReconnectLeft, EndBridge, Line, LineOK
  <2>2. bridge'.prot = bridge.prot /\ hist'.late = hist.late
    BY <1>15 DEF NoReconnectLeft, EndBridge, BridgeOK, Bridges, HistOK
  <2> QED
    BY <2>1, <2>2, LineUntouched DEF Line, LineOK
<1>16. CASE GatewayConnects
  <2>1. queue' = <<>> /\ ~gate'.prot /\ ~gate'.partial /\ gate' \in Gates /\ gate'.sock = "open"
    BY <1>16 DEF GatewayConnects, Line, LineInv, LineOK, Gates
  <2>2. Len(queue') = 0 /\ caller' \in BOOLEAN /\ queue' \in Seq(Messages)
    BY <1>16, <2>1 DEF GatewayConnects, Line, LineOK
  <2>3. ~GateToBe' /\ AudioInTurn'
    BY <2>1, <2>2 DEF GateToBe, Shut, AudioInTurn
  <2>4. bridge'.prot => hist'.late = "during"
    BY <1>16 DEF GatewayConnects, HistOK
  <2> QED
    BY <2>1, <2>2, <2>3, <2>4, BridgeAssumption DEF Line, LineInv, LineOK, GatesAgree, TailFlushed
<1>17. CASE Unregister
  <2>1. gate' \in Gates /\ gate'.sock = "forgotten" /\ gate'.prot = gate.prot
        /\ gate'.partial = gate.partial
    BY <1>17 DEF Unregister, Line, LineOK, Gates
  <2>2. UNCHANGED <<queue, hist, caller>>
    BY <1>17 DEF Unregister
  <2>3. AudioInTurn => AudioInTurn'
    BY <2>1, <2>2 DEF AudioInTurn, Shut
  <2> QED
    BY <2>1, <2>2, <2>3 DEF Line, LineInv, LineOK, GatesAgree, TailFlushed
<1>18. CASE GatewayLeaves
  <2>1. gate' \in Gates /\ gate'.sock = "closed" /\ gate'.prot = gate.prot
        /\ gate'.partial = gate.partial
    BY <1>18 DEF GatewayLeaves, Line, LineOK, Gates
  <2>2. queue' = <<>> /\ caller' = FALSE
    BY <1>18 DEF GatewayLeaves
  <2>5. queue' \in Seq(Messages) /\ Len(queue') = 0
    BY <2>2
  <2>6. caller' \in BOOLEAN
    BY <2>2
  <2>3. hist'.late = hist.late
    BY <1>18 DEF GatewayLeaves, EndBridge, HistOK
  <2>4. AudioInTurn'
    BY <2>2, <2>5 DEF AudioInTurn
  <2> QED
    BY <2>1, <2>2, <2>3, <2>4, <2>5, <2>6, BridgeAssumption DEF Line, LineInv, LineOK, GatesAgree, TailFlushed
<1>19. CASE GatewayReceives
  <2>1. queue \in Seq(Messages) /\ queue # <<>> /\ gate \in Gates /\ gate.prot \in BOOLEAN
        /\ Len(queue) \in Nat \ {0} /\ Head(queue) = queue[1]
    BY <1>19 DEF GatewayReceives, Line, LineOK, Gates
  <2>2. gate' \in Gates /\ gate'.prot \in BOOLEAN /\ gate'.sock = gate.sock
        /\ (gate'.prot <=> Head(queue) = "on" \/ (Head(queue) = "audio" /\ gate.prot))
    BY <1>19, <2>1 DEF GatewayReceives, Released, Gates
  <2>3. queue' = Tail(queue) /\ bridge' = bridge /\ hist' = hist /\ caller' = caller
    BY <1>19 DEF GatewayReceives
  <2>4. /\ Tail(queue) \in Seq(Messages) /\ Len(Tail(queue)) = Len(queue) - 1
        /\ \A i \in 1..Len(Tail(queue)) : Tail(queue)[i] = queue[i + 1]
        /\ \A n \in 0..Len(Tail(queue)) :
             Shut(gate'.prot, Tail(queue), n) <=> Shut(gate.prot, queue, n + 1)
    BY <2>1, <2>2, ShutTail
  <2>5. GateToBe' <=> GateToBe
    BY <2>1, <2>3, <2>4 DEF GateToBe
  <2>6. AudioInTurn => AudioInTurn'
    <3> SUFFICES ASSUME AudioInTurn, NEW i \in 1..Len(Tail(queue)), Tail(queue)[i] = "audio"
                 PROVE  Shut(gate'.prot, Tail(queue), i - 1)
      BY <2>3 DEF AudioInTurn
    <3>1. queue[i + 1] = "audio" /\ i + 1 \in 1..Len(queue)
      BY <2>1, <2>4
    <3>2. Shut(gate.prot, queue, i)
      BY <3>1 DEF AudioInTurn
    <3>3. i - 1 \in 0..Len(Tail(queue)) /\ (i - 1) + 1 = i
      BY <2>1, <2>4
    <3> QED
      BY <2>4, <3>2, <3>3
  <2>7. TailFlushed'
    <3> SUFFICES ASSUME gate'.partial, hist.late = "no" PROVE gate'.prot
      BY <2>3 DEF TailFlushed
    <3>1. CASE Head(queue) = "audio"
      <4>1. Shut(gate.prot, queue, 0)
        BY <2>1, <3>1 DEF Line, LineInv, AudioInTurn
      <4> QED
        BY <2>2, <3>1, <4>1 DEF Shut
    <3>2. CASE Head(queue) = "on"
      BY <2>2, <3>2
    <3>3. CASE Head(queue) \in {"off", "gone"}
      BY <1>19, <2>1, <3>3 DEF GatewayReceives, Released, Gates, Line, LineInv, TailFlushed
    <3> QED
      BY <1>19, <3>1, <3>2, <3>3 DEF GatewayReceives
  <2>8. LineOK'
    BY <2>1, <2>2, <2>3, <2>4, BridgeAssumption DEF Line, LineOK
  <2> QED
    BY <2>1, <2>2, <2>3, <2>5, <2>6, <2>7, <2>8 DEF Line, LineInv, GatesAgree
<1>20. CASE GateLapses
  <2>1. gate' \in Gates /\ gate'.sock = gate.sock /\ gate'.prot = gate.prot
        /\ gate'.partial = gate.partial
    BY <1>20 DEF GateLapses, Line, LineOK, Gates
  <2>2. UNCHANGED <<queue, bridge, hist, caller>>
    BY <1>20 DEF GateLapses
  <2>3. (AudioInTurn => AudioInTurn') /\ (GateToBe' <=> GateToBe)
    BY <2>1, <2>2 DEF AudioInTurn, GateToBe, Shut
  <2> QED
    BY <2>1, <2>2, <2>3 DEF Line, LineInv, LineOK, GatesAgree, TailFlushed
<1>21. CASE CallerSpeaks
  <2>1. UNCHANGED <<gate, queue>> /\ caller' \in BOOLEAN
    BY <1>21 DEF CallerSpeaks, Line, LineOK
  <2>2. bridge'.prot = bridge.prot /\ hist'.late = hist.late
    BY <1>21 DEF CallerSpeaks, BridgeOK, Bridges, HistOK
  <2> QED
    BY <2>1, <2>2, LineUntouched DEF Line, LineOK
<1>22. CASE CallerHeard
  <2>1. UNCHANGED <<gate, queue>> /\ caller' \in BOOLEAN
    BY <1>22 DEF CallerHeard, Line, LineOK
  <2>2. bridge'.prot = bridge.prot /\ hist'.late = hist.late
    BY <1>22 DEF CallerHeard, BridgeOK, Bridges, HistOK
  <2> QED
    BY <2>1, <2>2, LineUntouched DEF Line, LineOK
<1>23. CASE UNCHANGED vars
  <2>1. UNCHANGED <<gate, queue>> /\ caller' \in BOOLEAN
    BY <1>23 DEF vars, Line, LineOK
  <2>2. bridge'.prot = bridge.prot /\ hist'.late = hist.late
    BY <1>23 DEF vars, BridgeOK, Bridges, HistOK
  <2> QED
    BY <2>1, <2>2, LineUntouched DEF Line, LineOK
<1> QED
  BY <1>1, <1>2, <1>3, <1>4, <1>5, <1>6, <1>7, <1>8, <1>9, <1>10, <1>11, <1>12,
     <1>13, <1>14, <1>15, <1>16, <1>17, <1>18, <1>19, <1>20, <1>21, <1>22, <1>23
  DEF Next, Session, Timers, Gateway

-----------------------------------------------------------------------------
(* WHICH SESSIONS ARE ALIVE, AND WHOSE THE TOOL IS                         *)

(* The end of the bridge: the session it closes, or orphans.               *)
LEMMA EndBridgeAlive ==
  ASSUME BridgeOK, SessionsOK, HistOK, SessionInv, EndBridge PROVE SessionInv'
<1>1. bridge'.ended /\ ws' = 0 /\ ~bridge.ended
  BY DEF EndBridge, BridgeOK, Bridges
<1>2. \A s \in Sessions : session'[s].st \in {"connecting", "open"} =>
        s = ws /\ session[ws].st = "connecting"
  BY <1>1 DEF EndBridge, IsOpen, SessionInv, SessionsOK, SessionRecords
<1>3. ws # 0 /\ session[ws].st = "connecting" => hist'.orphan = ws
  BY DEF EndBridge, HistOK
<1>4. \A s \in Sessions : s # 0
  BY DEF Sessions
<1> QED
  BY <1>1, <1>2, <1>3, <1>4 DEF SessionInv, NoStraySession

(* Every step keeps track of the sessions that are alive.                  *)
LEMMA AliveStep == IInv /\ [Next]_vars => SessionInv'
<1> SUFFICES ASSUME IInv, [Next]_vars PROVE SessionInv'
  OBVIOUS
<1>0. BridgeOK /\ SessionsOK /\ HistOK /\ SessionInv
  BY DEF IInv, TypeOK
<1> USE <1>0
<1>1. ASSUME NEW s \in Sessions, SessionOpens(s) PROVE SessionInv'
  <2>1. ws' = ws /\ bridge'.ended = bridge.ended /\ bridge'.reconnects = bridge.reconnects
    BY <1>1 DEF SessionOpens, BridgeOK, Bridges, HistOK
  <2>2. hist'.orphan = hist.orphan
    BY <1>1 DEF SessionOpens, BridgeOK, Bridges, HistOK
  <2>3. \A r \in Sessions :
          /\ session'[r].st \in {"connecting", "open"} => session[r].st \in {"connecting", "open"}
          /\ session[r].st \in {"none", "closed"} => session'[r].st \in {"none", "closed"}
    BY <1>1 DEF SessionOpens, SessionsOK, SessionRecords
  <2> QED
    BY <2>1, <2>2, <2>3 DEF SessionInv, NoStraySession
<1>2. ASSUME NEW s \in Sessions, SetupComplete(s) PROVE SessionInv'
  <2>1. ws' = ws /\ bridge'.ended = bridge.ended /\ bridge'.reconnects = bridge.reconnects
    BY <1>2 DEF SetupComplete, Begun, BridgeOK, Bridges, HistOK
  <2>2. hist'.orphan = hist.orphan
    BY <1>2 DEF SetupComplete, Begun, BridgeOK, Bridges, HistOK
  <2>3. \A r \in Sessions :
          /\ session'[r].st \in {"connecting", "open"} => session[r].st \in {"connecting", "open"}
          /\ session[r].st \in {"none", "closed"} => session'[r].st \in {"none", "closed"}
    BY <1>2 DEF SetupComplete, SessionsOK, SessionRecords
  <2> QED
    BY <2>1, <2>2, <2>3 DEF SessionInv, NoStraySession
<1>3. ASSUME NEW s \in Sessions, AgentSpeaks(s) PROVE SessionInv'
  <2>1. UNCHANGED <<ws, session>> /\ bridge'.ended = bridge.ended /\ bridge'.reconnects = bridge.reconnects
    BY <1>3 DEF AgentSpeaks, Begun, BridgeOK, Bridges
  <2>2. hist'.orphan = hist.orphan
    BY <1>3 DEF AgentSpeaks, Begun, HistOK
  <2> QED
    BY <2>1, <2>2 DEF SessionInv, NoStraySession
<1>4. ASSUME NEW s \in Sessions, TurnComplete(s) PROVE SessionInv'
  <2>1. UNCHANGED <<ws, session>> /\ bridge'.ended = bridge.ended /\ bridge'.reconnects = bridge.reconnects
    BY <1>4 DEF TurnComplete, EndedTurn, TurnOver, BridgeOK, Bridges
  <2>2. hist'.orphan = hist.orphan
    BY <1>4 DEF TurnComplete, EndedTurn, TurnOver, HistOK
  <2> QED
    BY <2>1, <2>2 DEF SessionInv, NoStraySession
<1>5. ASSUME NEW s \in Sessions, GenerationComplete(s) PROVE SessionInv'
  <2>1. UNCHANGED <<ws, session>> /\ bridge'.ended = bridge.ended /\ bridge'.reconnects = bridge.reconnects
    BY <1>5 DEF GenerationComplete, EndedTurn, TurnOver, BridgeOK, Bridges
  <2>2. hist'.orphan = hist.orphan
    BY <1>5 DEF GenerationComplete, EndedTurn, TurnOver, HistOK
  <2> QED
    BY <2>1, <2>2 DEF SessionInv, NoStraySession
<1>6. ASSUME NEW s \in Sessions, Interrupted(s) PROVE SessionInv'
  <2>1. UNCHANGED <<ws, session>> /\ bridge'.ended = bridge.ended /\ bridge'.reconnects = bridge.reconnects
    BY <1>6 DEF Interrupted, EndedTurn, TurnOver, BridgeOK, Bridges
  <2>2. hist'.orphan = hist.orphan
    BY <1>6 DEF Interrupted, EndedTurn, TurnOver, HistOK
  <2> QED
    BY <2>1, <2>2 DEF SessionInv, NoStraySession
<1>7. ASSUME NEW s \in Sessions, SessionErrs(s) PROVE SessionInv'
  <2>1. ws' = ws /\ bridge'.ended = bridge.ended /\ bridge'.reconnects = bridge.reconnects
    BY <1>7 DEF SessionErrs, EndedTurn, TurnOver, BridgeOK, Bridges, HistOK
  <2>2. hist'.orphan = hist.orphan
    BY <1>7 DEF SessionErrs, EndedTurn, TurnOver, BridgeOK, Bridges, HistOK
  <2>3. \A r \in Sessions :
          /\ session'[r].st \in {"connecting", "open"} => session[r].st \in {"connecting", "open"}
          /\ session[r].st \in {"none", "closed"} => session'[r].st \in {"none", "closed"}
    BY <1>7 DEF SessionErrs, SessionsOK, SessionRecords
  <2> QED
    BY <2>1, <2>2, <2>3 DEF SessionInv, NoStraySession
<1>8. ASSUME NEW s \in Sessions, SessionCloses(s) PROVE SessionInv'
  <2>1. ws' = ws /\ bridge'.ended = bridge.ended /\ bridge'.reconnects = bridge.reconnects
    BY <1>8 DEF SessionCloses, EndedTurn, TurnOver, BridgeOK, Bridges, HistOK
  <2>2. hist'.orphan = hist.orphan
    BY <1>8 DEF SessionCloses, EndedTurn, TurnOver, BridgeOK, Bridges, HistOK
  <2>3. \A r \in Sessions :
          /\ session'[r].st \in {"connecting", "open"} => session[r].st \in {"connecting", "open"}
          /\ session[r].st \in {"none", "closed"} => session'[r].st \in {"none", "closed"}
    BY <1>8 DEF SessionCloses, SessionsOK, SessionRecords
  <2> QED
    BY <2>1, <2>2, <2>3 DEF SessionInv, NoStraySession
<1>9. ASSUME NEW s \in Sessions, ToolCall(s) PROVE SessionInv'
  <2>1. UNCHANGED <<ws, session>> /\ bridge'.ended = bridge.ended /\ bridge'.reconnects = bridge.reconnects
    BY <1>9 DEF ToolCall, BridgeOK, Bridges
  <2>2. hist'.orphan = hist.orphan
    BY <1>9 DEF ToolCall, HistOK
  <2> QED
    BY <2>1, <2>2 DEF SessionInv, NoStraySession
<1>10. ASSUME NEW t \in tools, ToolDone(t) PROVE SessionInv'
  <2>1. UNCHANGED <<ws, session>> /\ bridge'.ended = bridge.ended /\ bridge'.reconnects = bridge.reconnects
    BY <1>10 DEF ToolDone, IsOpen, BridgeOK, Bridges
  <2>2. hist'.orphan = hist.orphan
    BY <1>10 DEF ToolDone, IsOpen, HistOK
  <2> QED
    BY <2>1, <2>2 DEF SessionInv, NoStraySession
<1>11. CASE HushLapses
  <2>1. UNCHANGED <<ws, session>> /\ bridge'.ended = bridge.ended /\ bridge'.reconnects = bridge.reconnects
    BY <1>11 DEF HushLapses, BridgeOK, Bridges
  <2>2. hist'.orphan = hist.orphan
    BY <1>11 DEF HushLapses, HistOK
  <2> QED
    BY <2>1, <2>2 DEF SessionInv, NoStraySession
<1>12. CASE FarewellOver
  BY <1>12, EndBridgeAlive DEF FarewellOver
<1>13. CASE HardTimeout
  BY <1>13, EndBridgeAlive DEF HardTimeout
<1>14. CASE Reconnect
  <2>1. /\ ~bridge.ended /\ ws \in Sessions /\ bridge.reconnects \in Nat
        /\ ws = bridge.reconnects + 1
    BY <1>14 DEF Reconnect, WatchdogLooks, IsOpen, SessionInv, SessionsOK, BridgeOK, Bridges
  <2>2. ~bridge'.ended /\ ws' = ws + 1 /\ bridge'.reconnects = bridge.reconnects + 1
        /\ hist' = hist
    BY <1>14, <2>1 DEF Reconnect, BridgeOK, Bridges
  <2>3. \A s \in Sessions : s # ws + 1 => session'[s].st \in {"none", "closed"}
    BY <1>14, <2>1 DEF Reconnect, OldClosed, SessionInv, SessionsOK, SessionRecords
  <2>4. ws + 1 # 0
    BY <2>1
  <2> QED
    BY <2>1, <2>2, <2>3, <2>4 DEF SessionInv, NoStraySession
<1>15. CASE NoReconnectLeft
  BY <1>15, EndBridgeAlive DEF NoReconnectLeft
<1>16. CASE GatewayConnects
  <2>1. UNCHANGED <<ws, session>> /\ bridge'.ended = bridge.ended /\ bridge'.reconnects = bridge.reconnects
    BY <1>16 DEF GatewayConnects, BridgeOK, Bridges
  <2>2. hist'.orphan = hist.orphan
    BY <1>16 DEF GatewayConnects, HistOK
  <2> QED
    BY <2>1, <2>2 DEF SessionInv, NoStraySession
<1>17. CASE Unregister
  <2>1. UNCHANGED <<ws, session>> /\ bridge'.ended = bridge.ended /\ bridge'.reconnects = bridge.reconnects
    BY <1>17 DEF Unregister, BridgeOK, Bridges
  <2>2. hist'.orphan = hist.orphan
    BY <1>17 DEF Unregister, HistOK
  <2> QED
    BY <2>1, <2>2 DEF SessionInv, NoStraySession
<1>18. CASE GatewayLeaves
  <2>1. CASE EndBridge
    BY <2>1, EndBridgeAlive
  <2>2. CASE bridge.ended /\ UNCHANGED <<bridge, ws, ready, session, hist>>
    BY <2>2 DEF SessionInv, NoStraySession
  <2> QED
    BY <1>18, <2>1, <2>2 DEF GatewayLeaves
<1>19. CASE GatewayReceives
  <2>1. UNCHANGED <<ws, session>> /\ bridge'.ended = bridge.ended /\ bridge'.reconnects = bridge.reconnects
    BY <1>19 DEF GatewayReceives, BridgeOK, Bridges
  <2>2. hist'.orphan = hist.orphan
    BY <1>19 DEF GatewayReceives, HistOK
  <2> QED
    BY <2>1, <2>2 DEF SessionInv, NoStraySession
<1>20. CASE GateLapses
  <2>1. UNCHANGED <<ws, session>> /\ bridge'.ended = bridge.ended /\ bridge'.reconnects = bridge.reconnects
    BY <1>20 DEF GateLapses, BridgeOK, Bridges
  <2>2. hist'.orphan = hist.orphan
    BY <1>20 DEF GateLapses, HistOK
  <2> QED
    BY <2>1, <2>2 DEF SessionInv, NoStraySession
<1>21. CASE CallerSpeaks
  <2>1. UNCHANGED <<ws, session>> /\ bridge'.ended = bridge.ended /\ bridge'.reconnects = bridge.reconnects
    BY <1>21 DEF CallerSpeaks, BridgeOK, Bridges
  <2>2. hist'.orphan = hist.orphan
    BY <1>21 DEF CallerSpeaks, HistOK
  <2> QED
    BY <2>1, <2>2 DEF SessionInv, NoStraySession
<1>22. CASE CallerHeard
  <2>1. UNCHANGED <<ws, session>> /\ bridge'.ended = bridge.ended /\ bridge'.reconnects = bridge.reconnects
    BY <1>22 DEF CallerHeard, BridgeOK, Bridges
  <2>2. hist'.orphan = hist.orphan
    BY <1>22 DEF CallerHeard, HistOK
  <2> QED
    BY <2>1, <2>2 DEF SessionInv, NoStraySession
<1>23. CASE UNCHANGED vars
  <2>1. UNCHANGED <<ws, session>> /\ bridge'.ended = bridge.ended /\ bridge'.reconnects = bridge.reconnects
    BY <1>23 DEF vars, BridgeOK, Bridges
  <2>2. hist'.orphan = hist.orphan
    BY <1>23 DEF vars, HistOK
  <2> QED
    BY <2>1, <2>2 DEF SessionInv, NoStraySession
<1> QED
  BY <1>1, <1>2, <1>3, <1>4, <1>5, <1>6, <1>7, <1>8, <1>9, <1>10, <1>11, <1>12,
     <1>13, <1>14, <1>15, <1>16, <1>17, <1>18, <1>19, <1>20, <1>21, <1>22, <1>23
  DEF Next, Session, Timers, Gateway

(* The end of the bridge leaves the tools to answer nobody.                *)
LEMMA EndBridgeTools ==
  ASSUME BridgeOK, HistOK, ToolInv, EndBridge, UNCHANGED tools PROVE ToolInv'
<1>1. bridge'.ended /\ hist'.overlap = hist.overlap /\ hist'.stray = hist.stray
  BY DEF EndBridge, BridgeOK, Bridges, HistOK
<1> QED
  BY <1>1 DEF ToolInv, ToolAnswerHome

(* Every step keeps track of the session a tool was called from.           *)
LEMMA ToolStep == IInv /\ [Next]_vars => ToolInv'
<1> SUFFICES ASSUME IInv, [Next]_vars PROVE ToolInv'
  OBVIOUS
<1>0. BridgeOK /\ SessionsOK /\ HistOK /\ SessionInv /\ ToolInv
  BY DEF IInv, TypeOK
<1> USE <1>0
<1>1. ASSUME NEW s \in Sessions, SessionOpens(s) PROVE ToolInv'
  <2>1. UNCHANGED <<ws, tools>> /\ bridge'.ended = bridge.ended /\ bridge'.active = bridge.active
    BY <1>1 DEF SessionOpens, BridgeOK, Bridges
  <2>2. hist'.overlap = hist.overlap /\ hist'.stray = hist.stray
    BY <1>1 DEF SessionOpens, HistOK
  <2> QED
    BY <2>1, <2>2 DEF ToolInv, ToolAnswerHome
<1>2. ASSUME NEW s \in Sessions, SetupComplete(s) PROVE ToolInv'
  <2>1. UNCHANGED <<ws, tools>> /\ bridge'.ended = bridge.ended /\ bridge'.active = bridge.active
    BY <1>2 DEF SetupComplete, Begun, BridgeOK, Bridges
  <2>2. hist'.overlap = hist.overlap /\ hist'.stray = hist.stray
    BY <1>2 DEF SetupComplete, Begun, HistOK
  <2> QED
    BY <2>1, <2>2 DEF ToolInv, ToolAnswerHome
<1>3. ASSUME NEW s \in Sessions, AgentSpeaks(s) PROVE ToolInv'
  <2>1. UNCHANGED <<ws, tools>> /\ bridge'.ended = bridge.ended /\ bridge'.active = bridge.active
    BY <1>3 DEF AgentSpeaks, Begun, BridgeOK, Bridges
  <2>2. hist'.overlap = hist.overlap /\ hist'.stray = hist.stray
    BY <1>3 DEF AgentSpeaks, Begun, HistOK
  <2> QED
    BY <2>1, <2>2 DEF ToolInv, ToolAnswerHome
<1>4. ASSUME NEW s \in Sessions, TurnComplete(s) PROVE ToolInv'
  <2>1. UNCHANGED <<ws, tools>> /\ bridge'.ended = bridge.ended /\ bridge'.active = bridge.active
    BY <1>4 DEF TurnComplete, EndedTurn, TurnOver, BridgeOK, Bridges
  <2>2. hist'.overlap = hist.overlap /\ hist'.stray = hist.stray
    BY <1>4 DEF TurnComplete, EndedTurn, TurnOver, HistOK
  <2> QED
    BY <2>1, <2>2 DEF ToolInv, ToolAnswerHome
<1>5. ASSUME NEW s \in Sessions, GenerationComplete(s) PROVE ToolInv'
  <2>1. UNCHANGED <<ws, tools>> /\ bridge'.ended = bridge.ended /\ bridge'.active = bridge.active
    BY <1>5 DEF GenerationComplete, EndedTurn, TurnOver, BridgeOK, Bridges
  <2>2. hist'.overlap = hist.overlap /\ hist'.stray = hist.stray
    BY <1>5 DEF GenerationComplete, EndedTurn, TurnOver, HistOK
  <2> QED
    BY <2>1, <2>2 DEF ToolInv, ToolAnswerHome
<1>6. ASSUME NEW s \in Sessions, Interrupted(s) PROVE ToolInv'
  <2>1. UNCHANGED <<ws, tools>> /\ bridge'.ended = bridge.ended /\ bridge'.active = bridge.active
    BY <1>6 DEF Interrupted, EndedTurn, TurnOver, BridgeOK, Bridges
  <2>2. hist'.overlap = hist.overlap /\ hist'.stray = hist.stray
    BY <1>6 DEF Interrupted, EndedTurn, TurnOver, HistOK
  <2> QED
    BY <2>1, <2>2 DEF ToolInv, ToolAnswerHome
<1>7. ASSUME NEW s \in Sessions, SessionErrs(s) PROVE ToolInv'
  <2>1. UNCHANGED <<ws, tools>> /\ bridge'.ended = bridge.ended /\ bridge'.active = bridge.active
    BY <1>7 DEF SessionErrs, EndedTurn, TurnOver, BridgeOK, Bridges
  <2>2. hist'.overlap = hist.overlap /\ hist'.stray = hist.stray
    BY <1>7 DEF SessionErrs, EndedTurn, TurnOver, HistOK
  <2> QED
    BY <2>1, <2>2 DEF ToolInv, ToolAnswerHome
<1>8. ASSUME NEW s \in Sessions, SessionCloses(s) PROVE ToolInv'
  <2>1. UNCHANGED <<ws, tools>> /\ bridge'.ended = bridge.ended /\ bridge'.active = bridge.active
    BY <1>8 DEF SessionCloses, EndedTurn, TurnOver, BridgeOK, Bridges
  <2>2. hist'.overlap = hist.overlap /\ hist'.stray = hist.stray
    BY <1>8 DEF SessionCloses, EndedTurn, TurnOver, HistOK
  <2> QED
    BY <2>1, <2>2 DEF ToolInv, ToolAnswerHome
<1>9. ASSUME NEW s \in Sessions, ToolCall(s) PROVE ToolInv'
  <2>0. PICK k \in 1..MaxTools, ends \in BOOLEAN :
          tools' = tools \cup {[id |-> k, from |-> s, ends |-> ends]}
    BY <1>9 DEF ToolCall
  <2> DEFINE u == [id |-> k, from |-> s, ends |-> ends]
  <2>1. tools' = tools \cup {u} /\ u.from = s
    BY <2>0
  <2> HIDE DEF u
  <2>2. bridge'.active /\ bridge'.ended = bridge.ended /\ ws' = ws
    BY <1>9 DEF ToolCall, BridgeOK, Bridges
  <2>3. (hist'.overlap <=> hist.overlap \/ tools # {}) /\ hist'.stray = hist.stray
    BY <1>9 DEF ToolCall, HistOK
  <2>4. ~bridge.ended => s = ws
    BY <1>9 DEF ToolCall, Talks, Hears, SessionInv
  <2> QED
    BY <2>1, <2>2, <2>3, <2>4 DEF ToolInv, ToolAnswerHome
<1>10. ASSUME NEW t \in tools, ToolDone(t) PROVE ToolInv'
  <2>1. tools' = tools \ {t} /\ bridge'.ended = bridge.ended /\ ws' = ws
    BY <1>10 DEF ToolDone, BridgeOK, Bridges
  <2>2. hist'.overlap = hist.overlap /\ (hist'.stray <=> hist.stray \/ (IsOpen /\ ws # t.from))
    BY <1>10 DEF ToolDone, HistOK
  <2>3. IsOpen => ~bridge.ended
    BY DEF IsOpen, SessionInv
  <2>4. ~hist.overlap => tools' = {} /\ ~hist'.stray
    BY <2>1, <2>2, <2>3 DEF ToolInv, ToolAnswerHome
  <2> QED
    BY <2>1, <2>2, <2>4 DEF ToolInv, ToolAnswerHome
<1>11. CASE HushLapses
  <2>1. UNCHANGED <<ws, tools>> /\ bridge'.ended = bridge.ended /\ bridge'.active = bridge.active
    BY <1>11 DEF HushLapses, BridgeOK, Bridges
  <2>2. hist'.overlap = hist.overlap /\ hist'.stray = hist.stray
    BY <1>11 DEF HushLapses, HistOK
  <2> QED
    BY <2>1, <2>2 DEF ToolInv, ToolAnswerHome
<1>12. CASE FarewellOver
  BY <1>12, EndBridgeTools DEF FarewellOver
<1>13. CASE HardTimeout
  BY <1>13, EndBridgeTools DEF HardTimeout
<1>14. CASE Reconnect
  <2>1. ~hist.overlap => tools = {}
    BY <1>14 DEF Reconnect, WatchdogLooks, ToolInv
  <2>2. tools' = tools /\ hist' = hist
    BY <1>14 DEF Reconnect
  <2> QED
    BY <2>1, <2>2 DEF ToolInv, ToolAnswerHome
<1>15. CASE NoReconnectLeft
  BY <1>15, EndBridgeTools DEF NoReconnectLeft
<1>16. CASE GatewayConnects
  <2>1. UNCHANGED <<ws, tools>> /\ bridge'.ended = bridge.ended /\ bridge'.active = bridge.active
    BY <1>16 DEF GatewayConnects, BridgeOK, Bridges
  <2>2. hist'.overlap = hist.overlap /\ hist'.stray = hist.stray
    BY <1>16 DEF GatewayConnects, HistOK
  <2> QED
    BY <2>1, <2>2 DEF ToolInv, ToolAnswerHome
<1>17. CASE Unregister
  <2>1. UNCHANGED <<ws, tools>> /\ bridge'.ended = bridge.ended /\ bridge'.active = bridge.active
    BY <1>17 DEF Unregister, BridgeOK, Bridges
  <2>2. hist'.overlap = hist.overlap /\ hist'.stray = hist.stray
    BY <1>17 DEF Unregister, HistOK
  <2> QED
    BY <2>1, <2>2 DEF ToolInv, ToolAnswerHome
<1>18. CASE GatewayLeaves
  <2>1. CASE EndBridge
    BY <1>18, <2>1, EndBridgeTools DEF GatewayLeaves
  <2>2. CASE bridge.ended /\ UNCHANGED <<bridge, ws, ready, session, hist>>
    BY <1>18, <2>2 DEF GatewayLeaves, ToolInv, ToolAnswerHome
  <2> QED
    BY <1>18, <2>1, <2>2 DEF GatewayLeaves
<1>19. CASE GatewayReceives
  <2>1. UNCHANGED <<ws, tools>> /\ bridge'.ended = bridge.ended /\ bridge'.active = bridge.active
    BY <1>19 DEF GatewayReceives, BridgeOK, Bridges
  <2>2. hist'.overlap = hist.overlap /\ hist'.stray = hist.stray
    BY <1>19 DEF GatewayReceives, HistOK
  <2> QED
    BY <2>1, <2>2 DEF ToolInv, ToolAnswerHome
<1>20. CASE GateLapses
  <2>1. UNCHANGED <<ws, tools>> /\ bridge'.ended = bridge.ended /\ bridge'.active = bridge.active
    BY <1>20 DEF GateLapses, BridgeOK, Bridges
  <2>2. hist'.overlap = hist.overlap /\ hist'.stray = hist.stray
    BY <1>20 DEF GateLapses, HistOK
  <2> QED
    BY <2>1, <2>2 DEF ToolInv, ToolAnswerHome
<1>21. CASE CallerSpeaks
  <2>1. UNCHANGED <<ws, tools>> /\ bridge'.ended = bridge.ended /\ bridge'.active = bridge.active
    BY <1>21 DEF CallerSpeaks, BridgeOK, Bridges
  <2>2. hist'.overlap = hist.overlap /\ hist'.stray = hist.stray
    BY <1>21 DEF CallerSpeaks, HistOK
  <2> QED
    BY <2>1, <2>2 DEF ToolInv, ToolAnswerHome
<1>22. CASE CallerHeard
  <2>1. UNCHANGED <<ws, tools>> /\ bridge'.ended = bridge.ended /\ bridge'.active = bridge.active
    BY <1>22 DEF CallerHeard, BridgeOK, Bridges
  <2>2. hist'.overlap = hist.overlap /\ hist'.stray = hist.stray
    BY <1>22 DEF CallerHeard, HistOK
  <2> QED
    BY <2>1, <2>2 DEF ToolInv, ToolAnswerHome
<1>23. CASE UNCHANGED vars
  <2>1. UNCHANGED <<ws, tools>> /\ bridge'.ended = bridge.ended /\ bridge'.active = bridge.active
    BY <1>23 DEF vars, BridgeOK, Bridges
  <2>2. hist'.overlap = hist.overlap /\ hist'.stray = hist.stray
    BY <1>23 DEF vars, HistOK
  <2> QED
    BY <2>1, <2>2 DEF ToolInv, ToolAnswerHome
<1> QED
  BY <1>1, <1>2, <1>3, <1>4, <1>5, <1>6, <1>7, <1>8, <1>9, <1>10, <1>11, <1>12,
     <1>13, <1>14, <1>15, <1>16, <1>17, <1>18, <1>19, <1>20, <1>21, <1>22, <1>23
  DEF Next, Session, Timers, Gateway

-----------------------------------------------------------------------------
(* THE THEOREMS                                                            *)

(* The first session is connecting, the line is down.                      *)
LEMMA InitIInv == Init => IInv
<1> SUFFICES ASSUME Init PROVE IInv
  OBVIOUS
<1>1. BridgeOK
  BY BridgeAssumption DEF Init, BridgeOK, Bridges
<1>2. SessionsOK
  <2>1. ws = 1 /\ tools = {} /\ ready = FALSE /\ 1 \in Sessions
    BY BridgeAssumption DEF Init, Sessions
  <2>2. NoSession \in SessionRecords /\ [NoSession EXCEPT !.st = "connecting"] \in SessionRecords
    BY DEF NoSession, SessionRecords
  <2>3. session \in [Sessions -> SessionRecords]
    BY <2>2 DEF Init
  <2> QED
    BY <2>1, <2>3 DEF SessionsOK
<1>3. LineOK
  <2>1. queue = <<>> /\ gate \in Gates /\ caller = FALSE
    BY DEF Init, Gates
  <2>2. queue \in Seq(Messages) /\ Len(queue) = 0
    BY <2>1
  <2>3. caller \in BOOLEAN
    BY <2>1
  <2> QED
    BY <2>1, <2>2, <2>3, BridgeAssumption DEF LineOK
<1>4. HistOK
  BY DEF Init, HistOK
<1>5. SessionInv
  BY DEF Init, SessionInv, NoStraySession, NoSession
<1>6. ToolInv
  BY DEF Init, ToolInv, ToolAnswerHome
<1>7. LineInv
  <2>1. queue = <<>> /\ Len(queue) = 0 /\ gate.sock = "none" /\ ~gate.prot /\ ~gate.partial
        /\ hist.late = "no"
    BY DEF Init
  <2>2. AudioInTurn
    BY <2>1 DEF AudioInTurn
  <2> QED
    BY <2>1, <2>2 DEF LineInv, GatesAgree, TailFlushed
<1> QED
  BY <1>1, <1>2, <1>3, <1>4, <1>5, <1>6, <1>7 DEF IInv, TypeOK

(* Every step keeps the invariant.                                         *)
LEMMA IInvStep == IInv /\ [Next]_vars => IInv'
<1> SUFFICES ASSUME IInv, [Next]_vars PROVE IInv'
  OBVIOUS
<1>1. BridgeOK'
  BY BridgeStep DEF IInv, TypeOK
<1>2. SessionsOK' /\ HistOK' /\ SessionInv' /\ ToolInv'
  BY SessionStep, HistStep, AliveStep, ToolStep
<1>3. LineOK' /\ LineInv'
  BY LineStep DEF Line
<1> QED
  BY <1>1, <1>2, <1>3 DEF IInv, TypeOK

(* The invariant holds in every state of every behaviour.                  *)
LEMMA Invariant == Spec => []IInv
<1>1. Init => IInv
  BY InitIInv
<1>2. IInv /\ [Next]_vars => IInv'
  BY IInvStep
<1> QED
  BY <1>1, <1>2, PTL DEF Spec

(* The bridge, its sessions, the line and the gateway keep to their types, *)
(* and no session is alive beside the current one but an orphan of the     *)
(* bridge's end.                                                           *)
THEOREM SafeSessions == Spec => []SessionsSafe
<1>1. IInv => SessionsSafe
  BY DEF IInv, SessionInv, SessionsSafe
<1> QED
  BY <1>1, Invariant, PTL

(* The two half-duplex gates agree once the gateway has read its messages. *)
THEOREM AgreeingGates == Spec => []GatesAgree
<1>1. IInv => GatesAgree
  BY DEF IInv, LineInv
<1> QED
  BY <1>1, Invariant, PTL

(* No piece of a finished turn waits at the gateway for the next one.      *)
THEOREM FlushedTail == Spec => []TailFlushed
<1>1. IInv => TailFlushed
  BY DEF IInv, LineInv
<1> QED
  BY <1>1, Invariant, PTL

(* Unless two tool calls overlapped, an answer goes to who asked.          *)
THEOREM AnswersHome == Spec => []ToolAnswerHome
<1>1. IInv => ToolAnswerHome
  BY DEF IInv, ToolInv
<1> QED
  BY <1>1, Invariant, PTL
=============================================================================
