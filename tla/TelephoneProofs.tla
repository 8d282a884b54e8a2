--------------------------- MODULE TelephoneProofs ---------------------------
(***************************************************************************)
(* Safety of one call's bridge and of the gateway's channels, which are    *)
(* stated of two components that share no state: Init, Next and Spec are   *)
(* those of CallBridge, GatewayInit, GatewayNext and GatewaySpec those of  *)
(* Gateway.                                                                *)
(*                                                                         *)
(* One call, for both directions and whether or not updates of the calls   *)
(* row get lost.  The inductive invariant IInv says which phase of the     *)
(* set-up each state belongs to (SetupInv), that a finalization which goes *)
(* through the state machine is the only one (FinishInv), what has reached *)
(* the row when it is over (RecordInv) and that an answer queued or acted  *)
(* upon was given (AnswerInv).                                             *)
(*                                                                         *)
(* The gateway, for any number of calls and callers.  NoStrayChannel says  *)
(* something of quiet states only, so the invariant GatewayInv says what   *)
(* is under way in the others: a channel mapped to a call that is over is  *)
(* let go of, gone or about to be asked for (MappedInv), and one mapped to *)
(* no call is let go of, announced or in the hands of an inbound task      *)
(* (LooseInv).  Those need that a channel dialled ahead is mapped and does *)
(* not exist (AheadInv), that cleanups, events and tasks name channels     *)
(* that do (SweepsOK, EventsOK, TasksOK), that what is mapped, held or     *)
(* inserted has a record (RegisteredInv, HoldsOK) and that a handler       *)
(* between two requests holds the object it made (HandlerInv).             *)
(***************************************************************************)
EXTENDS CallBridge, Gateway, WellFoundedInduction, TLAPS

-----------------------------------------------------------------------------
(* One call                                                                *)

(* A run of _finalizeAndResolve has begun. *)
Running(f) == closing[f] # "no"

SetupInv ==
  /\ setup \in {"idle", "lookup"} => state = "created"
  /\ state = "created" <=> session = "none"
  /\ session = "connecting" => state = "pre_warming"
  /\ setup = "idle" <=> promise = "none"
  /\ owner \in {"register", "dial", "dialCustomer", "dialFailed", "start"} => promise = "none"

FinishInv ==
  /\ finalized <=> \E f \in Finishers : Running(f)
  /\ state = "finalized" => finalized /\ session = "closed"
  /\ state = "pre_warming" /\ ~finalized => session = "connecting"
  /\ setup # "over" => ~Running("fail")
  /\ failed \/ report = "failed" => Running("fail")
  /\ promise = "resolved" => finalized
  /\ report = "none" <=> promise # "resolved"
  /\ state = "finalized" =>
       /\ failed <=> Running("fail")
       /\ ~(Running("fail") /\ Running("end"))

RecordInv ==
  /\ promise = "none" /\ owner # "done" => ~rowFailed
  /\ promise # "none" /\ ~Running("fail") => ~rowFailed
  /\ state = "finalized" /\ closing["fail"] = "write" => ~rowFailed
  /\ state = "finalized" /\ ~lost =>
       \A f \in Finishers : closing[f] \in {"drain", "done"} =>
         /\ row = IF f = "fail" THEN "failed" ELSE "completed"
         /\ rowFailed <=> f = "fail"
  /\ state = "finalized" /\ promise = "resolved" =>
       /\ report = IF failed THEN "failed" ELSE "completed"
       /\ \A f \in Finishers : Running(f) => closing[f] = "done"

AnswerInv ==
  /\ AnswerKept
  /\ pending \/ talking => answer = "given"
  /\ answer # "no" => customer \in {"up", "gone"}
  /\ direction = "inbound" => customer \in {"up", "gone"}
  /\ owner = "dialCustomer" => direction = "outbound"
  /\ owner \in {"register", "dial", "dialCustomer"} =>
       answer = "no" /\ customer \in {"none", "up", "gone"}

IInv == TypeOK /\ SetupInv /\ FinishInv /\ RecordInv /\ AnswerInv

(* Before the call is registered. *)
LEMMA InitIInv == Init => IInv
  BY BridgeAssumption DEF Init, IInv, TypeOK, FlagsOK, PlacesOK, SetupInv, FinishInv,
    RecordInv, AnswerInv, AnswerKept,
    Running, Finishers, States, Attached

(* Each step of the owner, the set-up, the session, a finalization, the    *)
(* gateway or the telephone preserves the invariant.                       *)
LEMMA IInvStep == IInv /\ [Next]_vars => IInv'
<1> SUFFICES ASSUME IInv, [Next]_vars PROVE IInv'
  OBVIOUS
<1> USE DEF IInv, Finishers, States, Attached, Running
<1>1. CASE Register
  BY <1>1 DEF Register, lineVars, rowVars, phoneVars, TypeOK, FlagsOK, PlacesOK, SetupInv,
    FinishInv, RecordInv, AnswerInv, AnswerKept
<1>2. CASE DialMedia
  BY <1>2, BridgeAssumption DEF DialMedia, bridgeVars, lineVars, rowVars, TypeOK, FlagsOK,
    PlacesOK, SetupInv, FinishInv, RecordInv, AnswerInv, AnswerKept
<1>3. CASE DialCustomer
  <2>1. FlagsOK'
    BY <1>3 DEF DialCustomer, bridgeVars, lineVars, rowVars, TypeOK, FlagsOK
  <2>2. PlacesOK'
    BY <1>3 DEF DialCustomer, bridgeVars, lineVars, rowVars, TypeOK, PlacesOK
  <2>3. SetupInv'
    BY <1>3 DEF DialCustomer, bridgeVars, lineVars, rowVars, TypeOK, FlagsOK, PlacesOK, SetupInv
  <2>4. FinishInv'
    BY <1>3 DEF DialCustomer, bridgeVars, lineVars, rowVars, TypeOK, FlagsOK, PlacesOK,
      SetupInv, FinishInv
  <2>5. RecordInv'
    BY <1>3 DEF DialCustomer, bridgeVars, lineVars, rowVars, TypeOK, FlagsOK, PlacesOK,
      SetupInv, FinishInv, RecordInv
  <2>6. AnswerInv'
    BY <1>3 DEF DialCustomer, bridgeVars, lineVars, rowVars, TypeOK, FlagsOK, PlacesOK,
      SetupInv, FinishInv, AnswerInv, AnswerKept
  <2> QED
    BY <2>1, <2>2, <2>3, <2>4, <2>5, <2>6 DEF TypeOK
<1>4. CASE DialFails
  BY <1>4 DEF DialFails, bridgeVars, lineVars, rowVars, TypeOK, FlagsOK, PlacesOK, SetupInv,
    FinishInv, RecordInv, AnswerInv, AnswerKept
<1>5. CASE RecordDialFailure
  <2>1. FlagsOK'
    BY <1>5 DEF RecordDialFailure, EndBridge, Finalize, Unfinalized, CloseSession,
      lineVars, phoneVars, TypeOK, FlagsOK
  <2>2. PlacesOK'
    BY <1>5 DEF RecordDialFailure, EndBridge, Finalize, Unfinalized, CloseSession,
      lineVars, phoneVars, TypeOK, PlacesOK
  <2>3. SetupInv'
    BY <1>5 DEF RecordDialFailure, EndBridge, Finalize, Unfinalized, CloseSession,
      lineVars, phoneVars, TypeOK, FlagsOK, PlacesOK, SetupInv
  <2>4. FinishInv'
    BY <1>5 DEF RecordDialFailure, EndBridge, Finalize, Unfinalized, CloseSession,
      lineVars, phoneVars, TypeOK, FlagsOK, PlacesOK, SetupInv, FinishInv
  <2>5. RecordInv'
    BY <1>5 DEF RecordDialFailure, EndBridge, Finalize, Unfinalized, CloseSession,
      lineVars, phoneVars, TypeOK, FlagsOK, PlacesOK, SetupInv, FinishInv, RecordInv
  <2>6. AnswerInv'
    BY <1>5 DEF RecordDialFailure, EndBridge, Finalize, Unfinalized, CloseSession,
      lineVars, phoneVars, TypeOK, FlagsOK, PlacesOK, SetupInv, FinishInv, AnswerInv, AnswerKept
  <2> QED
    BY <2>1, <2>2, <2>3, <2>4, <2>5, <2>6 DEF TypeOK
<1>6. CASE InboundDialFails
  BY <1>6 DEF InboundDialFails, bridgeVars, lineVars, rowVars, TypeOK, FlagsOK, PlacesOK,
    SetupInv, FinishInv, RecordInv, AnswerInv, AnswerKept
<1>7. CASE StartOutbound
  <2>1. FlagsOK'
    BY <1>7 DEF StartOutbound, Start, lineVars, phoneVars, TypeOK, FlagsOK
  <2>2. PlacesOK'
    BY <1>7 DEF StartOutbound, Start, lineVars, phoneVars, TypeOK, PlacesOK
  <2>3. SetupInv'
    BY <1>7 DEF StartOutbound, Start, lineVars, phoneVars, TypeOK, FlagsOK, PlacesOK,
      SetupInv
  <2>4. FinishInv'
    BY <1>7 DEF StartOutbound, Start, lineVars, phoneVars, TypeOK, FlagsOK, PlacesOK,
      SetupInv, FinishInv
  <2>5. RecordInv'
    BY <1>7 DEF StartOutbound, Start, lineVars, phoneVars, TypeOK, FlagsOK, PlacesOK,
      SetupInv, FinishInv, RecordInv
  <2>6. AnswerInv'
    BY <1>7 DEF StartOutbound, Start, lineVars, phoneVars, TypeOK, FlagsOK, PlacesOK,
      SetupInv, FinishInv, AnswerInv, AnswerKept
  <2> QED
    BY <2>1, <2>2, <2>3, <2>4, <2>5, <2>6 DEF TypeOK
<1>8. CASE StartInbound
  <2>1. FlagsOK'
    BY <1>8 DEF StartInbound, Start, lineVars, rowVars, TypeOK, FlagsOK
  <2>2. PlacesOK'
    BY <1>8 DEF StartInbound, Start, lineVars, rowVars, TypeOK, PlacesOK
  <2>3. SetupInv'
    BY <1>8 DEF StartInbound, Start, lineVars, rowVars, TypeOK, FlagsOK, PlacesOK, SetupInv
  <2>4. FinishInv'
    BY <1>8 DEF StartInbound, Start, lineVars, rowVars, TypeOK, FlagsOK, PlacesOK, SetupInv,
      FinishInv
  <2>5. RecordInv'
    BY <1>8 DEF StartInbound, Start, lineVars, rowVars, TypeOK, FlagsOK, PlacesOK, SetupInv,
      FinishInv, RecordInv
  <2>6. AnswerInv'
    BY <1>8 DEF StartInbound, Start, lineVars, rowVars, TypeOK, FlagsOK, PlacesOK, SetupInv,
      FinishInv, AnswerInv, AnswerKept
  <2> QED
    BY <2>1, <2>2, <2>3, <2>4, <2>5, <2>6 DEF TypeOK
<1>9. CASE OwnerResumes
  <2>1. FlagsOK'
    BY <1>9 DEF OwnerResumes, WriteRow, bridgeVars, lineVars, rowVars, phoneVars, TypeOK, FlagsOK
  <2>2. PlacesOK'
    BY <1>9 DEF OwnerResumes, WriteRow, bridgeVars, lineVars, rowVars, phoneVars, TypeOK,
      PlacesOK,
      FinishInv
  <2>3. SetupInv'
    BY <1>9 DEF OwnerResumes, WriteRow, bridgeVars, lineVars, rowVars, phoneVars, TypeOK,
      FlagsOK, PlacesOK, SetupInv
  <2>4. FinishInv'
    BY <1>9 DEF OwnerResumes, WriteRow, bridgeVars, lineVars, rowVars, phoneVars, TypeOK,
      FlagsOK, PlacesOK, SetupInv, FinishInv
  <2>5. RecordInv'
    BY <1>9 DEF OwnerResumes, WriteRow, bridgeVars, lineVars, rowVars, phoneVars, TypeOK,
      FlagsOK, PlacesOK, SetupInv, FinishInv, RecordInv
  <2>6. AnswerInv'
    BY <1>9 DEF OwnerResumes, WriteRow, bridgeVars, lineVars, rowVars, phoneVars, TypeOK,
      FlagsOK, PlacesOK, SetupInv, FinishInv, AnswerInv, AnswerKept
  <2> QED
    BY <2>1, <2>2, <2>3, <2>4, <2>5, <2>6 DEF TypeOK
<1>10. CASE SetupFails
  <2>1. FlagsOK'
    BY <1>10 DEF SetupFails, Finalize, CloseSession, rowVars, phoneVars, TypeOK, FlagsOK
  <2>2. PlacesOK'
    BY <1>10 DEF SetupFails, Finalize, CloseSession, rowVars, phoneVars, TypeOK, PlacesOK
  <2>3. SetupInv'
    BY <1>10 DEF SetupFails, Finalize, CloseSession, rowVars, phoneVars, TypeOK, FlagsOK,
      PlacesOK, SetupInv
  <2>4. FinishInv'
    BY <1>10 DEF SetupFails, Finalize, CloseSession, rowVars, phoneVars, TypeOK, FlagsOK,
      PlacesOK, SetupInv, FinishInv
  <2>5. RecordInv'
    BY <1>10 DEF SetupFails, Finalize, CloseSession, rowVars, phoneVars, TypeOK, FlagsOK,
      PlacesOK, SetupInv, FinishInv, RecordInv
  <2>6. AnswerInv'
    BY <1>10 DEF SetupFails, Finalize, CloseSession, rowVars, phoneVars, TypeOK, FlagsOK,
      PlacesOK, SetupInv, FinishInv, AnswerInv, AnswerKept
  <2> QED
    BY <2>1, <2>2, <2>3, <2>4, <2>5, <2>6 DEF TypeOK
<1>11. CASE OpenSession
  BY <1>11 DEF OpenSession, rowVars, phoneVars, TypeOK, FlagsOK, PlacesOK, SetupInv, FinishInv,
    RecordInv, AnswerInv, AnswerKept
<1>12. CASE SessionOpens
  <2>1. FlagsOK'
    BY <1>12 DEF SessionOpens, rowVars, phoneVars, TypeOK, FlagsOK
  <2>2. PlacesOK'
    BY <1>12 DEF SessionOpens, rowVars, phoneVars, TypeOK, PlacesOK
  <2>3. SetupInv'
    BY <1>12 DEF SessionOpens, rowVars, phoneVars, TypeOK, FlagsOK, PlacesOK, SetupInv
  <2>4. FinishInv'
    BY <1>12 DEF SessionOpens, rowVars, phoneVars, TypeOK, FlagsOK, PlacesOK, SetupInv, FinishInv
  <2>5. RecordInv'
    BY <1>12 DEF SessionOpens, rowVars, phoneVars, TypeOK, FlagsOK, PlacesOK, SetupInv,
      FinishInv, RecordInv
  <2>6. AnswerInv'
    BY <1>12 DEF SessionOpens, rowVars, phoneVars, TypeOK, FlagsOK, PlacesOK, SetupInv,
      FinishInv, AnswerInv, AnswerKept
  <2> QED
    BY <2>1, <2>2, <2>3, <2>4, <2>5, <2>6 DEF TypeOK
<1>13. CASE SessionFails
  <2>1. FlagsOK'
    BY <1>13 DEF SessionFails, Finalize, CloseSession, rowVars, phoneVars, TypeOK, FlagsOK
  <2>2. PlacesOK'
    BY <1>13 DEF SessionFails, Finalize, CloseSession, rowVars, phoneVars, TypeOK, PlacesOK
  <2>3. SetupInv'
    BY <1>13 DEF SessionFails, Finalize, CloseSession, rowVars, phoneVars, TypeOK, FlagsOK,
      PlacesOK, SetupInv
  <2>4. FinishInv'
    BY <1>13 DEF SessionFails, Finalize, CloseSession, rowVars, phoneVars, TypeOK, FlagsOK,
      PlacesOK, SetupInv, FinishInv
  <2>5. RecordInv'
    BY <1>13 DEF SessionFails, Finalize, CloseSession, rowVars, phoneVars, TypeOK, FlagsOK,
      PlacesOK, SetupInv, FinishInv, RecordInv
  <2>6. AnswerInv'
    BY <1>13 DEF SessionFails, Finalize, CloseSession, rowVars, phoneVars, TypeOK, FlagsOK,
      PlacesOK, SetupInv, FinishInv, AnswerInv, AnswerKept
  <2> QED
    BY <2>1, <2>2, <2>3, <2>4, <2>5, <2>6 DEF TypeOK
<1>14. CASE SessionCloses
  BY <1>14 DEF SessionCloses, bridgeVars, rowVars, phoneVars, TypeOK, FlagsOK, PlacesOK,
    SetupInv, FinishInv, RecordInv, AnswerInv, AnswerKept
<1>15. CASE ToolEndsCall
  <2>1. FlagsOK'
    BY <1>15 DEF ToolEndsCall, Finalize, CloseSession, rowVars, phoneVars, TypeOK, FlagsOK
  <2>2. PlacesOK'
    BY <1>15 DEF ToolEndsCall, Finalize, CloseSession, rowVars, phoneVars, TypeOK, PlacesOK
  <2>3. SetupInv'
    BY <1>15 DEF ToolEndsCall, Finalize, CloseSession, rowVars, phoneVars, TypeOK, FlagsOK,
      PlacesOK, SetupInv
  <2>4. FinishInv'
    BY <1>15 DEF ToolEndsCall, Finalize, CloseSession, rowVars, phoneVars, TypeOK, FlagsOK,
      PlacesOK, SetupInv, FinishInv
  <2>5. RecordInv'
    BY <1>15 DEF ToolEndsCall, Finalize, CloseSession, rowVars, phoneVars, TypeOK, FlagsOK,
      PlacesOK, SetupInv, FinishInv, RecordInv
  <2>6. AnswerInv'
    BY <1>15 DEF ToolEndsCall, Finalize, CloseSession, rowVars, phoneVars, TypeOK, FlagsOK,
      PlacesOK, SetupInv, FinishInv, AnswerInv, AnswerKept
  <2> QED
    BY <2>1, <2>2, <2>3, <2>4, <2>5, <2>6 DEF TypeOK
<1>16. ASSUME NEW f \in Finishers, PersistRow(f) PROVE IInv'
  <2>1. FlagsOK'
    BY <1>16 DEF PersistRow, WriteRow, lineVars, phoneVars, TypeOK, FlagsOK
  <2>2. PlacesOK'
    BY <1>16 DEF PersistRow, WriteRow, lineVars, phoneVars, TypeOK, PlacesOK
  <2>3. SetupInv'
    BY <1>16 DEF PersistRow, WriteRow, lineVars, phoneVars, TypeOK, FlagsOK, PlacesOK, SetupInv
  <2>4. FinishInv'
    BY <1>16 DEF PersistRow, WriteRow, lineVars, phoneVars, TypeOK, FlagsOK, PlacesOK,
      SetupInv, FinishInv
  <2>5. RecordInv'
    BY <1>16 DEF PersistRow, WriteRow, lineVars, phoneVars, TypeOK, FlagsOK, PlacesOK,
      SetupInv, FinishInv, RecordInv
  <2>6. AnswerInv'
    BY <1>16 DEF PersistRow, WriteRow, lineVars, phoneVars, TypeOK, FlagsOK, PlacesOK,
      SetupInv, FinishInv, AnswerInv, AnswerKept
  <2> QED
    BY <2>1, <2>2, <2>3, <2>4, <2>5, <2>6 DEF TypeOK
<1>17. ASSUME NEW f \in Finishers, Resolve(f) PROVE IInv'
  BY <1>17 DEF Resolve, lineVars, rowVars, phoneVars, TypeOK, FlagsOK, PlacesOK, SetupInv,
    FinishInv, RecordInv, AnswerInv, AnswerKept
<1>18. CASE SignalAnswer
  BY <1>18 DEF SignalAnswer, StartConversation, rowVars, TypeOK, FlagsOK, PlacesOK, SetupInv,
    FinishInv, RecordInv, AnswerInv, AnswerKept
<1>19. CASE HangUpCustomer
  BY <1>19 DEF HangUpCustomer, bridgeVars, lineVars, rowVars, TypeOK, FlagsOK, PlacesOK,
    SetupInv, FinishInv, RecordInv, AnswerInv, AnswerKept
<1>20. CASE DropMedia
  BY <1>20 DEF DropMedia, bridgeVars, lineVars, rowVars, TypeOK, FlagsOK, PlacesOK, SetupInv,
    FinishInv, RecordInv, AnswerInv, AnswerKept
<1>21. CASE CustomerRings
  BY <1>21 DEF CustomerRings, bridgeVars, lineVars, rowVars, TypeOK, FlagsOK, PlacesOK,
    SetupInv, FinishInv, RecordInv, AnswerInv, AnswerKept
<1>22. CASE CustomerAnswers
  BY <1>22 DEF CustomerAnswers, bridgeVars, lineVars, rowVars, TypeOK, FlagsOK, PlacesOK,
    SetupInv, FinishInv, RecordInv, AnswerInv, AnswerKept
<1>23. CASE CustomerGone
  BY <1>23 DEF CustomerGone, EndCall, bridgeVars, lineVars, rowVars, TypeOK, FlagsOK, PlacesOK,
    SetupInv, FinishInv, RecordInv, AnswerInv, AnswerKept
<1>24. CASE ConnectMedia
  <2>1. FlagsOK'
    BY <1>24 DEF ConnectMedia, EndCall, bridgeVars, lineVars, rowVars, TypeOK, FlagsOK
  <2>2. PlacesOK'
    <3>1. media' \in {"open", "closed"} /\ dropping' \subseteq {"customer", "media"}
      BY <1>24 DEF ConnectMedia, EndCall, TypeOK, PlacesOK
    <3> QED
      BY <1>24, <3>1 DEF ConnectMedia, bridgeVars, lineVars, rowVars, TypeOK, PlacesOK
  <2>3. SetupInv'
    BY <1>24 DEF ConnectMedia, EndCall, bridgeVars, lineVars, rowVars, TypeOK, FlagsOK,
      PlacesOK, SetupInv
  <2>4. FinishInv'
    BY <1>24 DEF ConnectMedia, EndCall, bridgeVars, lineVars, rowVars, TypeOK, FlagsOK,
      PlacesOK, SetupInv, FinishInv
  <2>5. RecordInv'
    BY <1>24 DEF ConnectMedia, EndCall, bridgeVars, lineVars, rowVars, TypeOK, FlagsOK,
      PlacesOK, SetupInv, FinishInv, RecordInv
  <2>6. AnswerInv'
    BY <1>24 DEF ConnectMedia, EndCall, bridgeVars, lineVars, rowVars, TypeOK, FlagsOK,
      PlacesOK, SetupInv, FinishInv, AnswerInv, AnswerKept
  <2> QED
    BY <2>1, <2>2, <2>3, <2>4, <2>5, <2>6 DEF TypeOK
<1>25. CASE CloseMedia
  <2>1. FlagsOK'
    BY <1>25 DEF CloseMedia, EndBridge, Finalize, Unfinalized, CloseSession, EndCall, lineVars,
      rowVars, TypeOK, FlagsOK
  <2>2. PlacesOK'
    BY <1>25 DEF CloseMedia, EndBridge, Finalize, Unfinalized, CloseSession, EndCall, lineVars,
      rowVars, TypeOK, PlacesOK
  <2>3. SetupInv'
    BY <1>25 DEF CloseMedia, EndBridge, Finalize, Unfinalized, CloseSession, EndCall, lineVars,
      rowVars, TypeOK, FlagsOK, PlacesOK, SetupInv
  <2>4. FinishInv'
    BY <1>25 DEF CloseMedia, EndBridge, Finalize, Unfinalized, CloseSession, EndCall, lineVars,
      rowVars, TypeOK, FlagsOK, PlacesOK, SetupInv, FinishInv
  <2>5. RecordInv'
    BY <1>25 DEF CloseMedia, EndBridge, Finalize, Unfinalized, CloseSession, EndCall, lineVars,
      rowVars, TypeOK, FlagsOK, PlacesOK, SetupInv, FinishInv, RecordInv
  <2>6. AnswerInv'
    BY <1>25 DEF CloseMedia, EndBridge, Finalize, Unfinalized, CloseSession, EndCall, lineVars,
      rowVars, TypeOK, FlagsOK, PlacesOK, SetupInv, FinishInv, AnswerInv, AnswerKept
  <2> QED
    BY <2>1, <2>2, <2>3, <2>4, <2>5, <2>6 DEF TypeOK
<1>26. CASE OwnerThrows
  BY <1>26 DEF OwnerThrows, bridgeVars, lineVars, rowVars, phoneVars, TypeOK, FlagsOK, PlacesOK,
    SetupInv, FinishInv, RecordInv, AnswerInv, AnswerKept
<1>27. CASE UNCHANGED vars
  BY <1>27 DEF vars, bridgeVars, lineVars, rowVars, phoneVars, TypeOK, FlagsOK, PlacesOK,
    SetupInv, FinishInv, RecordInv,
    AnswerInv, AnswerKept
<1> QED
  BY <1>1, <1>2, <1>3, <1>4, <1>5, <1>6, <1>7, <1>8, <1>9, <1>10, <1>11, <1>12, <1>13, <1>14,
    <1>15, <1>16, <1>17, <1>18, <1>19, <1>20, <1>21, <1>22, <1>23, <1>24, <1>25, <1>26, <1>27
  DEF Next, OwnerStep, SetupStep, SessionStep, FinishStep, GatewayStep, PhoneStep

(* The inductive invariant holds of every reachable state.                 *)
THEOREM Invariance == Spec => []IInv
BY InitIInv, IInvStep, PTL DEF Spec

(* The type invariant of the bridge, its owner, the session, the row and   *)
(* the telephone.                                                          *)
THEOREM BridgeTypeCorrect == Spec => []TypeOK
<1>1. IInv => TypeOK
  BY DEF IInv
<1> QED
  BY <1>1, Invariance, PTL

(* The agent speaks only to somebody who has picked up.                    *)
THEOREM NobodySpeaksEarly == Spec => []SpeaksAfterAnswer
<1>1. IInv => SpeaksAfterAnswer
  BY DEF IInv, AnswerInv, SpeaksAfterAnswer
<1> QED
  BY <1>1, Invariance, PTL

(* An answer given while the session connects waits for it, or dies with   *)
(* the bridge.                                                             *)
THEOREM AnswersAreKept == Spec => []AnswerKept
<1>1. IInv => AnswerKept
  BY DEF IInv, AnswerInv
<1> QED
  BY <1>1, Invariance, PTL

(* What an end can leave behind, and where the media socket must have      *)
(* closed for it: a bridge finalized before its set-up was over goes on    *)
(* with it.                                                                *)
LeftoverInv ==
  /\ owner \in {"register", "dial"} => media = "none"
  /\ talking => setup = "over"
  /\ cut # "no" => media = "closed" /\ finalized
  /\ finalized /\ setup = "idle" => owner = "done" \/ cut = "idle"
  /\ finalized /\ setup = "lookup" => cut \in {"idle", "lookup"}
  /\ EndLeavesNothing

LEMMA LeftoverInit == Init => LeftoverInv
  BY DEF Init, LeftoverInv, EndLeavesNothing, Finishers

LEMMA LeftoverStep == IInv /\ LeftoverInv /\ [Next]_vars => LeftoverInv'
<1> SUFFICES ASSUME TypeOK, SetupInv, LeftoverInv, [Next]_vars PROVE LeftoverInv'
  BY DEF IInv
<1> USE DEF LeftoverInv, EndLeavesNothing, SetupInv, TypeOK, PlacesOK, Finishers
<1>1. CASE Register \/ DialMedia \/ DialCustomer \/ DialFails \/ InboundDialFails
  <2>1. CASE Register
    BY <2>1 DEF Register, lineVars, phoneVars
  <2>2. CASE DialMedia
    BY <2>2 DEF DialMedia, bridgeVars, lineVars
  <2>3. CASE DialCustomer \/ DialFails \/ InboundDialFails
    BY <2>3 DEF DialCustomer, DialFails, InboundDialFails, bridgeVars, lineVars
  <2> QED
    BY <1>1, <2>1, <2>2, <2>3
<1>2. CASE RecordDialFailure
  BY <1>2 DEF RecordDialFailure, EndBridge, Finalize, Unfinalized, CloseSession, lineVars, phoneVars
<1>3. CASE StartOutbound \/ StartInbound
  BY <1>3 DEF StartOutbound, StartInbound, Start, lineVars, phoneVars
<1>4. CASE OwnerThrows \/ OwnerResumes
  BY <1>4 DEF OwnerThrows, OwnerResumes, bridgeVars, lineVars, phoneVars
<1>5. CASE SetupFails
  BY <1>5 DEF SetupFails, Finalize, CloseSession, phoneVars
<1>6. CASE OpenSession
  BY <1>6 DEF OpenSession, phoneVars
<1>7. CASE SessionOpens
  BY <1>7 DEF SessionOpens, phoneVars
<1>8. CASE SessionFails
  BY <1>8 DEF SessionFails, Finalize, CloseSession, phoneVars
<1>9. CASE SessionCloses
  BY <1>9 DEF SessionCloses, bridgeVars, phoneVars
<1>10. CASE ToolEndsCall
  BY <1>10 DEF ToolEndsCall, Finalize, CloseSession, phoneVars
<1>11. CASE \E f \in Finishers : PersistRow(f) \/ Resolve(f)
  BY <1>11 DEF PersistRow, Resolve, lineVars, phoneVars
<1>12. CASE SignalAnswer
  BY <1>12 DEF SignalAnswer, StartConversation
<1>13. CASE HangUpCustomer \/ DropMedia \/ CustomerRings \/ CustomerAnswers \/ CustomerGone
  BY <1>13 DEF HangUpCustomer, DropMedia, CustomerRings, CustomerAnswers, CustomerGone,
    bridgeVars, lineVars
<1>14. CASE ConnectMedia
  BY <1>14 DEF ConnectMedia, bridgeVars, lineVars
<1>15. CASE CloseMedia
  BY <1>15 DEF CloseMedia, EndBridge, Finalize, Unfinalized, CloseSession, lineVars
<1>16. CASE UNCHANGED vars
  BY <1>16 DEF vars, bridgeVars, lineVars, phoneVars
<1> QED
  BY <1>1, <1>2, <1>3, <1>4, <1>5, <1>6, <1>7, <1>8, <1>9, <1>10, <1>11, <1>12, <1>13, <1>14,
    <1>15, <1>16
  DEF Next, OwnerStep, SetupStep, SessionStep, FinishStep, GatewayStep, PhoneStep

(* An ended bridge has no session, no entry in the registry and nobody     *)
(* waiting for it, but for what a media socket that closed before the end  *)
(* of the set-up left behind.                                              *)
THEOREM EndsLeaveNothing == Spec => []EndLeavesNothing
<1>1. LeftoverInv => EndLeavesNothing
  BY DEF LeftoverInv
<1> QED
  BY <1>1, LeftoverInit, LeftoverStep, Invariance, PTL DEF Spec

(* What start() reports is what the calls row says, once a call has been   *)
(* finalized in the state machine and no update was lost.                  *)
THEOREM OutcomesAgree == Spec => []ReportMatchesRow
<1>1. IInv => ReportMatchesRow
  <2> SUFFICES ASSUME IInv, state = "finalized", promise = "resolved", ~lost
               PROVE  row = report /\ (rowFailed <=> report = "failed")
    BY DEF ReportMatchesRow
  <2>1. PICK f \in Finishers : Running(f)
    BY DEF IInv, FinishInv
  <2>2. closing[f] = "done" /\ (failed <=> f = "fail")
    BY <2>1 DEF IInv, FinishInv, RecordInv, Finishers
  <2> QED
    BY <2>2 DEF IInv, RecordInv
<1> QED
  BY <1>1, Invariance, PTL

-----------------------------------------------------------------------------
(* The gateway's channels                                                  *)

(* A customer's channel has come to be.                                    *)
Exists(ch) == ch \in Customers => ast[ch] # "none"
(* It is gone, or the gateway let go of it.                                *)
LetGo(ch)  == ch \in left \/ ast[ch] = "gone"
(* A cleanup is going to ask for it.                                       *)
Swept(ch)  == \E s \in sweeps : ~s.sent /\ Head(s.todo) = ch
(* An event is on its way.                                                 *)
Coming(e)  == \E k \in DOMAIN events : events[k] = e
(* What the record says of a call that is over.                            *)
Bad(r)     == r.status \in {"failed", "ended"}

(* What cleanups, inbound tasks and events are made of.                    *)
Sweep == [call: Calls, sent: BOOLEAN,
          todo: {<<Media(c)>> : c \in Calls}
                  \cup {<<x, Media(c)>> : x \in Customers, c \in Calls}]
Task  == [stage: {"none", "route", "row", "bridge", "add", "live", "over"},
          ch: Customers \cup {None}]
AnEvent == [type: {"StasisStart", "end"}, ch: Channels]
             \cup [type: {"Ringing", "Up"}, ch: Customers]

(* Each table keeps to its kind of value.                                  *)
TablesOK ==
  /\ chan \in [Channels -> Calls \cup {None}]
  /\ ast \in [Channels -> {"none", "ringing", "up", "gone"}]
  /\ left \subseteq Customers
  /\ trouble \in 0 .. MaxTrouble
  /\ order \in Seq(Calls)
  /\ dial \in [Out -> {"none", "bridge", "customer", "answer", "over"}]
  /\ sockets \in [Calls -> {"none", "started", "closed"}]
  /\ mixing \in [Calls -> {"none", "up", "gone"}]
  /\ online \in BOOLEAN

(* Records, objects, cleanups, events and tasks name channels that have    *)
(* come to be.                                                             *)
RecordsOK ==
  /\ rec \in [Calls -> Record \cup {None}]
  /\ \A c \in Calls : rec[c] # None => Exists(rec[c].cust)

(* An object held across a request is of a registered call; held as the    *)
(* stored one, it is the stored one.                                       *)
HoldOK(h) ==
  /\ h \in Hold
  /\ rec[h.call] # None
  /\ h.cur => h.snap = rec[h.call]
  /\ h.who = "inbound" => h.snap.status = "connected"
  /\ Exists(h.snap.cust)

HoldsOK == \A h \in holds : HoldOK(h)

(* What a cleanup has asked for has gone, or the request failed.           *)
SweepOK(s) ==
  /\ s \in Sweep
  /\ Exists(Head(s.todo))
  /\ s.sent /\ Head(s.todo) \in Customers => LetGo(Head(s.todo))

SweepsOK == \A s \in sweeps : SweepOK(s)

(* An event is about a channel that has come to be.                        *)
EventsOK ==
  /\ events \in Seq(AnEvent)
  /\ \A k \in DOMAIN events : Exists(events[k].ch)

(* So is an inbound task.                                                  *)
TasksOK ==
  /\ inb \in [In -> Task]
  /\ \A i \in In : Exists(inb[i].ch) /\ (inb[i].stage # "none" => inb[i].ch \in Customers)

(* A registry names calls that have a record; one that has not begun has   *)
(* none.                                                                   *)
RegisteredInv ==
  /\ \A k \in DOMAIN order : rec[order[k]] # None
  /\ \A ch \in Channels : chan[ch] # None => rec[chan[ch]] # None
  /\ \A o \in Out : dial[o] = "none" => rec[o] = None
  /\ \A i \in In : inb[i].stage \in {"none", "route", "row"} => rec[i] = None
  /\ \A c \in Calls : sockets[c] # "none" => rec[c] # None

(* A handler between two requests holds the object it made.                *)
HandlerInv ==
  /\ \A o \in Out : dial[o] \in {"bridge", "customer", "answer"} =>
       \E h \in holds : h.who = "dial" /\ h.call = o
  /\ \A i \in In : inb[i].stage \in {"bridge", "add", "live"} =>
       \E h \in holds : h.who = "inbound" /\ h.call = i

(* initiateCall maps the channel it is about to dial.                      *)
AheadInv == \A o \in Out :
  /\ dial[o] \in {"none", "bridge", "customer"} => ast[Customer(o)] = "none"
  /\ dial[o] \in {"bridge", "customer"} => chan[Customer(o)] = o

(* A customer's channel mapped to a call that is over has been let go of,  *)
(* or a cleanup is going to ask for it.                                    *)
MappedInv == \A ch \in Customers :
  chan[ch] # None /\ Bad(rec[chan[ch]]) => LetGo(ch) \/ Swept(ch)

(* One that is mapped to no call was let go of, or has yet to be announced *)
(* or routed.                                                              *)
LooseInv ==
  /\ \A ch \in Customers : Alive(ch) /\ chan[ch] = None =>
       \/ ch \in left
       \/ Coming(Event("StasisStart", ch))
       \/ \E i \in In : inb[i].ch = ch /\ inb[i].stage \in {"route", "row"}
  /\ \A i \in In : inb[i].stage \in {"bridge", "add"} /\ chan[inb[i].ch] = None =>
       LetGo(inb[i].ch)

(* The inductive invariant.                                                *)
GatewayInv == /\ TablesOK /\ RecordsOK /\ HoldsOK /\ SweepsOK /\ EventsOK /\ TasksOK
              /\ RegisteredInv /\ HandlerInv /\ AheadInv /\ MappedInv /\ LooseInv

(* Calls, channels and None are told apart.                                *)
LEMMA Names ==
  /\ None \notin Calls /\ None \notin Channels /\ None \notin Customers
  /\ Out \subseteq Calls /\ In \subseteq Calls /\ Customers \subseteq Channels
  /\ \A c \in Calls : /\ Customer(c) \in Customers
                      /\ Media(c) \in Channels /\ Media(c) \notin Customers
  /\ \A ch \in Channels : ch \in Customers \/ \E c \in Calls : ch = Media(c)
<1>1. \A c \in Calls : Customer(c) \in Customers /\ Media(c) \in Channels
  BY DEF Customers, Channels
<1>2. \A c, d : Customer(d) # Media(c)
  BY DEF Customer, Media
<1>3. \A c \in Calls : Media(c) \notin Customers
  BY <1>2 DEF Customers
<1> QED
  BY <1>1, <1>3, GatewayAssumption DEF Calls, Customers, Channels

(* A set of positions has a first one.                                     *)
LEMMA Least ==
  ASSUME NEW S \in SUBSET Nat, S # {}
  PROVE  \E k \in S : \A j \in S : k <= j
<1> DEFINE R == OpToRel(<, Nat)
<1>1. IsWellFoundedOn(R, Nat)
  BY NatLessThanWellFounded
<1>2. \A x, y \in Nat : y < x => <<y, x>> \in R
  BY DEF OpToRel
<1> HIDE DEF R
<1>3. PICK k \in S : \A y \in S : <<y, k>> \notin R
  BY <1>1, WFMin
<1>4. \A j \in S : ~(j < k)
  BY <1>2, <1>3
<1>5. \A j \in S : k <= j
  BY <1>4
<1> QED
  BY <1>5

(* The call that an event is about.                                        *)
LEMMA CallOfIs ==
  ASSUME TablesOK, RegisteredInv, NEW ch \in Channels
  PROVE  \/ CallOf(ch) = None /\ chan[ch] = None
         \/ /\ CallOf(ch) \in Calls /\ CallOf(ch) # None /\ rec[CallOf(ch)] # None
            /\ \/ chan[ch] = CallOf(ch)
               \/ chan[ch] = None /\ ch \in Customers /\ ~Bad(rec[CallOf(ch)])
<1>1. CASE chan[ch] # None
  BY <1>1, Names DEF CallOf, TablesOK, RegisteredInv
<1>2. CASE chan[ch] = None /\ ch \notin Customers
  BY <1>2 DEF CallOf
<1>3. CASE chan[ch] = None /\ ch \in Customers
  <2> DEFINE able == {k \in DOMAIN order : MayOwn(order[k], ch)}
  <2>1. CASE able = {}
    BY <1>3, <2>1 DEF CallOf, CallForCustomerChannel
  <2>2. CASE able # {}
    <3>1. able \in SUBSET Nat
      BY DEF TablesOK
    <3>2. \E k \in able : \A j \in able : k <= j
      BY <2>2, <3>1, Least
    <3>3. PICK k \in able : CallOf(ch) = order[k]
      BY <1>3, <2>2, <3>2 DEF CallOf, CallForCustomerChannel
    <3>4. order[k] \in Calls /\ rec[order[k]] # None /\ ~Bad(rec[order[k]])
      BY <3>3 DEF TablesOK, RegisteredInv, MayOwn, Bad
    <3> QED
      BY <1>3, <3>3, <3>4, Names
  <2> QED
    BY <2>1, <2>2
<1> QED
  BY <1>1, <1>2, <1>3

(* Channels come to be, go, and stay gone.                                 *)
Onward ==
  /\ \A ch \in Customers : ast[ch] # "none" => ast'[ch] # "none"
  /\ \A ch \in Customers : ast[ch] = "gone" => ast'[ch] = "gone"
  /\ left \subseteq left'

(* A socket is opened only for a registered call.                          *)
SocketsNamed == \A c \in Calls : sockets'[c] # "none" => rec[c] # None

(* No customer's channel comes to be.                                      *)
FreshKept == \A ch \in Customers : ast[ch] = "none" => ast'[ch] = "none"

(* Such steps keep what exists and what was let go of.                     *)
LEMMA OnwardKeeps ==
  ASSUME Onward
  PROVE  /\ \A ch : Exists(ch) => Exists(ch)'
         /\ \A ch \in Customers : LetGo(ch) => LetGo(ch)'
BY DEF Onward, Exists, LetGo

(* What handlers hold once call c is stored again, as r, with ch for its   *)
(* customer if that is not None.                                           *)
LEMMA OutdatedOK ==
  ASSUME RecordsOK, HoldsOK, Onward, NEW c \in Calls, NEW r \in Record,
         rec' = [rec EXCEPT ![c] = r],
         NEW ch \in Customers \cup {None}, Exists(ch)'
  PROVE  /\ \A h \in Outdated(c, ch) : HoldOK(h)' /\ (h.call = c => ~h.cur)
         /\ \A h \in holds : \E g \in Outdated(c, ch) : g.who = h.who /\ g.call = h.call
         /\ \A g \in Outdated(c, ch) : \E h \in holds : g.who = h.who /\ g.call = h.call
<1> DEFINE New(h) == IF h.call # c THEN h
                     ELSE [h EXCEPT !.cur = FALSE,
                             !.snap.cust = IF h.cur /\ ch # None THEN ch ELSE @]
<1>1. Outdated(c, ch) = {New(h) : h \in holds}
  BY DEF Outdated
<1>2. ASSUME NEW h \in holds
      PROVE  /\ New(h).who = h.who /\ New(h).call = h.call
             /\ HoldOK(New(h))' /\ (New(h).call = c => ~New(h).cur)
  <2>1. HoldOK(h)
    BY DEF HoldsOK
  <2>2. CASE h.call # c
    <3>1. New(h) = h
      BY <2>2
    <3>2. h \in Hold /\ rec'[h.call] = rec[h.call] /\ rec[h.call] # None
      BY <2>1, <2>2 DEF HoldOK, Hold, RecordsOK
    <3>3. Exists(h.snap.cust)'
      BY <2>1, OnwardKeeps DEF HoldOK
    <3> QED
      BY <2>1, <2>2, <3>1, <3>2, <3>3 DEF HoldOK
  <2>3. CASE h.call = c
    <3> DEFINE x == IF h.cur /\ ch # None THEN ch ELSE h.snap.cust
               g == [h EXCEPT !.cur = FALSE, !.snap = [h.snap EXCEPT !.cust = x]]
    <3>1. New(h) = g
      BY <2>1, <2>3 DEF HoldOK, Hold
    <3>2. h \in Hold /\ h.snap \in Record
      BY <2>1 DEF HoldOK, Hold
    <3>3. x \in Customers \cup {None}
      BY <3>2 DEF Record
    <3>4. [h.snap EXCEPT !.cust = x] \in Record
      BY <3>2, <3>3 DEF Record
    <3>5. /\ g \in Hold /\ g.who = h.who /\ g.call = h.call /\ ~g.cur
          /\ g.snap = [h.snap EXCEPT !.cust = x]
      BY <3>2, <3>4 DEF Hold
    <3>6. g.snap.status = h.snap.status /\ g.snap.cust = x
      BY <3>2, <3>5 DEF Record
    <3>7. Exists(h.snap.cust)'
      BY <2>1, OnwardKeeps DEF HoldOK
    <3>8. rec'[c] # None
      BY NoneIsNoRecord DEF RecordsOK
    <3>9. HoldOK(g)'
      BY <2>1, <2>3, <3>5, <3>6, <3>7, <3>8 DEF HoldOK
    <3> HIDE DEF g
    <3> QED
      BY <3>1, <3>5, <3>9
  <2> QED
    BY <2>2, <2>3
<1> HIDE DEF New
<1> QED
  BY <1>1, <1>2

(* The object that a handler of an addChannel request holds.               *)
LEMMA AddOK ==
  ASSUME NEW c \in Calls, NEW r \in Record, NEW ch \in Channels,
         rec'[c] = r, Exists(r.cust)'
  PROVE  \A h \in AddOf(c, r, ch) : HoldOK(h)' /\ h.who = "add" /\ h.call = c
<1> DEFINE h == [who |-> "add", call |-> c, ch |-> ch, mine |-> IsCustomer(r, ch),
                 snap |-> r, cur |-> TRUE]
<1>1. h \in Hold
  BY DEF IsCustomer, Hold
<1>2. HoldOK(h)'
  BY <1>1, NoneIsNoRecord DEF HoldOK
<1>3. h.who = "add" /\ h.call = c
  OBVIOUS
<1>4. \A g \in AddOf(c, r, ch) : g = h
  BY DEF AddOf
<1> HIDE DEF h
<1> QED
  BY <1>2, <1>3, <1>4

(* Objects held across a step that stores none of their records.           *)
LEMMA HoldsStay ==
  ASSUME HoldsOK, Onward, UNCHANGED rec
  PROVE  \A h \in holds : HoldOK(h)'
BY OnwardKeeps DEF HoldsOK, HoldOK

(* Events join the queue at its end.                                       *)
LEMMA Emitted ==
  ASSUME EventsOK, NEW es \in Seq(AnEvent), Emit(es), Onward,
         \A k \in DOMAIN es : Exists(es[k].ch)'
  PROVE  /\ EventsOK'
         /\ \A e : Coming(e) => Coming(e)'
         /\ online => \A k \in DOMAIN es : Coming(es[k])'
<1>0. \A k \in DOMAIN events : \A ch : ch = events[k].ch => Exists(ch)'
  BY OnwardKeeps DEF EventsOK
<1>1. CASE online
  <2>1. events' = events \o es /\ events \in Seq(AnEvent)
    BY <1>1 DEF Emit, EventsOK
  <2>2. events' \in Seq(AnEvent) /\ Len(events') = Len(events) + Len(es)
    BY <2>1
  <2>3. \A k \in DOMAIN events : k \in DOMAIN events' /\ events'[k] = events[k]
    BY <2>1, <2>2
  <2>4. \A k \in DOMAIN es : /\ Len(events) + k \in DOMAIN events'
                             /\ events'[Len(events) + k] = es[k]
    BY <2>1, <2>2
  <2>5. \A k \in DOMAIN events' : \/ k \in DOMAIN events
                                  \/ \E j \in DOMAIN es : events'[k] = es[j]
    BY <2>1, <2>2
  <2>6. ASSUME NEW k \in DOMAIN events', NEW ch, ch = events'[k].ch
        PROVE  Exists(ch)'
    BY <1>0, <2>3, <2>5, <2>6
  <2>7. (\A k \in DOMAIN events : Exists(events[k].ch))'
    BY <2>6
  <2> QED
    BY <2>2, <2>3, <2>4, <2>7 DEF EventsOK, Coming
<1>2. CASE ~online
  <2>1. events' = events
    BY <1>2 DEF Emit
  <2>2. (\A k \in DOMAIN events : Exists(events[k].ch))'
    BY <1>0, <2>1
  <2> QED
    BY <1>2, <2>1, <2>2 DEF EventsOK, Coming
<1> QED
  BY <1>1, <1>2

(* Nothing is said of sockets by a step that leaves them alone.            *)
LEMMA SocketsStay ==
  ASSUME RegisteredInv, UNCHANGED sockets
  PROVE  SocketsNamed
BY DEF RegisteredInv, SocketsNamed

(* What a step leaves alone stays as it should be.                         *)
LEMMA Stays ==
  ASSUME GatewayInv, Onward
  PROVE  /\ UNCHANGED rec => RecordsOK'
         /\ UNCHANGED <<rec, holds>> => HoldsOK'
         /\ UNCHANGED sweeps => SweepsOK'
         /\ UNCHANGED events => EventsOK'
         /\ UNCHANGED inb => TasksOK'
         /\ UNCHANGED <<order, chan, rec, dial, inb>> /\ SocketsNamed => RegisteredInv'
         /\ UNCHANGED <<dial, inb, holds>> => HandlerInv'
<1>1. UNCHANGED rec => RecordsOK'
  BY OnwardKeeps DEF GatewayInv, RecordsOK
<1>2. UNCHANGED <<rec, holds>> => HoldsOK'
  BY HoldsStay DEF GatewayInv, HoldsOK
<1>3. UNCHANGED sweeps => SweepsOK'
  BY OnwardKeeps DEF GatewayInv, SweepsOK, SweepOK
<1>4. UNCHANGED events => EventsOK'
  BY OnwardKeeps DEF GatewayInv, EventsOK
<1>5. UNCHANGED inb => TasksOK'
  BY OnwardKeeps DEF GatewayInv, TasksOK
<1>6. UNCHANGED <<order, chan, rec, dial, inb>> /\ SocketsNamed => RegisteredInv'
  BY DEF GatewayInv, RegisteredInv, SocketsNamed
<1>7. UNCHANGED <<dial, inb, holds>> => HandlerInv'
  BY DEF GatewayInv, HandlerInv
<1> QED
  BY <1>1, <1>2, <1>3, <1>4, <1>5, <1>6, <1>7

(* A channel dialled ahead stays mapped and unborn.                        *)
LEMMA AheadStays ==
  ASSUME AheadInv, UNCHANGED dial, TablesOK, FreshKept,
         \A o \in Out : dial[o] \in {"bridge", "customer"} => chan'[Customer(o)] = o
  PROVE  AheadInv'
BY Names DEF AheadInv, FreshKept

(* A step that maps no other channel keeps what is said of mapped ones, if *)
(* a call that is over was so before, or its channels are taken care of.   *)
LEMMA MappedStays ==
  ASSUME TablesOK, RegisteredInv, MappedInv, Onward, UNCHANGED chan,
         \A ch \in Customers : Swept(ch) => Swept(ch)' \/ LetGo(ch)',
         \A c \in Calls : \/ Bad(rec'[c]) => Bad(rec[c])
                          \/ \A ch \in Customers : chan[ch] = c => LetGo(ch)' \/ Swept(ch)'
  PROVE  MappedInv'
<1> SUFFICES ASSUME NEW ch \in Customers, chan'[ch] # None, Bad(rec'[chan'[ch]])
             PROVE  LetGo(ch)' \/ Swept(ch)'
  BY DEF MappedInv
<1>1. chan[ch] \in Calls /\ chan'[ch] = chan[ch] /\ rec[chan[ch]] # None
  BY Names DEF TablesOK, RegisteredInv
<1>2. LetGo(ch) => LetGo(ch)'
  BY OnwardKeeps
<1> QED
  BY <1>1, <1>2 DEF MappedInv

(* A step that starts no channel and moves no inbound task keeps what is   *)
(* said of unmapped channels.                                              *)
LEMMA LooseStays ==
  ASSUME TasksOK, LooseInv, Onward, UNCHANGED inb,
         \A ch \in Customers : chan'[ch] = None => chan[ch] = None \/ LetGo(ch)',
         \A ch \in Customers : Alive(ch)' => Alive(ch),
         \A ch \in Customers : chan'[ch] = None /\ Coming(Event("StasisStart", ch)) =>
           ch \in left' \/ Coming(Event("StasisStart", ch))'
  PROVE  LooseInv'
<1>1. \A ch \in Customers : Alive(ch)' /\ chan'[ch] = None =>
       \/ ch \in left'
       \/ Coming(Event("StasisStart", ch))'
       \/ \E i \in In : inb'[i].ch = ch /\ inb'[i].stage \in {"route", "row"}
  BY DEF LooseInv, Onward, LetGo, Alive
<1>2. ASSUME NEW i \in In, NEW ch, ch = inb'[i].ch,
             inb'[i].stage \in {"bridge", "add"}, chan'[ch] = None
      PROVE  LetGo(ch)'
  <2>1. ch \in Customers
    BY <1>2 DEF TasksOK
  <2>2. CASE LetGo(ch)'
    BY <2>2
  <2>3. CASE chan[ch] = None
    <3>1. LetGo(ch)
      BY <1>2, <2>3 DEF LooseInv
    <3> QED
      BY <2>1, <3>1, OnwardKeeps
  <2> QED
    BY <1>2, <2>1, <2>2, <2>3
<1>3. (\A i \in In : inb[i].stage \in {"bridge", "add"} /\ chan[inb[i].ch] = None =>
        LetGo(inb[i].ch))'
  BY <1>2
<1>4. (\A ch \in Customers : Alive(ch) /\ chan[ch] = None =>
       \/ ch \in left
       \/ Coming(Event("StasisStart", ch))
       \/ \E i \in In : inb[i].ch = ch /\ inb[i].stage \in {"route", "row"})'
  BY <1>1
<1> QED
  BY <1>3, <1>4 DEF LooseInv

(* A record takes the place of another.                                    *)
LEMMA RecordStored ==
  ASSUME RecordsOK, RegisteredInv, TablesOK, Onward, NEW c \in Calls, NEW r \in Record,
         Exists(r.cust)', rec' = [rec EXCEPT ![c] = r]
  PROVE  /\ RecordsOK' /\ rec'[c] = r
         /\ rec[c] # None /\ UNCHANGED <<order, chan, dial, inb>> /\ SocketsNamed =>
              RegisteredInv'
<1>1. r # None
  BY NoneIsNoRecord
<1> QED
  BY <1>1, OnwardKeeps, Names DEF RecordsOK, RegisteredInv, TablesOK, SocketsNamed

(* Handlers keep their objects when no object but an addChannel request's  *)
(* is let go of.                                                           *)
LEMMA HandlersStay ==
  ASSUME HandlerInv, UNCHANGED <<dial, inb>>,
         \A h \in holds : h.who # "add" => \E g \in holds' : g.who = h.who /\ g.call = h.call
  PROVE  HandlerInv'
BY DEF HandlerInv

(* Faults stay within their bound.                                         *)
LEMMA Counted ==
  ASSUME TablesOK, Trouble
  PROVE  trouble' \in 0 .. MaxTrouble
BY GatewayAssumption DEF TablesOK, Trouble

-----------------------------------------------------------------------------
(* Asterisk                                                                *)

(* The call-ending events of a channel.                                    *)
LEMMA EndsAre ==
  ASSUME NEW ch \in Channels
  PROVE  Ends(ch) \in Seq(AnEvent) /\ \A k \in DOMAIN Ends(ch) : Ends(ch)[k] = Event("end", ch)
<1>1. Event("end", ch) \in AnEvent
  BY DEF Event, AnEvent
<1>2. (IF ch \in Customers THEN EndEvents ELSE 1) \in Nat
  BY GatewayAssumption
<1> QED
  BY <1>1, <1>2 DEF Ends

(* The two sections of a record's life that Asterisk does not touch.       *)
LEMMA PbxStays ==
  ASSUME GatewayInv, Onward, UNCHANGED <<rec, holds, sweeps, order, chan, tasks>>
  PROVE  /\ RecordsOK' /\ HoldsOK' /\ SweepsOK' /\ TasksOK' /\ RegisteredInv'
         /\ HandlerInv' /\ MappedInv'
<1>1. MappedInv'
  <2>1. \A ch : Swept(ch) => Swept(ch)'
    BY DEF Swept
  <2> QED
    BY <2>1, MappedStays DEF GatewayInv
<1> QED
  BY <1>1, Stays, SocketsStay DEF tasks, GatewayInv

(* The customer picks up.                                                  *)
LEMMA PicksUpOK ==
  ASSUME GatewayInv, NEW ch \in Customers, PicksUp(ch)
  PROVE  GatewayInv'
<1> DEFINE es == <<Event("Up", ch), Event("StasisStart", ch)>>
<1>1. ch \in Channels /\ ast[ch] = "ringing" /\ ast' = [ast EXCEPT ![ch] = "up"]
      /\ left \subseteq left' /\ left' \subseteq left \cup Customers
  BY Names DEF PicksUp, Lost, About
<1>2. Onward /\ FreshKept
  BY <1>1, Names DEF GatewayInv, TablesOK, Onward, FreshKept
<1>3. es \in Seq(AnEvent) /\ \A k \in DOMAIN es : es[k].ch = ch
  BY <1>1 DEF Event, AnEvent
<1>4. EventsOK' /\ \A e : Coming(e) => Coming(e)'
  <2>1. Exists(ch)'
    BY <1>1 DEF Exists, GatewayInv, TablesOK
  <2> QED
    BY <1>2, <1>3, <2>1, Emitted DEF PicksUp, GatewayInv
<1>5. TablesOK'
  BY <1>1 DEF PicksUp, GatewayInv, TablesOK, tasks
<1>6. LooseInv'
  <2>1. \A x \in Customers : Alive(x)' => Alive(x)
    BY <1>1 DEF Alive, GatewayInv, TablesOK
  <2> QED
    BY <1>2, <1>4, <2>1, LooseStays DEF PicksUp, GatewayInv, tasks
<1>7. AheadInv'
  BY <1>2, AheadStays DEF PicksUp, GatewayInv, AheadInv, tasks
<1> QED
  BY <1>2, <1>4, <1>5, <1>6, <1>7, PbxStays DEF GatewayInv, PicksUp

(* The customer hangs up.                                                  *)
LEMMA HangsUpOK ==
  ASSUME GatewayInv, NEW ch \in Customers, HangsUp(ch)
  PROVE  GatewayInv'
<1>1. ch \in Channels /\ Alive(ch) /\ ast' = [ast EXCEPT ![ch] = "gone"] /\ left' = left
  BY Names DEF HangsUp
<1>2. Onward /\ FreshKept
  BY <1>1, Names DEF GatewayInv, TablesOK, Onward, FreshKept, Alive
<1>3. EventsOK' /\ \A e : Coming(e) => Coming(e)'
  <2>1. Exists(ch)'
    BY <1>1 DEF Exists, GatewayInv, TablesOK
  <2>2. \A k \in DOMAIN Ends(ch) : Exists(Ends(ch)[k].ch)'
    BY <1>1, <2>1, EndsAre DEF Event
  <2> QED
    BY <1>1, <1>2, <2>2, Emitted, EndsAre DEF HangsUp, GatewayInv
<1>4. TablesOK'
  BY <1>1, Counted DEF HangsUp, GatewayInv, TablesOK, tasks
<1>5. LooseInv'
  <2>1. \A x \in Customers : Alive(x)' => Alive(x)
    BY <1>1 DEF Alive, GatewayInv, TablesOK
  <2> QED
    BY <1>2, <1>3, <2>1, LooseStays DEF HangsUp, GatewayInv, tasks
<1>6. AheadInv'
  BY <1>2, AheadStays DEF HangsUp, GatewayInv, AheadInv, tasks
<1> QED
  BY <1>2, <1>3, <1>4, <1>5, <1>6, PbxStays DEF GatewayInv, HangsUp

(* A caller's channel comes to be, and its announcement with it or the     *)
(* loss of it.                                                             *)
LEMMA CallerRingsOK ==
  ASSUME GatewayInv, NEW i \in In, CallerRings(i)
  PROVE  GatewayInv'
<1> DEFINE ch == Customer(i)
           e  == Event("StasisStart", ch)
<1>1. ch \in Channels /\ ch \in Customers /\ ast[ch] = "none"
      /\ ast' = [ast EXCEPT ![ch] = "ringing"] /\ Emit(<<e>>)
      /\ left' = left \cup Lost(<<e>>)
      /\ UNCHANGED <<rec, order, chan, holds, sweeps, tasks, mixing, online, trouble>>
  BY Names DEF CallerRings
<1>2. e \in AnEvent /\ e.ch = ch /\ <<e>> \in Seq(AnEvent)
      /\ DOMAIN <<e>> = {1} /\ <<e>>[1] = e
  BY <1>1 DEF Event, AnEvent
<1> HIDE DEF e
<1>3. left \subseteq left' /\ left' \subseteq left \cup Customers
  BY <1>1 DEF Lost, About
<1>4. Onward
  BY <1>1, <1>3, Names DEF GatewayInv, TablesOK, Onward
<1>5. EventsOK' /\ (\A x : Coming(x) => Coming(x)') /\ (online => Coming(e)')
  <2>1. Exists(ch)'
    BY <1>1 DEF Exists, GatewayInv, TablesOK
  <2>2. \A k \in DOMAIN <<e>> : Exists(<<e>>[k].ch)'
    BY <1>2, <2>1
  <2> QED
    BY <1>1, <1>2, <1>4, <2>2, Emitted DEF GatewayInv
<1>6. TablesOK'
  BY <1>1, <1>3 DEF GatewayInv, TablesOK, tasks
<1>7. ~online => ch \in left'
  BY <1>1, <1>2 DEF Lost, About
<1>8. LooseInv'
  <2>1. ASSUME NEW x \in Customers, Alive(x)', chan'[x] = None
        PROVE  \/ x \in left'
               \/ Coming(Event("StasisStart", x))'
               \/ \E j \in In : inb'[j].ch = x /\ inb'[j].stage \in {"route", "row"}
    <3>1. CASE x = ch
      BY <1>5, <1>7, <3>1 DEF GatewayInv, TablesOK, e
    <3>2. CASE x # ch
      <4>1. Alive(x) /\ chan[x] = None
        BY <1>1, <2>1, <3>2 DEF Alive, GatewayInv, TablesOK
      <4> QED
        BY <1>1, <1>3, <1>5, <4>1 DEF GatewayInv, LooseInv, tasks
    <3> QED
      BY <3>1, <3>2
  <2>2. ASSUME NEW j \in In, NEW x, x = inb'[j].ch,
               inb'[j].stage \in {"bridge", "add"}, chan'[x] = None
        PROVE  LetGo(x)'
    <3>1. x \in Customers /\ LetGo(x)
      BY <1>1, <2>2 DEF GatewayInv, TasksOK, LooseInv, tasks
    <3> QED
      BY <1>4, <3>1, OnwardKeeps
  <2>3. (\A j \in In : inb[j].stage \in {"bridge", "add"} /\ chan[inb[j].ch] = None =>
           LetGo(inb[j].ch))'
    BY <2>2
  <2>4. (\A x \in Customers : Alive(x) /\ chan[x] = None =>
          \/ x \in left
          \/ Coming(Event("StasisStart", x))
          \/ \E j \in In : inb[j].ch = x /\ inb[j].stage \in {"route", "row"})'
    BY <2>1
  <2> QED
    BY <2>3, <2>4 DEF LooseInv
<1>9. AheadInv'
  <2>1. \A o \in Out : Customer(o) # ch
    BY GatewayAssumption DEF Customer
  <2>2. \A o \in Out : ast'[Customer(o)] = ast[Customer(o)]
    BY <1>1, <2>1, Names DEF GatewayInv, TablesOK
  <2> QED
    BY <1>1, <2>2 DEF GatewayInv, AheadInv, tasks
<1> QED
  BY <1>1, <1>4, <1>5, <1>6, <1>8, <1>9, PbxStays DEF GatewayInv

(* The event socket closes with what it had not delivered.                 *)
LEMMA SocketClosesOK ==
  ASSUME GatewayInv, SocketCloses
  PROVE  GatewayInv'
<1>1. left' = left \cup About(events) /\ About(events) \subseteq Customers
      /\ UNCHANGED <<rec, order, chan, holds, sweeps, tasks, ast, mixing>>
  BY DEF SocketCloses, About
<1>2. Onward /\ FreshKept
  BY <1>1 DEF Onward, FreshKept
<1>3. EventsOK'
  BY DEF SocketCloses, EventsOK
<1>4. TablesOK'
  BY <1>1, Counted DEF SocketCloses, GatewayInv, TablesOK, tasks
<1>5. LooseInv'
  <2>1. \A x \in Customers : Alive(x)' => Alive(x)
    BY <1>1 DEF Alive
  <2>2. \A x \in Customers : Coming(Event("StasisStart", x)) => x \in left'
    BY <1>1 DEF Coming, About, Event
  <2> QED
    BY <1>1, <1>2, <2>1, <2>2, LooseStays DEF GatewayInv, tasks
<1>6. AheadInv'
  BY <1>1, <1>2, AheadStays DEF GatewayInv, AheadInv, tasks
<1> QED
  BY <1>1, <1>2, <1>3, <1>4, <1>5, <1>6, PbxStays DEF GatewayInv

(* The event socket is opened again.                                       *)
LEMMA ReconnectsOK ==
  ASSUME GatewayInv, Reconnects
  PROVE  GatewayInv'
<1>1. UNCHANGED <<rec, order, chan, holds, sweeps, tasks, ast, mixing, events, trouble, left>>
      /\ online' = TRUE
  BY DEF Reconnects
<1>2. Onward /\ FreshKept
  BY <1>1 DEF Onward, FreshKept
<1>3. TablesOK'
  BY <1>1 DEF GatewayInv, TablesOK, tasks
<1>4. LooseInv'
  BY <1>1, <1>2, LooseStays DEF GatewayInv, tasks, Alive, Coming
<1>5. AheadInv'
  BY <1>1, <1>2, AheadStays DEF GatewayInv, AheadInv, tasks
<1> QED
  BY <1>1, <1>2, <1>3, <1>4, <1>5, PbxStays, Stays DEF GatewayInv

-----------------------------------------------------------------------------
(* The end of a call                                                       *)

(* A cleanup begins with the customer channel its record names.            *)
LEMMA SweepIs ==
  ASSUME NEW c \in Calls, NEW r \in Record
  PROVE  /\ SweepOf(c, r) \in Sweep
         /\ ~SweepOf(c, r).sent
         /\ r.cust # None => Head(SweepOf(c, r).todo) = r.cust
         /\ Head(SweepOf(c, r).todo) \in Customers => Head(SweepOf(c, r).todo) = r.cust
<1>1. r.cust \in Customers \cup {None}
  BY DEF Record
<1>2. CASE r.cust = None
  <2>1. SweepOf(c, r) = [call |-> c, sent |-> FALSE, todo |-> <<Media(c)>>]
    BY <1>2 DEF SweepOf
  <2> QED
    BY <1>2, <2>1, Names DEF Sweep
<1>3. CASE r.cust # None
  <2>1. SweepOf(c, r) = [call |-> c, sent |-> FALSE, todo |-> <<r.cust, Media(c)>>]
    BY <1>3 DEF SweepOf
  <2> QED
    BY <1>1, <1>3, <2>1, Names DEF Sweep
<1> QED
  BY <1>2, <1>3

(* A cleanup joins the others.                                             *)
LEMMA SweepAdded ==
  ASSUME SweepsOK, Onward, NEW c \in Calls, NEW r \in Record, Exists(r.cust)',
         sweeps' = sweeps \cup {SweepOf(c, r)}
  PROVE  /\ SweepsOK'
         /\ \A ch \in Customers : Swept(ch) => Swept(ch)'
         /\ \A ch \in Customers : ch = r.cust => Swept(ch)'
<1> DEFINE n == SweepOf(c, r)
<1>1. SweepOK(n)'
  BY SweepIs DEF SweepOK, Exists
<1>2. \A s \in sweeps : SweepOK(s)'
  BY OnwardKeeps DEF SweepsOK, SweepOK
<1>3. \A ch \in Customers : ch = r.cust => ~n.sent /\ Head(n.todo) = ch
  BY SweepIs, Names
<1> HIDE DEF n
<1>4. sweeps' = sweeps \cup {n}
  BY DEF n
<1> QED
  BY <1>1, <1>2, <1>3, <1>4 DEF SweepsOK, Swept

(* Every channel of the call is asked for or let go.                       *)
LEMMA StoreAndSweepOK ==
  ASSUME GatewayInv, Onward, NEW c \in Calls, rec[c] # None, NEW r \in Record,
         Exists(r.cust)', StoreAndSweep(c, r), UNCHANGED chan
  PROVE  RecordsOK' /\ rec' = [rec EXCEPT ![c] = r] /\ SweepsOK' /\ MappedInv'
<1>1. rec' = [rec EXCEPT ![c] = r] /\ sweeps' = sweeps \cup {SweepOf(c, r)}
      /\ left' = left \cup Forgotten(c, r)
  BY DEF StoreAndSweep
<1>2. RecordsOK'
  BY <1>1, RecordStored DEF GatewayInv
<1>3. /\ SweepsOK'
      /\ \A ch \in Customers : Swept(ch) => Swept(ch)'
      /\ \A ch \in Customers : ch = r.cust => Swept(ch)'
  BY <1>1, SweepAdded DEF GatewayInv
<1>4. \A ch \in Customers : chan[ch] = c => LetGo(ch)' \/ Swept(ch)'
  BY <1>1, <1>3 DEF Forgotten, LetGo
<1>5. \A d \in Calls : d # c => rec'[d] = rec[d]
  BY <1>1 DEF GatewayInv, RecordsOK
<1>6. MappedInv'
  BY <1>3, <1>4, <1>5, MappedStays DEF GatewayInv
<1> QED
  BY <1>1, <1>2, <1>3, <1>6

(* What endCall and failCall do, whatever happens to media channels.       *)
LEMMA OverOK ==
  ASSUME GatewayInv, NEW c \in Calls, EndsCall(c) \/ FailCall(c),
         UNCHANGED <<order, chan, dial, inb>>, SocketsNamed,
         \A x \in Customers : ast'[x] = ast[x]
  PROVE  /\ Onward /\ FreshKept /\ left' \subseteq Customers
         /\ RecordsOK' /\ HoldsOK' /\ SweepsOK' /\ TasksOK' /\ RegisteredInv' /\ HandlerInv'
         /\ MappedInv' /\ AheadInv'
<1> USE DEF GatewayInv
<1>0. AheadInv' /\ FreshKept
  BY Names DEF AheadInv, FreshKept
<1>1. CASE UNCHANGED <<rec, holds, sweeps, left>>
  <2>1. Onward /\ left' \subseteq Customers
    BY <1>1 DEF Onward, TablesOK
  <2>2. MappedInv'
    BY <1>1, <2>1, MappedStays DEF Swept
  <2> QED
    BY <1>0, <1>1, <2>1, <2>2, Stays
<1>2. CASE ~UNCHANGED <<rec, holds, sweeps, left>>
  <2>1. PICK st \in Statuses :
          /\ rec[c] # None
          /\ StoreAndSweep(c, [rec[c] EXCEPT !.status = st])
          /\ holds' = Outdated(c, None)
    BY <1>2 DEF EndsCall, FailCall, Statuses
  <2>2. PICK r \in Record : r = [rec[c] EXCEPT !.status = st] /\ r.cust = rec[c].cust
    BY <2>1 DEF RecordsOK, Record
  <2>3. Onward /\ left' \subseteq Customers
    BY <2>1 DEF Onward, StoreAndSweep, Forgotten, TablesOK
  <2>4. Exists(r.cust)'
    BY <2>1, <2>2, <2>3, OnwardKeeps DEF RecordsOK
  <2>5. RecordsOK' /\ rec' = [rec EXCEPT ![c] = r] /\ SweepsOK' /\ MappedInv'
    BY <2>1, <2>2, <2>3, <2>4, StoreAndSweepOK
  <2>6. Exists(None)'
    BY Names DEF Exists
  <2>7. /\ \A h \in Outdated(c, None) : HoldOK(h)'
        /\ \A h \in holds : \E g \in Outdated(c, None) : g.who = h.who /\ g.call = h.call
    BY <2>2, <2>3, <2>5, <2>6, OutdatedOK
  <2>8. HoldsOK' /\ HandlerInv'
    BY <2>1, <2>7, HandlersStay DEF HoldsOK
  <2>9. RegisteredInv'
    BY <2>1, <2>2, <2>3, <2>4, <2>5, RecordStored
  <2> QED
    BY <1>0, <2>3, <2>5, <2>8, <2>9, Stays
<1> QED
  BY <1>1, <1>2

(* The worker or the dashboard ends a call.                                *)
LEMMA DeleteCallOK ==
  ASSUME GatewayInv, NEW c \in Calls, DeleteCall(c)
  PROVE  GatewayInv'
<1>1. EndsCall(c) /\ UNCHANGED <<order, chan, tasks, pbx>> /\ Trouble
  BY DEF DeleteCall
<1>2. /\ Onward /\ FreshKept /\ left' \subseteq Customers
      /\ RecordsOK' /\ HoldsOK' /\ SweepsOK' /\ TasksOK' /\ RegisteredInv' /\ HandlerInv'
      /\ MappedInv' /\ AheadInv'
  BY <1>1, OverOK, SocketsStay DEF tasks, pbx, GatewayInv
<1>3. TablesOK' /\ EventsOK'
  BY <1>1, <1>2, Counted, Stays DEF GatewayInv, TablesOK, tasks, pbx
<1>4. LooseInv'
  BY <1>1, <1>2, LooseStays DEF GatewayInv, Alive, Coming, tasks, pbx
<1> QED
  BY <1>2, <1>3, <1>4 DEF GatewayInv

-----------------------------------------------------------------------------
(* The media socket                                                        *)

(* A record stored by a step that maps no channel and starts no cleanup.   *)
LEMMA StoreOK ==
  ASSUME GatewayInv, NEW c \in Calls, rec[c] # None, NEW r \in Record,
         ~Bad(r) \/ r.status = rec[c].status, Exists(r.cust), Store(c, r),
         UNCHANGED <<order, chan, sweeps, dial, inb, left>>, SocketsNamed,
         \A x \in Customers : ast'[x] = ast[x]
  PROVE  /\ Onward /\ RecordsOK' /\ HoldsOK' /\ SweepsOK' /\ TasksOK' /\ RegisteredInv'
         /\ HandlerInv' /\ MappedInv' /\ AheadInv'
<1> USE DEF GatewayInv
<1>0. Onward /\ AheadInv'
  BY Names DEF Onward, AheadInv
<1>1. rec' = [rec EXCEPT ![c] = r] /\ holds' = Outdated(c, None)
  BY DEF Store
<1>2. Exists(r.cust)' /\ Exists(None)'
  BY <1>0, OnwardKeeps, Names DEF Exists
<1>3. RecordsOK' /\ RegisteredInv'
  BY <1>0, <1>1, <1>2, RecordStored
<1>4. /\ \A h \in Outdated(c, None) : HoldOK(h)'
      /\ \A h \in holds : \E g \in Outdated(c, None) : g.who = h.who /\ g.call = h.call
  BY <1>0, <1>1, <1>2, OutdatedOK
<1>5. HoldsOK' /\ HandlerInv'
  BY <1>1, <1>4, HandlersStay DEF HoldsOK
<1>6. MappedInv'
  <2>1. \A d \in Calls : Bad(rec'[d]) => Bad(rec[d])
    BY <1>1 DEF RecordsOK, Bad
  <2>2. \A ch : Swept(ch) => Swept(ch)'
    BY DEF Swept
  <2> QED
    BY <1>0, <2>1, <2>2, MappedStays
<1> QED
  BY <1>0, <1>3, <1>5, <1>6, Stays

(* The media socket starts.                                                *)
LEMMA MediaStartsOK ==
  ASSUME GatewayInv, NEW c \in Calls, MediaStarts(c)
  PROVE  GatewayInv'
<1>1. /\ rec[c] # None /\ sockets' = [sockets EXCEPT ![c] = "started"]
      /\ Store(c, [rec[c] EXCEPT !.status = "media_connected"])
      /\ UNCHANGED <<order, chan, sweeps, dial, inb, pbx, trouble, left>>
  BY DEF MediaStarts
<1>2. PICK r \in Record : /\ r = [rec[c] EXCEPT !.status = "media_connected"]
                          /\ r.cust = rec[c].cust /\ ~Bad(r)
  BY <1>1 DEF GatewayInv, RecordsOK, Record, Statuses, Bad
<1>3. Exists(r.cust) /\ SocketsNamed
  BY <1>1, <1>2 DEF GatewayInv, TablesOK, RecordsOK, RegisteredInv, SocketsNamed
<1>4. /\ Onward /\ RecordsOK' /\ HoldsOK' /\ SweepsOK' /\ TasksOK' /\ RegisteredInv'
      /\ HandlerInv' /\ MappedInv' /\ AheadInv'
  BY <1>1, <1>2, <1>3, StoreOK DEF pbx
<1>5. TablesOK' /\ EventsOK'
  BY <1>1, <1>4, Stays DEF GatewayInv, TablesOK, pbx
<1>6. LooseInv'
  BY <1>1, <1>4, LooseStays DEF GatewayInv, Alive, Coming, pbx
<1> QED
  BY <1>4, <1>5, <1>6 DEF GatewayInv

(* The media socket fails.                                                 *)
LEMMA MediaErrsOK ==
  ASSUME GatewayInv, NEW c \in Calls, MediaErrs(c)
  PROVE  GatewayInv'
<1>1. FailCall(c) /\ UNCHANGED <<order, chan, tasks, pbx>> /\ Trouble
  BY DEF MediaErrs
<1>2. /\ Onward /\ FreshKept /\ left' \subseteq Customers
      /\ RecordsOK' /\ HoldsOK' /\ SweepsOK' /\ TasksOK' /\ RegisteredInv' /\ HandlerInv'
      /\ MappedInv' /\ AheadInv'
  BY <1>1, OverOK, SocketsStay DEF tasks, pbx, GatewayInv
<1>3. TablesOK' /\ EventsOK'
  BY <1>1, <1>2, Counted, Stays DEF GatewayInv, TablesOK, tasks, pbx
<1>4. LooseInv'
  BY <1>1, <1>2, LooseStays DEF GatewayInv, Alive, Coming, tasks, pbx
<1> QED
  BY <1>2, <1>3, <1>4 DEF GatewayInv

(* A media channel goes, with its event, or nothing happens to Asterisk.   *)
MediaGoes(c) ==
  IF Alive(Media(c))
  THEN ast' = [ast EXCEPT ![Media(c)] = "gone"] /\ Emit(Ends(Media(c)))
  ELSE UNCHANGED <<ast, events>>

(* Customers' channels are not touched by it.                              *)
LEMMA MediaGone ==
  ASSUME GatewayInv, NEW c \in Calls, MediaGoes(c)
  PROVE  /\ \A x \in Customers : ast'[x] = ast[x]
         /\ ast' \in [Channels -> {"none", "ringing", "up", "gone"}]
         /\ Onward => EventsOK' /\ \A e : Coming(e) => Coming(e)'
<1>1. CASE Alive(Media(c))
  <2>1. ast' = [ast EXCEPT ![Media(c)] = "gone"] /\ Emit(Ends(Media(c)))
    BY <1>1 DEF MediaGoes
  <2>2. ASSUME Onward
        PROVE  EventsOK' /\ \A e : Coming(e) => Coming(e)'
    <3>1. Exists(Media(c))'
      BY Names DEF Exists
    <3>2. \A k \in DOMAIN Ends(Media(c)) : Exists(Ends(Media(c))[k].ch)'
      BY <3>1, Names, EndsAre DEF Event
    <3> QED
      BY <2>1, <2>2, <3>2, Names, EndsAre, Emitted DEF GatewayInv
  <2> QED
    BY <2>1, <2>2, Names DEF GatewayInv, TablesOK
<1>2. CASE ~Alive(Media(c))
  BY <1>2, Stays DEF MediaGoes, GatewayInv, TablesOK, Coming
<1> QED
  BY <1>1, <1>2

(* The media socket closes.                                                *)
LEMMA MediaClosesOK ==
  ASSUME GatewayInv, NEW c \in Calls, MediaCloses(c)
  PROVE  GatewayInv'
<1>1. /\ sockets' = [sockets EXCEPT ![c] = "closed"]
      /\ trouble' \in 0 .. MaxTrouble
      /\ MediaGoes(c) /\ UNCHANGED <<order, chan, dial, inb, mixing, online>>
      /\ rec[c] # None /\ SocketsNamed
  BY Counted DEF MediaCloses, MediaGoes, GatewayInv, TablesOK, RegisteredInv, SocketsNamed
<1>2. /\ \A x \in Customers : ast'[x] = ast[x]
      /\ ast' \in [Channels -> {"none", "ringing", "up", "gone"}]
      /\ Onward => EventsOK' /\ \A e : Coming(e) => Coming(e)'
  BY <1>1, MediaGone
<1>3. /\ Onward /\ left' \subseteq Customers
      /\ RecordsOK' /\ HoldsOK' /\ SweepsOK' /\ TasksOK' /\ RegisteredInv' /\ HandlerInv'
      /\ MappedInv' /\ AheadInv'
  <2>1. CASE rec[c].status = "ended"
    <3>1. Store(c, rec[c]) /\ UNCHANGED <<sweeps, left>>
      BY <2>1 DEF MediaCloses
    <3>2. PICK r \in Record : r = rec[c]
      BY <1>1 DEF GatewayInv, RecordsOK
    <3>3. Exists(r.cust)
      BY <1>1, <3>2 DEF GatewayInv, RecordsOK
    <3> QED
      BY <1>1, <1>2, <2>1, <3>1, <3>2, <3>3, StoreOK DEF GatewayInv, TablesOK
  <2>2. CASE rec[c].status # "ended"
    <3>1. EndsCall(c)
      BY <2>2 DEF MediaCloses, EndsCall
    <3> QED
      BY <1>1, <1>2, <3>1, OverOK
  <2> QED
    BY <2>1, <2>2
<1>4. TablesOK' /\ EventsOK'
  BY <1>1, <1>2, <1>3 DEF GatewayInv, TablesOK
<1>5. LooseInv'
  BY <1>1, <1>2, <1>3, LooseStays DEF GatewayInv, Alive
<1> QED
  BY <1>3, <1>4, <1>5 DEF GatewayInv

-----------------------------------------------------------------------------
(* The ARI event handler                                                   *)

(* The first event leaves the queue.                                       *)
LEMMA Delivered ==
  ASSUME EventsOK, events # <<>>, NEW e, e = Head(events), events' = Tail(events)
  PROVE  /\ e \in AnEvent /\ Exists(e.ch)
         /\ Onward => EventsOK'
         /\ \A x : x # e /\ Coming(x) => Coming(x)'
<1>1. 1 \in DOMAIN events /\ e = events[1] /\ events \in Seq(AnEvent)
  BY DEF EventsOK
<1>2. \A k \in DOMAIN events :
        k = 1 \/ (k - 1 \in DOMAIN events' /\ events'[k - 1] = events[k])
  BY <1>1
<1>3. ASSUME Onward, NEW k \in DOMAIN events', NEW ch, ch = events'[k].ch
      PROVE  Exists(ch)'
  <2>1. k + 1 \in DOMAIN events /\ events'[k] = events[k + 1]
    BY <1>1, <1>3
  <2> QED
    BY <1>3, <2>1, OnwardKeeps DEF EventsOK
<1>4. Onward => (\A k \in DOMAIN events : Exists(events[k].ch))'
  BY <1>3
<1>5. events' \in Seq(AnEvent) /\ e \in AnEvent
  BY <1>1
<1>6. Exists(e.ch)
  BY <1>1 DEF EventsOK
<1>7. Onward => EventsOK'
  BY <1>4, <1>5 DEF EventsOK
<1>8. ASSUME NEW x, x # e, Coming(x)
      PROVE  Coming(x)'
  BY <1>1, <1>2, <1>8 DEF Coming
<1> QED
  BY <1>5, <1>6, <1>7, <1>8

(* A channel takes the place of the one a call has.                        *)
LEMMA AttachOK ==
  ASSUME GatewayInv, NEW c \in Calls, rec[c] # None, NEW ch \in Customers, Exists(ch),
         NEW r \in Record, r.cust = ch, rec' = [rec EXCEPT ![c] = r],
         ~Bad(r) \/ (r.status = rec[c].status /\ chan[ch] = c), AttachCustomer(c, ch),
         NEW A, \A h \in A : HoldOK(h)', holds' = Outdated(c, ch) \cup A,
         UNCHANGED <<order, sweeps, dial, inb, sockets, ast>>
  PROVE  /\ Onward /\ RecordsOK' /\ HoldsOK' /\ SweepsOK' /\ TasksOK' /\ RegisteredInv'
         /\ HandlerInv' /\ MappedInv' /\ AheadInv'
         /\ chan' \in [Channels -> Calls \cup {None}] /\ left' \subseteq Customers
         /\ \A x \in Customers : chan'[x] = None => x # ch /\ (chan[x] = None \/ x \in left')
<1> USE DEF GatewayInv
<1> DEFINE old == rec[c].cust
           out == IF old \in {None, ch} THEN {} ELSE {old}
<1>1. /\ chan' = [x \in Channels |->
                    IF x = ch THEN c ELSE IF x \in out THEN None ELSE chan[x]]
      /\ left' = left \cup out
  BY DEF AttachCustomer
<1>2. out \subseteq Customers /\ \A x \in out : Exists(x)
  BY DEF RecordsOK, Record
<1> HIDE DEF out
<1>3. Onward /\ Exists(ch)'
  BY <1>1 DEF Onward, Exists
<1>4. chan' \in [Channels -> Calls \cup {None}] /\ left' \subseteq Customers
  BY <1>1, <1>2 DEF TablesOK
<1>5. RecordsOK'
  BY <1>3, RecordStored
<1>6. /\ \A h \in Outdated(c, ch) : HoldOK(h)'
      /\ \A h \in holds : \E g \in Outdated(c, ch) : g.who = h.who /\ g.call = h.call
  BY <1>3, OutdatedOK
<1>7. HoldsOK' /\ HandlerInv'
  BY <1>6, HandlersStay DEF HoldsOK
<1>8. SweepsOK' /\ TasksOK'
  BY <1>3, Stays
<1>9. RegisteredInv'
  <2>1. \A d \in Calls : rec[d] # None => rec'[d] # None
    BY NoneIsNoRecord DEF RecordsOK
  <2>2. \A d \in Calls : d # c => rec'[d] = rec[d]
    BY DEF RecordsOK
  <2>3. \A x \in Channels : chan'[x] # None => chan'[x] \in Calls /\ rec[chan'[x]] # None
    BY <1>1 DEF RegisteredInv, TablesOK
  <2>4. \A o \in Out : dial[o] = "none" => o # c
    BY DEF RegisteredInv
  <2>5. \A i \in In : inb[i].stage \in {"none", "route", "row"} => i # c
    BY DEF RegisteredInv
  <2>6. \A k \in DOMAIN order : order[k] \in Calls
    BY DEF TablesOK
  <2> QED
    BY <2>1, <2>2, <2>3, <2>4, <2>5, <2>6, Names DEF RegisteredInv
<1>10. AheadInv'
  BY <1>1, <1>2, Names DEF AheadInv, Exists
<1>11. MappedInv'
  <2> SUFFICES ASSUME NEW x \in Customers, chan'[x] # None, Bad(rec'[chan'[x]])
               PROVE  LetGo(x)' \/ Swept(x)'
    BY DEF MappedInv
  <2>1. chan[x] \in Calls /\ chan'[x] = chan[x] /\ Bad(rec[chan[x]])
    <3>1. CASE x = ch
      BY <1>1, <3>1, Names DEF RecordsOK, Bad
    <3>2. CASE x # ch
      <4>1. chan'[x] = chan[x] /\ chan[x] \in Calls
        BY <1>1, <3>2, Names DEF TablesOK
      <4>2. CASE chan[x] = c
        BY <4>1, <4>2 DEF RecordsOK, Bad
      <4>3. CASE chan[x] # c
        BY <4>1, <4>3 DEF RecordsOK
      <4> QED
        BY <4>1, <4>2, <4>3
    <3> QED
      BY <3>1, <3>2
  <2>2. LetGo(x) \/ Swept(x)
    BY <2>1, Names DEF MappedInv
  <2> QED
    BY <1>3, <2>2, OnwardKeeps DEF Swept
<1>12. \A x \in Customers : chan'[x] = None => x # ch /\ (chan[x] = None \/ x \in left')
  BY <1>1, Names
<1> QED
  BY <1>3, <1>4, <1>5, <1>7, <1>8, <1>9, <1>10, <1>11, <1>12

(* What any step of the handler does besides.                              *)
LEMMA DeliverRest ==
  ASSUME GatewayInv, Deliver, Onward, left' \subseteq Customers,
         chan' \in [Channels -> Calls \cup {None}]
  PROVE  TablesOK' /\ EventsOK'
<1>1. EventsOK'
  BY Delivered DEF Deliver, GatewayInv
<1> QED
  BY <1>1 DEF Deliver, GatewayInv, TablesOK

(* A channel that no call claims becomes an inbound task, is one already,  *)
(* or is let go of.                                                        *)
LEMMA StartsInboundOK ==
  ASSUME GatewayInv, Deliver, NEW ch \in Customers, CallOf(ch) = None, Exists(ch),
         Head(events) = Event("StasisStart", ch), StartsInbound(ch)
  PROVE  GatewayInv'
<1> USE DEF GatewayInv
<1>1. UNCHANGED <<rec, holds, chan, sweeps, order, dial, sockets, ast, mixing, online,
                 trouble>>
  BY DEF StartsInbound, Deliver
<1>2. left \subseteq left' /\ left' \subseteq Customers
  BY DEF StartsInbound, TablesOK
<1>3. Onward /\ FreshKept
  BY <1>1, <1>2 DEF Onward, FreshKept
<1>4. TablesOK' /\ EventsOK'
  BY <1>1, <1>2, <1>3, DeliverRest DEF TablesOK
<1>5. RecordsOK' /\ HoldsOK' /\ SweepsOK'
  BY <1>1, <1>3, Stays
<1>6. MappedInv' /\ AheadInv'
  BY <1>1, <1>3, MappedStays, AheadStays DEF Swept, AheadInv
<1>7. \A x : x # Event("StasisStart", ch) /\ Coming(x) => Coming(x)'
  BY Delivered DEF Deliver
<1>8. \A x \in Customers : x # ch => Event("StasisStart", x) # Event("StasisStart", ch)
  BY DEF Event
<1>9. CASE UNCHANGED inb
  <2>1. TasksOK' /\ RegisteredInv' /\ HandlerInv'
    BY <1>1, <1>3, <1>9, Stays, SocketsStay
  <2>2. ASSUME Alive(ch), chan[ch] = None
        PROVE  LetGo(ch)' \/ \E i \in In : inb[i].ch = ch /\ inb[i].stage \in {"route", "row"}
    <3>1. CASE ch \in InFlight
      <4>1. PICK i \in In : inb[i].ch = ch /\ inb[i].stage \notin {"none", "live", "over"}
        BY <3>1 DEF InFlight
      <4>2. CASE inb[i].stage \in {"route", "row"}
        BY <4>1, <4>2
      <4>3. CASE inb[i].stage \in {"bridge", "add"}
        BY <1>3, <2>2, <4>1, <4>3, OnwardKeeps DEF LooseInv
      <4> QED
        BY <4>1, <4>2, <4>3 DEF TasksOK, Task
    <3>2. CASE ch \notin InFlight
      <4>1. CASE {i \in In : inb[i].stage = "none"} = {}
        BY <3>2, <4>1 DEF StartsInbound, LetGo
      <4>2. CASE {i \in In : inb[i].stage = "none"} # {}
        <5>1. PICK i \in In : /\ inb[i].stage = "none"
                              /\ inb' = [inb EXCEPT ![i] = [stage |-> "route", ch |-> ch]]
          BY <3>2, <4>2 DEF StartsInbound
        <5>2. inb'[i].stage = "route"
          BY <5>1 DEF TasksOK
        <5> QED
          BY <1>9, <5>1, <5>2
      <4> QED
        BY <4>1, <4>2
    <3> QED
      BY <3>1, <3>2
  <2>3. LooseInv'
    <3>1. ASSUME NEW x \in Customers, Alive(x)', chan'[x] = None
          PROVE  \/ x \in left'
                 \/ Coming(Event("StasisStart", x))'
                 \/ \E i \in In : inb'[i].ch = x /\ inb'[i].stage \in {"route", "row"}
      <4>1. Alive(x) /\ chan[x] = None
        BY <1>1, <3>1 DEF Alive
      <4>2. CASE x = ch
        BY <1>1, <1>9, <2>2, <4>1, <4>2 DEF LetGo, Alive
      <4>3. CASE x # ch
        BY <1>2, <1>7, <1>8, <1>9, <4>1, <4>3 DEF LooseInv
      <4> QED
        BY <4>2, <4>3
    <3>2. (\A x \in Customers : Alive(x) /\ chan[x] = None =>
           \/ x \in left
           \/ Coming(Event("StasisStart", x))
           \/ \E i \in In : inb[i].ch = x /\ inb[i].stage \in {"route", "row"})'
      BY <3>1
    <3>3. (\A i \in In : inb[i].stage \in {"bridge", "add"} /\ chan[inb[i].ch] = None =>
            LetGo(inb[i].ch))'
      BY <1>1, <1>2, <1>9 DEF LooseInv, LetGo
    <3> QED
      BY <3>2, <3>3 DEF LooseInv
  <2> QED
    BY <1>4, <1>5, <1>6, <2>1, <2>3
<1>10. CASE ~UNCHANGED inb
  <2>1. PICK i \in In : /\ inb[i].stage = "none"
                        /\ inb' = [inb EXCEPT ![i] = [stage |-> "route", ch |-> ch]]
    BY <1>10 DEF StartsInbound
  <2>2. /\ inb'[i].ch = ch /\ inb'[i].stage = "route"
        /\ \A j \in In : j # i => inb'[j] = inb[j]
    BY <2>1 DEF TasksOK
  <2>3. inb' \in [In -> Task]
    BY <2>1 DEF TasksOK, Task
  <2>4. TasksOK'
    <3>1. \A j \in In : inb'[j].stage # "none" => inb'[j].ch \in Customers
      BY <2>2 DEF TasksOK
    <3>2. \A j \in In : \A x : x = inb'[j].ch => Exists(x)'
      BY <1>3, <2>2, OnwardKeeps DEF TasksOK
    <3>3. (\A j \in In : Exists(inb[j].ch))'
      BY <3>2
    <3> QED
      BY <2>3, <3>1, <3>3 DEF TasksOK
  <2>5. RegisteredInv' /\ HandlerInv'
    BY <1>1, <2>1, <2>2 DEF RegisteredInv, HandlerInv
  <2>6. LooseInv'
    <3>1. ASSUME NEW x \in Customers, Alive(x)', chan'[x] = None
          PROVE  \/ x \in left'
                 \/ Coming(Event("StasisStart", x))'
                 \/ \E j \in In : inb'[j].ch = x /\ inb'[j].stage \in {"route", "row"}
      <4>1. Alive(x) /\ chan[x] = None
        BY <1>1, <3>1 DEF Alive
      <4>2. CASE x = ch
        BY <2>2, <4>2
      <4>3. CASE x # ch
        <5>1. CASE \E j \in In : inb[j].ch = x /\ inb[j].stage \in {"route", "row"}
          <6>1. PICK j \in In : inb[j].ch = x /\ inb[j].stage \in {"route", "row"}
            BY <5>1
          <6>2. inb'[j] = inb[j]
            BY <2>1, <2>2, <6>1
          <6> QED
            BY <6>1, <6>2
        <5> QED
          BY <1>2, <1>7, <1>8, <4>1, <4>3, <5>1 DEF LooseInv
      <4> QED
        BY <4>2, <4>3
    <3>2. (\A x \in Customers : Alive(x) /\ chan[x] = None =>
           \/ x \in left
           \/ Coming(Event("StasisStart", x))
           \/ \E j \in In : inb[j].ch = x /\ inb[j].stage \in {"route", "row"})'
      BY <3>1
    <3>3. (\A j \in In : inb[j].stage \in {"bridge", "add"} /\ chan[inb[j].ch] = None =>
            LetGo(inb[j].ch))'
      BY <1>1, <1>2, <2>2 DEF LooseInv, LetGo
    <3> QED
      BY <3>2, <3>3 DEF LooseInv
  <2> QED
    BY <1>4, <1>5, <1>6, <2>4, <2>5, <2>6
<1> QED
  BY <1>9, <1>10

(* A step of the handler that starts no inbound call and does not stop     *)
(* StasisStart events of unmapped channels from coming.                    *)
LEMMA DeliverLoose ==
  ASSUME GatewayInv, Deliver, Onward, NEW e, e = Head(events), UNCHANGED inb,
         \A x \in Customers : chan'[x] = None => chan[x] = None \/ x \in left',
         e.type # "StasisStart" \/ e.ch \notin Customers \/ chan'[e.ch] # None
  PROVE  LooseInv'
<1>1. \A x \in Customers : Alive(x)' => Alive(x)
  BY DEF Deliver, Alive
<1>2. \A x \in Customers : chan'[x] = None => e # Event("StasisStart", x)
  BY DEF Event
<1>3. \A x : x # e /\ Coming(x) => Coming(x)'
  BY Delivered DEF Deliver, GatewayInv
<1>4. \A x \in Customers : chan'[x] = None /\ Coming(Event("StasisStart", x)) =>
        Coming(Event("StasisStart", x))'
  BY <1>2, <1>3
<1> QED
  BY <1>1, <1>4, LooseStays DEF GatewayInv, LetGo

(* A record with another customer channel.                                 *)
LEMMA WithCustomerIs ==
  ASSUME NEW c \in Calls, rec[c] \in Record, NEW ch \in Customers
  PROVE  /\ WithCustomer(c, ch) \in Record
         /\ WithCustomer(c, ch).cust = ch
         /\ WithCustomer(c, ch).status = rec[c].status
BY DEF WithCustomer, Record

(* A record with another status.                                           *)
LEMMA WithStatusIs ==
  ASSUME NEW r \in Record, NEW st \in Statuses
  PROVE  /\ [r EXCEPT !.status = st] \in Record
         /\ [r EXCEPT !.status = st].cust = r.cust
         /\ [r EXCEPT !.status = st].status = st
BY DEF Record

(* A channel enters the application.                                       *)
LEMMA OnStasisStartOK ==
  ASSUME GatewayInv, Deliver, NEW ch \in Channels, Exists(ch),
         Head(events) = Event("StasisStart", ch), OnStasisStart(ch)
  PROVE  GatewayInv'
<1> USE DEF GatewayInv
<1>0. Event("StasisStart", ch).type = "StasisStart" /\ Event("StasisStart", ch).ch = ch
  BY DEF Event
<1>1. CASE CallOf(ch) = None /\ ch \in Customers
  BY <1>1, StartsInboundOK DEF OnStasisStart
<1>2. CASE CallOf(ch) = None /\ ch \notin Customers
  <2>1. UNCHANGED <<rec, holds, chan, sweeps, inb, left, order, dial, sockets, ast>>
    BY <1>2 DEF OnStasisStart, Deliver
  <2>2. Onward /\ FreshKept
    BY <2>1 DEF Onward, FreshKept
  <2>3. TablesOK' /\ EventsOK'
    BY <2>1, <2>2, DeliverRest DEF TablesOK
  <2>4. LooseInv'
    BY <1>0, <1>2, <2>1, <2>2, DeliverLoose
  <2>5. MappedInv' /\ AheadInv'
    BY <2>1, <2>2, MappedStays, AheadStays DEF Swept, AheadInv
  <2> QED
    BY <2>1, <2>2, <2>3, <2>4, <2>5, Stays, SocketsStay
<1>3. CASE CallOf(ch) # None
  <2>1. PICK c \in Calls :
          /\ c = CallOf(ch) /\ rec[c] # None
          /\ \/ chan[ch] = c
             \/ chan[ch] = None /\ ch \in Customers /\ ~Bad(rec[c])
    BY <1>3, CallOfIs
  <2>2. CASE ch \notin Customers
    <3>1. /\ holds' = holds \cup AddOf(c, rec[c], ch)
          /\ UNCHANGED <<rec, chan, sweeps, inb, left, order, dial, sockets, ast>>
      BY <1>3, <2>1, <2>2 DEF OnStasisStart, Deliver
    <3>2. Onward /\ FreshKept
      BY <3>1 DEF Onward, FreshKept
    <3>3. PICK r \in Record : r = rec[c]
      BY <2>1 DEF RecordsOK
    <3>4. Exists(r.cust)'
      BY <2>1, <3>2, <3>3, OnwardKeeps DEF RecordsOK
    <3>5. \A h \in AddOf(c, r, ch) : HoldOK(h)'
      BY <3>1, <3>3, <3>4, AddOK
    <3>6. HoldsOK'
      BY <3>1, <3>2, <3>3, <3>5, HoldsStay DEF HoldsOK
    <3>7. HandlerInv'
      BY <3>1, HandlersStay
    <3>8. TablesOK' /\ EventsOK'
      BY <3>1, <3>2, DeliverRest DEF TablesOK
    <3>9. LooseInv'
      BY <1>0, <2>2, <3>1, <3>2, DeliverLoose
    <3>10. MappedInv' /\ AheadInv'
      BY <3>1, <3>2, MappedStays, AheadStays DEF Swept, AheadInv
    <3> QED
      BY <3>1, <3>2, <3>6, <3>7, <3>8, <3>9, <3>10, Stays, SocketsStay
  <2>3. CASE ch \in Customers
    <3>1. PICK r \in Record : /\ r = WithCustomer(c, ch) /\ r.cust = ch
                              /\ r.status = rec[c].status
      <4>1. rec[c] \in Record
        BY <2>1 DEF RecordsOK
      <4> QED
        BY <2>3, <4>1, WithCustomerIs
    <3>2. /\ rec' = [rec EXCEPT ![c] = r] /\ AttachCustomer(c, ch)
          /\ holds' = Outdated(c, ch) \cup AddOf(c, r, ch)
          /\ UNCHANGED <<sweeps, inb, order, dial, sockets, ast>>
      BY <1>3, <2>1, <2>3, <3>1 DEF OnStasisStart, Deliver
    <3>3. ~Bad(r) \/ (r.status = rec[c].status /\ chan[ch] = c)
      BY <2>1, <3>1 DEF Bad
    <3>4. rec'[c] = r /\ Exists(r.cust)'
      BY <3>1, <3>2 DEF RecordsOK, Exists
    <3>5. \A h \in AddOf(c, r, ch) : HoldOK(h)'
      BY <3>4, AddOK
    <3>6. PICK A : A = AddOf(c, r, ch)
      OBVIOUS
    <3>7. /\ Onward /\ RecordsOK' /\ HoldsOK' /\ SweepsOK' /\ TasksOK' /\ RegisteredInv'
          /\ HandlerInv' /\ MappedInv' /\ AheadInv'
          /\ chan' \in [Channels -> Calls \cup {None}] /\ left' \subseteq Customers
          /\ \A x \in Customers : chan'[x] = None => x # ch /\ (chan[x] = None \/ x \in left')
      BY <2>1, <2>3, <3>1, <3>2, <3>3, <3>5, <3>6, AttachOK
    <3>8. TablesOK' /\ EventsOK'
      BY <3>7, DeliverRest
    <3>9. LooseInv'
      BY <1>0, <2>3, <3>2, <3>7, DeliverLoose
    <3> QED
      BY <3>7, <3>8, <3>9
  <2> QED
    BY <2>2, <2>3
<1> QED
  BY <1>1, <1>2, <1>3

(* A channel rings or is answered.                                         *)
LEMMA OnStateChangeOK ==
  ASSUME GatewayInv, Deliver, NEW ch \in Customers, Exists(ch), NEW e,
         e = Head(events), e.type # "StasisStart",
         NEW st \in Statuses, st \notin {"failed", "ended"}, OnStateChange(ch, st)
  PROVE  GatewayInv'
<1> USE DEF GatewayInv
<1>1. UNCHANGED <<sweeps, inb, order, dial, sockets, ast>>
  BY DEF OnStateChange, Deliver
<1>2. CASE CallOf(ch) = None
  <2>1. UNCHANGED <<rec, holds, chan, left>>
    BY <1>2 DEF OnStateChange
  <2>2. Onward /\ FreshKept
    BY <1>1, <2>1 DEF Onward, FreshKept
  <2>3. TablesOK' /\ EventsOK'
    BY <2>1, <2>2, DeliverRest DEF TablesOK
  <2>4. LooseInv'
    BY <1>1, <2>1, <2>2, DeliverLoose
  <2>5. MappedInv' /\ AheadInv'
    BY <1>1, <2>1, <2>2, MappedStays, AheadStays DEF Swept, AheadInv
  <2> QED
    BY <1>1, <2>1, <2>2, <2>3, <2>4, <2>5, Stays, SocketsStay
<1>3. CASE CallOf(ch) # None
  <2>1. PICK c \in Calls : c = CallOf(ch) /\ rec[c] # None
    BY <1>3, Names, CallOfIs
  <2>2. CASE rec[c].cust = ch
    <3>1. PICK r \in Record : /\ r = [rec[c] EXCEPT !.status = st]
                              /\ r.cust = ch /\ ~Bad(r)
      <4>1. rec[c] \in Record
        BY <2>1 DEF RecordsOK
      <4>2. PICK r \in Record : r = [rec[c] EXCEPT !.status = st]
        BY <4>1, WithStatusIs
      <4>3. r.cust = ch /\ r.status = st
        BY <2>2, <4>1, <4>2, WithStatusIs
      <4>4. ~Bad(r)
        BY <4>3 DEF Bad
      <4> QED
        BY <4>2, <4>3, <4>4
    <3>2. Store(c, r) /\ UNCHANGED <<chan, left>>
      BY <1>3, <2>1, <2>2, <3>1 DEF OnStateChange
    <3>3. /\ Onward /\ RecordsOK' /\ HoldsOK' /\ SweepsOK' /\ TasksOK' /\ RegisteredInv'
          /\ HandlerInv' /\ MappedInv' /\ AheadInv'
      BY <1>1, <2>1, <3>1, <3>2, StoreOK, SocketsStay
    <3>4. TablesOK' /\ EventsOK'
      BY <3>2, <3>3, DeliverRest DEF TablesOK
    <3>5. LooseInv'
      BY <1>1, <3>2, <3>3, DeliverLoose
    <3> QED
      BY <3>3, <3>4, <3>5
  <2>3. CASE rec[c].cust # ch
    <3>1. PICK r \in Record : /\ r = [WithCustomer(c, ch) EXCEPT !.status = st]
                              /\ r.cust = ch /\ ~Bad(r)
      <4>1. PICK q \in Record : q = WithCustomer(c, ch) /\ q.cust = ch
        BY <2>1, WithCustomerIs DEF RecordsOK
      <4>2. PICK r \in Record : r = [q EXCEPT !.status = st]
        BY WithStatusIs
      <4>3. r.cust = ch /\ r.status = st
        BY <4>1, <4>2, WithStatusIs
      <4>4. ~Bad(r)
        BY <4>3 DEF Bad
      <4> QED
        BY <4>1, <4>2, <4>3, <4>4
    <3>2. /\ rec' = [rec EXCEPT ![c] = r] /\ AttachCustomer(c, ch)
          /\ holds' = Outdated(c, ch) \cup {}
      BY <1>3, <2>1, <2>3, <3>1 DEF OnStateChange
    <3>3. /\ Onward /\ RecordsOK' /\ HoldsOK' /\ SweepsOK' /\ TasksOK' /\ RegisteredInv'
          /\ HandlerInv' /\ MappedInv' /\ AheadInv'
          /\ chan' \in [Channels -> Calls \cup {None}] /\ left' \subseteq Customers
          /\ \A x \in Customers : chan'[x] = None => x # ch /\ (chan[x] = None \/ x \in left')
      <4>1. PICK A : A = {}
        OBVIOUS
      <4>2. holds' = Outdated(c, ch) \cup A /\ \A h \in A : HoldOK(h)'
        BY <3>2, <4>1
      <4> QED
        BY <1>1, <2>1, <3>1, <3>2, <4>2, AttachOK
    <3>4. TablesOK' /\ EventsOK'
      BY <3>3, DeliverRest
    <3>5. LooseInv'
      BY <1>1, <3>3, DeliverLoose
    <3> QED
      BY <3>3, <3>4, <3>5
  <2> QED
    BY <2>2, <2>3
<1> QED
  BY <1>2, <1>3

(* A channel goes.                                                         *)
LEMMA OnEndOK ==
  ASSUME GatewayInv, Deliver, NEW ch \in Channels, NEW e, e = Head(events),
         e.type # "StasisStart", OnEnd(ch)
  PROVE  GatewayInv'
<1> USE DEF GatewayInv
<1>1. UNCHANGED <<chan, inb, order, dial, sockets, ast>>
  BY DEF OnEnd, Deliver
<1>2. CASE CallOf(ch) = None
  <2>1. UNCHANGED <<rec, holds, sweeps, left>>
    BY <1>2 DEF OnEnd
  <2>2. Onward /\ FreshKept
    BY <1>1, <2>1 DEF Onward, FreshKept
  <2>3. TablesOK' /\ EventsOK'
    BY <1>1, <2>1, <2>2, DeliverRest DEF TablesOK
  <2>4. LooseInv'
    BY <1>1, <2>1, <2>2, DeliverLoose
  <2>5. MappedInv' /\ AheadInv'
    BY <1>1, <2>1, <2>2, MappedStays, AheadStays DEF Swept, AheadInv
  <2> QED
    BY <1>1, <2>1, <2>2, <2>3, <2>4, <2>5, Stays, SocketsStay
<1>3. CASE CallOf(ch) # None
  <2>1. PICK c \in Calls : c = CallOf(ch) /\ EndsCall(c)
    BY <1>3, CallOfIs DEF OnEnd
  <2>2. /\ Onward /\ FreshKept /\ left' \subseteq Customers
        /\ RecordsOK' /\ HoldsOK' /\ SweepsOK' /\ TasksOK' /\ RegisteredInv' /\ HandlerInv'
        /\ MappedInv' /\ AheadInv'
    BY <1>1, <2>1, OverOK, SocketsStay
  <2>3. TablesOK' /\ EventsOK'
    BY <1>1, <2>2, DeliverRest DEF TablesOK
  <2>4. LooseInv'
    BY <1>1, <2>2, DeliverLoose
  <2> QED
    BY <2>2, <2>3, <2>4
<1> QED
  BY <1>2, <1>3

(* The event handler keeps the invariant.                                  *)
LEMMA DeliverOK ==
  ASSUME GatewayInv, Deliver
  PROVE  GatewayInv'
<1>1. PICK e : e = Head(events)
  OBVIOUS
<1>2. e \in AnEvent /\ Exists(e.ch)
  BY <1>1, Delivered DEF Deliver, GatewayInv
<1>3. PICK ch \in Channels : e.ch = ch
  BY <1>2, Names DEF AnEvent
<1>4. CASE e.type = "StasisStart" /\ OnStasisStart(ch)
  <2>1. e = Event("StasisStart", ch)
    BY <1>2, <1>3, <1>4 DEF AnEvent, Event
  <2> QED
    BY <1>1, <1>2, <1>3, <1>4, <2>1, OnStasisStartOK
<1>5. CASE e.type = "Ringing" /\ OnStateChange(ch, "ringing")
  <2>1. ch \in Customers
    BY <1>2, <1>3, <1>5 DEF AnEvent
  <2> QED
    BY <1>1, <1>2, <1>3, <1>5, <2>1, OnStateChangeOK DEF Statuses
<1>6. CASE e.type = "Up" /\ OnStateChange(ch, "connected")
  <2>1. ch \in Customers
    BY <1>2, <1>3, <1>6 DEF AnEvent
  <2> QED
    BY <1>1, <1>2, <1>3, <1>6, <2>1, OnStateChangeOK DEF Statuses
<1>7. CASE e.type = "end" /\ OnEnd(ch)
  BY <1>1, <1>3, <1>7, OnEndOK
<1> QED
  BY <1>1, <1>3, <1>4, <1>5, <1>6, <1>7 DEF Deliver

-----------------------------------------------------------------------------
(* The answers to addChannel requests                                      *)

(* A record with another flag.                                             *)
LEMMA WithFlagIs ==
  ASSUME NEW r \in Record, NEW b \in BOOLEAN
  PROVE  /\ [r EXCEPT !.custIn = b] \in Record
         /\ [r EXCEPT !.custIn = b].cust = r.cust
         /\ [r EXCEPT !.custIn = b].status = r.status
BY DEF Record

(* The held object is stored, however old: a call that is over by it has   *)
(* its channels let go of.                                                 *)
LEMMA AddAnsweredOK ==
  ASSUME GatewayInv, NEW h \in holds, AddAnswered(h)
  PROVE  GatewayInv'
<1> USE DEF GatewayInv
<1>1. /\ UNCHANGED <<order, chan, sweeps, tasks, pbx, trouble>>
      /\ h.who = "add"
  BY DEF AddAnswered
<1>2. HoldOK(h) /\ h.call \in Calls /\ h.snap \in Record
  BY DEF HoldsOK, HoldOK, Hold
<1>3. PICK c \in Calls : c = h.call /\ rec[c] # None
  BY <1>2 DEF HoldOK
<1>4. PICK r \in Record : /\ r = [h.snap EXCEPT !.custIn = @ \/ h.mine]
                          /\ r.cust = h.snap.cust /\ r.status = h.snap.status
  <2>1. PICK b \in BOOLEAN : b = (h.snap.custIn \/ h.mine)
    OBVIOUS
  <2>2. [h.snap EXCEPT !.custIn = @ \/ h.mine] = [h.snap EXCEPT !.custIn = b]
    BY <2>1, Zenon
  <2>3. /\ [h.snap EXCEPT !.custIn = b] \in Record
        /\ [h.snap EXCEPT !.custIn = b].cust = h.snap.cust
        /\ [h.snap EXCEPT !.custIn = b].status = h.snap.status
    BY <1>2 DEF Record
  <2> QED
    BY <2>2, <2>3, Zenon
<1> DEFINE joins == mixing[h.call] = "up" /\ Alive(h.ch)
           gone  == {h, [h EXCEPT !.cur = FALSE]}
<1>5. \A g \in gone : g.who = "add"
  <2>1. h \in Hold
    BY <1>2 DEF HoldOK
  <2> QED
    BY <1>1, <2>1 DEF Hold
<1>6. CASE ~joins
  <2>1. UNCHANGED <<rec, left>> /\ holds' = holds \ gone
    BY <1>6 DEF AddAnswered
  <2> HIDE DEF gone
  <2>2. Onward /\ FreshKept
    BY <1>1, <2>1 DEF Onward, FreshKept, pbx
  <2>3. HoldsOK'
    BY <2>1, <2>2, HoldsStay DEF HoldsOK
  <2>4. HandlerInv'
    BY <1>1, <1>5, <2>1, HandlersStay DEF tasks
  <2>5. MappedInv' /\ LooseInv' /\ AheadInv'
    BY <1>1, <2>1, <2>2, MappedStays, LooseStays, AheadStays
       DEF Swept, tasks, pbx, Alive, Coming, AheadInv
  <2>6. TablesOK'
    BY <1>1, <2>1 DEF TablesOK, tasks, pbx
  <2> QED
    BY <1>1, <2>1, <2>2, <2>3, <2>4, <2>5, <2>6, Stays, SocketsStay DEF tasks, pbx
<1>7. CASE joins
  <2>1. /\ rec' = [rec EXCEPT ![c] = r]
        /\ holds' = Outdated(c, None) \ gone
        /\ left \subseteq left' /\ left' \subseteq Customers
        /\ Bad(r) => left' = left \cup {ch \in Customers : chan[ch] = c}
    BY <1>3, <1>4, <1>7 DEF AddAnswered, TablesOK, Bad
  <2> HIDE DEF gone, joins
  <2>2. Onward /\ FreshKept
    BY <1>1, <2>1 DEF Onward, FreshKept, pbx
  <2>3. Exists(r.cust)' /\ Exists(None)'
    <3>1. Exists(r.cust)
      BY <1>2, <1>4 DEF HoldOK
    <3> QED
      BY <2>2, <3>1, OnwardKeeps, Names DEF Exists
  <2>4. RecordsOK' /\ RegisteredInv'
    BY <1>1, <1>3, <2>1, <2>2, <2>3, RecordStored, SocketsStay DEF tasks
  <2>5. /\ \A g \in Outdated(c, None) : HoldOK(g)'
        /\ \A f \in holds : \E g \in Outdated(c, None) : g.who = f.who /\ g.call = f.call
    BY <2>1, <2>2, <2>3, OutdatedOK
  <2>6. HoldsOK'
    BY <2>1, <2>5 DEF HoldsOK
  <2>7. HandlerInv'
    BY <1>1, <1>5, <2>1, <2>5, HandlersStay DEF tasks
  <2>8. MappedInv'
    <3>1. \A ch : Swept(ch) => Swept(ch)'
      BY <1>1 DEF Swept
    <3>2. \A d \in Calls : d # c => rec'[d] = rec[d]
      BY <2>1 DEF RecordsOK
    <3>3. rec'[c] = r
      BY <2>1 DEF RecordsOK
    <3>4. Bad(r) => \A ch \in Customers : chan[ch] = c => LetGo(ch)'
      BY <2>1 DEF LetGo
    <3> QED
      BY <1>1, <2>2, <3>1, <3>2, <3>3, <3>4, MappedStays
  <2>9. LooseInv' /\ AheadInv'
    BY <1>1, <2>1, <2>2, LooseStays, AheadStays DEF tasks, pbx, Alive, Coming, AheadInv
  <2>10. TablesOK'
    BY <1>1, <2>1 DEF TablesOK, tasks, pbx
  <2> QED
    BY <1>1, <2>1, <2>2, <2>4, <2>6, <2>7, <2>8, <2>9, <2>10, Stays DEF tasks, pbx
<1> QED
  BY <1>6, <1>7

-----------------------------------------------------------------------------
(* cleanupAsteriskResources                                                *)

(* What a cleanup is at: a channel, and then the media channel or nothing. *)
LEMMA SweepAt ==
  ASSUME NEW s \in Sweep
  PROVE  /\ s.call \in Calls /\ Head(s.todo) \in Channels
         /\ Len(s.todo) = 1 \/ \E c \in Calls : Tail(s.todo) = <<Media(c)>>
<1>1. s.call \in Calls /\ s.sent \in BOOLEAN
  BY DEF Sweep
<1>2. CASE \E c \in Calls : s.todo = <<Media(c)>>
  BY <1>1, <1>2, Names
<1>3. CASE \E x \in Customers, c \in Calls : s.todo = <<x, Media(c)>>
  <2>1. PICK x \in Customers, c \in Calls : s.todo = <<x, Media(c)>>
    BY <1>3
  <2>2. Head(s.todo) = x /\ Tail(s.todo) = <<Media(c)>>
    BY <2>1
  <2> QED
    BY <1>1, <2>2, Names
<1> QED
  BY <1>2, <1>3 DEF Sweep

(* A cleanup that has moved on is one too.                                 *)
LEMMA SweepMoves ==
  ASSUME NEW s \in Sweep, NEW b \in BOOLEAN
  PROVE  /\ [s EXCEPT !.sent = b] \in Sweep
         /\ [s EXCEPT !.sent = b].sent = b
         /\ [s EXCEPT !.sent = b].todo = s.todo
BY DEF Sweep

(* It goes on to the media channel.                                        *)
LEMMA SweepMovesOn ==
  ASSUME NEW s \in Sweep, NEW c \in Calls, NEW todo, todo = <<Media(c)>>
  PROVE  /\ [s EXCEPT !.sent = FALSE, !.todo = todo] \in Sweep
         /\ [s EXCEPT !.sent = FALSE, !.todo = todo].sent = FALSE
         /\ [s EXCEPT !.sent = FALSE, !.todo = todo].todo = todo
<1> DEFINE T == {<<Media(d)>> : d \in Calls}
                  \cup {<<x, Media(d)>> : x \in Customers, d \in Calls}
<1>1. Sweep = [call: Calls, sent: BOOLEAN, todo: T]
  BY DEF Sweep
<1>2. todo \in T
  OBVIOUS
<1> HIDE DEF T
<1> QED
  BY <1>1, <1>2

(* A cleanup asks for a channel.                                           *)
LEMMA SweepAsksOK ==
  ASSUME GatewayInv, NEW s \in sweeps, SweepAsks(s)
  PROVE  GatewayInv'
<1> USE DEF GatewayInv
<1>1. /\ UNCHANGED <<rec, order, chan, holds, tasks, mixing, online>>
      /\ ~s.sent /\ sweeps' = (sweeps \ {s}) \cup {[s EXCEPT !.sent = TRUE]}
  BY DEF SweepAsks
<1>2. s \in Sweep /\ SweepOK(s)
  BY DEF SweepsOK, SweepOK
<1>3. PICK n \in Sweep : n = [s EXCEPT !.sent = TRUE] /\ n.sent /\ n.todo = s.todo
  BY <1>2, SweepMoves
<1>4. PICK ch \in Channels : ch = Head(s.todo) /\ Exists(ch)
  BY <1>2, SweepAt DEF SweepOK
<1>5. /\ Onward /\ FreshKept
      /\ ast' \in [Channels -> {"none", "ringing", "up", "gone"}]
      /\ left' \subseteq Customers
      /\ \A x \in Customers : Alive(x)' => Alive(x)
      /\ ch \in Customers => LetGo(ch)'
      /\ trouble' \in 0 .. MaxTrouble
      /\ EventsOK' /\ \A e : Coming(e) => Coming(e)'
  <2>1. CASE Alive(ch) /\ ast' = [ast EXCEPT ![ch] = "gone"] /\ Emit(Ends(ch))
             /\ UNCHANGED <<trouble, left>>
    <3>1. Onward /\ FreshKept
      BY <2>1, Names DEF Onward, FreshKept, TablesOK, Alive
    <3>2. Exists(ch)'
      BY <2>1 DEF Exists, TablesOK
    <3>3. \A k \in DOMAIN Ends(ch) : Exists(Ends(ch)[k].ch)'
      BY <3>2, EndsAre DEF Event
    <3>4. EventsOK' /\ \A e : Coming(e) => Coming(e)'
      BY <2>1, <3>1, <3>3, Emitted, EndsAre
    <3>5. \A x \in Customers : Alive(x)' => Alive(x)
      BY <2>1, Names DEF Alive, TablesOK
    <3> QED
      BY <2>1, <3>1, <3>4, <3>5 DEF TablesOK, LetGo
  <2>2. CASE ~Alive(ch) /\ UNCHANGED <<ast, events, trouble, left>>
    <3>1. Onward /\ FreshKept
      BY <2>2 DEF Onward, FreshKept
    <3>2. ch \in Customers => ast[ch] = "gone"
      BY <1>4, <2>2 DEF Exists, Alive, TablesOK
    <3> QED
      BY <2>2, <3>1, <3>2, Stays DEF TablesOK, LetGo, Alive, Coming
  <2>3. CASE Trouble /\ left' = left \cup ({ch} \cap Customers) /\ UNCHANGED <<ast, events>>
    <3>1. Onward /\ FreshKept
      BY <2>3 DEF Onward, FreshKept
    <3> QED
      BY <2>3, <3>1, Counted, Stays DEF TablesOK, LetGo, Alive, Coming
  <2> QED
    BY <1>4, <2>1, <2>2, <2>3 DEF SweepAsks
<1>6. SweepsOK'
  <2>1. \A t \in sweeps : SweepOK(t)'
    BY <1>5, OnwardKeeps DEF SweepsOK, SweepOK
  <2>2. SweepOK(n)'
    <3>1. Head(n.todo) = ch
      BY <1>3, <1>4
    <3>2. Exists(ch)'
      BY <1>4, <1>5, OnwardKeeps
    <3> QED
      BY <1>5, <3>1, <3>2 DEF SweepOK
  <2> QED
    BY <1>1, <1>3, <2>1, <2>2 DEF SweepsOK
<1>7. MappedInv'
  <2>1. \A x \in Customers : Swept(x) => Swept(x)' \/ LetGo(x)'
    BY <1>1, <1>4, <1>5 DEF Swept
  <2> QED
    BY <1>1, <1>5, <2>1, MappedStays
<1>8. LooseInv' /\ AheadInv'
  BY <1>1, <1>5, LooseStays, AheadStays DEF tasks, AheadInv
<1>9. TablesOK'
  BY <1>1, <1>5 DEF TablesOK, tasks
<1> QED
  BY <1>1, <1>5, <1>6, <1>7, <1>8, <1>9, Stays, SocketsStay DEF tasks

(* A cleanup is answered and unmaps the channel, which has gone or was let *)
(* go of.                                                                  *)
LEMMA SweepAnsweredOK ==
  ASSUME GatewayInv, NEW s \in sweeps, SweepAnswered(s)
  PROVE  GatewayInv'
<1> USE DEF GatewayInv
<1>1. UNCHANGED <<rec, order, holds, tasks, ast, events, online, trouble, left>> /\ s.sent
  BY DEF SweepAnswered
<1>2. s \in Sweep /\ SweepOK(s)
  BY DEF SweepsOK, SweepOK
<1>3. PICK ch \in Channels : ch = Head(s.todo) /\ Exists(ch)
  BY <1>2, SweepAt DEF SweepOK
<1>4. chan' = [chan EXCEPT ![ch] = None]
  BY <1>3 DEF SweepAnswered
<1>5. Onward /\ FreshKept
  BY <1>1 DEF Onward, FreshKept
<1>6. ch \in Customers => LetGo(ch)'
  BY <1>1, <1>2, <1>3 DEF SweepOK, LetGo
<1>7. \A x \in Customers : Swept(x) => Swept(x)'
  <2>1. sweeps \ {s} \subseteq sweeps'
    BY DEF SweepAnswered
  <2> QED
    BY <1>1, <2>1 DEF Swept
<1>8. SweepsOK'
  <2>1. \A t \in sweeps : SweepOK(t)'
    BY <1>5, OnwardKeeps DEF SweepsOK, SweepOK
  <2>2. CASE Len(s.todo) = 1
    BY <2>1, <2>2 DEF SweepAnswered, SweepsOK
  <2>3. CASE Len(s.todo) # 1
    <3>1. PICK c \in Calls : Tail(s.todo) = <<Media(c)>>
      BY <1>2, <2>3, SweepAt
    <3>2. PICK n \in Sweep : /\ n = [s EXCEPT !.sent = FALSE, !.todo = Tail(@)]
                             /\ ~n.sent /\ n.todo = Tail(s.todo)
      <4>1. PICK todo : todo = Tail(s.todo)
        OBVIOUS
      <4>2. [s EXCEPT !.sent = FALSE, !.todo = Tail(@)]
              = [s EXCEPT !.sent = FALSE, !.todo = todo]
        BY <4>1, Zenon
      <4>3. /\ [s EXCEPT !.sent = FALSE, !.todo = todo] \in Sweep
            /\ [s EXCEPT !.sent = FALSE, !.todo = todo].sent = FALSE
            /\ [s EXCEPT !.sent = FALSE, !.todo = todo].todo = todo
        <5>1. s \in Sweep /\ todo = <<Media(c)>>
          BY <1>2, <3>1, <4>1
        <5> QED
          BY ONLY <5>1, c \in Calls, SweepMovesOn
      <4> QED
        BY <4>1, <4>2, <4>3, Zenon
    <3>3. Head(n.todo) = Media(c)
      <4>1. Head(<<Media(c)>>) = Media(c)
        OBVIOUS
      <4> QED
        BY <3>1, <3>2, <4>1, Zenon
    <3>4. SweepOK(n)'
      BY <3>2, <3>3, Names DEF SweepOK, Exists
    <3>5. sweeps' = (sweeps \ {s}) \cup {n}
      BY <2>3, <3>2 DEF SweepAnswered
    <3> QED
      BY <2>1, <3>4, <3>5 DEF SweepsOK
  <2> QED
    BY <2>2, <2>3
<1>9. MappedInv'
  <2> SUFFICES ASSUME NEW x \in Customers, chan'[x] # None, Bad(rec'[chan'[x]])
               PROVE  LetGo(x)' \/ Swept(x)'
    BY DEF MappedInv
  <2>1. chan'[x] = chan[x]
    BY <1>4, Names DEF TablesOK
  <2>2. LetGo(x) \/ Swept(x)
    BY <1>1, <2>1 DEF MappedInv
  <2> QED
    BY <1>5, <1>7, <2>2, OnwardKeeps
<1>10. LooseInv'
  <2>1. \A x \in Customers : chan'[x] = None => chan[x] = None \/ LetGo(x)'
    BY <1>4, <1>6, Names DEF TablesOK
  <2>2. \A x : Alive(x)' <=> Alive(x)
    BY <1>1 DEF Alive
  <2>3. \A e : Coming(e)' <=> Coming(e)
    BY <1>1 DEF Coming
  <2> QED
    BY <1>1, <1>5, <2>1, <2>2, <2>3, LooseStays DEF tasks
<1>11. AheadInv'
  <2>1. \A o \in Out : dial[o] \in {"bridge", "customer"} => Customer(o) # ch
    BY <1>3, Names DEF AheadInv, Exists
  <2>2. \A o \in Out : dial[o] \in {"bridge", "customer"} => chan'[Customer(o)] = o
    BY <1>4, <2>1, Names DEF AheadInv, TablesOK
  <2> QED
    BY <1>1, <1>5, <2>2, AheadStays DEF tasks
<1>12. RegisteredInv'
  <2>1. \A x \in Channels : chan'[x] # None => chan'[x] = chan[x]
    BY <1>4 DEF TablesOK
  <2> QED
    BY <1>1, <2>1 DEF RegisteredInv, tasks
<1>13. TablesOK'
  <2>1. mixing' \in [Calls -> {"none", "up", "gone"}]
    BY DEF SweepAnswered, TablesOK
  <2> QED
    BY <1>1, <1>4, <2>1 DEF TablesOK, tasks
<1> QED
  BY <1>1, <1>5, <1>8, <1>9, <1>10, <1>11, <1>12, <1>13, Stays DEF tasks

-----------------------------------------------------------------------------
(* initiateCall                                                            *)

(* A record as it is made.                                                 *)
LEMMA NewCallIs ==
  ASSUME NEW status \in Statuses, NEW cust \in Customers \cup {None},
         NEW pend \in Customers \cup {None}
  PROVE  /\ NewCall(status, cust, pend) \in Record
         /\ NewCall(status, cust, pend).cust = cust
         /\ NewCall(status, cust, pend).status = status
BY DEF NewCall, Record

(* A call is registered and its channels are mapped ahead.                 *)
LEMMA DialsOK ==
  ASSUME GatewayInv, NEW o \in Out, Dials(o)
  PROVE  GatewayInv'
<1> USE DEF GatewayInv
<1>1. /\ dial[o] = "none" /\ o \in Calls /\ rec[o] = None
      /\ dial' = [dial EXCEPT ![o] = "bridge"]
      /\ order' = Append(order, o)
      /\ chan' = [chan EXCEPT ![Media(o)] = o, ![Customer(o)] = o]
      /\ UNCHANGED <<sweeps, inb, sockets, pbx, trouble, left>>
  BY Names DEF Dials, RegisteredInv
<1>2. PICK r \in Record : /\ r = NewCall("creating", None, Customer(o))
                          /\ r.cust = None /\ ~Bad(r)
  <2>1. "creating" \in Statuses /\ None \in Customers \cup {None}
        /\ Customer(o) \in Customers \cup {None}
    BY <1>1, Names DEF Statuses
  <2> QED
    BY <2>1, NewCallIs DEF Bad
<1>3. rec' = [rec EXCEPT ![o] = r]
  BY <1>2 DEF Dials
<1>4. PICK n \in Hold :
        /\ n.who = "dial" /\ n.call = o /\ n.snap = r
        /\ holds' = holds \cup {n}
  <2> DEFINE n == [who |-> "dial", call |-> o, ch |-> Customer(o),
                   mine |-> TRUE, snap |-> r, cur |-> TRUE]
  <2>1. n \in Hold
    BY <1>1, Names DEF Hold
  <2>2. holds' = holds \cup {n}
    BY <1>2 DEF Dials
  <2> QED
    BY <2>1, <2>2
<1>5. Onward /\ FreshKept
  BY <1>1 DEF Onward, FreshKept, pbx
<1>6. r # None /\ rec'[o] = r /\ Exists(r.cust)'
      /\ \A c \in Calls : c # o => rec'[c] = rec[c]
  BY <1>1, <1>2, <1>3, NoneIsNoRecord, Names DEF RecordsOK, Exists
<1>7. RecordsOK'
  BY <1>1, <1>3, <1>5, <1>6, RecordStored
<1>8. HoldsOK'
  <2>1. \A h \in holds : HoldOK(h)'
    <3> SUFFICES ASSUME NEW h \in holds PROVE HoldOK(h)'
      OBVIOUS
    <3>1. HoldOK(h) /\ h.call \in Calls /\ h.call # o
      BY <1>1 DEF HoldsOK, HoldOK, Hold
    <3>2. Exists(h.snap.cust)'
      BY <1>5, <3>1, OnwardKeeps DEF HoldOK
    <3> QED
      BY <1>6, <3>1, <3>2 DEF HoldOK
  <2>2. HoldOK(n)'
    BY <1>4, <1>6 DEF HoldOK
  <2> QED
    BY <1>4, <2>1, <2>2 DEF HoldsOK
<1>9. /\ \A x \in Channels : chan'[x] = chan[x] \/ chan'[x] = o
      /\ \A x \in Customers : x # Customer(o) => chan'[x] = chan[x]
      /\ chan'[Customer(o)] = o
  BY <1>1, Names DEF TablesOK
<1>10. RegisteredInv'
  <2>1. \A k \in DOMAIN order' : order'[k] \in Calls /\ rec'[order'[k]] # None
    <3>1. \A k \in DOMAIN order' :
            order'[k] = o \/ (k \in DOMAIN order /\ order'[k] = order[k])
      <4>1. order' \in Seq(Calls) /\ Len(order') = Len(order) + 1 /\ order \in Seq(Calls)
        BY <1>1 DEF TablesOK
      <4> QED
        BY <1>1, <4>1
    <3>2. \A k \in DOMAIN order : order[k] \in Calls /\ rec[order[k]] # None
      BY DEF TablesOK, RegisteredInv
    <3> QED
      BY <1>1, <1>6, <3>1, <3>2
  <2>2. \A x \in Channels : chan'[x] # None => rec'[chan'[x]] # None
    BY <1>6, <1>9 DEF TablesOK, RegisteredInv
  <2>3. \A p \in Out : dial'[p] = "none" => rec'[p] = None
    BY <1>1, <1>6, Names DEF TablesOK, RegisteredInv
  <2>4. \A i \in In : inb[i].stage \in {"none", "route", "row"} => rec'[i] = None
    BY <1>6, Names, GatewayAssumption DEF RegisteredInv
  <2>5. \A c \in Calls : sockets[c] # "none" => rec'[c] # None
    BY <1>6 DEF RegisteredInv
  <2> QED
    BY <1>1, <2>1, <2>2, <2>3, <2>4, <2>5 DEF RegisteredInv
<1>11. HandlerInv'
  <2>1. \A h \in holds : h \in holds'
    BY <1>4
  <2>2. \E h \in holds' : h.who = "dial" /\ h.call = o
    BY <1>4
  <2>3. \A p \in Out : p # o => dial'[p] = dial[p]
    BY <1>1 DEF TablesOK
  <2> QED
    BY <1>1, <2>1, <2>2, <2>3 DEF HandlerInv
<1>12. AheadInv'
  <2>1. \A p \in Out : p # o => Customer(p) # Customer(o) /\ dial'[p] = dial[p]
    BY <1>1 DEF TablesOK, Customer
  <2>2. ast'[Customer(o)] = "none" /\ chan'[Customer(o)] = o
    <3>1. ast[Customer(o)] = "none" /\ ast' = ast
      BY <1>1 DEF AheadInv, pbx
    <3> QED
      BY <1>9, <3>1
  <2> QED
    BY <1>1, <1>9, <2>1, <2>2, Names DEF AheadInv, pbx
<1>13. MappedInv'
  <2> SUFFICES ASSUME NEW x \in Customers, chan'[x] # None, Bad(rec'[chan'[x]])
               PROVE  LetGo(x)' \/ Swept(x)'
    BY DEF MappedInv
  <2>1. x # Customer(o)
    <3>1. chan'[Customer(o)] = o /\ ~Bad(rec'[o])
      BY <1>2, <1>6, <1>9
    <3> QED
      BY <3>1
  <2>2. chan'[x] = chan[x] /\ chan[x] \in Calls /\ rec[chan[x]] # None
    BY <1>9, <2>1, Names DEF TablesOK, RegisteredInv
  <2>3. Bad(rec[chan[x]])
    BY <1>1, <1>6, <2>2
  <2>4. LetGo(x) \/ Swept(x)
    BY <2>2, <2>3 DEF MappedInv
  <2> QED
    BY <1>1, <1>5, <2>4, OnwardKeeps DEF Swept
<1>14. LooseInv'
  <2>1. \A x \in Customers : chan'[x] = None => chan[x] = None
    BY <1>1, <1>9, Names
  <2> QED
    BY <1>1, <1>5, <2>1, LooseStays DEF pbx, Alive, Coming
<1>15. TablesOK'
  <2>1. order' \in Seq(Calls)
    BY <1>1 DEF TablesOK
  <2>3. chan' \in [Channels -> Calls \cup {None}]
    BY <1>1, Names DEF TablesOK
  <2>2. dial' \in [Out -> {"none", "bridge", "customer", "answer", "over"}]
    BY <1>1 DEF TablesOK
  <2> QED
    BY <1>1, <2>1, <2>2, <2>3 DEF TablesOK, pbx
<1> QED
  BY <1>1, <1>5, <1>7, <1>8, <1>10, <1>11, <1>12, <1>13, <1>14, <1>15, Stays DEF pbx

(* An event as it is made.                                                 *)
LEMMA EventIs ==
  ASSUME NEW ch \in Channels
  PROVE  /\ \A type \in {"StasisStart", "end"} : Event(type, ch) \in AnEvent
         /\ \A type \in {"Ringing", "Up"} : ch \in Customers => Event(type, ch) \in AnEvent
         /\ \A type : Event(type, ch).type = type /\ Event(type, ch).ch = ch
BY DEF Event, AnEvent

(* A media channel comes up, with its event, or does not.                  *)
LEMMA MediaCame ==
  ASSUME GatewayInv, NEW c \in Calls, MediaComesUp(c)
  PROVE  /\ \A x \in Customers : ast'[x] = ast[x]
         /\ ast' \in [Channels -> {"none", "ringing", "up", "gone"}]
         /\ Onward => EventsOK' /\ \A e : Coming(e) => Coming(e)'
<1>1. CASE c \in Connects
  <2>1. PICK e \in AnEvent : e = Event("StasisStart", Media(c)) /\ e.ch = Media(c)
    BY Names, EventIs
  <2>2. ast' = [ast EXCEPT ![Media(c)] = "up"] /\ Emit(<<e>>)
    BY <1>1, <2>1 DEF MediaComesUp
  <2>3. ASSUME Onward
        PROVE  EventsOK' /\ \A x : Coming(x) => Coming(x)'
    <3>1. Exists(Media(c))'
      BY Names DEF Exists
    <3>2. <<e>> \in Seq(AnEvent) /\ DOMAIN <<e>> = {1} /\ <<e>>[1] = e
      BY <2>1
    <3>3. \A k \in DOMAIN <<e>> : Exists(<<e>>[k].ch)'
      BY <2>1, <3>1, <3>2
    <3> QED
      BY <2>2, <2>3, <3>2, <3>3, Emitted DEF GatewayInv
  <2> QED
    BY <2>2, <2>3, Names DEF GatewayInv, TablesOK
<1>2. CASE c \notin Connects
  BY <1>2, Stays DEF MediaComesUp, GatewayInv, TablesOK, Coming
<1> QED
  BY <1>1, <1>2

(* The bridge and the media channel are asked for.                         *)
LEMMA DialsMediaOK ==
  ASSUME GatewayInv, NEW o \in Out, DialsMedia(o)
  PROVE  GatewayInv'
<1> USE DEF GatewayInv
<1>1. /\ dial[o] = "bridge" /\ dial' = [dial EXCEPT ![o] = "customer"]
      /\ mixing' = [mixing EXCEPT ![o] = "up"]
      /\ MediaComesUp(o) /\ o \in Calls
      /\ UNCHANGED <<rec, order, chan, holds, sweeps, inb, sockets, online, trouble, left>>
  BY Names DEF DialsMedia
<1>2. /\ \A x \in Customers : ast'[x] = ast[x]
      /\ ast' \in [Channels -> {"none", "ringing", "up", "gone"}]
      /\ Onward => EventsOK' /\ \A e : Coming(e) => Coming(e)'
  BY <1>1, MediaCame
<1>3. Onward
  BY <1>1, <1>2 DEF Onward
<1>4. dial'[o] = "customer" /\ \A p \in Out : p # o => dial'[p] = dial[p]
  BY <1>1 DEF TablesOK
<1>5. HandlerInv' /\ RegisteredInv' /\ AheadInv'
  BY <1>1, <1>2, <1>4, Names DEF HandlerInv, RegisteredInv, AheadInv
<1>6. MappedInv' /\ LooseInv'
  BY <1>1, <1>2, <1>3, MappedStays, LooseStays DEF Swept, Alive
<1>7. TablesOK'
  BY <1>1, <1>2 DEF TablesOK
<1> QED
  BY <1>1, <1>2, <1>3, <1>5, <1>6, <1>7, Stays

(* The customer is dialled on the channel mapped ahead.                    *)
LEMMA DialsCustomerOK ==
  ASSUME GatewayInv, NEW o \in Out, DialsCustomer(o)
  PROVE  GatewayInv'
<1> USE DEF GatewayInv
<1>1. PICK ch \in Customers :
        /\ ch = Customer(o) /\ ch \in Channels
        /\ dial[o] = "customer" /\ dial' = [dial EXCEPT ![o] = "answer"]
        /\ ast' = [ast EXCEPT ![ch] = "ringing"]
        /\ ast[ch] = "none" /\ chan[ch] = o
        /\ UNCHANGED <<rec, order, chan, holds, sweeps, inb, sockets, mixing, online, trouble>>
  BY Names DEF DialsCustomer, AheadInv
<1>2. PICK e \in AnEvent : /\ e = Event("Ringing", ch) /\ e.ch = ch
                           /\ <<e>> \in Seq(AnEvent) /\ DOMAIN <<e>> = {1} /\ <<e>>[1] = e
  <2>1. PICK e \in AnEvent : e = Event("Ringing", ch) /\ e.ch = ch
    BY <1>1, EventIs
  <2>2. <<e>> \in Seq(AnEvent) /\ DOMAIN <<e>> = {1} /\ <<e>>[1] = e
    OBVIOUS
  <2> QED
    BY <2>1, <2>2
<1>3. Emit(<<e>>) /\ left' = left \cup Lost(<<e>>)
  BY <1>1, <1>2 DEF DialsCustomer
<1>4. left \subseteq left' /\ left' \subseteq Customers
  BY <1>3 DEF Lost, About, TablesOK
<1>5. Onward
  BY <1>1, <1>4, Names DEF Onward, TablesOK
<1>6. EventsOK' /\ \A x : Coming(x) => Coming(x)'
  <2>1. Exists(ch)'
    BY <1>1 DEF Exists, TablesOK
  <2>2. \A k \in DOMAIN <<e>> : Exists(<<e>>[k].ch)'
    BY <1>2, <2>1
  <2> QED
    BY <1>2, <1>3, <1>5, <2>2, Emitted
<1>7. dial'[o] = "answer" /\ \A p \in Out : p # o => dial'[p] = dial[p]
  BY <1>1 DEF TablesOK
<1>8. HandlerInv' /\ RegisteredInv'
  BY <1>1, <1>7 DEF HandlerInv, RegisteredInv
<1>9. AheadInv'
  <2>1. \A p \in Out : p # o => Customer(p) # ch
    BY <1>1 DEF Customer
  <2>2. \A p \in Out : p # o => ast'[Customer(p)] = ast[Customer(p)]
    BY <1>1, <2>1, Names DEF TablesOK
  <2> QED
    BY <1>1, <1>7, <2>2 DEF AheadInv
<1>10. MappedInv'
  BY <1>1, <1>5, MappedStays DEF Swept
<1>11. LooseInv'
  <2>1. ASSUME NEW x \in Customers, Alive(x)', chan'[x] = None
        PROVE  \/ x \in left'
               \/ Coming(Event("StasisStart", x))'
               \/ \E j \in In : inb'[j].ch = x /\ inb'[j].stage \in {"route", "row"}
    <3>1. x # ch
      BY <1>1, <2>1, Names
    <3>2. Alive(x) /\ chan[x] = None
      BY <1>1, <2>1, <3>1 DEF Alive, TablesOK
    <3> QED
      BY <1>1, <1>4, <1>6, <3>2 DEF LooseInv
  <2>2. ASSUME NEW j \in In, NEW x, x = inb'[j].ch,
               inb'[j].stage \in {"bridge", "add"}, chan'[x] = None
        PROVE  LetGo(x)'
    <3>1. x \in Customers /\ LetGo(x)
      BY <1>1, <2>2 DEF TasksOK, LooseInv
    <3> QED
      BY <1>5, <3>1, OnwardKeeps
  <2>3. (\A j \in In : inb[j].stage \in {"bridge", "add"} /\ chan[inb[j].ch] = None =>
           LetGo(inb[j].ch))'
    BY <2>2
  <2>4. (\A x \in Customers : Alive(x) /\ chan[x] = None =>
          \/ x \in left
          \/ Coming(Event("StasisStart", x))
          \/ \E j \in In : inb[j].ch = x /\ inb[j].stage \in {"route", "row"})'
    BY <2>1
  <2> QED
    BY <2>3, <2>4 DEF LooseInv
<1>12. TablesOK'
  BY <1>1, <1>4 DEF TablesOK
<1> QED
  BY <1>1, <1>5, <1>6, <1>8, <1>9, <1>10, <1>11, <1>12, Stays

(* The object that a handler made is the one HoldOf finds.                 *)
LEMMA HoldOfIs ==
  ASSUME HoldsOK, NEW who, NEW c \in Calls, \E h \in holds : h.who = who /\ h.call = c
  PROVE  /\ HoldOf(who, c) \in holds /\ HoldOK(HoldOf(who, c))
         /\ HoldOf(who, c).who = who /\ HoldOf(who, c).call = c
BY DEF HoldOf, HoldsOK

(* The object of initiateCall is let go of with its last step.             *)
LEMMA DialOver ==
  ASSUME GatewayInv, Onward, NEW o \in Out, NEW r \in Record, Exists(r.cust)', rec[o] # None,
         rec' = [rec EXCEPT ![o] = r], dial' = [dial EXCEPT ![o] = "over"],
         holds' = {g \in Outdated(o, None) : ~(g.who = "dial" /\ g.call = o)},
         UNCHANGED <<order, chan, inb, sockets, ast>>
  PROVE  RecordsOK' /\ HoldsOK' /\ HandlerInv' /\ RegisteredInv' /\ AheadInv'
<1> USE DEF GatewayInv
<1>1. o \in Calls /\ Exists(None)'
  BY Names DEF Exists
<1>2. /\ \A g \in Outdated(o, None) : HoldOK(g)'
      /\ \A h \in holds : \E g \in Outdated(o, None) : g.who = h.who /\ g.call = h.call
  BY <1>1, OutdatedOK
<1>3. dial'[o] = "over" /\ \A p \in Out : p # o => dial'[p] = dial[p]
  BY DEF TablesOK
<1>4. HoldsOK'
  BY <1>2 DEF HoldsOK
<1>5. HandlerInv'
  <2>1. \A h \in holds : ~(h.who = "dial" /\ h.call = o) =>
          \E g \in holds' : g.who = h.who /\ g.call = h.call
    BY <1>2
  <2>2. \A p \in Out : dial'[p] \in {"bridge", "customer", "answer"} =>
          \E h \in holds' : h.who = "dial" /\ h.call = p
    <3> SUFFICES ASSUME NEW p \in Out, dial'[p] \in {"bridge", "customer", "answer"}
                 PROVE  \E h \in holds' : h.who = "dial" /\ h.call = p
      OBVIOUS
    <3>1. p # o
      BY <1>3
    <3>2. PICK h \in holds : h.who = "dial" /\ h.call = p
      BY <1>3, <3>1 DEF HandlerInv
    <3> QED
      BY <2>1, <3>1, <3>2
  <2>3. \A i \in In : inb[i].stage \in {"bridge", "add", "live"} =>
          \E h \in holds' : h.who = "inbound" /\ h.call = i
    <3> SUFFICES ASSUME NEW i \in In, inb[i].stage \in {"bridge", "add", "live"}
                 PROVE  \E h \in holds' : h.who = "inbound" /\ h.call = i
      OBVIOUS
    <3>1. PICK h \in holds : h.who = "inbound" /\ h.call = i
      BY DEF HandlerInv
    <3> QED
      BY <2>1, <3>1
  <2> QED
    BY <2>2, <2>3 DEF HandlerInv
<1>6. r # None /\ rec'[o] = r /\ \A c \in Calls : c # o => rec'[c] = rec[c]
  BY <1>1, NoneIsNoRecord DEF RecordsOK
<1>7. RecordsOK'
  BY <1>1, RecordStored
<1>8. RegisteredInv'
  <2>1. \A c \in Calls : rec[c] # None => rec'[c] # None
    BY <1>6
  <2>2. \A c \in Calls : rec'[c] = None <=> rec[c] = None
    BY <1>6
  <2>3. \A k \in DOMAIN order : order[k] \in Calls
    BY DEF TablesOK
  <2> QED
    BY <1>1, <1>3, <2>2, <2>3, Names DEF RegisteredInv, TablesOK
<1>9. AheadInv'
  BY <1>3 DEF AheadInv
<1> QED
  BY <1>4, <1>5, <1>7, <1>8, <1>9

(* Dialling is over.                                                       *)
LEMMA DialledOK ==
  ASSUME GatewayInv, NEW o \in Out, Dialled(o)
  PROVE  GatewayInv'
<1> USE DEF GatewayInv
<1>1. /\ dial[o] = "answer" /\ o \in Calls
      /\ UNCHANGED <<order, chan, sweeps, inb, sockets, pbx, trouble, left>>
  BY Names DEF Dialled
<1>2. PICK h \in holds : h = HoldOf("dial", o) /\ HoldOK(h) /\ h.call = o
  BY <1>1, HoldOfIs DEF HandlerInv
<1>3. PICK r \in Record : /\ r = [h.snap EXCEPT !.status = "dialing"]
                          /\ r.cust = h.snap.cust /\ ~Bad(r)
  <2>1. PICK q \in Record : q = h.snap
    BY <1>2 DEF HoldOK, Hold
  <2>2. "dialing" \in Statuses
    BY DEF Statuses
  <2> QED
    BY <2>1, <2>2, WithStatusIs DEF Bad
<1>4. /\ rec' = [rec EXCEPT ![o] = r] /\ dial' = [dial EXCEPT ![o] = "over"]
      /\ holds' = {g \in Outdated(o, None) : ~(g.who = "dial" /\ g.call = o)}
  BY <1>2, <1>3 DEF Dialled
<1>5. Onward
  BY <1>1 DEF Onward, pbx
<1>6. Exists(r.cust)' /\ rec[o] # None
  BY <1>2, <1>3, <1>5, OnwardKeeps DEF HoldOK
<1>7. RecordsOK' /\ HoldsOK' /\ HandlerInv' /\ RegisteredInv' /\ AheadInv'
  BY <1>1, <1>4, <1>5, <1>6, DialOver DEF pbx
<1>8. MappedInv'
  <2>1. \A c \in Calls : Bad(rec'[c]) => Bad(rec[c])
    BY <1>3, <1>4 DEF RecordsOK, Bad
  <2> QED
    BY <1>1, <1>5, <2>1, MappedStays DEF Swept
<1>9. LooseInv'
  BY <1>1, <1>5, LooseStays DEF pbx, Alive, Coming
<1>10. TablesOK'
  BY <1>1, <1>4 DEF TablesOK, pbx
<1> QED
  BY <1>1, <1>5, <1>7, <1>8, <1>9, <1>10, Stays DEF pbx

(* Dialling fails, and the channels are cleaned up.                        *)
LEMMA InitiateFailsOK ==
  ASSUME GatewayInv, NEW o \in Out, InitiateFails(o)
  PROVE  GatewayInv'
<1> USE DEF GatewayInv
<1>1. /\ dial[o] \in {"bridge", "customer", "answer"} /\ o \in Calls /\ Trouble
      /\ UNCHANGED <<order, chan, inb, sockets, pbx>>
  BY Names DEF InitiateFails
<1>2. PICK h \in holds : h = HoldOf("dial", o) /\ HoldOK(h) /\ h.call = o
  BY <1>1, HoldOfIs DEF HandlerInv
<1>3. PICK r \in Record : /\ r = [h.snap EXCEPT !.status = "failed"]
                          /\ r.cust = h.snap.cust
  <2>1. PICK q \in Record : q = h.snap
    BY <1>2 DEF HoldOK, Hold
  <2>2. "failed" \in Statuses
    BY DEF Statuses
  <2> QED
    BY <2>1, <2>2, WithStatusIs
<1>4. /\ StoreAndSweep(o, r) /\ dial' = [dial EXCEPT ![o] = "over"]
      /\ holds' = {g \in Outdated(o, None) : ~(g.who = "dial" /\ g.call = o)}
  BY <1>2, <1>3 DEF InitiateFails
<1>5. Onward /\ left' \subseteq Customers /\ rec' = [rec EXCEPT ![o] = r]
  BY <1>1, <1>4 DEF Onward, pbx, StoreAndSweep, Forgotten, TablesOK
<1>6. Exists(r.cust)' /\ rec[o] # None
  BY <1>2, <1>3, <1>5, OnwardKeeps DEF HoldOK
<1>7. RecordsOK' /\ HoldsOK' /\ HandlerInv' /\ RegisteredInv' /\ AheadInv'
  BY <1>1, <1>4, <1>5, <1>6, DialOver DEF pbx
<1>8. SweepsOK' /\ MappedInv'
  BY <1>1, <1>4, <1>5, <1>6, StoreAndSweepOK
<1>9. LooseInv'
  BY <1>1, <1>5, LooseStays DEF pbx, Alive, Coming
<1>10. TablesOK'
  BY <1>1, <1>4, <1>5, Counted DEF TablesOK, pbx
<1> QED
  BY <1>1, <1>5, <1>7, <1>8, <1>9, <1>10, Stays DEF pbx

-----------------------------------------------------------------------------
(* handleInboundCall                                                       *)

(* An inbound task at another stage.                                       *)
LEMMA InboundIs ==
  ASSUME TasksOK, NEW i \in In, NEW st, inb' = [inb EXCEPT ![i].stage = st],
         st \in {"none", "route", "row", "bridge", "add", "live", "over"}
  PROVE  /\ inb' \in [In -> Task]
         /\ inb'[i].stage = st /\ inb'[i].ch = inb[i].ch
         /\ \A j \in In : j # i => inb'[j] = inb[j]
<1> DEFINE T == {"none", "route", "row", "bridge", "add", "live", "over"}
<1>1. Task = [stage: T, ch: Customers \cup {None}]
  BY DEF Task
<1>2. inb \in [In -> Task] /\ st \in T
  BY DEF TasksOK
<1> HIDE DEF T
<1> QED
  BY <1>1, <1>2

(* The stage of an inbound call changes.                                   *)
LEMMA InboundMoved ==
  ASSUME GatewayInv, Onward, NEW i \in In, NEW st, inb' = [inb EXCEPT ![i].stage = st],
         st \in {"row", "bridge", "add", "live", "over"}, inb[i].stage # "none",
         \A ch \in Customers : chan'[ch] = None => chan[ch] = None,
         \A ch \in Customers : Alive(ch)' => Alive(ch),
         \A e : Coming(e) => Coming(e)',
         \/ inb[i].stage = "route" /\ st = "row"
         \/ chan'[inb[i].ch] # None
         \/ LetGo(inb[i].ch)'
         \/ inb[i].stage \in {"bridge", "add"}
         \/ inb[i].stage = "live" /\ st = "over"
  PROVE  TasksOK' /\ LooseInv'
<1> USE DEF GatewayInv
<1>1. /\ inb' \in [In -> Task]
      /\ inb'[i].stage = st /\ inb'[i].ch = inb[i].ch
      /\ \A j \in In : j # i => inb'[j] = inb[j]
  BY InboundIs
<1>2. \A j \in In : inb'[j].ch = inb[j].ch
  BY <1>1
<1>3. TasksOK'
  <2>1. \A j \in In : \A x : x = inb'[j].ch => Exists(x)'
    BY <1>2, OnwardKeeps DEF TasksOK
  <2>2. (\A j \in In : Exists(inb[j].ch))'
    BY <2>1
  <2>3. \A j \in In : inb'[j].stage # "none" => inb'[j].ch \in Customers
    BY <1>1 DEF TasksOK
  <2> QED
    BY <1>1, <2>2, <2>3 DEF TasksOK
<1>4. PICK ch \in Customers : ch = inb[i].ch
  BY DEF TasksOK
<1>5. ASSUME NEW x \in Customers, Alive(x)', chan'[x] = None
      PROVE  \/ x \in left'
             \/ Coming(Event("StasisStart", x))'
             \/ \E j \in In : inb'[j].ch = x /\ inb'[j].stage \in {"route", "row"}
  <2>1. Alive(x) /\ chan[x] = None
    BY <1>5
  <2>2. CASE x \in left \/ Coming(Event("StasisStart", x))
    BY <2>2 DEF Onward
  <2>3. CASE \E j \in In : inb[j].ch = x /\ inb[j].stage \in {"route", "row"}
    <3>1. PICK j \in In : inb[j].ch = x /\ inb[j].stage \in {"route", "row"}
      BY <2>3
    <3>2. CASE j # i
      BY <1>1, <3>1, <3>2
    <3>3. CASE j = i
      <4>1. x = ch /\ inb[i].stage \in {"route", "row"}
        BY <1>4, <3>1, <3>3
      <4>2. CASE LetGo(ch)'
        BY <1>5, <4>1, <4>2 DEF LetGo, Alive
      <4>3. CASE inb[i].stage = "route" /\ st = "row"
        BY <1>1, <1>4, <4>1, <4>3
      <4> QED
        BY <1>4, <1>5, <4>1, <4>2, <4>3
    <3> QED
      BY <3>2, <3>3
  <2> QED
    BY <2>1, <2>2, <2>3 DEF LooseInv
<1>6. ASSUME NEW j \in In, NEW x, x = inb'[j].ch,
             inb'[j].stage \in {"bridge", "add"}, chan'[x] = None
      PROVE  LetGo(x)'
  <2>1. CASE j # i
    <3>1. x \in Customers /\ x = inb[j].ch /\ inb[j].stage \in {"bridge", "add"}
      BY <1>1, <1>6, <2>1 DEF TasksOK
    <3>2. LetGo(x)
      BY <1>6, <3>1 DEF LooseInv
    <3> QED
      BY <3>1, <3>2, OnwardKeeps
  <2>2. CASE j = i
    <3>1. x = ch /\ chan[ch] = None /\ st \in {"bridge", "add"}
      BY <1>1, <1>4, <1>6, <2>2
    <3>2. CASE inb[i].stage \in {"bridge", "add"}
      <4>1. LetGo(ch)
        BY <1>4, <3>1, <3>2 DEF LooseInv
      <4> QED
        BY <3>1, <4>1, OnwardKeeps
    <3>3. CASE LetGo(ch)'
      BY <3>1, <3>3
    <3> QED
      BY <1>4, <1>6, <3>1, <3>2, <3>3
  <2> QED
    BY <2>1, <2>2
<1>7. (\A j \in In : inb[j].stage \in {"bridge", "add"} /\ chan[inb[j].ch] = None =>
         LetGo(inb[j].ch))'
  BY <1>6
<1>8. (\A x \in Customers : Alive(x) /\ chan[x] = None =>
        \/ x \in left
        \/ Coming(Event("StasisStart", x))
        \/ \E j \in In : inb[j].ch = x /\ inb[j].stage \in {"route", "row"})'
  BY <1>5
<1> QED
  BY <1>3, <1>7, <1>8 DEF LooseInv

(* The caller's channel is deleted, or let go of.                          *)
LEMMA DropsCallerOK ==
  ASSUME GatewayInv, NEW ch \in Customers, Exists(ch), DropsCaller(ch)
  PROVE  /\ Onward /\ FreshKept /\ LetGo(ch)'
         /\ ast' \in [Channels -> {"none", "ringing", "up", "gone"}]
         /\ left' \subseteq Customers
         /\ \A x \in Customers : Alive(x)' => Alive(x)
         /\ EventsOK' /\ \A e : Coming(e) => Coming(e)'
<1> USE DEF GatewayInv
<1>0. ch \in Channels
  BY Names
<1>1. CASE Alive(ch) /\ ast' = [ast EXCEPT ![ch] = "gone"] /\ Emit(Ends(ch)) /\ UNCHANGED left
  <2>1. Onward /\ FreshKept
    BY <1>1, Names DEF Onward, FreshKept, TablesOK, Alive
  <2>2. Exists(ch)'
    BY <1>0, <1>1 DEF Exists, TablesOK
  <2>3. \A k \in DOMAIN Ends(ch) : Exists(Ends(ch)[k].ch)'
    BY <1>0, <2>2, EndsAre DEF Event
  <2>4. EventsOK' /\ \A e : Coming(e) => Coming(e)'
    BY <1>0, <1>1, <2>1, <2>3, Emitted, EndsAre
  <2>5. \A x \in Customers : Alive(x)' => Alive(x)
    BY <1>1, Names DEF Alive, TablesOK
  <2> QED
    BY <1>0, <1>1, <2>1, <2>4, <2>5 DEF TablesOK, LetGo
<1>2. CASE ~Alive(ch) /\ UNCHANGED <<ast, events, left>>
  <2>1. Onward /\ FreshKept
    BY <1>2 DEF Onward, FreshKept
  <2>2. ast[ch] = "gone"
    BY <1>0, <1>2 DEF Exists, Alive, TablesOK
  <2> QED
    BY <1>2, <2>1, <2>2, Stays DEF TablesOK, LetGo, Alive, Coming
<1>3. CASE left' = left \cup {ch} /\ UNCHANGED <<ast, events>>
  <2>1. Onward /\ FreshKept
    BY <1>3 DEF Onward, FreshKept
  <2> QED
    BY <1>3, <2>1, Stays DEF TablesOK, LetGo, Alive, Coming
<1> QED
  BY <1>1, <1>2, <1>3 DEF DropsCaller

(* No campaign takes the caller.                                           *)
LEMMA InboundRejectedOK ==
  ASSUME GatewayInv, NEW i \in In, InboundRejected(i)
  PROVE  GatewayInv'
<1> USE DEF GatewayInv
<1>1. /\ inb[i].stage = "route" /\ inb' = [inb EXCEPT ![i].stage = "over"]
      /\ UNCHANGED <<rec, order, chan, holds, sweeps, dial, sockets, mixing, online, trouble>>
  BY DEF InboundRejected, InboundMoves
<1>2. PICK ch \in Customers : ch = inb[i].ch /\ Exists(ch) /\ DropsCaller(ch)
  BY <1>1 DEF TasksOK, InboundRejected
<1>3. /\ Onward /\ FreshKept /\ LetGo(ch)'
      /\ ast' \in [Channels -> {"none", "ringing", "up", "gone"}]
      /\ left' \subseteq Customers
      /\ \A x \in Customers : Alive(x)' => Alive(x)
      /\ EventsOK' /\ \A e : Coming(e) => Coming(e)'
  BY <1>2, DropsCallerOK
<1>4. LetGo(inb[i].ch)'
  <2>1. inb'[i].ch = inb[i].ch
    BY <1>1, InboundIs
  <2>2. \A x : x = ch => LetGo(x)'
    BY <1>3
  <2> QED
    BY <1>2, <2>1, <2>2
<1>5. TasksOK' /\ LooseInv'
  BY <1>1, <1>3, <1>4, InboundMoved
<1>6. MappedInv' /\ AheadInv'
  BY <1>1, <1>3, MappedStays, AheadStays DEF Swept, AheadInv
<1>7. HandlerInv' /\ RegisteredInv'
  <2>1. inb'[i].stage = "over" /\ \A j \in In : j # i => inb'[j] = inb[j]
    BY <1>1, InboundIs
  <2> QED
    BY <1>1, <2>1 DEF HandlerInv, RegisteredInv
<1>8. TablesOK'
  BY <1>1, <1>3 DEF TablesOK
<1> QED
  BY <1>1, <1>3, <1>5, <1>6, <1>7, <1>8, Stays

(* The caller is answered, or the answer fails.                            *)
LEMMA InboundAnsweredOK ==
  ASSUME GatewayInv, NEW i \in In, InboundAnswered(i)
  PROVE  GatewayInv'
<1> USE DEF GatewayInv
<1>1. PICK st \in {"row", "over"} :
        /\ inb[i].stage = "route" /\ inb' = [inb EXCEPT ![i].stage = st]
        /\ st = "over" => /\ IF Alive(inb[i].ch) THEN Trouble /\ left' = left \cup {inb[i].ch}
                             ELSE UNCHANGED <<trouble, left>>
                          /\ UNCHANGED pbx
        /\ st = "row" => /\ Alive(inb[i].ch)
                         /\ ast' = [ast EXCEPT ![inb[i].ch] = "up"]
                         /\ Emit(IF ast[inb[i].ch] = "up" THEN <<>>
                                 ELSE <<Event("Up", inb[i].ch)>>)
                         /\ UNCHANGED <<mixing, online, trouble, left>>
        /\ UNCHANGED <<rec, order, chan, holds, sweeps, dial, sockets>>
  BY DEF InboundAnswered, InboundMoves
<1>2. PICK ch \in Customers : ch = inb[i].ch /\ Exists(ch) /\ ch \in Channels
  BY <1>1, Names DEF TasksOK
<1>3. /\ Onward /\ FreshKept /\ (st = "over" => LetGo(ch)')
      /\ ast' \in [Channels -> {"none", "ringing", "up", "gone"}]
      /\ left' \subseteq Customers /\ trouble' \in 0 .. MaxTrouble
      /\ \A x \in Customers : Alive(x)' => Alive(x)
      /\ EventsOK' /\ \A e : Coming(e) => Coming(e)'
  <2>1. CASE st = "row"
    <3>1. /\ Alive(ch) /\ ast' = [ast EXCEPT ![ch] = "up"] /\ UNCHANGED <<trouble, left>>
      BY <1>1, <1>2, <2>1
    <3>2. PICK es \in Seq(AnEvent) :
            Emit(es) /\ \A k \in DOMAIN es : es[k].ch = ch
      <4>1. CASE ast[ch] = "up"
        <5>1. Emit(<<>>) /\ <<>> \in Seq(AnEvent) /\ DOMAIN <<>> = {}
          BY <1>1, <1>2, <2>1, <4>1
        <5> QED
          BY <5>1
      <4>2. CASE ast[ch] # "up"
        <5>1. PICK e \in AnEvent : e = Event("Up", ch) /\ e.ch = ch
          BY <1>2, EventIs
        <5>2. Emit(<<e>>)
          BY <1>1, <1>2, <2>1, <4>2, <5>1
        <5>3. <<e>> \in Seq(AnEvent) /\ DOMAIN <<e>> = {1} /\ <<e>>[1] = e
          OBVIOUS
        <5> QED
          BY <5>1, <5>2, <5>3
      <4> QED
        BY <4>1, <4>2
    <3>3. Onward /\ FreshKept
      BY <3>1, Names DEF Onward, FreshKept, TablesOK, Alive
    <3>4. Exists(ch)'
      BY <1>2, <3>1 DEF Exists, TablesOK
    <3>5. \A k \in DOMAIN es : Exists(es[k].ch)'
      BY <3>2, <3>4
    <3>6. EventsOK' /\ \A e : Coming(e) => Coming(e)'
      BY <3>2, <3>3, <3>5, Emitted
    <3>7. \A x \in Customers : Alive(x)' => Alive(x)
      BY <3>1, Names DEF Alive, TablesOK
    <3> QED
      BY <1>2, <2>1, <3>1, <3>3, <3>6, <3>7 DEF TablesOK
  <2>2. CASE st = "over"
    <3>1. /\ IF Alive(ch) THEN Trouble /\ left' = left \cup {ch}
             ELSE UNCHANGED <<trouble, left>>
          /\ UNCHANGED pbx
      BY <1>1, <1>2, <2>2
    <3>2. Onward /\ FreshKept
      BY <3>1 DEF Onward, FreshKept, pbx
    <3>3. LetGo(ch)'
      BY <1>2, <3>1 DEF LetGo, Alive, Exists, pbx, TablesOK
    <3>4. left' \subseteq Customers /\ trouble' \in 0 .. MaxTrouble
      BY <3>1, Counted DEF TablesOK
    <3> QED
      BY <3>1, <3>2, <3>3, <3>4, Stays DEF TablesOK, Alive, Coming, pbx
  <2> QED
    BY <2>1, <2>2
<1>4. st = "over" => LetGo(inb[i].ch)'
  <2>1. inb'[i].ch = inb[i].ch
    BY <1>1, InboundIs
  <2>2. st = "over" => \A x : x = ch => LetGo(x)'
    BY <1>3
  <2> QED
    BY <1>2, <2>1, <2>2
<1>5. TasksOK' /\ LooseInv'
  BY <1>1, <1>3, <1>4, InboundMoved
<1>6. MappedInv' /\ AheadInv'
  BY <1>1, <1>3, MappedStays, AheadStays DEF Swept, AheadInv
<1>7. HandlerInv' /\ RegisteredInv'
  <2>1. inb'[i].stage = st /\ \A j \in In : j # i => inb'[j] = inb[j]
    BY <1>1, InboundIs
  <2> QED
    BY <1>1, <2>1 DEF HandlerInv, RegisteredInv
<1>8. TablesOK'
  <2>1. mixing' = mixing /\ online' = online
    BY <1>1 DEF pbx
  <2> QED
    BY <1>1, <1>3, <2>1 DEF TablesOK
<1> QED
  BY <1>1, <1>3, <1>5, <1>6, <1>7, <1>8, Stays

(* The caller's call is registered, and its channel mapped.                *)
LEMMA InboundRegisteredOK ==
  ASSUME GatewayInv, NEW i \in In, InboundRegistered(i)
  PROVE  GatewayInv'
<1> USE DEF GatewayInv
<1>1. /\ inb[i].stage = "row" /\ inb' = [inb EXCEPT ![i].stage = "bridge"]
      /\ order' = Append(order, i) /\ rec[i] = None /\ i \in Calls
      /\ UNCHANGED <<sweeps, dial, sockets, pbx, trouble, left>>
  BY Names DEF InboundRegistered, InboundMoves, RegisteredInv
<1>2. PICK ch \in Customers : ch = inb[i].ch /\ Exists(ch) /\ ch \in Channels
  BY <1>1, Names DEF TasksOK
<1>3. PICK r \in Record : r = NewCall("connected", ch, None) /\ r.cust = ch
                          /\ ~Bad(r) /\ r.status = "connected"
  <2>1. "connected" \in Statuses
    BY DEF Statuses
  <2> QED
    BY <2>1, NewCallIs DEF Bad
<1>4. rec' = [rec EXCEPT ![i] = r] /\ chan' = [chan EXCEPT ![ch] = i, ![Media(i)] = i]
  BY <1>2, <1>3 DEF InboundRegistered
<1>5. PICK n \in Hold :
        /\ n.who = "inbound" /\ n.call = i /\ n.snap = r
        /\ holds' = holds \cup {n}
  <2> DEFINE n == [who |-> "inbound", call |-> i, ch |-> ch,
                   mine |-> TRUE, snap |-> r, cur |-> TRUE]
  <2>1. n \in Hold
    BY <1>1, <1>2 DEF Hold
  <2>2. holds' = holds \cup {n}
    BY <1>2, <1>3 DEF InboundRegistered
  <2> QED
    BY <2>1, <2>2
<1>6. Onward /\ FreshKept
  BY <1>1 DEF Onward, FreshKept, pbx
<1>7. r # None /\ rec'[i] = r /\ Exists(r.cust)'
      /\ \A c \in Calls : c # i => rec'[c] = rec[c]
  <2>1. Exists(ch)'
    BY <1>2, <1>6, OnwardKeeps
  <2> QED
    BY <1>1, <1>3, <1>4, <2>1, NoneIsNoRecord DEF RecordsOK
<1>8. RecordsOK'
  BY <1>1, <1>4, <1>6, <1>7, RecordStored
<1>9. HoldsOK'
  <2>1. \A h \in holds : HoldOK(h)'
    <3> SUFFICES ASSUME NEW h \in holds PROVE HoldOK(h)'
      OBVIOUS
    <3>1. HoldOK(h) /\ h.call \in Calls /\ h.call # i
      BY <1>1 DEF HoldsOK, HoldOK, Hold
    <3>2. Exists(h.snap.cust)'
      BY <1>6, <3>1, OnwardKeeps DEF HoldOK
    <3> QED
      BY <1>7, <3>1, <3>2 DEF HoldOK
  <2>2. HoldOK(n)'
    BY <1>3, <1>5, <1>7 DEF HoldOK
  <2> QED
    BY <1>5, <2>1, <2>2 DEF HoldsOK
<1>10. /\ \A x \in Channels : chan'[x] = chan[x] \/ chan'[x] = i
       /\ \A x \in Customers : x # ch => chan'[x] = chan[x]
       /\ chan'[ch] = i /\ chan' \in [Channels -> Calls \cup {None}]
  BY <1>1, <1>2, <1>4, Names DEF TablesOK
<1>11. inb'[i].stage = "bridge" /\ \A j \in In : j # i => inb'[j] = inb[j]
  BY <1>1, InboundIs
<1>12. RegisteredInv'
  <2>1. \A k \in DOMAIN order' : order'[k] \in Calls /\ rec'[order'[k]] # None
    <3>1. \A k \in DOMAIN order' :
            order'[k] = i \/ (k \in DOMAIN order /\ order'[k] = order[k])
      <4>1. order' \in Seq(Calls) /\ Len(order') = Len(order) + 1 /\ order \in Seq(Calls)
        BY <1>1 DEF TablesOK
      <4> QED
        BY <1>1, <4>1
    <3>2. \A k \in DOMAIN order : order[k] \in Calls /\ rec[order[k]] # None
      BY DEF TablesOK, RegisteredInv
    <3> QED
      BY <1>1, <1>7, <3>1, <3>2
  <2>2. \A x \in Channels : chan'[x] # None => rec'[chan'[x]] # None
    BY <1>7, <1>10 DEF TablesOK, RegisteredInv
  <2>3. \A p \in Out : dial[p] = "none" => rec'[p] = None
    BY <1>7, Names, GatewayAssumption DEF RegisteredInv
  <2>4. \A j \in In : inb'[j].stage \in {"none", "route", "row"} => rec'[j] = None
    BY <1>7, <1>11, Names DEF RegisteredInv
  <2>5. \A c \in Calls : sockets[c] # "none" => rec'[c] # None
    BY <1>7 DEF RegisteredInv
  <2> QED
    BY <1>1, <2>1, <2>2, <2>3, <2>4, <2>5 DEF RegisteredInv
<1>13. HandlerInv'
  <2>1. \A h \in holds : h \in holds'
    BY <1>5
  <2>2. \E h \in holds' : h.who = "inbound" /\ h.call = i
    BY <1>5
  <2> QED
    BY <1>1, <1>11, <2>1, <2>2 DEF HandlerInv
<1>14. AheadInv'
  <2>1. \A o \in Out : dial[o] \in {"bridge", "customer"} => Customer(o) # ch
    BY <1>2, Names DEF AheadInv, Exists
  <2>2. \A o \in Out : dial[o] \in {"bridge", "customer"} => chan'[Customer(o)] = o
    BY <1>10, <2>1, Names DEF AheadInv
  <2> QED
    BY <1>1, <1>6, <2>2, AheadStays
<1>15. MappedInv'
  <2> SUFFICES ASSUME NEW x \in Customers, chan'[x] # None, Bad(rec'[chan'[x]])
               PROVE  LetGo(x)' \/ Swept(x)'
    BY DEF MappedInv
  <2>1. x # ch
    <3>1. chan'[ch] = i /\ ~Bad(rec'[i])
      BY <1>3, <1>7, <1>10
    <3> QED
      BY <3>1
  <2>2. chan'[x] = chan[x] /\ chan[x] \in Calls /\ rec[chan[x]] # None
    BY <1>10, <2>1, Names DEF TablesOK, RegisteredInv
  <2>3. Bad(rec[chan[x]])
    BY <1>1, <1>7, <2>2
  <2>4. LetGo(x) \/ Swept(x)
    BY <2>2, <2>3 DEF MappedInv
  <2> QED
    BY <1>1, <1>6, <2>4, OnwardKeeps DEF Swept
<1>16. TasksOK' /\ LooseInv'
  <2>1. \A x \in Customers : chan'[x] = None => chan[x] = None
    BY <1>1, <1>10, Names
  <2>2. chan'[inb[i].ch] # None
    BY <1>1, <1>2, <1>10, Names
  <2> QED
    BY <1>1, <1>6, <2>1, <2>2, InboundMoved DEF pbx, Alive, Coming
<1>17. TablesOK'
  <2>1. order' \in Seq(Calls)
    BY <1>1 DEF TablesOK
  <2> QED
    BY <1>1, <1>10, <2>1 DEF TablesOK, pbx
<1> QED
  BY <1>1, <1>6, <1>8, <1>9, <1>12, <1>13, <1>14, <1>15, <1>16, <1>17, Stays DEF pbx

(* The bridge and the media channel of the caller's call.                  *)
LEMMA InboundMediaOK ==
  ASSUME GatewayInv, NEW i \in In, InboundMedia(i)
  PROVE  GatewayInv'
<1> USE DEF GatewayInv
<1>1. /\ inb[i].stage = "bridge" /\ inb' = [inb EXCEPT ![i].stage = "add"]
      /\ mixing' = [mixing EXCEPT ![i] = "up"]
      /\ MediaComesUp(i) /\ i \in Calls
      /\ UNCHANGED <<rec, order, chan, holds, sweeps, dial, sockets, online, trouble, left>>
  BY Names DEF InboundMedia, InboundMoves
<1>2. /\ \A x \in Customers : ast'[x] = ast[x]
      /\ ast' \in [Channels -> {"none", "ringing", "up", "gone"}]
      /\ Onward => EventsOK' /\ \A e : Coming(e) => Coming(e)'
  BY <1>1, MediaCame
<1>3. Onward /\ FreshKept
  BY <1>1, <1>2 DEF Onward, FreshKept
<1>4. inb'[i].stage = "add" /\ \A j \in In : j # i => inb'[j] = inb[j]
  BY <1>1, InboundIs
<1>5. HandlerInv' /\ RegisteredInv' /\ AheadInv' /\ MappedInv'
  BY <1>1, <1>3, <1>4, AheadStays, MappedStays DEF HandlerInv, RegisteredInv, AheadInv, Swept
<1>6. TasksOK' /\ LooseInv'
  BY <1>1, <1>2, <1>3, InboundMoved DEF Alive
<1>7. TablesOK'
  BY <1>1, <1>2 DEF TablesOK
<1> QED
  BY <1>1, <1>2, <1>3, <1>5, <1>6, <1>7, Stays

(* The caller joins the bridge.                                            *)
LEMMA InboundAddsOK ==
  ASSUME GatewayInv, NEW i \in In, InboundAdds(i)
  PROVE  GatewayInv'
<1> USE DEF GatewayInv
<1>1. /\ inb[i].stage = "add" /\ inb' = [inb EXCEPT ![i].stage = "live"] /\ i \in Calls
      /\ UNCHANGED <<order, chan, sweeps, dial, sockets, pbx, trouble, left>>
  BY Names DEF InboundAdds, InboundMoves
<1>2. PICK h \in holds : /\ h = HoldOf("inbound", i) /\ HoldOK(h)
                         /\ h.who = "inbound" /\ h.call = i
  BY <1>1, HoldOfIs DEF HandlerInv
<1>3. Onward /\ FreshKept
  BY <1>1 DEF Onward, FreshKept, pbx
<1>4. inb'[i].stage = "live" /\ \A j \in In : j # i => inb'[j] = inb[j]
  BY <1>1, InboundIs
<1>5. RecordsOK' /\ HoldsOK' /\ HandlerInv' /\ RegisteredInv' /\ MappedInv'
  <2>1. CASE UNCHANGED <<rec, holds>>
    BY <1>1, <1>3, <1>4, <2>1, Stays, MappedStays DEF HandlerInv, RegisteredInv, Swept
  <2>2. CASE ~UNCHANGED <<rec, holds>>
    <3>1. PICK r \in Record : /\ r = [h.snap EXCEPT !.custIn = IsCustomer(h.snap, h.ch)]
                              /\ r.cust = h.snap.cust /\ ~Bad(r)
      <4>1. PICK q \in Record : q = h.snap /\ q.status = "connected"
        BY <1>2 DEF HoldOK, Hold
      <4>2. PICK b \in BOOLEAN : b = IsCustomer(h.snap, h.ch)
        BY DEF IsCustomer
      <4>3. PICK r \in Record : /\ r = [q EXCEPT !.custIn = b]
                                /\ r.cust = q.cust /\ r.status = q.status
        BY WithFlagIs
      <4> QED
        BY <4>1, <4>2, <4>3 DEF Bad
    <3>2. rec' = [rec EXCEPT ![i] = r] /\ holds' = Outdated(i, None)
      BY <1>2, <2>2, <3>1 DEF InboundAdds, Store
    <3>3. Exists(r.cust)' /\ Exists(None)' /\ rec[i] # None
      BY <1>2, <1>3, <3>1, OnwardKeeps, Names DEF HoldOK, Exists
    <3>4. /\ \A g \in Outdated(i, None) : HoldOK(g)'
          /\ \A f \in holds : \E g \in Outdated(i, None) : g.who = f.who /\ g.call = f.call
      BY <1>1, <1>3, <3>2, <3>3, OutdatedOK
    <3>5. RecordsOK' /\ rec'[i] = r
      BY <1>1, <1>3, <3>2, <3>3, RecordStored
    <3>6. HoldsOK' /\ HandlerInv'
      <4>1. \A f \in holds : \E g \in holds' : g.who = f.who /\ g.call = f.call
        BY <3>2, <3>4
      <4>2. \A j \in In : inb'[j].stage \in {"bridge", "add", "live"} =>
              inb[j].stage \in {"bridge", "add", "live"}
        BY <1>1, <1>4
      <4>3. HandlerInv'
        BY <1>1, <4>1, <4>2 DEF HandlerInv
      <4> QED
        BY <3>2, <3>4, <4>3 DEF HoldsOK
    <3>7. RegisteredInv'
      <4>1. \A c \in Calls : rec'[c] = None <=> rec[c] = None
        BY <1>1, <3>2, <3>3, <3>5, NoneIsNoRecord DEF RecordsOK
      <4>2. \A k \in DOMAIN order : order[k] \in Calls
        BY DEF TablesOK
      <4>3. \A j \in In : inb'[j].stage \in {"none", "route", "row"} =>
              inb[j].stage \in {"none", "route", "row"}
        BY <1>4
      <4> QED
        BY <1>1, <4>1, <4>2, <4>3, Names DEF RegisteredInv, TablesOK
    <3>8. MappedInv'
      <4>1. \A c \in Calls : Bad(rec'[c]) => Bad(rec[c])
        BY <3>1, <3>2, <3>5 DEF RecordsOK
      <4> QED
        BY <1>1, <1>3, <4>1, MappedStays DEF Swept
    <3> QED
      BY <3>5, <3>6, <3>7, <3>8
  <2> QED
    BY <2>1, <2>2
<1>6. TasksOK' /\ LooseInv' /\ AheadInv'
  BY <1>1, <1>3, InboundMoved, AheadStays DEF Alive, Coming, pbx, AheadInv
<1>7. TablesOK'
  BY <1>1 DEF TablesOK, pbx
<1> QED
  BY <1>1, <1>3, <1>5, <1>6, <1>7, Stays DEF pbx

(* The object of handleInboundCall is let go of.                           *)
LEMMA InboundOver ==
  ASSUME GatewayInv, Onward, NEW i \in In, inb' = [inb EXCEPT ![i].stage = "over"],
         holds' \subseteq holds, \A h \in holds : h \in holds' \/ h.who # "dial",
         \A h \in holds : h.call # i => h \in holds',
         UNCHANGED <<rec, order, chan, dial, sockets>>
  PROVE  HoldsOK' /\ HandlerInv' /\ RegisteredInv'
<1> USE DEF GatewayInv
<1>1. inb'[i].stage = "over" /\ \A j \in In : j # i => inb'[j] = inb[j]
  BY InboundIs
<1>2. HoldsOK'
  BY HoldsStay DEF HoldsOK
<1>3. RegisteredInv'
  BY <1>1 DEF RegisteredInv
<1>4. HandlerInv'
  BY <1>1 DEF HandlerInv
<1> QED
  BY <1>2, <1>3, <1>4

(* The set-up fails and the caller is dropped.                             *)
LEMMA InboundFailsOK ==
  ASSUME GatewayInv, NEW i \in In, InboundFails(i)
  PROVE  GatewayInv'
<1> USE DEF GatewayInv
<1>1. /\ inb[i].stage \in {"row", "bridge"} /\ inb' = [inb EXCEPT ![i].stage = "over"]
      /\ Trouble /\ holds' = {h \in holds : ~(h.who = "inbound" /\ h.call = i)}
      /\ UNCHANGED <<rec, order, chan, sweeps, dial, sockets, mixing, online>>
  BY DEF InboundFails
<1>2. PICK ch \in Customers : ch = inb[i].ch /\ Exists(ch) /\ DropsCaller(ch)
  BY <1>1 DEF TasksOK, InboundFails
<1>3. /\ Onward /\ FreshKept /\ LetGo(ch)'
      /\ ast' \in [Channels -> {"none", "ringing", "up", "gone"}]
      /\ left' \subseteq Customers
      /\ \A x \in Customers : Alive(x)' => Alive(x)
      /\ EventsOK' /\ \A e : Coming(e) => Coming(e)'
  BY <1>2, DropsCallerOK
<1>4. LetGo(inb[i].ch)'
  <2>1. inb'[i].ch = inb[i].ch
    BY <1>1, InboundIs
  <2>2. \A x : x = ch => LetGo(x)'
    BY <1>3
  <2> QED
    BY <1>2, <2>1, <2>2
<1>5. TasksOK' /\ LooseInv'
  BY <1>1, <1>3, <1>4, InboundMoved
<1>6. MappedInv' /\ AheadInv'
  BY <1>1, <1>3, MappedStays, AheadStays DEF Swept, AheadInv
<1>7. HoldsOK' /\ HandlerInv' /\ RegisteredInv'
  BY <1>1, <1>3, InboundOver
<1>8. TablesOK'
  BY <1>1, <1>3, Counted DEF TablesOK
<1> QED
  BY <1>1, <1>3, <1>5, <1>6, <1>7, <1>8, Stays

(* The call is over; its failure path cleans up.                           *)
LEMMA InboundFinalizedOK ==
  ASSUME GatewayInv, NEW i \in In, InboundFinalized(i)
  PROVE  GatewayInv'
<1> USE DEF GatewayInv
<1>1. /\ inb[i].stage = "live" /\ inb' = [inb EXCEPT ![i].stage = "over"] /\ i \in Calls
      /\ UNCHANGED <<rec, order, chan, dial, sockets, pbx>>
  BY Names DEF InboundFinalized, InboundMoves
<1>2. PICK h \in holds : /\ h = HoldOf("inbound", i) /\ HoldOK(h)
                         /\ h.who = "inbound" /\ h.call = i
  BY <1>1, HoldOfIs DEF HandlerInv
<1>3. PICK r \in Record : r = h.snap /\ Exists(r.cust)
  BY <1>2 DEF HoldOK, Hold
<1>4. holds' = holds \ {h}
  BY <1>2 DEF InboundFinalized
<1>5. /\ left \subseteq left' /\ left' \subseteq Customers /\ trouble' \in 0 .. MaxTrouble
      /\ sweeps' = sweeps \/ sweeps' = sweeps \cup {SweepOf(i, r)}
  BY <1>2, <1>3, Counted DEF InboundFinalized, TablesOK, Forgotten
<1>6. Onward /\ FreshKept
  BY <1>1, <1>5 DEF Onward, FreshKept, pbx
<1>7. SweepsOK' /\ \A x \in Customers : Swept(x) => Swept(x)'
  <2>1. Exists(r.cust)'
    BY <1>3, <1>6, OnwardKeeps
  <2>2. CASE sweeps' = sweeps
    BY <1>6, <2>2, Stays DEF Swept
  <2>3. CASE sweeps' = sweeps \cup {SweepOf(i, r)}
    BY <1>1, <1>6, <2>1, <2>3, SweepAdded
  <2> QED
    BY <1>5, <2>2, <2>3
<1>8. MappedInv' /\ AheadInv'
  BY <1>1, <1>6, <1>7, MappedStays, AheadStays DEF AheadInv
<1>9. HoldsOK' /\ HandlerInv' /\ RegisteredInv'
  BY <1>1, <1>2, <1>4, <1>6, InboundOver
<1>10. TasksOK' /\ LooseInv'
  BY <1>1, <1>6, InboundMoved DEF Alive, Coming, pbx
<1>11. TablesOK'
  BY <1>1, <1>5 DEF TablesOK, pbx
<1> QED
  BY <1>1, <1>6, <1>7, <1>8, <1>9, <1>10, <1>11, Stays DEF pbx

-----------------------------------------------------------------------------
(* The invariant, and what follows from it                                 *)

(* Before anything has happened.                                           *)
LEMMA GatewayBegins ==
  ASSUME GatewayInit
  PROVE  GatewayInv
<1> USE DEF GatewayInit, GatewayInv
<1>1. TablesOK
  BY GatewayAssumption DEF TablesOK
<1>2. RecordsOK /\ HoldsOK /\ SweepsOK /\ EventsOK
  BY DEF RecordsOK, HoldsOK, SweepsOK, EventsOK
<1>3. TasksOK
  BY Names DEF TasksOK, Task, Exists
<1>4. RegisteredInv /\ HandlerInv /\ AheadInv
  BY Names DEF RegisteredInv, HandlerInv, AheadInv
<1>5. MappedInv /\ LooseInv
  BY Names DEF MappedInv, LooseInv, Alive
<1> QED
  BY <1>1, <1>2, <1>3, <1>4, <1>5

(* A step of something else.                                               *)
LEMMA GatewayIdles ==
  ASSUME GatewayInv, UNCHANGED gatewayVars
  PROVE  GatewayInv'
<1>1. /\ UNCHANGED <<rec, order, chan, holds, sweeps, dial, inb, sockets, ast>>
      /\ UNCHANGED <<mixing, events, online, trouble, left>>
  BY DEF gatewayVars
<1>2. Onward /\ FreshKept
  BY <1>1 DEF Onward, FreshKept
<1>3. TablesOK'
  BY <1>1 DEF GatewayInv, TablesOK
<1>4. MappedInv' /\ LooseInv' /\ AheadInv'
  BY <1>1, <1>2, MappedStays, LooseStays, AheadStays
     DEF GatewayInv, Swept, Alive, Coming, AheadInv
<1> QED
  BY <1>1, <1>2, <1>3, <1>4, Stays, SocketsStay DEF GatewayInv

(* Each step of the gateway, of its callers or of Asterisk keeps the       *)
(* invariant.                                                              *)
LEMMA GatewayKeeps ==
  ASSUME GatewayInv, GatewayNext
  PROVE  GatewayInv'
<1>1. CASE PbxStep
  BY <1>1, PicksUpOK, HangsUpOK, CallerRingsOK, SocketClosesOK, ReconnectsOK DEF PbxStep
<1>2. CASE Deliver
  BY <1>2, DeliverOK
<1>3. ASSUME NEW o \in Out, DialStep(o)
      PROVE  GatewayInv'
  BY <1>3, DialsOK, DialsMediaOK, DialsCustomerOK, DialledOK, InitiateFailsOK DEF DialStep
<1>4. ASSUME NEW i \in In, InboundStep(i)
      PROVE  GatewayInv'
  BY <1>4, InboundRejectedOK, InboundAnsweredOK, InboundRegisteredOK, InboundMediaOK,
     InboundAddsOK, InboundFailsOK, InboundFinalizedOK DEF InboundStep
<1>5. ASSUME NEW c \in Calls, MediaStep(c) \/ DeleteCall(c)
      PROVE  GatewayInv'
  BY <1>5, MediaStartsOK, MediaClosesOK, MediaErrsOK, DeleteCallOK DEF MediaStep
<1>6. ASSUME NEW h \in holds, AddAnswered(h)
      PROVE  GatewayInv'
  BY <1>6, AddAnsweredOK
<1>7. ASSUME NEW s \in sweeps, SweepAsks(s) \/ SweepAnswered(s)
      PROVE  GatewayInv'
  BY <1>7, SweepAsksOK, SweepAnsweredOK
<1> QED
  BY <1>1, <1>2, <1>3, <1>4, <1>5, <1>6, <1>7 DEF GatewayNext

(* The invariant holds of every reachable state.                           *)
LEMMA GatewayAlways == GatewaySpec => []GatewayInv
<1>1. GatewayInit => GatewayInv
  BY GatewayBegins
<1>2. GatewayInv /\ [GatewayNext]_gatewayVars => GatewayInv'
  BY GatewayKeeps, GatewayIdles
<1> QED
  BY <1>1, <1>2, PTL DEF GatewaySpec

(* What the properties say follows from it.                                *)
LEMMA ChannelsFollow ==
  ASSUME GatewayInv
  PROVE  ChannelsSafe
<1> USE DEF GatewayInv
<1>1. RegistriesOK
  <2>1. \A s \in sweeps : s.call \in Calls /\ s.todo # <<>>
    <3> SUFFICES ASSUME NEW s \in sweeps PROVE s.call \in Calls /\ s.todo # <<>>
      OBVIOUS
    <3>1. s \in Sweep
      BY DEF SweepsOK, SweepOK
    <3>2. s.call \in Calls
      BY <3>1 DEF Sweep
    <3>3. s.todo # <<>>
      <4>1. CASE \E c \in Calls : s.todo = <<Media(c)>>
        BY <4>1
      <4>2. CASE \E x \in Customers, c \in Calls : s.todo = <<x, Media(c)>>
        BY <4>2
      <4> QED
        BY <3>1, <4>1, <4>2 DEF Sweep
    <3> QED
      BY <3>2, <3>3
  <2> QED
    BY <2>1 DEF RegistriesOK, TablesOK, RecordsOK, HoldsOK, HoldOK
<1>2. NoStrayChannel
  <2> SUFFICES ASSUME Quiet, NEW ch \in Customers, ch \notin left, Alive(ch)
               PROVE  chan[ch] # None /\ rec[chan[ch]].status \notin {"failed", "ended"}
    BY DEF NoStrayChannel
  <2>1. sweeps = {} /\ InFlight = {} /\ events = <<>>
    BY DEF Quiet
  <2>2. ~LetGo(ch) /\ ~Swept(ch)
    BY <2>1 DEF LetGo, Swept, Alive
  <2>3. chan[ch] # None
    <3>1. ~Coming(Event("StasisStart", ch))
      BY <2>1 DEF Coming
    <3>2. ~\E i \in In : inb[i].ch = ch /\ inb[i].stage \in {"route", "row"}
      BY <2>1 DEF InFlight
    <3> QED
      BY <3>1, <3>2 DEF LooseInv
  <2> QED
    BY <2>2, <2>3 DEF MappedInv, Bad
<1> QED
  BY <1>1, <1>2 DEF ChannelsSafe

(* Channels: whatever rings, answers, hangs up or fails, once nothing is   *)
(* under way a customer's channel that Asterisk still has is mapped to a   *)
(* call that is not over, or was knowingly let go of.                      *)
THEOREM ChannelsAreSafe == GatewaySpec => []ChannelsSafe
  BY GatewayAlways, ChannelsFollow, PTL
=============================================================================
