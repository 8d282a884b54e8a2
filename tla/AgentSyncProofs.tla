--------------------------- MODULE AgentSyncProofs ---------------------------
(***************************************************************************)
(* Proofs about AgentSync, for any numbers of jobs, agents and edits and   *)
(* any of the faults.  Side by side, jobs can do nearly anything to each   *)
(* other; the invariant says what one job that works alone knows of the    *)
(* row and of ElevenLabs before each of its requests.                      *)
(***************************************************************************)
EXTENDS AgentSync, TLAPS

Labels == Running \cup {"none", "waiting", "done"}

(* The steps of a job after it has read the row.                           *)
Work(j) ==
  \/ Provision(j) \/ Post(j) \/ List(j) \/ Patch(j) \/ Forget(j)
  \/ Delete(j) \/ Clear(j) \/ MarkFailed(j) \/ WriteSuccess(j)
(* The job that has read the row, and the one that could not.              *)
Starts(j) == ReadRow(j) /\ pc'[j] = "provision"
Unread(j) == ReadRow(j) /\ pc'[j] # "provision"

SlotsKept(j) ==
  \A k \in Jobs \ {j} : /\ pc'[k] = pc[k] /\ action'[k] = action[k]
                        /\ snap'[k] = snap[k] /\ found'[k] = found[k]

----------------------------------------------------------------------------
(* What a step does to the jobs                                            *)

LEMMA GotoJob ==
  ASSUME JobsOK, NEW j \in Jobs, NEW label \in Labels, Goto(j, label)
  PROVE  /\ JobsOK' /\ SlotsKept(j) /\ pc'[j] = label
         /\ action'[j] = action[j] /\ snap'[j] = snap[j] /\ found'[j] = found[j]
<1>1. pc' \in [Jobs -> Labels] /\ pc'[j] = label /\ \A k \in Jobs \ {j} : pc'[k] = pc[k]
  BY DEF Goto, JobsOK, Labels
<1>2. UNCHANGED <<action, snap, found, transient, stalledOnce>>
  BY DEF Goto
<1> QED
  BY <1>1, <1>2 DEF JobsOK, SlotsKept, Labels

LEMMA GotoWithJob ==
  ASSUME JobsOK, NEW j \in Jobs, NEW label \in Labels, NEW agent \in Agents \cup {None},
         GotoWith(j, label, agent)
  PROVE  /\ JobsOK' /\ SlotsKept(j) /\ pc'[j] = label
         /\ action'[j] = action[j] /\ snap'[j] = snap[j] /\ found'[j] = agent
<1>1. pc' \in [Jobs -> Labels] /\ pc'[j] = label /\ \A k \in Jobs \ {j} : pc'[k] = pc[k]
  BY DEF GotoWith, JobsOK, Labels
<1>2. /\ found' \in [Jobs -> Agents \cup {None}] /\ found'[j] = agent
      /\ \A k \in Jobs \ {j} : found'[k] = found[k]
  BY DEF GotoWith, JobsOK
<1>3. UNCHANGED <<action, snap, transient, stalledOnce>>
  BY DEF GotoWith
<1> QED
  BY <1>1, <1>2, <1>3 DEF JobsOK, SlotsKept, Labels

LEMMA BlankOK == Blank \in Snapshots
BY SyncAssumption DEF Blank, Snapshots, Versions

LEMMA LeaveJob ==
  ASSUME JobsOK, NEW j \in Jobs, Leave(j)
  PROVE  JobsOK' /\ SlotsKept(j) /\ pc'[j] = "done"
<1>1. pc' \in [Jobs -> Labels] /\ pc'[j] = "done" /\ \A k \in Jobs \ {j} : pc'[k] = pc[k]
  BY DEF Leave, JobsOK, Labels
<1>2. /\ snap' \in [Jobs -> Snapshots] /\ \A k \in Jobs \ {j} : snap'[k] = snap[k]
  BY BlankOK DEF Leave, JobsOK
<1>3. /\ action' \in [Jobs -> Actions] /\ \A k \in Jobs \ {j} : action'[k] = action[k]
      /\ found' \in [Jobs -> Agents \cup {None}] /\ \A k \in Jobs \ {j} : found'[k] = found[k]
  BY DEF Leave, JobsOK, Actions
<1>4. transient' \in [Jobs -> BOOLEAN] /\ stalledOnce' \in [Jobs -> BOOLEAN]
  BY DEF Leave, JobsOK
<1> QED
  BY <1>1, <1>2, <1>3, <1>4 DEF JobsOK, SlotsKept, Labels

LEMMA AwaitJob ==
  ASSUME JobsOK, NEW j \in Jobs, NEW a \in Actions, Await(j, a)
  PROVE  JobsOK' /\ SlotsKept(j) /\ pc'[j] = "waiting"
<1>1. pc' \in [Jobs -> Labels] /\ pc'[j] = "waiting" /\ \A k \in Jobs \ {j} : pc'[k] = pc[k]
  BY DEF Await, JobsOK, Labels
<1>2. action' \in [Jobs -> Actions] /\ \A k \in Jobs \ {j} : action'[k] = action[k]
  BY DEF Await, JobsOK
<1>3. UNCHANGED <<snap, found, transient, stalledOnce>>
  BY DEF Await
<1> QED
  BY <1>1, <1>2, <1>3 DEF JobsOK, SlotsKept, Labels

LEMMA RowSnapshot == ASSUME TypeOK PROVE Row \in Snapshots
BY DEF TypeOK, RowOK, Row, Snapshots

LEMMA FirstStepLabel ==
  ASSUME TypeOK, NEW j \in Jobs
  PROVE  /\ FirstStep(j) \in {"markFailed", "clear", "delete", "success", "patch", "post"}
         /\ FirstStep(j) = "clear" => snap[j].agent = None
         /\ FirstStep(j) = "post" => snap[j].agent = None
         /\ FirstStep(j) = "success" => action[j] = "create" /\ snap[j].agent # None
         /\ FirstStep(j) = "patch" => snap[j].agent # None
<1>1. snap[j].voice \in BOOLEAN /\ action[j] \in Actions
  BY DEF TypeOK, JobsOK, Snapshots
<1> QED
  BY <1>1 DEF FirstStep, Actions

(* A job that works: its own slot changes.                                 *)
LEMMA WorkJobs ==
  ASSUME TypeOK, NEW j \in Jobs, Work(j)
  PROVE  JobsOK' /\ SlotsKept(j) /\ Active(j)
<1>0. Active(j)
  BY DEF Work, Provision, Post, List, Patch, Forget, Delete, Clear, MarkFailed, WriteSuccess,
    Active, Running
<1>1. JobsOK
  BY DEF TypeOK
<1>2. CASE Leave(j)
  BY <1>0, <1>1, <1>2, LeaveJob
<1>3. ASSUME NEW label \in Labels, Goto(j, label)
      PROVE  JobsOK' /\ SlotsKept(j)
  BY <1>1, <1>3, GotoJob
<1>4. ASSUME NEW label \in Labels, NEW a \in Agents \cup {None}, GotoWith(j, label, a)
      PROVE  JobsOK' /\ SlotsKept(j)
  BY <1>1, <1>4, GotoWithJob
<1>5. CASE Provision(j)
  <2>1. PICK label \in Labels : label = FirstStep(j)
    BY FirstStepLabel DEF Labels, Running
  <2>2. PICK a \in Agents \cup {None} : a = snap[j].agent
    BY <1>1 DEF JobsOK, Snapshots
  <2> QED
    BY <1>0, <1>2, <1>4, <1>5, <2>1, <2>2 DEF Provision
<1>6. CASE Post(j)
  <2>1. CASE \E a \in Agents : GotoWith(j, "success", a)
    BY <1>0, <1>4, <2>1 DEF Labels, Running
  <2>2. CASE Goto(j, "markFailed")
    BY <1>0, <1>3, <2>2 DEF Labels, Running
  <2>3. CASE /\ pc' = [pc EXCEPT ![j] = "list"]
             /\ UNCHANGED found \/ \E a \in Agents : found' = [found EXCEPT ![j] = a]
             /\ \E t \in BOOLEAN : transient' = [transient EXCEPT ![j] = t]
             /\ UNCHANGED <<action, snap, stalledOnce>>
    <3>1. pc' \in [Jobs -> Labels] /\ \A k \in Jobs \ {j} : pc'[k] = pc[k]
      BY <1>1, <2>3 DEF JobsOK, Labels, Running
    <3>2. found' \in [Jobs -> Agents \cup {None}] /\ \A k \in Jobs \ {j} : found'[k] = found[k]
      BY <1>1, <2>3 DEF JobsOK
    <3>3. transient' \in [Jobs -> BOOLEAN]
      BY <1>1, <2>3 DEF JobsOK
    <3> QED
      BY <1>0, <1>1, <2>3, <3>1, <3>2, <3>3 DEF JobsOK, SlotsKept, Labels
  <2> QED
    BY <1>6, <2>1, <2>2, <2>3 DEF Post
<1>7. CASE List(j)
  <2>1. \/ Leave(j) \/ Goto(j, "markFailed") \/ \E a \in live : GotoWith(j, "success", a)
    BY <1>7 DEF List, Rethrow
  <2>2. live \subseteq Agents
    BY DEF TypeOK, ElevenLabsOK
  <2> QED
    BY <1>0, <1>2, <1>3, <1>4, <2>1, <2>2 DEF Labels, Running
<1>8. CASE Forget(j)
  <2>1. /\ pc' = [pc EXCEPT ![j] = "post"] /\ UNCHANGED <<action, found, transient, stalledOnce>>
        /\ snap' = [snap EXCEPT ![j].agent = None]
    BY <1>8 DEF Forget
  <2>2. pc' \in [Jobs -> Labels] /\ \A k \in Jobs \ {j} : pc'[k] = pc[k]
    BY <1>1, <2>1 DEF JobsOK, Labels, Running
  <2>3. PICK s : s = [snap[j] EXCEPT !.agent = None]
    OBVIOUS
  <2>4. s \in Snapshots
    BY <1>1, <2>3 DEF JobsOK, Snapshots
  <2>5. snap' = [snap EXCEPT ![j] = s]
    BY <2>1, <2>3
  <2>6. snap' \in [Jobs -> Snapshots] /\ \A k \in Jobs \ {j} : snap'[k] = snap[k]
    BY <1>1, <2>4, <2>5 DEF JobsOK
  <2> QED
    BY <1>0, <1>1, <2>1, <2>2, <2>6 DEF JobsOK, SlotsKept, Labels
<1>9. CASE Patch(j) \/ Delete(j)
  <2>1. Leave(j) \/ Goto(j, "success") \/ Goto(j, "forget") \/ Goto(j, "markFailed")
        \/ Goto(j, "clear")
    BY <1>9 DEF Patch, Delete
  <2> QED
    BY <1>0, <1>2, <1>3, <2>1 DEF Labels, Running
<1>10. CASE Clear(j) \/ MarkFailed(j) \/ WriteSuccess(j)
  <2>1. Leave(j) \/ Goto(j, "markFailed")
    BY <1>10 DEF Clear, MarkFailed, WriteSuccess, Settle, SettleFails
  <2> QED
    BY <1>0, <1>2, <1>3, <2>1 DEF Labels, Running
<1> QED
  BY <1>5, <1>6, <1>7, <1>8, <1>9, <1>10 DEF Work

LEMMA StartJobs ==
  ASSUME TypeOK, NEW j \in Jobs, ReadRow(j)
  PROVE  /\ JobsOK' /\ SlotsKept(j) /\ ~Active(j)
         /\ Starts(j) => /\ pc'[j] = "provision" /\ snap'[j] = Row /\ action'[j] = action[j]
                         /\ Mix(SomeActive \/ resync # None)
         /\ Unread(j) => pc'[j] = "done" /\ UNCHANGED <<mixed, disturbed>>
<1>0. ~Active(j) /\ JobsOK
  BY DEF ReadRow, Active, Running, TypeOK
<1>1. CASE /\ pc' = [pc EXCEPT ![j] = "provision"] /\ snap' = [snap EXCEPT ![j] = Row]
           /\ Mix(SomeActive \/ resync # None)
           /\ UNCHANGED <<action, found, transient, stalledOnce>>
  <2>1. /\ pc' \in [Jobs -> Labels] /\ pc'[j] = "provision"
        /\ \A k \in Jobs \ {j} : pc'[k] = pc[k]
    BY <1>0, <1>1 DEF JobsOK, Labels, Running
  <2>2. /\ snap' \in [Jobs -> Snapshots] /\ snap'[j] = Row
        /\ \A k \in Jobs \ {j} : snap'[k] = snap[k]
    BY <1>0, <1>1, RowSnapshot DEF JobsOK
  <2> QED
    BY <1>0, <1>1, <2>1, <2>2 DEF JobsOK, SlotsKept, Labels, Unread
<1>2. CASE Leave(j) /\ UNCHANGED <<mixed, disturbed>>
  BY <1>0, <1>2, LeaveJob DEF Starts
<1> QED
  BY <1>1, <1>2 DEF ReadRow

(* Steps that are no job's: none starts and none moves.                    *)
Outside == Operators \/ \E j \in Jobs : Unread(j)
ActiveKept ==
  \A k \in Jobs : /\ (pc'[k] \in Running) <=> (pc[k] \in Running)
                  /\ Active(k) => /\ pc'[k] = pc[k] /\ action'[k] = action[k]
                                  /\ snap'[k] = snap[k] /\ found'[k] = found[k]

LEMMA OutsideJobs ==
  ASSUME TypeOK, Outside
  PROVE  JobsOK' /\ ActiveKept
<1>0. JobsOK
  BY DEF TypeOK
<1>1. CASE UNCHANGED jobVars
  BY <1>0, <1>1 DEF jobVars, JobsOK, ActiveKept, Active
<1>2. ASSUME NEW a \in Actions, AddStable(a)
      PROVE  JobsOK' /\ ActiveKept
  <2>1. CASE pc[Stable] = "none" /\ Await(Stable, a)
    <3>1. JobsOK' /\ SlotsKept(Stable) /\ pc'[Stable] = "waiting"
      BY <1>0, <2>1, SyncAssumption, AwaitJob
    <3> QED
      BY <2>1, <3>1, SyncAssumption DEF SlotsKept, ActiveKept, Active, Running
  <2> QED
    BY <1>1, <1>2, <2>1 DEF AddStable
<1>3. ASSUME NEW j \in Jobs, EnqueuePlain(j) \/ Clean(j) \/ Unread(j)
      PROVE  JobsOK' /\ ActiveKept
  <2>1. JobsOK' /\ SlotsKept(j) /\ pc'[j] \notin Running
    <3>1. CASE EnqueuePlain(j)
      BY <1>0, <3>1, AwaitJob DEF EnqueuePlain, Actions, Running
    <3>2. CASE Clean(j)
      BY <1>0, <3>2, GotoJob DEF Clean, Labels, Running
    <3>3. CASE Unread(j)
      BY <3>3, StartJobs DEF Unread, Running
    <3> QED
      BY <1>3, <3>1, <3>2, <3>3
  <2>2. pc[j] \notin Running
    BY <1>3 DEF EnqueuePlain, Clean, Unread, ReadRow, Running
  <2> QED
    BY <2>1, <2>2 DEF SlotsKept, ActiveKept, Active
<1>4. CASE Reset \/ \E a \in Actions : Enqueue(a)
  BY <1>2, <1>4 DEF Reset, Enqueue, Actions
<1>5. CASE Edit \/ EditUnwatched \/ ResyncRead \/ ResyncPush \/ \E a \in Agents : DeleteScript(a)
  BY <1>1, <1>5 DEF Edit, EditUnwatched, ResyncRead, ResyncPush, DeleteScript
<1> QED
  BY <1>3, <1>4, <1>5 DEF Outside, Operators

LEMMA CrashJobs ==
  ASSUME TypeOK, Crash
  PROVE  JobsOK' /\ \A j \in Jobs : pc'[j] \notin Running
<1>1. /\ pc' = [j \in Jobs |-> IF ~Active(j) THEN pc[j]
                               ELSE IF stalledOnce[j] THEN "done" ELSE "waiting"]
      /\ stalledOnce' = [j \in Jobs |-> Active(j) /\ ~stalledOnce[j]]
      /\ snap' = [j \in Jobs |-> Blank]
      /\ found' = [j \in Jobs |-> None]
      /\ transient' = [j \in Jobs |-> FALSE]
      /\ UNCHANGED action
  BY DEF Crash
<1>2. pc' \in [Jobs -> Labels] /\ \A j \in Jobs : pc'[j] \notin Running
  BY <1>1 DEF TypeOK, JobsOK, Active, Labels, Running
<1>3. stalledOnce' \in [Jobs -> BOOLEAN] /\ transient' \in [Jobs -> BOOLEAN]
  BY <1>1, Zenon
<1>4. snap' \in [Jobs -> Snapshots] /\ found' \in [Jobs -> Agents \cup {None}]
  BY <1>1, BlankOK
<1> QED
  BY <1>1, <1>2, <1>3, <1>4 DEF JobsOK, Labels, TypeOK

LEMMA Steps ==
  ASSUME Next
  PROVE  Outside \/ Crash \/ \E j \in Jobs : Starts(j) \/ Work(j)
BY DEF Next, Run, Outside, Starts, Unread, Work

----------------------------------------------------------------------------
(* Types and numbers                                                       *)

(* Versions do not overtake contents: the trigger watches fewer columns.   *)
NumbersInv ==
  /\ version <= content /\ readyAt <= version
  /\ \A j \in Jobs : snap[j].version <= version
  /\ mixed => disturbed

LEMMA RowStep ==
  ASSUME TypeOK, NumbersInv, Next
  PROVE  RowOK' /\ version \in Nat /\ version <= version'
<1> USE SyncAssumption DEF TypeOK, RowOK, Versions
<1>0. version \in Nat /\ version <= version
  OBVIOUS
<1>1. CASE UNCHANGED <<version, content, voice, agentId, agentStatus>>
  BY <1>0, <1>1
<1>2. CASE Edit
  BY <1>2 DEF Edit, NumbersInv
<1>3. CASE EditUnwatched
  BY <1>3 DEF EditUnwatched, NumbersInv
<1>4. CASE /\ UNCHANGED <<version, content, voice>>
           /\ agentStatus' = agentStatus \/ agentStatus' \in Statuses
           /\ agentId' = agentId \/ agentId' \in Agents \cup {None}
  BY <1>0, <1>4
<1>5. CASE Reset
  BY <1>4, <1>5 DEF Reset, Statuses
<1>6. ASSUME NEW j \in Jobs, Work(j)
      PROVE  RowOK' /\ version \in Nat /\ version <= version'
  <2>0. found[j] \in Agents \cup {None}
    BY DEF JobsOK
  <2>1. CASE Provision(j)
    BY <1>4, <2>1 DEF Provision, Statuses
  <2>2. CASE Post(j) \/ List(j) \/ Patch(j) \/ Delete(j)
    BY <1>1, <2>2 DEF Post, List, Patch, Delete, rowVars
  <2>3. CASE Forget(j)
    BY <1>4, <2>3 DEF Forget
  <2>4. CASE Clear(j) \/ MarkFailed(j) \/ WriteSuccess(j)
    BY <1>4, <2>0, <2>4 DEF Clear, MarkFailed, WriteSuccess, Settle, SettleFails, Statuses
  <2> QED
    BY <1>6, <2>1, <2>2, <2>3, <2>4 DEF Work
<1>7. CASE \E j \in Jobs : Starts(j) \/ Unread(j)
  BY <1>1, <1>7 DEF Starts, Unread, ReadRow, rowVars
<1>8. CASE Crash
  BY <1>1, <1>8 DEF Crash, rowVars
<1>9. CASE \/ \E a \in Actions : Enqueue(a)
           \/ \E j \in Jobs : EnqueuePlain(j) \/ Clean(j)
           \/ ResyncRead \/ ResyncPush \/ \E a \in Agents : DeleteScript(a)
  BY <1>1, <1>9 DEF Enqueue, EnqueuePlain, Clean, ResyncRead, ResyncPush, DeleteScript, rowVars
<1> QED
  BY <1>2, <1>3, <1>5, <1>6, <1>7, <1>8, <1>9, Steps DEF Outside, Operators

LEMMA ElevenLabsStep ==
  ASSUME TypeOK, Next
  PROVE  ElevenLabsOK'
<1> USE DEF TypeOK, ElevenLabsOK
<1>0. Versions \subseteq Payloads /\ Partial \in Payloads
  BY DEF Payloads
<1>1. CASE UNCHANGED <<born>> /\ live' \subseteq live
           /\ config' \in [Agents -> Payloads]
  BY <1>1
<1>2. CASE UNCHANGED elVars
  BY <1>2 DEF elVars
<1>3. ASSUME NEW j \in Jobs, Work(j)
      PROVE  ElevenLabsOK'
  <2>0. snap[j] \in Snapshots /\ snap[j].content \in Payloads
    BY <1>0 DEF JobsOK, Snapshots
  <2>1. CASE Post(j)
    <3>1. ASSUME NEW a \in Agents, NewAgent(a, j)
          PROVE  ElevenLabsOK'
      BY <2>0, <3>1 DEF NewAgent
    <3> QED
      BY <1>2, <2>1, <3>1 DEF Post
  <2>2. CASE Patch(j)
    <3>1. \/ UNCHANGED config
          \/ config' = [config EXCEPT ![snap[j].agent] = snap[j].content]
      BY <2>2 DEF Patch
    <3>2. config' \in [Agents -> Payloads]
      BY <2>0, <3>1
    <3> QED
      BY <1>1, <2>2, <3>2 DEF Patch
  <2>3. CASE Delete(j)
    BY <1>1, <2>3 DEF Delete
  <2>4. CASE Provision(j) \/ List(j) \/ Forget(j) \/ Clear(j) \/ MarkFailed(j) \/ WriteSuccess(j)
    BY <1>2, <2>4 DEF Provision, List, Forget, Clear, MarkFailed, WriteSuccess
  <2> QED
    BY <1>3, <2>1, <2>2, <2>3, <2>4 DEF Work
<1>4. CASE \E a \in Agents : DeleteScript(a)
  BY <1>1, <1>4 DEF DeleteScript
<1>5. CASE ResyncPush
  <2>1. resync \in Agents
    BY <1>5 DEF ResyncPush
  <2>2. UNCHANGED config \/ config' = [config EXCEPT ![resync] = Partial]
    BY <1>5 DEF ResyncPush, PushPartial
  <2>3. config' \in [Agents -> Payloads]
    BY <1>0, <2>1, <2>2
  <2> QED
    BY <1>1, <1>5, <2>3 DEF ResyncPush
<1>6. CASE Crash \/ \E j \in Jobs : ReadRow(j)
  BY <1>2, <1>6 DEF Crash, ReadRow
<1>7. CASE Reset \/ Edit \/ EditUnwatched \/ ResyncRead \/ \E a \in Actions : Enqueue(a)
  BY <1>2, <1>7 DEF Reset, Edit, EditUnwatched, ResyncRead, Enqueue
<1>8. CASE \E j \in Jobs : EnqueuePlain(j) \/ Clean(j)
  BY <1>2, <1>8 DEF EnqueuePlain, Clean
<1> QED
  BY <1>3, <1>4, <1>5, <1>6, <1>7, <1>8, Steps DEF Outside, Operators, Starts, Unread

(* What was mixed or disturbed stays so.                                   *)
LEMMA MixStep ==
  ASSUME TypeOK, Next
  PROVE  /\ mixed' \in BOOLEAN /\ disturbed' \in BOOLEAN
         /\ mixed => mixed'
         /\ disturbed => disturbed'
         /\ (mixed => disturbed) => (mixed' => disturbed')
<1>0. mixed \in BOOLEAN /\ disturbed \in BOOLEAN
  BY DEF TypeOK
<1>1. ASSUME NEW b, Mix(b) \/ Disturb(b)
      PROVE  /\ mixed' \in BOOLEAN /\ disturbed' \in BOOLEAN
             /\ mixed => mixed'
             /\ disturbed => disturbed'
             /\ (mixed => disturbed) => (mixed' => disturbed')
  <2>1. CASE Mix(b)
    <3>1. mixed' = (mixed \/ b) /\ disturbed' = (disturbed \/ b)
      BY <2>1 DEF Mix
    <3>2. mixed' \in BOOLEAN /\ disturbed' \in BOOLEAN
      BY <3>1, Zenon
    <3> QED
      BY <3>1, <3>2
  <2>2. CASE Disturb(b)
    <3>1. mixed' = mixed /\ disturbed' = (disturbed \/ b)
      BY <2>2 DEF Disturb
    <3>2. mixed' \in BOOLEAN /\ disturbed' \in BOOLEAN
      BY <1>0, <3>1, Zenon
    <3> QED
      BY <3>1, <3>2
  <2> QED
    BY <1>1, <2>1, <2>2
<1>2. CASE UNCHANGED <<mixed, disturbed>>
  BY <1>0, <1>2
<1>3. \/ UNCHANGED <<mixed, disturbed>>
      \/ \E b : Mix(b) \/ Disturb(b)
  <2>1. CASE Outside
    <3>1. CASE \/ \E a \in Actions : Enqueue(a)
               \/ \E j \in Jobs : EnqueuePlain(j) \/ Clean(j) \/ Unread(j)
               \/ \E a \in Agents : DeleteScript(a)
      BY <3>1, StartJobs DEF Enqueue, EnqueuePlain, Clean, DeleteScript, histVars, Unread
    <3>2. CASE Reset \/ Edit \/ EditUnwatched \/ ResyncRead \/ ResyncPush
      BY <3>2, Zenon DEF Reset, Edit, EditUnwatched, ResyncRead, ResyncPush, histVars
    <3> QED
      BY <2>1, <3>1, <3>2 DEF Outside, Operators
  <2>2. CASE Crash
    BY <2>2 DEF Crash
  <2>3. CASE \E j \in Jobs : Starts(j)
    BY <2>3, StartJobs DEF Starts
  <2>4. CASE \E j \in Jobs : List(j) \/ WriteSuccess(j)
    BY <2>4, Zenon DEF List, WriteSuccess
  <2>5. CASE \E j \in Jobs : \/ Provision(j) \/ Post(j) \/ Patch(j) \/ Forget(j)
                             \/ Delete(j) \/ Clear(j) \/ MarkFailed(j)
    BY <2>5 DEF Provision, Post, Patch, Forget, Delete, Clear, MarkFailed, histVars
  <2> QED
    BY <2>1, <2>2, <2>3, <2>4, <2>5, Steps DEF Work
<1> QED
  BY <1>1, <1>2, <1>3

LEMMA HistoryStep ==
  ASSUME TypeOK, NumbersInv, Next
  PROVE  /\ unpushed' \in BOOLEAN /\ abandoned' \in BOOLEAN
         /\ readyAt' \in Versions /\ readyAt' <= version'
         /\ resync' \in Agents \cup {None}
<1>0. /\ unpushed \in BOOLEAN /\ abandoned \in BOOLEAN /\ readyAt \in Versions
      /\ resync \in Agents \cup {None}
      /\ version \in Versions /\ content \in Versions /\ agentId \in Agents \cup {None}
  BY DEF TypeOK, RowOK
<1>1. unpushed' \in BOOLEAN /\ abandoned' \in BOOLEAN
  <2>1. ASSUME NEW j \in Jobs, Work(j)
        PROVE  /\ abandoned' \in {abandoned, TRUE, FALSE}
               /\ unpushed' = unpushed \/ \E b \in BOOLEAN : unpushed' = b
    <3>1. CASE Provision(j) \/ Post(j) \/ List(j) \/ Patch(j) \/ Forget(j) \/ Delete(j)
      BY <3>1 DEF Provision, Post, List, Rethrow, Patch, Forget, Delete, histVars
    <3>2. CASE Clear(j) \/ MarkFailed(j)
      BY <3>2 DEF Clear, MarkFailed, Settle, SettleFails
    <3>3. CASE WriteSuccess(j)
      <4>1. abandoned' \in {abandoned, TRUE, FALSE}
        BY <3>3 DEF WriteSuccess, Settle
      <4>2. unpushed' = unpushed \/ unpushed' = (action[j] = "create" /\ snap[j].agent # None)
        BY <3>3, Zenon DEF WriteSuccess
      <4> QED
        BY <4>1, <4>2, Zenon
    <3> QED
      BY <2>1, <3>1, <3>2, <3>3 DEF Work
  <2>2. CASE Outside \/ Crash \/ \E j \in Jobs : Starts(j)
    BY <1>0, <2>2 DEF Outside, Operators, Crash, Starts, Unread, ReadRow, Enqueue, EnqueuePlain,
      Clean, Reset, Edit, EditUnwatched, ResyncRead, ResyncPush, DeleteScript, histVars
  <2> QED
    BY <1>0, <2>1, <2>2, Steps
<1>2. readyAt' \in Versions /\ readyAt' <= version'
  <2>1. CASE UNCHANGED readyAt
    <3>1. version \in Nat /\ version' \in Nat /\ version <= version' /\ readyAt \in Nat
      BY <1>0, RowStep DEF RowOK, Versions
    <3> QED
      BY <1>0, <2>1, <3>1 DEF NumbersInv
  <2>2. CASE readyAt' = version /\ version' = version
    BY <1>0, <2>2 DEF Versions
  <2>3. ASSUME NEW j \in Jobs, Work(j)
        PROVE  UNCHANGED readyAt \/ (readyAt' = version /\ version' = version)
    <3>1. CASE WriteSuccess(j)
      BY <3>1 DEF WriteSuccess
    <3>2. CASE ~WriteSuccess(j)
      BY <2>3, <3>2 DEF Work, Provision, Post, List, Patch, Forget, Delete, Clear, MarkFailed,
        histVars
    <3> QED
      BY <3>1, <3>2
  <2>4. CASE Outside \/ Crash \/ \E j \in Jobs : Starts(j)
    BY <2>1, <2>4 DEF Outside, Operators, Crash, Starts, Unread, ReadRow, Enqueue, EnqueuePlain,
      Clean, Reset, Edit, EditUnwatched, ResyncRead, ResyncPush, DeleteScript, histVars
  <2> QED
    BY <2>1, <2>2, <2>3, <2>4, Steps
<1>3. resync' \in Agents \cup {None}
  <2>1. CASE UNCHANGED resync
    BY <1>0, <2>1
  <2>2. CASE ResyncRead \/ ResyncPush
    BY <1>0, <2>2 DEF ResyncRead, ResyncPush
  <2>3. ASSUME NEW j \in Jobs, Work(j)
        PROVE  UNCHANGED resync
    BY <2>3 DEF Work, Provision, Post, List, Patch, Forget, Delete, Clear, MarkFailed, WriteSuccess
  <2>4. CASE Outside \/ Crash \/ \E j \in Jobs : Starts(j)
    BY <2>1, <2>2, <2>4 DEF Outside, Operators, Crash, Starts, Unread, ReadRow, Enqueue,
      EnqueuePlain, Clean, Reset, Edit, EditUnwatched, DeleteScript
  <2> QED
    BY <2>1, <2>3, <2>4, Steps
<1> QED
  BY <1>1, <1>2, <1>3

LEMMA JobsStep ==
  ASSUME TypeOK, Next
  PROVE  JobsOK'
BY Steps, OutsideJobs, CrashJobs, StartJobs, WorkJobs DEF Starts

LEMMA TypeStep ==
  ASSUME TypeOK, NumbersInv, Next
  PROVE  TypeOK'
BY RowStep, ElevenLabsStep, JobsStep, HistoryStep, MixStep DEF TypeOK

LEMMA NumbersStep ==
  ASSUME TypeOK, NumbersInv, Next
  PROVE  NumbersInv'
<1>0. /\ version \in Nat /\ content \in Nat /\ version <= content
      /\ \A j \in Jobs : snap[j].version \in Nat /\ snap[j].version <= version
  BY DEF TypeOK, RowOK, JobsOK, Snapshots, Versions, NumbersInv
<1>1. version' <= content' /\ version' \in Nat /\ version <= version'
  <2>1. CASE UNCHANGED <<version, content>>
    BY <1>0, <2>1
  <2>2. CASE Edit \/ EditUnwatched
    BY <1>0, <2>2 DEF Edit, EditUnwatched
  <2>3. ASSUME NEW j \in Jobs, Work(j)
        PROVE  UNCHANGED <<version, content>>
    BY <2>3 DEF Work, Provision, Post, List, Patch, Forget, Delete, Clear, MarkFailed,
      WriteSuccess, rowVars
  <2>4. CASE Outside \/ Crash \/ \E j \in Jobs : Starts(j)
    BY <2>1, <2>2, <2>4 DEF Outside, Operators, Crash, Starts, Unread, ReadRow, Enqueue,
      EnqueuePlain, Clean, Reset, ResyncRead, ResyncPush, DeleteScript, rowVars
  <2> QED
    BY <2>1, <2>2, <2>3, <2>4, Steps
<1>2. ASSUME NEW j \in Jobs
      PROVE  snap'[j].version <= version
  <2>1. CASE snap'[j].version = snap[j].version
    BY <1>0, <2>1
  <2>2. CASE snap'[j] = Blank
    BY <1>0, <2>2 DEF Blank
  <2>3. CASE snap'[j] = Row
    BY <1>0, <2>3 DEF Row
  <2>4. \/ snap'[j].version = snap[j].version \/ snap'[j] = Blank \/ snap'[j] = Row
    <3>0. JobsOK
      BY DEF TypeOK
    <3>1. CASE Outside
      <4>1. CASE \E k \in Jobs : Unread(k)
        <5>1. PICK k \in Jobs : Unread(k)
          BY <4>1
        <5>2. CASE Leave(k)
          BY <3>0, <5>2 DEF Leave, JobsOK
        <5>3. CASE pc' = [pc EXCEPT ![k] = "provision"]
          BY <3>0, <5>1, <5>3 DEF Unread, JobsOK
        <5> QED
          BY <5>1, <5>2, <5>3 DEF Unread, ReadRow
      <4>2. CASE Operators
        <5>1. UNCHANGED snap
          BY <4>2 DEF Operators, Enqueue, EnqueuePlain, Clean, Reset, Edit, EditUnwatched,
            ResyncRead, ResyncPush, DeleteScript, AddStable, Await, Goto, jobVars
        <5> QED
          BY <5>1
      <4> QED
        BY <3>1, <4>1, <4>2 DEF Outside
    <3>2. CASE Crash
      BY <3>2 DEF Crash
    <3>3. ASSUME NEW k \in Jobs, Starts(k)
          PROVE  snap'[j] = snap[j] \/ snap'[j] = Row
      BY <3>3, StartJobs DEF Starts, SlotsKept
    <3>4. ASSUME NEW k \in Jobs, Work(k)
          PROVE  snap'[j].version = snap[j].version \/ snap'[j] = Blank
      <4>1. CASE UNCHANGED snap
        BY <4>1
      <4>2. CASE Leave(k)
        BY <3>0, <4>2 DEF Leave, JobsOK
      <4>3. CASE Forget(k)
        <5>1. PICK s : s = [snap[k] EXCEPT !.agent = None]
          OBVIOUS
        <5>2. snap' = [snap EXCEPT ![k] = s]
          BY <4>3, <5>1 DEF Forget
        <5>3. s.version = snap[k].version
          BY <3>0, <5>1 DEF JobsOK, Snapshots
        <5> QED
          BY <3>0, <5>2, <5>3 DEF JobsOK
      <4>4. \/ UNCHANGED snap \/ Leave(k) \/ Forget(k)
        BY <3>4 DEF Work, Provision, Post, List, Rethrow, Patch, Delete, Clear, MarkFailed,
          WriteSuccess, Settle, SettleFails, Goto, GotoWith
      <4> QED
        BY <4>1, <4>2, <4>3, <4>4
    <3> QED
      BY <3>1, <3>2, <3>3, <3>4, Steps
  <2> QED
    BY <2>1, <2>2, <2>3, <2>4
<1>3. \A j \in Jobs : snap'[j].version <= version'
  <2>1. \A j \in Jobs : snap'[j].version \in Nat
    BY JobsStep DEF JobsOK, Snapshots, Versions
  <2> QED
    BY <1>0, <1>1, <1>2, <2>1
<1> QED
  BY <1>1, <1>3, HistoryStep, MixStep DEF NumbersInv

----------------------------------------------------------------------------
(* One job at a time                                                       *)

Past(j) == pc[j] \in Running \ {"provision"}

AloneInv ==
  ~mixed => /\ \A i, j \in Jobs : Active(i) /\ Active(j) => i = j
            /\ SomeActive => resync = None

LEMMA Unmixed == ASSUME NEW b, Mix(b), ~mixed' PROVE ~b
BY DEF Mix

LEMMA Undisturbed == ASSUME NEW b, Mix(b) \/ Disturb(b), ~disturbed' PROVE ~b
BY DEF Mix, Disturb

(* What a step that is no job's may do while a job works.                  *)
LEMMA OutsideRow ==
  ASSUME TypeOK, AloneInv, Outside, ~mixed', SomeActive, Next
  PROVE  /\ live' \subseteq live /\ config' = config
         /\ agentStatus' \in {agentStatus, "pending"}
         /\ UNCHANGED <<version, content>> \/ version' = version + 1
         /\ resync' = None
<1>0. resync = None /\ ~mixed
  BY MixStep DEF AloneInv
<1>1. CASE EditUnwatched
  BY <1>1, Unmixed DEF EditUnwatched
<1>2. CASE ResyncRead
  BY <1>2, Unmixed DEF ResyncRead
<1>3. CASE ResyncPush
  BY <1>0, <1>3 DEF ResyncPush
<1>4. CASE Edit
  BY <1>0, <1>4 DEF Edit, elVars
<1>5. CASE Reset
  BY <1>0, <1>5 DEF Reset, elVars
<1>6. CASE \/ \E a \in Actions : Enqueue(a)
           \/ \E j \in Jobs : EnqueuePlain(j) \/ Clean(j) \/ Unread(j)
           \/ \E a \in Agents : DeleteScript(a)
  BY <1>0, <1>6 DEF Enqueue, EnqueuePlain, Clean, Unread, ReadRow, DeleteScript, rowVars, elVars
<1> QED
  BY <1>1, <1>2, <1>3, <1>4, <1>5, <1>6 DEF Outside, Operators

LEMMA AloneStep ==
  ASSUME TypeOK, AloneInv, Next
  PROVE  AloneInv'
<1> SUFFICES ASSUME ~mixed'
             PROVE  /\ \A i, j \in Jobs : Active(i)' /\ Active(j)' => i = j
                    /\ SomeActive' => resync' = None
  BY DEF AloneInv
<1>0. /\ \A i, j \in Jobs : Active(i) /\ Active(j) => i = j
      /\ SomeActive => resync = None
  BY MixStep DEF AloneInv
<1>1. CASE Outside
  <2>1. ActiveKept
    BY <1>1, OutsideJobs
  <2>2. SomeActive' => SomeActive
    BY <2>1 DEF ActiveKept, SomeActive, Active
  <2> QED
    BY <1>0, <1>1, <2>1, <2>2, OutsideRow DEF ActiveKept, Active
<1>2. CASE Crash
  BY <1>2, CrashJobs DEF Active, SomeActive
<1>3. ASSUME NEW j \in Jobs, Starts(j)
      PROVE  /\ \A i, k \in Jobs : Active(i)' /\ Active(k)' => i = k
             /\ SomeActive' => resync' = None
  <2>1. ~SomeActive /\ resync = None
    <3>1. Mix(SomeActive \/ resync # None)
      BY <1>3, StartJobs DEF Starts
    <3>2. PICK b : b = (SomeActive \/ resync # None)
      OBVIOUS
    <3> QED
      BY <3>1, <3>2, Unmixed
  <2>2. SlotsKept(j) /\ UNCHANGED resync
    BY <1>3, StartJobs DEF Starts, ReadRow
  <2> QED
    BY <2>1, <2>2 DEF SlotsKept, SomeActive, Active
<1>4. ASSUME NEW j \in Jobs, Work(j)
      PROVE  /\ \A i, k \in Jobs : Active(i)' /\ Active(k)' => i = k
             /\ SomeActive' => resync' = None
  <2>1. SlotsKept(j) /\ Active(j)
    BY <1>4, WorkJobs
  <2>2. UNCHANGED resync
    BY <1>4 DEF Work, Provision, Post, List, Patch, Forget, Delete, Clear, MarkFailed, WriteSuccess
  <2> QED
    BY <1>0, <2>1, <2>2 DEF SlotsKept, SomeActive, Active
<1> QED
  BY <1>1, <1>2, <1>3, <1>4, Steps

----------------------------------------------------------------------------
(* What a job knows                                                        *)

(* What was pushed, and what the search by name can find: an agent that    *)
(* the job itself has made.                                                *)
JobPush(j) ==
  /\ Past(j) => agentStatus # "ready"
  /\ Active(j) /\ version = snap[j].version => content = snap[j].content
  /\ pc[j] = "success" /\ ~(action[j] = "create" /\ snap[j].agent # None) =>
       found[j] \in Agents /\ config[found[j]] = snap[j].content
  /\ pc[j] = "list" /\ found[j] \in live => config[found[j]] = snap[j].content
  /\ pc[j] \in {"post", "forget"} => found[j] \notin live
  /\ pc[j] = "patch" => found[j] = snap[j].agent /\ snap[j].agent \in Agents
PushInv == ~mixed => \A j \in Jobs : JobPush(j)

LEMMA SlotTypes ==
  ASSUME TypeOK, NEW j \in Jobs
  PROVE  /\ snap[j].agent \in Agents \cup {None} /\ found[j] \in Agents \cup {None}
         /\ snap[j].content \in Versions /\ snap[j].version \in Nat
         /\ live \subseteq Agents /\ None \notin live /\ config \in [Agents -> Payloads]
         /\ version \in Nat /\ content \in Nat
BY SyncAssumption DEF TypeOK, RowOK, JobsOK, Snapshots, ElevenLabsOK, Versions

LEMMA WorkPush ==
  ASSUME TypeOK, NEW j \in Jobs, JobPush(j), Work(j), ~mixed'
  PROVE  JobPush(j)'
<1>0. /\ JobsOK /\ Active(j)
  BY WorkJobs DEF TypeOK
<1> USE SlotTypes
<1>1. CASE Leave(j)
  <2>1. pc'[j] = "done"
    BY <1>0, <1>1, LeaveJob
  <2> QED
    BY <2>1 DEF JobPush, Past, Active, Running
<1>2. CASE Provision(j) /\ ~Leave(j)
  <2>1. PICK label \in Labels : label = FirstStep(j)
    BY FirstStepLabel DEF Labels, Running
  <2>2. PICK a \in Agents \cup {None} : a = snap[j].agent
    BY <1>0 DEF JobsOK, Snapshots
  <2>3. /\ pc'[j] = label /\ found'[j] = a /\ snap'[j] = snap[j] /\ action'[j] = action[j]
        /\ agentStatus' = "provisioning" /\ UNCHANGED <<version, content, live, config>>
    <3>1. GotoWith(j, label, a)
      BY <1>2, <2>1, <2>2 DEF Provision
    <3>2. agentStatus' = "provisioning" /\ UNCHANGED <<version, content, live, config>>
      BY <1>2 DEF Provision, elVars
    <3> QED
      BY <1>0, <3>1, <3>2, GotoWithJob
  <2> QED
    BY <1>0, <2>1, <2>2, <2>3, FirstStepLabel DEF JobPush, Past, Running, Active
<1>3. ASSUME NEW label \in Labels, Goto(j, label), UNCHANGED rowVars, label = "markFailed",
             pc[j] # "provision"
      PROVE  JobPush(j)'
  <2>1. pc'[j] = "markFailed" /\ snap'[j] = snap[j]
    BY <1>0, <1>3, GotoJob
  <2> QED
    BY <1>0, <1>3, <2>1 DEF JobPush, Past, Running, Active, rowVars
<1>4. CASE Post(j)
  <2>0. pc[j] = "post" /\ UNCHANGED rowVars
    BY <1>4 DEF Post
  <2>1. CASE \E a \in Agents : NewAgent(a, j) /\ GotoWith(j, "success", a)
    <3>1. PICK a \in Agents : NewAgent(a, j) /\ GotoWith(j, "success", a)
      BY <2>1
    <3>2. pc'[j] = "success" /\ found'[j] = a /\ snap'[j] = snap[j] /\ action'[j] = action[j]
      BY <1>0, <3>1, GotoWithJob DEF Labels, Running
    <3>3. config'[a] = snap[j].content
      BY <3>1 DEF NewAgent
    <3> QED
      BY <1>0, <2>0, <3>2, <3>3 DEF JobPush, Past, Running, Active, rowVars
  <2>2. CASE Goto(j, "markFailed")
    BY <1>3, <2>0, <2>2 DEF Labels, Running
  <2>3. CASE /\ \/ \E a \in Agents : NewAgent(a, j) /\ found' = [found EXCEPT ![j] = a]
                \/ UNCHANGED <<elVars, found>>
             /\ pc' = [pc EXCEPT ![j] = "list"]
             /\ UNCHANGED <<action, snap, stalledOnce>>
    <3>1. pc'[j] = "list" /\ snap'[j] = snap[j]
      BY <1>0, <2>3 DEF JobsOK
    <3>2. found'[j] \in live' => config'[found'[j]] = snap[j].content
      <4>1. CASE UNCHANGED <<elVars, found>>
        BY <2>0, <4>1 DEF elVars, JobPush
      <4>2. ASSUME NEW a \in Agents, NewAgent(a, j), found' = [found EXCEPT ![j] = a]
            PROVE  config'[found'[j]] = snap[j].content
        <5>1. found'[j] = a /\ config'[a] = snap[j].content
          BY <1>0, <4>2 DEF NewAgent, JobsOK
        <5> QED
          BY <5>1
      <4> QED
        BY <2>3, <4>1, <4>2
    <3> QED
      BY <1>0, <2>0, <3>1, <3>2 DEF JobPush, Past, Running, Active, rowVars
  <2> QED
    BY <1>4, <2>1, <2>2, <2>3 DEF Post
<1>5. CASE List(j)
  <2>0. pc[j] = "list" /\ UNCHANGED <<rowVars, elVars>>
    BY <1>5 DEF List
  <2>1. CASE \E a \in live : GotoWith(j, "success", a) /\ Mix(a # found[j])
    <3>1. PICK a \in live : GotoWith(j, "success", a) /\ Mix(a # found[j])
      BY <2>1
    <3>2. a = found[j] /\ a \in Agents
      <4>1. PICK b : b = (a # found[j])
        OBVIOUS
      <4> QED
        BY <3>1, <4>1, Unmixed
    <3>3. pc'[j] = "success" /\ found'[j] = a /\ snap'[j] = snap[j] /\ action'[j] = action[j]
      BY <1>0, <3>1, <3>2, GotoWithJob DEF Labels, Running
    <3> QED
      BY <1>0, <2>0, <3>2, <3>3 DEF JobPush, Past, Running, Active, rowVars, elVars
  <2>2. CASE Goto(j, "markFailed")
    BY <1>3, <2>0, <2>2 DEF Labels, Running
  <2> QED
    BY <1>1, <1>5, <2>1, <2>2 DEF List, Rethrow
<1>6. CASE Patch(j)
  <2>0. pc[j] = "patch" /\ UNCHANGED <<rowVars, live>> /\ found[j] = snap[j].agent
        /\ snap[j].agent \in Agents
    BY <1>6 DEF Patch, JobPush
  <2>1. CASE config' = [config EXCEPT ![snap[j].agent] = snap[j].content] /\ Goto(j, "success")
    <3>1. /\ pc'[j] = "success" /\ found'[j] = found[j] /\ snap'[j] = snap[j]
      BY <1>0, <2>1, GotoJob DEF Labels, Running
    <3>2. config'[snap[j].agent] = snap[j].content
      BY <2>0, <2>1
    <3> QED
      BY <1>0, <2>0, <3>1, <3>2 DEF JobPush, Past, Running, Active, rowVars
  <2>2. CASE snap[j].agent \notin live /\ Goto(j, "forget")
    <3>1. /\ pc'[j] = "forget" /\ found'[j] = found[j] /\ snap'[j] = snap[j]
      BY <1>0, <2>2, GotoJob DEF Labels, Running
    <3> QED
      BY <1>0, <2>0, <2>2, <3>1 DEF JobPush, Past, Running, Active, rowVars
  <2>3. CASE Goto(j, "markFailed")
    BY <1>3, <2>0, <2>3 DEF Labels, Running
  <2> QED
    BY <1>1, <1>6, <2>1, <2>2, <2>3 DEF Patch
<1>7. CASE Forget(j)
  <2>1. /\ pc[j] = "forget" /\ UNCHANGED <<version, content, agentStatus, elVars, found>>
        /\ pc' = [pc EXCEPT ![j] = "post"] /\ snap' = [snap EXCEPT ![j].agent = None]
    BY <1>7 DEF Forget
  <2>2. PICK s : s = [snap[j] EXCEPT !.agent = None]
    OBVIOUS
  <2>3. snap' = [snap EXCEPT ![j] = s]
    BY <2>1, <2>2
  <2>4. pc'[j] = "post" /\ snap'[j] = s
    BY <1>0, <2>1, <2>3 DEF JobsOK
  <2>5. s.version = snap[j].version /\ s.content = snap[j].content
    BY <1>0, <2>2 DEF JobsOK, Snapshots
  <2> QED
    BY <1>0, <2>1, <2>4, <2>5 DEF JobPush, Past, Running, Active, elVars
<1>8. CASE Delete(j)
  <2>0. pc[j] = "delete" /\ UNCHANGED rowVars
    BY <1>8 DEF Delete
  <2>1. CASE Goto(j, "clear")
    <3>1. pc'[j] = "clear" /\ snap'[j] = snap[j]
      BY <1>0, <2>1, GotoJob DEF Labels, Running
    <3> QED
      BY <1>0, <2>0, <3>1 DEF JobPush, Past, Running, Active, rowVars
  <2>2. CASE Goto(j, "markFailed")
    BY <1>3, <2>0, <2>2 DEF Labels, Running
  <2> QED
    BY <1>1, <1>8, <2>1, <2>2 DEF Delete
<1>9. CASE Clear(j) \/ MarkFailed(j)
  BY <1>1, <1>9 DEF Clear, MarkFailed, Settle, SettleFails
<1>10. CASE WriteSuccess(j)
  <2>1. CASE Goto(j, "markFailed") /\ UNCHANGED <<agentStatus, agentId>>
    BY <1>3, <1>10, <2>1 DEF WriteSuccess, Labels, Running, rowVars
  <2> QED
    BY <1>1, <1>10, <2>1 DEF WriteSuccess, Settle
<1> QED
  BY <1>1, <1>2, <1>4, <1>5, <1>6, <1>7, <1>8, <1>9, <1>10 DEF Work

LEMMA PushStep ==
  ASSUME TypeOK, NumbersInv, AloneInv, PushInv, Next
  PROVE  PushInv'
<1> SUFFICES ASSUME ~mixed', NEW k \in Jobs
             PROVE  JobPush(k)'
  BY DEF PushInv
<1>0. /\ JobPush(k) /\ ~mixed
      /\ \A i, j \in Jobs : Active(i) /\ Active(j) => i = j
  BY MixStep DEF PushInv, AloneInv
<1>1. CASE pc'[k] \notin Running
  BY <1>1 DEF JobPush, Past, Active, Running
<1>2. CASE Outside /\ pc'[k] \in Running
  <2>1. /\ Active(k) /\ pc'[k] = pc[k] /\ action'[k] = action[k]
        /\ snap'[k] = snap[k] /\ found'[k] = found[k]
    BY <1>2, OutsideJobs DEF ActiveKept, Active
  <2>2. SomeActive
    BY <2>1 DEF SomeActive
  <2>3. /\ live' \subseteq live /\ config' = config
        /\ agentStatus' \in {agentStatus, "pending"}
        /\ UNCHANGED <<version, content>> \/ version' = version + 1
    BY <1>2, <2>2, OutsideRow
  <2>4. snap[k].version \in Nat /\ snap[k].version <= version /\ version \in Nat
    BY SlotTypes DEF NumbersInv
  <2>5. version' = snap[k].version => UNCHANGED <<version, content>>
    BY <2>3, <2>4
  <2> QED
    BY <1>0, <2>1, <2>3, <2>5 DEF JobPush, Past, Active
<1>3. CASE Crash
  BY <1>1, <1>3, CrashJobs
<1>4. ASSUME NEW j \in Jobs, Starts(j), pc'[k] \in Running
      PROVE  JobPush(k)'
  <2>1. ~SomeActive
    <3>1. Mix(SomeActive \/ resync # None)
      BY <1>4, StartJobs DEF Starts
    <3>2. PICK b : b = (SomeActive \/ resync # None)
      OBVIOUS
    <3> QED
      BY <3>1, <3>2, Unmixed
  <2>2. SlotsKept(j) /\ pc'[j] = "provision" /\ snap'[j] = Row
    BY <1>4, StartJobs DEF Starts
  <2>3. k = j
    BY <1>4, <2>1, <2>2 DEF SlotsKept, SomeActive, Active
  <2>4. UNCHANGED <<version, content>>
    BY <1>4 DEF Starts, ReadRow, rowVars
  <2> QED
    BY <2>2, <2>3, <2>4 DEF JobPush, Past, Running, Row
<1>5. ASSUME NEW j \in Jobs, Work(j), pc'[k] \in Running
      PROVE  JobPush(k)'
  <2>1. SlotsKept(j) /\ Active(j)
    BY <1>5, WorkJobs
  <2>2. k = j
    BY <1>0, <1>5, <2>1 DEF SlotsKept, Active
  <2> QED
    BY <1>0, <1>5, <2>2, WorkPush
<1> QED
  BY <1>1, <1>2, <1>3, <1>4, <1>5, Steps

LEMMA ReadyStep ==
  ASSUME TypeOK, NumbersInv, PushInv, ReadyIsPushed, Next
  PROVE  ReadyIsPushed'
<1> SUFFICES ASSUME ~mixed', ~unpushed', agentStatus' = "ready", version' = readyAt'
             PROVE  agentId' # None /\ config'[agentId'] \in {content', Partial}
  BY DEF ReadyIsPushed, ReadyStands
<1>0. /\ ~mixed /\ \A j \in Jobs : JobPush(j)
      /\ version \in Nat /\ readyAt \in Nat /\ readyAt <= version
      /\ agentId \in Agents \cup {None} /\ config \in [Agents -> Payloads]
  BY MixStep DEF PushInv, TypeOK, RowOK, ElevenLabsOK, Versions, NumbersInv
<1>1. CASE UNCHANGED <<rowVars, config, readyAt, unpushed>>
  BY <1>0, <1>1 DEF ReadyIsPushed, ReadyStands, rowVars
<1>2. CASE Outside
  <2>1. CASE Reset
    BY <2>1 DEF Reset
  <2>2. CASE Edit
    <3>1. version' = version + 1 /\ readyAt' = readyAt
      BY <2>2 DEF Edit
    <3>2. version \in Nat /\ readyAt \in Nat /\ readyAt <= version
      BY <1>0
    <3>3. version + 1 # readyAt
      BY <3>2
    <3> QED
      BY <3>1, <3>3, Zenon
  <2>3. CASE EditUnwatched
    BY <2>3 DEF EditUnwatched
  <2>4. CASE ResyncPush
    <3>1. CASE UNCHANGED config
      BY <1>1, <2>4, <3>1 DEF ResyncPush, histVars
    <3>2. CASE config' = [config EXCEPT ![resync] = Partial]
      <4>1. UNCHANGED <<rowVars, readyAt, unpushed>>
        BY <2>4 DEF ResyncPush, histVars
      <4>2. agentId # None /\ config[agentId] \in {content, Partial}
        BY <1>0, <4>1 DEF ReadyIsPushed, ReadyStands, rowVars
      <4>3. config'[agentId] \in {content, Partial}
        BY <1>0, <3>2, <4>2
      <4> QED
        BY <4>1, <4>2, <4>3 DEF rowVars
    <3> QED
      BY <2>4, <3>1, <3>2 DEF ResyncPush, PushPartial
  <2>5. CASE \/ \E a \in Actions : Enqueue(a)
             \/ \E j \in Jobs : EnqueuePlain(j) \/ Clean(j) \/ Unread(j)
             \/ ResyncRead \/ \E a \in Agents : DeleteScript(a)
    BY <1>1, <2>5 DEF Enqueue, EnqueuePlain, Clean, Unread, ReadRow, ResyncRead, DeleteScript,
      elVars, histVars
  <2> QED
    BY <1>2, <2>1, <2>2, <2>3, <2>4, <2>5 DEF Outside, Operators
<1>3. CASE Crash \/ \E j \in Jobs : Starts(j)
  BY <1>1, <1>3 DEF Crash, Starts, ReadRow, elVars
<1>4. ASSUME NEW j \in Jobs, Work(j)
      PROVE  agentId' # None /\ config'[agentId'] \in {content', Partial}
  <2>0. JobPush(j)
    BY <1>0
  <2>1. CASE Provision(j)
    BY <1>1, <2>1 DEF Provision, elVars, rowVars
  <2>2. CASE WriteSuccess(j)
    <3>1. /\ pc[j] = "success" /\ Current(j) /\ agentId' = found[j] /\ UNCHANGED <<content, elVars>>
          /\ unpushed' = (action[j] = "create" /\ snap[j].agent # None)
      <4>1. agentStatus # "ready"
        BY <2>0, <2>2 DEF WriteSuccess, JobPush, Past, Running
      <4> QED
        BY <2>2, <4>1 DEF WriteSuccess, Settle, Current
    <3>2. ~(action[j] = "create" /\ snap[j].agent # None)
      <4>1. PICK b : b = (action[j] = "create" /\ snap[j].agent # None)
        OBVIOUS
      <4> QED
        BY <3>1, <4>1
    <3>3. found[j] \in Agents /\ config[found[j]] = snap[j].content /\ content = snap[j].content
      BY <2>0, <3>1, <3>2 DEF JobPush, Current, Active, Running
    <3> QED
      BY <3>1, <3>3, SyncAssumption DEF elVars
  <2>3. CASE ~Provision(j) /\ ~WriteSuccess(j)
    <3>1. agentStatus # "ready"
      BY <1>4, <2>0, <2>3 DEF Work, JobPush, Past, Running, Post, List, Patch, Forget, Delete,
        Clear, MarkFailed
    <3>2. agentStatus' \in {agentStatus, "pending", "failed"}
      BY <1>4, <2>3 DEF Work, Post, List, Patch, Forget, Delete, Clear, MarkFailed, Settle,
        SettleFails, rowVars
    <3> QED
      BY <3>1, <3>2
  <2> QED
    BY <2>1, <2>2, <2>3
<1> QED
  BY <1>2, <1>3, <1>4, Steps

(* What exists at ElevenLabs, request by request, when nothing disturbs    *)
(* the job.                                                                *)
JobLive(j) ==
  Active(j) =>
    /\ snap[j].version = version
    /\ pc[j] \in {"provision", "patch", "delete", "markFailed"} => live \subseteq {agentId}
    /\ pc[j] \in {"provision", "patch", "delete"} => snap[j].agent = agentId
    /\ pc[j] \in {"post", "forget", "clear"} => live = {}
    /\ pc[j] \in {"success", "list"} => live \subseteq {found[j]}
LiveInv ==
  ~disturbed => /\ ~SomeActive => live \subseteq {agentId}
                /\ \A j \in Jobs : JobLive(j)

LEMMA WorkLive ==
  ASSUME TypeOK, NEW j \in Jobs, JobLive(j), JobPush(j), Work(j), ~disturbed'
  PROVE  /\ JobLive(j)'
         /\ pc'[j] \notin Running => live' \subseteq {agentId'}
<1>0. JobsOK /\ Active(j) /\ Current(j)
  BY WorkJobs DEF TypeOK, JobLive, Current
<1> USE SlotTypes
<1>1. CASE Leave(j) /\ live' \subseteq {agentId'}
  <2>1. pc'[j] = "done"
    BY <1>0, <1>1, LeaveJob
  <2> QED
    BY <1>1, <2>1 DEF JobLive, Active, Running
<1>2. CASE Goto(j, "markFailed") /\ UNCHANGED version /\ live' \subseteq {agentId'}
  <2>1. pc'[j] = "markFailed" /\ snap'[j] = snap[j]
    BY <1>0, <1>2, GotoJob DEF Labels, Running
  <2> QED
    BY <1>0, <1>2, <2>1 DEF JobLive, Active, Running
<1>3. CASE Provision(j)
  <2>0. pc[j] = "provision" /\ UNCHANGED <<version, agentId, live>> /\ live \subseteq {agentId}
        /\ snap[j].agent = agentId
    BY <1>0, <1>3 DEF Provision, JobLive, elVars
  <2>1. CASE Leave(j)
    BY <1>1, <2>0, <2>1
  <2>2. CASE ~Leave(j)
    <3>1. PICK label \in Labels : label = FirstStep(j)
      BY FirstStepLabel DEF Labels, Running
    <3>2. PICK a \in Agents \cup {None} : a = snap[j].agent
      OBVIOUS
    <3>3. pc'[j] = label /\ found'[j] = a /\ snap'[j] = snap[j]
      <4>1. GotoWith(j, label, a)
        BY <1>3, <2>2, <3>1, <3>2 DEF Provision
      <4> QED
        BY <1>0, <4>1, GotoWithJob
    <3>4. a = None => live = {}
      BY <2>0, <3>2
    <3> QED
      BY <1>0, <2>0, <3>1, <3>2, <3>3, <3>4, FirstStepLabel DEF JobLive, Active, Running
  <2> QED
    BY <2>1, <2>2
<1>4. CASE Post(j)
  <2>0. pc[j] = "post" /\ UNCHANGED rowVars /\ live = {}
    BY <1>0, <1>4 DEF Post, JobLive
  <2>1. CASE \E a \in Agents : NewAgent(a, j) /\ GotoWith(j, "success", a)
    <3>1. PICK a \in Agents : NewAgent(a, j) /\ GotoWith(j, "success", a)
      BY <2>1
    <3>2. pc'[j] = "success" /\ found'[j] = a /\ snap'[j] = snap[j]
      BY <1>0, <3>1, GotoWithJob DEF Labels, Running
    <3> QED
      BY <1>0, <2>0, <3>1, <3>2 DEF NewAgent, JobLive, Active, Running, rowVars
  <2>2. CASE Goto(j, "markFailed") /\ UNCHANGED elVars
    BY <1>2, <2>0, <2>2 DEF rowVars, elVars
  <2>3. CASE /\ \/ \E a \in Agents : NewAgent(a, j) /\ found' = [found EXCEPT ![j] = a]
                \/ UNCHANGED <<elVars, found>>
             /\ pc' = [pc EXCEPT ![j] = "list"]
             /\ UNCHANGED <<action, snap, stalledOnce>>
    <3>1. pc'[j] = "list" /\ snap'[j] = snap[j]
      BY <1>0, <2>3 DEF JobsOK
    <3>2. live' \subseteq {found'[j]}
      BY <1>0, <2>0, <2>3 DEF NewAgent, JobsOK, elVars
    <3> QED
      BY <1>0, <2>0, <3>1, <3>2 DEF JobLive, Active, Running, rowVars
  <2> QED
    BY <1>4, <2>1, <2>2, <2>3 DEF Post
<1>5. CASE List(j)
  <2>0. pc[j] = "list" /\ UNCHANGED <<rowVars, elVars>> /\ live \subseteq {found[j]}
    BY <1>0, <1>5 DEF List, JobLive
  <2>1. CASE \E a \in live : GotoWith(j, "success", a)
    <3>1. PICK a \in live : GotoWith(j, "success", a)
      BY <2>1
    <3>2. pc'[j] = "success" /\ found'[j] = a /\ snap'[j] = snap[j]
      BY <1>0, <3>1, GotoWithJob DEF Labels, Running
    <3> QED
      BY <1>0, <2>0, <3>2 DEF JobLive, Active, Running, rowVars, elVars
  <2>2. CASE Rethrow(j) /\ Disturb(live # {})
    <3>1. live = {}
      <4>1. PICK b : b = (live # {})
        OBVIOUS
      <4> QED
        BY <2>2, <4>1, Undisturbed
    <3> QED
      BY <1>1, <1>2, <2>0, <2>2, <3>1 DEF Rethrow, rowVars, elVars
  <2> QED
    BY <1>5, <2>1, <2>2 DEF List
<1>6. CASE Patch(j)
  <2>0. /\ pc[j] = "patch" /\ UNCHANGED <<rowVars, live>> /\ live \subseteq {agentId}
        /\ snap[j].agent = agentId /\ found[j] = snap[j].agent
    BY <1>0, <1>6 DEF Patch, JobLive, JobPush
  <2>1. CASE Goto(j, "success")
    <3>1. /\ pc'[j] = "success" /\ found'[j] = found[j] /\ snap'[j] = snap[j]
      BY <1>0, <2>1, GotoJob DEF Labels, Running
    <3> QED
      BY <1>0, <2>0, <3>1 DEF JobLive, Active, Running, rowVars
  <2>2. CASE snap[j].agent \notin live /\ Goto(j, "forget")
    <3>1. /\ pc'[j] = "forget" /\ found'[j] = found[j] /\ snap'[j] = snap[j]
      BY <1>0, <2>2, GotoJob DEF Labels, Running
    <3> QED
      BY <1>0, <2>0, <2>2, <3>1 DEF JobLive, Active, Running, rowVars
  <2>3. CASE Goto(j, "markFailed") \/ Leave(j)
    BY <1>1, <1>2, <2>0, <2>3 DEF rowVars
  <2> QED
    BY <1>6, <2>1, <2>2, <2>3 DEF Patch
<1>7. CASE Forget(j)
  <2>1. /\ pc[j] = "forget" /\ UNCHANGED <<version, elVars>> /\ live = {}
        /\ pc' = [pc EXCEPT ![j] = "post"] /\ snap' = [snap EXCEPT ![j].agent = None]
    BY <1>0, <1>7 DEF Forget, JobLive
  <2>2. PICK s : s = [snap[j] EXCEPT !.agent = None]
    OBVIOUS
  <2>3. snap' = [snap EXCEPT ![j] = s]
    BY <2>1, <2>2
  <2>4. pc'[j] = "post" /\ snap'[j] = s
    BY <1>0, <2>1, <2>3 DEF JobsOK
  <2>5. s.version = snap[j].version
    BY <1>0, <2>2 DEF JobsOK, Snapshots
  <2> QED
    BY <1>0, <2>1, <2>4, <2>5 DEF JobLive, Active, Running, elVars
<1>8. CASE Delete(j)
  <2>0. pc[j] = "delete" /\ UNCHANGED rowVars /\ live \subseteq {agentId} /\ live' \subseteq live
        /\ snap[j].agent = agentId
    BY <1>0, <1>8 DEF Delete, JobLive
  <2>1. CASE live' = live \ {snap[j].agent} /\ Goto(j, "clear")
    <3>1. pc'[j] = "clear" /\ snap'[j] = snap[j]
      BY <1>0, <2>1, GotoJob DEF Labels, Running
    <3>2. live' = {}
      BY <2>0, <2>1
    <3> QED
      BY <1>0, <2>0, <3>1, <3>2 DEF JobLive, Active, Running, rowVars
  <2>2. CASE Goto(j, "markFailed") \/ Leave(j)
    BY <1>1, <1>2, <2>0, <2>2 DEF rowVars
  <2> QED
    BY <1>8, <2>1, <2>2 DEF Delete
<1>9. CASE Clear(j)
  <2>1. UNCHANGED elVars /\ live = {} /\ Leave(j)
    BY <1>0, <1>9 DEF Clear, JobLive, Settle, SettleFails
  <2> QED
    BY <1>1, <2>1 DEF elVars
<1>10. CASE MarkFailed(j)
  <2>1. UNCHANGED elVars /\ live \subseteq {agentId} /\ Leave(j) /\ UNCHANGED agentId
    BY <1>0, <1>10 DEF MarkFailed, JobLive, Settle, SettleFails
  <2> QED
    BY <1>1, <2>1 DEF elVars
<1>11. CASE WriteSuccess(j)
  <2>0. pc[j] = "success" /\ UNCHANGED <<version, elVars>> /\ live \subseteq {found[j]}
    BY <1>0, <1>11 DEF WriteSuccess, JobLive
  <2>1. CASE Settle(j, "ready", found[j])
    BY <1>0, <1>1, <2>0, <2>1 DEF Settle, elVars
  <2>2. CASE Goto(j, "markFailed") /\ Disturb(agentId # found[j]) /\ UNCHANGED agentId
    <3>1. agentId = found[j]
      <4>1. PICK b : b = (agentId # found[j])
        OBVIOUS
      <4> QED
        BY <2>2, <4>1, Undisturbed
    <3> QED
      BY <1>2, <2>0, <2>2, <3>1 DEF elVars
  <2> QED
    BY <1>11, <2>1, <2>2 DEF WriteSuccess
<1> QED
  BY <1>3, <1>4, <1>5, <1>6, <1>7, <1>8, <1>9, <1>10, <1>11 DEF Work

LEMMA LiveStep ==
  ASSUME TypeOK, NumbersInv, AloneInv, PushInv, LiveInv, Next
  PROVE  LiveInv'
<1> SUFFICES ASSUME ~disturbed'
             PROVE  /\ ~SomeActive' => live' \subseteq {agentId'}
                    /\ \A j \in Jobs : JobLive(j)'
  BY DEF LiveInv
<1>0. /\ ~disturbed /\ ~mixed /\ ~mixed'
      /\ ~SomeActive => live \subseteq {agentId}
      /\ \A j \in Jobs : JobLive(j) /\ JobPush(j)
      /\ \A i, j \in Jobs : Active(i) /\ Active(j) => i = j
  BY MixStep DEF LiveInv, PushInv, AloneInv, NumbersInv
<1>1. CASE Outside
  <2>1. live' \subseteq live /\ agentId' = agentId /\ (SomeActive => version' = version)
    <3>1. CASE Reset
      <4>1. PICK b : b = (agentId # None \/ SomeActive)
        OBVIOUS
      <4>2. ~b
        BY <3>1, <4>1, Undisturbed DEF Reset
      <4> QED
        BY <3>1, <4>1, <4>2 DEF Reset, elVars
    <3>2. CASE Edit
      <4>1. PICK b : b = SomeActive
        OBVIOUS
      <4>2. ~b
        BY <3>2, <4>1, Undisturbed DEF Edit
      <4> QED
        BY <3>2, <4>1, <4>2 DEF Edit, elVars
    <3>3. CASE EditUnwatched \/ ResyncRead \/ ResyncPush \/ \E a \in Agents : DeleteScript(a)
      BY <3>3 DEF EditUnwatched, ResyncRead, ResyncPush, DeleteScript, rowVars, elVars
    <3>4. CASE \/ \E a \in Actions : Enqueue(a)
               \/ \E j \in Jobs : EnqueuePlain(j) \/ Clean(j) \/ Unread(j)
      BY <3>4 DEF Enqueue, EnqueuePlain, Clean, Unread, ReadRow, rowVars, elVars
    <3> QED
      BY <1>1, <3>1, <3>2, <3>3, <3>4 DEF Outside, Operators
  <2>2. ActiveKept
    BY <1>1, OutsideJobs
  <2>3. SomeActive' <=> SomeActive
    BY <2>2 DEF ActiveKept, SomeActive, Active
  <2>4. ASSUME NEW j \in Jobs, pc'[j] \in Running
        PROVE  JobLive(j)'
    <3>1. Active(j) /\ pc'[j] = pc[j] /\ snap'[j] = snap[j] /\ found'[j] = found[j] /\ JobLive(j)
      BY <1>0, <2>2, <2>4 DEF ActiveKept, Active
    <3>2. version' = version
      BY <2>1, <3>1 DEF SomeActive
    <3> QED
      BY <2>1, <3>1, <3>2 DEF JobLive, Active
  <2> QED
    BY <1>0, <2>1, <2>3, <2>4 DEF JobLive, Active
<1>2. CASE Crash
  <2>1. PICK b : b = TRUE
    OBVIOUS
  <2> QED
    BY <1>2, <2>1, Undisturbed DEF Crash
<1>3. ASSUME NEW j \in Jobs, Starts(j)
      PROVE  /\ ~SomeActive' => live' \subseteq {agentId'}
             /\ \A k \in Jobs : JobLive(k)'
  <2>1. ~SomeActive
    <3>1. Mix(SomeActive \/ resync # None)
      BY <1>3, StartJobs DEF Starts
    <3>2. PICK b : b = (SomeActive \/ resync # None)
      OBVIOUS
    <3> QED
      BY <1>0, <3>1, <3>2, Unmixed
  <2>2. /\ SlotsKept(j) /\ pc'[j] = "provision" /\ snap'[j] = Row
        /\ UNCHANGED <<version, agentId, live>>
    BY <1>3, StartJobs DEF Starts, ReadRow, rowVars, elVars
  <2>3. \A k \in Jobs \ {j} : pc'[k] \notin Running
    BY <2>1, <2>2 DEF SlotsKept, SomeActive, Active
  <2>4. JobLive(j)'
    BY <1>0, <2>1, <2>2 DEF JobLive, Row
  <2>5. SomeActive'
    BY <2>2 DEF SomeActive, Active, Running
  <2> QED
    BY <2>3, <2>4, <2>5 DEF JobLive, Active
<1>4. ASSUME NEW j \in Jobs, Work(j)
      PROVE  /\ ~SomeActive' => live' \subseteq {agentId'}
             /\ \A k \in Jobs : JobLive(k)'
  <2>1. SlotsKept(j) /\ Active(j)
    BY <1>4, WorkJobs
  <2>2. \A k \in Jobs \ {j} : pc'[k] \notin Running
    BY <1>0, <2>1 DEF SlotsKept, Active
  <2>3. JobLive(j)' /\ (pc'[j] \notin Running => live' \subseteq {agentId'})
    BY <1>0, <1>4, WorkLive
  <2> QED
    BY <2>2, <2>3 DEF JobLive, SomeActive, Active
<1> QED
  BY <1>1, <1>2, <1>3, <1>4, Steps

----------------------------------------------------------------------------
(* The status                                                              *)

(* While the row is provisioning and no job has ended without settling it, *)
(* some job is past the write that made it so.                             *)
SettledInv == agentStatus = "provisioning" /\ ~abandoned => \E j \in Jobs : Past(j)

LEMMA WorkSettles ==
  ASSUME TypeOK, NEW j \in Jobs, Work(j)
  PROVE  Past(j)' \/ abandoned' \/ agentStatus' # "provisioning"
<1>0. JobsOK
  BY DEF TypeOK
<1>1. ASSUME NEW label \in Running \ {"provision"}, pc' = [pc EXCEPT ![j] = label]
      PROVE  Past(j)'
  <2>1. pc'[j] = label
    BY <1>0, <1>1 DEF JobsOK
  <2> QED
    BY <2>1 DEF Past
<1>2. CASE Provision(j)
  <2>1. PICK label \in Running \ {"provision"} : label = FirstStep(j)
    BY FirstStepLabel DEF Running
  <2> QED
    BY <1>1, <1>2, <2>1 DEF Provision, GotoWith
<1>3. CASE Post(j) \/ Forget(j)
  <2>1. \E label \in {"success", "markFailed", "list", "post"} : pc' = [pc EXCEPT ![j] = label]
    BY <1>3 DEF Post, Forget, Goto, GotoWith
  <2> QED
    BY <1>1, <2>1 DEF Running
<1>4. CASE List(j) \/ Patch(j) \/ Delete(j)
  <2>1. abandoned' \/ \E label \in {"success", "markFailed", "forget", "clear"} :
                        pc' = [pc EXCEPT ![j] = label]
    BY <1>4 DEF List, Rethrow, Patch, Delete, Goto, GotoWith
  <2> QED
    BY <1>1, <2>1 DEF Running
<1>5. CASE Clear(j) \/ MarkFailed(j)
  BY <1>5 DEF Clear, MarkFailed, Settle, SettleFails
<1>6. CASE WriteSuccess(j)
  <2>1. \/ abandoned' \/ agentStatus' = "ready"
        \/ pc' = [pc EXCEPT ![j] = "markFailed"]
    BY <1>6 DEF WriteSuccess, Settle, Goto
  <2> QED
    BY <1>1, <2>1 DEF Running
<1> QED
  BY <1>2, <1>3, <1>4, <1>5, <1>6 DEF Work

LEMMA SettledStep ==
  ASSUME TypeOK, SettledInv, Next
  PROVE  SettledInv'
<1> SUFFICES ASSUME agentStatus' = "provisioning", ~abandoned'
             PROVE  \E j \in Jobs : Past(j)'
  BY DEF SettledInv
<1>1. CASE Outside
  <2>1. UNCHANGED <<agentStatus, abandoned>>
    BY <1>1 DEF Outside, Operators, Enqueue, EnqueuePlain, Clean, Reset, Edit, EditUnwatched,
      ResyncRead, ResyncPush, DeleteScript, Unread, ReadRow, rowVars, histVars
  <2>2. PICK j \in Jobs : Past(j)
    BY <2>1 DEF SettledInv
  <2>3. pc'[j] = pc[j]
    BY <1>1, <2>2, OutsideJobs DEF ActiveKept, Active, Past
  <2> QED
    BY <2>2, <2>3 DEF Past
<1>2. CASE Crash
  BY <1>2 DEF Crash
<1>3. ASSUME NEW j \in Jobs, Starts(j)
      PROVE  \E k \in Jobs : Past(k)'
  <2>1. UNCHANGED <<agentStatus, abandoned>> /\ SlotsKept(j) /\ ~Active(j)
    BY <1>3, StartJobs DEF Starts, ReadRow, rowVars
  <2>2. PICK k \in Jobs : Past(k)
    BY <2>1 DEF SettledInv
  <2>3. pc'[k] = pc[k]
    BY <2>1, <2>2 DEF SlotsKept, Active, Past
  <2> QED
    BY <2>2, <2>3 DEF Past
<1>4. ASSUME NEW j \in Jobs, Work(j)
      PROVE  \E k \in Jobs : Past(k)'
  BY <1>4, WorkSettles
<1> QED
  BY <1>1, <1>2, <1>3, <1>4, Steps

----------------------------------------------------------------------------
IInv == /\ TypeOK /\ NumbersInv
        /\ AloneInv /\ PushInv /\ LiveInv /\ ReadyIsPushed
        /\ SettledInv

LEMMA IInvInit == Init => IInv
<1> SUFFICES ASSUME Init PROVE IInv
  OBVIOUS
<1> USE SyncAssumption DEF Init
<1>1. TypeOK
  <2>1. RowOK /\ ElevenLabsOK
    BY DEF RowOK, ElevenLabsOK, Payloads, Versions, Statuses
  <2>2. JobsOK
    BY BlankOK DEF JobsOK, Actions
  <2>3. resync = None /\ readyAt = 0 /\ 0 \in Versions
    BY DEF Versions
  <2>4. {mixed, disturbed, unpushed, abandoned} \subseteq BOOLEAN
    OBVIOUS
  <2> QED
    BY <2>1, <2>2, <2>3, <2>4 DEF TypeOK
<1>2. NumbersInv
  BY DEF NumbersInv, Blank
<1>3. \A j \in Jobs : pc[j] \notin Running
  BY DEF Running
<1>4. AloneInv /\ PushInv /\ LiveInv
  BY <1>3 DEF AloneInv, PushInv, JobPush, LiveInv, JobLive, Past, Active, SomeActive, Running
<1>5. ReadyIsPushed /\ SettledInv
  BY DEF ReadyIsPushed, ReadyStands, SettledInv
<1> QED
  BY <1>1, <1>2, <1>4, <1>5 DEF IInv

LEMMA IInvStep == IInv /\ [Next]_vars => IInv'
<1> SUFFICES ASSUME IInv, [Next]_vars PROVE IInv'
  OBVIOUS
<1>1. CASE Next
  BY <1>1, TypeStep, NumbersStep, AloneStep, PushStep, LiveStep, ReadyStep, SettledStep DEF IInv
<1>2. CASE UNCHANGED vars
  <2> USE <1>2 DEF vars, rowVars, elVars, jobVars, histVars
  <2>1. TypeOK' /\ NumbersInv'
    BY DEF IInv, TypeOK, RowOK, ElevenLabsOK, JobsOK, NumbersInv
  <2>2. AloneInv' /\ PushInv' /\ LiveInv'
    BY DEF IInv, AloneInv, PushInv, JobPush, LiveInv, JobLive, Past, Active, SomeActive
  <2>3. ReadyIsPushed' /\ SettledInv'
    BY DEF IInv, ReadyIsPushed, ReadyStands, SettledInv, Past
  <2> QED
    BY <2>1, <2>2, <2>3 DEF IInv
<1> QED
  BY <1>1, <1>2

(* At every moment the row, ElevenLabs and the jobs are as the invariant   *)
(* says.                                                                   *)
THEOREM Invariance == Spec => []IInv
BY IInvInit, IInvStep, PTL DEF Spec

(* Without overlaps, edits during a job, resets, crashes or failing        *)
(* searches there is at most one agent of the campaign, and none that the  *)
(* row or a running job does not know.                                     *)
THEOREM AgentsAreSafe == Spec => []AgentsSafe
<1>1. IInv => AgentsSafe
  <2> SUFFICES ASSUME IInv PROVE AgentsSafe
    OBVIOUS
  <2>1. ASSUME ~disturbed
        PROVE  /\ \A a, b \in live : a = b
               /\ \A a \in live :
                    \/ agentId = a
                    \/ \E j \in Jobs : (pc[j] = "success" /\ found[j] = a) \/ pc[j] = "list"
    <3>1. CASE ~SomeActive
      BY <2>1, <3>1 DEF IInv, LiveInv
    <3>2. ASSUME NEW j \in Jobs, Active(j)
          PROVE  /\ \A a, b \in live : a = b
                 /\ \A a \in live : agentId = a \/ (pc[j] = "success" /\ found[j] = a)
                                    \/ pc[j] = "list"
      BY <2>1, <3>2 DEF IInv, LiveInv, JobLive, Active, Running
    <3> QED
      BY <3>1, <3>2 DEF SomeActive
  <2> QED
    BY <2>1 DEF IInv, AgentsSafe, OneAgentWhenAlone, NoOrphanWhenAlone
<1> QED
  BY <1>1, Invariance, PTL

(* A ready row of unchanged version, with none of the named excuses, has   *)
(* an agent that was last given what the row says, or over it the payload  *)
(* of resync-all-agents.js: no job lets an older answer pass for a newer.  *)
THEOREM ReadyWasPushed == Spec => []ReadyIsPushed
<1>1. IInv => ReadyIsPushed
  BY DEF IInv
<1> QED
  BY <1>1, Invariance, PTL

(* A row left in provisioning is that of a job that ended without having   *)
(* settled it.                                                             *)
THEOREM ProvisioningIsExplained == Spec => []ProvisioningExplained
<1>1. IInv => ProvisioningExplained
  BY DEF IInv, SettledInv, ProvisioningExplained, Past, Pending
<1> QED
  BY <1>1, Invariance, PTL
=============================================================================
