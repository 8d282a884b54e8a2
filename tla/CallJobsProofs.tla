-------------------------- MODULE CallJobsProofs --------------------------
(***************************************************************************)
(* Proofs about CallJobs, for any sets of contacts, jobs and slots.        *)
(***************************************************************************)
EXTENDS CallJobs, FiniteSetTheorems, TLAPS

----------------------------------------------------------------------------
(* Type correctness *)

(* The initial state is well typed. *)
LEMMA InitTypeOK == Init => TypeOK
BY ConstantsAssumption
   DEF Init, TypeOK, RowsOK, QueueOK, SlotsOK, HistoryOK, Statuses, JobStates,
       Labels, PreLock, Critical

(* What the writes of a run do to the types of the row and the history. *)
LEMMA RecordStatusType ==
  ASSUME TypeOK, NEW w \in Workers, pc[w] # "idle",
         NEW s \in Statuses, RecordStatus(w, s)
  PROVE  status' \in [Contacts -> Statuses] /\ dropped' \in [Contacts -> BOOLEAN]
BY DEF TypeOK, RowsOK, QueueOK, SlotsOK, HistoryOK, RecordStatus, SetStatus,
       Discarded, ContactOf

(* The counter of a contact stays in its range, written or lost. *)
LEMMA WriteCounterType ==
  ASSUME TypeOK, NEW w \in Workers, pc[w] # "idle",
         WriteCounter(w) \/ LoseCounter(w)
  PROVE  /\ retryCount' \in [Contacts -> 0 .. MaxDailyRetries + 1]
         /\ disturbed' \in [Contacts -> BOOLEAN]
<1>. USE ConstantsAssumption
     DEF TypeOK, RowsOK, QueueOK, SlotsOK, HistoryOK, ContactOf
<1>1. CASE WriteCounter(w)
  BY <1>1 DEF WriteCounter
<1>2. CASE LoseCounter(w)
  BY <1>2 DEF LoseCounter
<1>. QED
  BY <1>1, <1>2

(* What a slot computes from the counter it reads is in range. *)
LEMMA ReadCounterType ==
  ASSUME TypeOK, NEW w \in Workers, pc[w] # "idle", ReadCounter(w)
  PROVE  /\ newCount' \in [Workers -> 0 .. MaxDailyRetries + 1]
         /\ sameDay' \in [Workers -> BOOLEAN]
         /\ disturbed' \in [Contacts -> BOOLEAN]
<1>. USE ConstantsAssumption
     DEF TypeOK, RowsOK, QueueOK, SlotsOK, HistoryOK, ContactOf
<1>1. sameDay' \in [Workers -> BOOLEAN]
  BY DEF ReadCounter
<1>2. Saturated(retryCount[ContactOf(w)] + 1) \in 0 .. MaxDailyRetries + 1
  BY DEF Saturated
<1>3. newCount' \in [Workers -> 0 .. MaxDailyRetries + 1]
  <2>1. PICK n \in 0 .. MaxDailyRetries + 1 : newCount' = [newCount EXCEPT ![w] = n]
    BY <1>2 DEF ReadCounter
  <2>. QED
    BY <2>1
<1>4. disturbed' \in [Contacts -> BOOLEAN]
  <2>1. disturbed' = disturbed \/ disturbed' = [disturbed EXCEPT ![ContactOf(w)] = TRUE]
    BY DEF ReadCounter
  <2>2. CASE disturbed' = disturbed
    BY <2>2
  <2>3. CASE disturbed' = [disturbed EXCEPT ![ContactOf(w)] = TRUE]
    BY <2>3
  <2>. QED
    BY <2>1, <2>2, <2>3
<1>. QED
  BY <1>1, <1>3, <1>4

(* A failing run keeps the queue and the slots in their types. *)
LEMMA FailJobType ==
  ASSUME TypeOK, NEW w \in Workers, pc[w] # "idle", FailJob(w)
  PROVE  QueueOK' /\ SlotsOK'
         /\ overran' \in [Workers -> BOOLEAN]
         /\ reissued' \in [Jobs -> BOOLEAN]
         /\ dropped' \in [Contacts -> BOOLEAN]
<1>. USE ConstantsAssumption
     DEF TypeOK, RowsOK, QueueOK, SlotsOK, HistoryOK, JobStates, Labels, ContactOf
<1>1. CASE Goto(w, "dead") /\ CloseJob(w)
             /\ UNCHANGED <<job, newCount, sameDay, overran, dropped>>
  BY <1>1 DEF CloseJob, Goto
<1>2. CASE Finish(w) /\ Discarded(w)
  BY <1>2 DEF CloseJob, Finish, LeaveSlot, Goto, Discarded
<1>. QED
  BY <1>1, <1>2 DEF FailJob

(* A step of processCallJob keeps every variable in its type. *)
LEMMA RunTypeOK ==
  ASSUME TypeOK, NEW w \in Workers, Run(w)
  PROVE  TypeOK'
<1>. USE ConstantsAssumption
     DEF TypeOK, RowsOK, QueueOK, SlotsOK, HistoryOK, Statuses, JobStates,
         Labels, PreLock, Critical, Goto, ContactOf, Owns,
         rowVars, jobVars, runVars, histVars
<1>1. CASE LoadFails(w)
  BY <1>1 DEF LoadFails, Finish, LeaveSlot, CloseJob, Discarded
<1>2. CASE AgentNotReady(w)
  BY <1>2, RecordStatusType DEF AgentNotReady, Finish, LeaveSlot, CloseJob
<1>3. CASE DncBlocked(w)
  BY <1>3, RecordStatusType DEF DncBlocked, Finish, LeaveSlot, CloseJob
<1>4. CASE NoWindow(w)
  BY <1>4, RecordStatusType DEF NoWindow, Finish, LeaveSlot, CloseJob
<1>5. CASE ScheduleBlocked(w)
  BY <1>5, ReadCounterType DEF ScheduleBlocked
<1>6. CASE Reschedule(w)
  BY <1>6, WriteCounterType DEF Reschedule, SetStatus
<1>7. CASE RescheduleCapped(w)
  <2>1. status' \in [Contacts -> Statuses] /\ dropped' \in [Contacts -> BOOLEAN]
    <3>1. CASE SetStatus(ContactOf(w), "needs_attention") /\ UNCHANGED dropped
      BY <1>7, <3>1 DEF RescheduleCapped, SetStatus
    <3>2. CASE UNCHANGED status /\ Discarded(w)
      BY <1>7, <3>2 DEF RescheduleCapped, Discarded
    <3>. QED
      BY <1>7, <3>1, <3>2 DEF RescheduleCapped
  <2>2. WriteCounter(w) \/ LoseCounter(w)
    BY <1>7 DEF RescheduleCapped
  <2>. QED
    BY <1>7, <2>1, <2>2, WriteCounterType DEF RescheduleCapped, Finish, LeaveSlot, CloseJob
<1>8. CASE RescheduleAdd(w)
  BY <1>8 DEF RescheduleAdd, AddJob, NewJob, Unused, CountRetry, Saturated
<1>9. CASE RescheduleAddFails(w)
  BY <1>9, RecordStatusType DEF RescheduleAddFails, Finish, LeaveSlot,
     CloseJob
<1>10. CASE Return(w)
  BY <1>10 DEF Return, Finish, LeaveSlot, CloseJob
<1>11. CASE LimitReached(w)
  BY <1>11 DEF LimitReached, Finish, LeaveSlot, CloseJob, Discarded
<1>12. CASE ChecksPass(w)
  BY <1>12 DEF ChecksPass
<1>13. CASE TryLock(w)
  BY <1>13 DEF TryLock
<1>14. CASE RecoverLock(w)
  BY <1>14 DEF RecoverLock
<1>15. CASE SkipDuplicate(w)
  BY <1>15 DEF SkipDuplicate, Finish, LeaveSlot, CloseJob, Discarded
<1>16. CASE Increment(w)
  BY <1>16 DEF Increment
<1>17. CASE Dial(w)
  BY <1>17 DEF Dial, WriteStatus, SetStatus
<1>18. CASE CallCompleted(w)
  BY <1>18, RecordStatusType DEF CallCompleted
<1>19. CASE CallbackRequested(w)
  BY <1>19 DEF CallbackRequested, WriteStatus, SetStatus
<1>20. CASE CallRefused(w)
  BY <1>20, RecordStatusType DEF CallRefused
<1>21. CASE CallMismatched(w)
  BY <1>21 DEF CallMismatched
<1>22. CASE CallFailed(w)
  BY <1>22, ReadCounterType DEF CallFailed
<1>23. CASE BumpCounter(w)
  BY <1>23, WriteCounterType DEF BumpCounter
<1>24. CASE CapReached(w)
  BY <1>24, RecordStatusType DEF CapReached
<1>25. CASE RetryLater(w)
  BY <1>25 DEF RetryLater, AddJob, NewJob, Unused, CountRetry, Saturated
<1>26. CASE RetryNow(w)
  BY <1>26 DEF RetryNow, AddJob, NewJob, Unused
<1>27. CASE CallbackAdd(w)
  BY <1>27 DEF CallbackAdd, AddJob, NewJob, Unused
<1>28. CASE CallbackAddFails(w)
  BY <1>28, RecordStatusType DEF CallbackAddFails
<1>29. CASE Release(w)
  BY <1>29 DEF Release, ReleaseLock, Finish, LeaveSlot, CloseJob
<1>30. CASE ThrowUnlocked(w)
  BY <1>30, FailJobType DEF ThrowUnlocked
<1>31. CASE Throw(w)
  BY <1>31 DEF Throw
<1>32. CASE Unwind(w)
  BY <1>32, FailJobType DEF Unwind, ReleaseLock
<1>33. CASE DeadLetter(w)
  BY <1>33, RecordStatusType DEF DeadLetter, LeaveSlot
<1>. QED
  BY <1>1, <1>2, <1>3, <1>4, <1>5, <1>6, <1>7, <1>8, <1>9, <1>10, <1>11,
     <1>12, <1>13, <1>14, <1>15, <1>16, <1>17, <1>18, <1>19, <1>20, <1>21,
     <1>22, <1>23, <1>24, <1>25, <1>26, <1>27, <1>28, <1>29, <1>30, <1>31,
     <1>32, <1>33 DEF Run

(* A step of the dashboard, of a timer, of BullMQ or a crash does, too. *)
LEMMA EnvTypeOK ==
  ASSUME TypeOK,
         \/ \E c \in Contacts : Dashboard(c) \/ LockExpires(c)
         \/ \E w \in Workers, j \in Jobs : Dequeue(w, j)
         \/ \E j \in Jobs : DelayElapses(j) \/ StalledRequeue(j) \/ FalseStall(j)
         \/ Crash \/ NewDay \/ MonthlyReset
  PROVE  TypeOK'
<1>. USE ConstantsAssumption
     DEF TypeOK, RowsOK, QueueOK, SlotsOK, HistoryOK, Statuses, JobStates,
         Labels, PreLock, Critical, Goto, ContactOf, Owns,
         rowVars, jobVars, runVars, histVars
<1>1. CASE \E c \in Contacts : QuickCall(c)
  BY <1>1 DEF QuickCall, SetStatus, AddJob, NewJob, Unused, NoteCrowd
<1>2. CASE \E c \in Contacts : RetryContact(c)
  <2>. PICK c \in Contacts : RetryContact(c)
    BY <1>2
  <2>1. status' \in [Contacts -> Statuses]
    BY DEF RetryContact, SetStatus
  <2>2. dropped' \in [Contacts -> BOOLEAN]
    BY DEF RetryContact
  <2>3. QueueOK' /\ reissued' \in [Jobs -> BOOLEAN] /\ disturbed' \in [Contacts -> BOOLEAN]
    <3>1. CASE AddJob(c, "waiting") /\ NoteCrowd(c)
      BY <3>1 DEF AddJob, NewJob, Unused, NoteCrowd
    <3>2. CASE UNCHANGED <<jobVars, reissued, disturbed>>
      BY <3>2
    <3>. QED
      BY <3>1, <3>2 DEF RetryContact
  <2>. QED
    BY <2>1, <2>2, <2>3 DEF RetryContact
<1>3. CASE \E c \in Contacts : ResumeContact(c)
  BY <1>3 DEF ResumeContact, AddJob, NewJob, Unused, NoteCrowd
<1>4. CASE \E c \in Contacts : LockExpires(c)
  BY <1>4 DEF LockExpires
<1>5. CASE \E w \in Workers, j \in Jobs : Dequeue(w, j)
  BY <1>5 DEF Dequeue
<1>6. CASE \E j \in Jobs : DelayElapses(j)
  BY <1>6 DEF DelayElapses
<1>7. CASE \E j \in Jobs : StalledRequeue(j)
  <2>. PICK j \in Jobs : StalledRequeue(j)
    BY <1>7
  <2>1. RowsOK'
    BY DEF StalledRequeue, SetStatus
  <2>2. PICK s \in {"free", "waiting"}, b \in BOOLEAN :
           /\ jobState' = [jobState EXCEPT ![j] = s]
           /\ stalledOnce' = [stalledOnce EXCEPT ![j] = b]
    <3>1. CASE stalledOnce[j]
      BY <3>1 DEF StalledRequeue
    <3>2. CASE ~stalledOnce[j]
      BY <3>2 DEF StalledRequeue
    <3>. QED
      BY <3>1, <3>2
  <2>3. dropped' \in [Contacts -> BOOLEAN]
    BY DEF StalledRequeue
  <2>4. SlotsOK'
    BY DEF StalledRequeue
  <2>. QED
    BY <2>1, <2>2, <2>3, <2>4 DEF StalledRequeue
<1>8. CASE \E j \in Jobs : FalseStall(j)
  BY <1>8 DEF FalseStall
<1>9. CASE Crash
  BY <1>9 DEF Crash
<1>10. CASE NewDay
  BY <1>10 DEF NewDay
<1>11. CASE MonthlyReset
  BY <1>11 DEF MonthlyReset
<1>. QED
  BY <1>1, <1>2, <1>3, <1>4, <1>5, <1>6, <1>7, <1>8, <1>9, <1>10, <1>11 DEF Dashboard

(* Every step preserves the types. *)
LEMMA TypeStep == ASSUME TypeOK, [Next]_vars PROVE TypeOK'
<1>1. CASE \E w \in Workers : Run(w)
  BY <1>1, RunTypeOK
<1>2. CASE UNCHANGED vars
  BY <1>2 DEF vars, TypeOK, RowsOK, QueueOK, SlotsOK, HistoryOK,
     rowVars, jobVars, runVars, histVars
<1>3. QED
  BY <1>1, <1>2, EnvTypeOK DEF Next

(* Every variable of the call worker keeps its type. *)
THEOREM TypeCorrect == Spec => []TypeOK
<1>1. Init => TypeOK
  BY InitTypeOK
<1>2. TypeOK /\ [Next]_vars => TypeOK'
  BY TypeStep
<1>. QED
  BY <1>1, <1>2, PTL DEF Spec

----------------------------------------------------------------------------
(* Mutual exclusion *)

(* A slot between taking a job and handing it back or throwing. *)
InRun(w) == pc[w] \notin {"idle", "dead"}

(* Only an active job has a runner. *)
QueueInv == \A j \in Jobs : jobState[j] # "active" => runner[j] = None

(* A run whose job BullMQ took back is a run of a job handed out again. *)
OrphanInv == \A w \in Workers : InRun(w) /\ ~Owns(w) => reissued[job[w]]

(* A run in its call holds the lock unless it is excused. *)
LeaseInv ==
  \A w \in Workers :
    pc[w] \in Critical /\ ~Excused(w) => lock[ContactOf(w)] = job[w]

CallInv == QueueInv /\ OrphanInv /\ LeaseInv

(* queue.add returns an id that no slot and no lock refers to. *)
LEMMA NewJobUnused ==
  ASSUME NEW c, NEW state, AddJob(c, state)
  PROVE  /\ NewJob \in Jobs
         /\ jobState[NewJob] = "free"
         /\ \A w \in Workers : job[w] # NewJob
         /\ \A d \in Contacts : lock[d] # NewJob
BY DEF AddJob, NewJob, Unused

(* Nothing runs and nothing is locked at first. *)
LEMMA InitCallInv == Init => CallInv
BY DEF Init, CallInv, QueueInv, OrphanInv, LeaseInv, InRun, Critical

(* Adding a job disturbs no slot: none of them refers to the new id. *)
LEMMA AddJobCallInv ==
  ASSUME TypeOK, CallInv, NEW c \in Contacts, NEW state \in {"delayed", "waiting"},
         AddJob(c, state), UNCHANGED <<lock, job, overran>>,
         \A w \in Workers : /\ pc'[w] \in Critical => pc[w] \in Critical
                            /\ InRun(w)' => InRun(w)
  PROVE  CallInv'
<1>. DEFINE n == NewJob
<1>1. n \in Jobs /\ \A w \in Workers : job[w] # n
  BY NewJobUnused
<1>2. \A j \in Jobs : j # n =>
        /\ jobState'[j] = jobState[j]
        /\ jobContact'[j] = jobContact[j]
        /\ reissued'[j] = reissued[j]
  BY DEF AddJob, TypeOK, QueueOK, HistoryOK
<1>3. runner' = runner /\ runner[n] = None
  BY <1>1, NewJobUnused DEF AddJob, CallInv, QueueInv
<1>4. QueueInv'
  BY <1>2, <1>3 DEF CallInv, QueueInv
<1>5. \A w \in Workers : InRun(w) => job[w] \in Jobs /\ job[w] # n
  BY <1>1 DEF InRun, TypeOK, SlotsOK
<1>6. OrphanInv'
  BY <1>2, <1>3, <1>5 DEF CallInv, OrphanInv, InRun, Owns
<1>7. \A w \in Workers : pc[w] \in Critical => InRun(w)
  BY DEF Critical, InRun
<1>8. LeaseInv'
  BY <1>2, <1>5, <1>7 DEF CallInv, LeaseInv, Excused, ContactOf
<1>. QED
  BY <1>4, <1>6, <1>8 DEF CallInv

(* A step of processCallJob preserves the three invariants. *)
LEMMA RunCallInv ==
  ASSUME TypeOK, CallInv, NEW w \in Workers, Run(w)
  PROVE  CallInv'
<1>. USE ConstantsAssumption
     DEF TypeOK, RowsOK, QueueOK, SlotsOK, HistoryOK, CallInv, QueueInv, OrphanInv,
         LeaseInv, InRun, Excused, Owns, ContactOf, Critical, Goto,
         rowVars, jobVars, runVars, histVars
<1>1. CASE LoadFails(w)
  BY <1>1 DEF LoadFails, Finish, LeaveSlot, CloseJob
<1>2. CASE AgentNotReady(w)
  BY <1>2 DEF AgentNotReady, Finish, LeaveSlot, CloseJob
<1>3. CASE DncBlocked(w)
  BY <1>3 DEF DncBlocked, Finish, LeaveSlot, CloseJob
<1>4. CASE NoWindow(w)
  BY <1>4 DEF NoWindow, Finish, LeaveSlot, CloseJob
<1>5. CASE ScheduleBlocked(w)
  BY <1>5 DEF ScheduleBlocked, ReadCounter
<1>6. CASE Reschedule(w)
  BY <1>6 DEF Reschedule
<1>7. CASE RescheduleCapped(w)
  BY <1>7 DEF RescheduleCapped, Finish, LeaveSlot, CloseJob
<1>8. CASE RescheduleAdd(w)
  BY <1>8, AddJobCallInv DEF RescheduleAdd
<1>9. CASE RescheduleAddFails(w)
  BY <1>9 DEF RescheduleAddFails, Finish, LeaveSlot, CloseJob
<1>10. CASE Return(w)
  BY <1>10 DEF Return, Finish, LeaveSlot, CloseJob
<1>11. CASE LimitReached(w)
  BY <1>11 DEF LimitReached, Finish, LeaveSlot, CloseJob
<1>12. CASE ChecksPass(w)
  BY <1>12 DEF ChecksPass
<1>13. CASE TryLock(w)
  BY <1>13 DEF TryLock
<1>14. CASE RecoverLock(w)
  BY <1>14 DEF RecoverLock
<1>15. CASE SkipDuplicate(w)
  BY <1>15 DEF SkipDuplicate, Finish, LeaveSlot, CloseJob
<1>16. CASE Increment(w)
  BY <1>16 DEF Increment
<1>17. CASE Dial(w)
  BY <1>17 DEF Dial
<1>18. CASE CallCompleted(w)
  BY <1>18 DEF CallCompleted
<1>19. CASE CallbackRequested(w)
  BY <1>19 DEF CallbackRequested
<1>20. CASE CallRefused(w)
  BY <1>20 DEF CallRefused
<1>21. CASE CallMismatched(w)
  BY <1>21 DEF CallMismatched
<1>22. CASE CallFailed(w)
  BY <1>22 DEF CallFailed, ReadCounter
<1>23. CASE BumpCounter(w)
  BY <1>23 DEF BumpCounter
<1>24. CASE CapReached(w)
  BY <1>24 DEF CapReached
<1>25. CASE RetryLater(w)
  BY <1>25, AddJobCallInv DEF RetryLater
<1>26. CASE RetryNow(w)
  BY <1>26, AddJobCallInv DEF RetryNow
<1>27. CASE CallbackAdd(w)
  BY <1>27, AddJobCallInv DEF CallbackAdd
<1>28. CASE CallbackAddFails(w)
  BY <1>28 DEF CallbackAddFails
<1>29. CASE Release(w)
  BY <1>29 DEF Release, Finish, LeaveSlot, CloseJob, ReleaseLock
<1>30. CASE ThrowUnlocked(w)
  BY <1>30 DEF ThrowUnlocked, FailJob, Finish, LeaveSlot, CloseJob
<1>31. CASE Throw(w)
  BY <1>31 DEF Throw
<1>32. CASE Unwind(w)
  BY <1>32 DEF Unwind, ReleaseLock, FailJob, Finish, LeaveSlot, CloseJob
<1>33. CASE DeadLetter(w)
  BY <1>33 DEF DeadLetter, LeaveSlot
<1>. QED
  BY <1>1, <1>2, <1>3, <1>4, <1>5, <1>6, <1>7, <1>8, <1>9, <1>10, <1>11,
     <1>12, <1>13, <1>14, <1>15, <1>16, <1>17, <1>18, <1>19, <1>20, <1>21,
     <1>22, <1>23, <1>24, <1>25, <1>26, <1>27, <1>28, <1>29, <1>30, <1>31,
     <1>32, <1>33 DEF Run

(* So do the dashboard, the timers, BullMQ and a crash. *)
LEMMA EnvCallInv ==
  ASSUME TypeOK, CallInv,
         \/ \E c \in Contacts : Dashboard(c) \/ LockExpires(c)
         \/ \E w \in Workers, j \in Jobs : Dequeue(w, j)
         \/ \E j \in Jobs : DelayElapses(j) \/ StalledRequeue(j) \/ FalseStall(j)
         \/ Crash \/ NewDay \/ MonthlyReset
  PROVE  CallInv'
<1>. USE ConstantsAssumption
     DEF TypeOK, RowsOK, QueueOK, SlotsOK, HistoryOK, CallInv, QueueInv, OrphanInv,
         LeaseInv, InRun, Excused, Owns, ContactOf, Critical, Goto,
         rowVars, jobVars, runVars, histVars
<1>1. CASE \E c \in Contacts : QuickCall(c)
  BY <1>1, AddJobCallInv DEF QuickCall
<1>2. CASE \E c \in Contacts : RetryContact(c)
  <2>. PICK c \in Contacts : RetryContact(c)
    BY <1>2
  <2>1. CASE AddJob(c, "waiting")
    BY <2>1, AddJobCallInv DEF RetryContact
  <2>2. CASE UNCHANGED <<jobVars, reissued, disturbed>>
    BY <2>2 DEF RetryContact
  <2>. QED
    BY <2>1, <2>2 DEF RetryContact
<1>3. CASE \E c \in Contacts : ResumeContact(c)
  BY <1>3, AddJobCallInv DEF ResumeContact
<1>4. CASE \E c \in Contacts : LockExpires(c)
  <2>. PICK c \in Contacts : LockExpires(c)
    BY <1>4
  <2>1. ASSUME NEW w \in Workers, pc[w] \in Critical, ~overran'[w], ~reissued[job[w]]
        PROVE  lock'[ContactOf(w)] = job[w]
    <3>1. ~overran[w] /\ job[w] # lock[c]
      BY <2>1 DEF LockExpires
    <3>2. lock[ContactOf(w)] = job[w]
      BY <2>1, <3>1
    <3>3. ContactOf(w) # c
      BY <3>1, <3>2
    <3>. QED
      BY <2>1, <3>2, <3>3 DEF LockExpires
  <2>. QED
    BY <2>1 DEF LockExpires
<1>5. CASE \E w \in Workers, j \in Jobs : Dequeue(w, j)
  BY <1>5 DEF Dequeue
<1>6. CASE \E j \in Jobs : DelayElapses(j)
  BY <1>6 DEF DelayElapses
<1>7. CASE \E j \in Jobs : StalledRequeue(j)
  BY <1>7 DEF StalledRequeue
<1>8. CASE \E j \in Jobs : FalseStall(j)
  BY <1>8 DEF FalseStall
<1>9. CASE Crash
  BY <1>9 DEF Crash
<1>10. CASE NewDay
  BY <1>10 DEF NewDay
<1>11. CASE MonthlyReset
  BY <1>11 DEF MonthlyReset
<1>. QED
  BY <1>1, <1>2, <1>3, <1>4, <1>5, <1>6, <1>7, <1>8, <1>9, <1>10, <1>11 DEF Dashboard

(* Every step preserves the invariants of mutual exclusion. *)
LEMMA CallInvStep == ASSUME TypeOK, CallInv, [Next]_vars PROVE CallInv'
<1>1. CASE \E w \in Workers : Run(w)
  BY <1>1, RunCallInv
<1>2. CASE UNCHANGED vars
  BY <1>2 DEF vars, CallInv, QueueInv, OrphanInv, LeaseInv, InRun, Excused, Owns,
     ContactOf, rowVars, jobVars, runVars, histVars
<1>3. QED
  BY <1>1, <1>2, EnvCallInv DEF Next

(* Two calls to one contact overlap only if one outlived its lock or ran a *)
(* job that BullMQ handed out twice: two unexcused calls would both hold   *)
(* the lock, with the same job id, and a job has one runner.               *)
THEOREM OneCall == Spec => []OneCallPerContact
<1>1. Init => TypeOK /\ CallInv
  BY InitTypeOK, InitCallInv
<1>2. TypeOK /\ CallInv /\ [Next]_vars => TypeOK' /\ CallInv'
  BY TypeStep, CallInvStep
<1>3. CallInv => OneCallPerContact
  BY DEF CallInv, OrphanInv, LeaseInv, OneCallPerContact, Excused, Owns, InRun, Critical
<1>. QED
  BY <1>1, <1>2, <1>3, PTL DEF Spec

----------------------------------------------------------------------------
(* The monthly limit *)

(* The slots that have passed the limit check and not yet been counted. *)
Admitted == {w \in Workers : pc[w] \in {"lock", "recover", "increment"}}

(* Every admitted slot has its place below the bound already. *)
LimitInv ==
  callsUsed + Cardinality(Admitted) <= CallLimit + Cardinality(Workers) - 1

(* The admitted slots are finitely many, no more than there are. *)
LEMMA AdmittedFinite ==
  /\ IsFiniteSet(Admitted) /\ Cardinality(Admitted) \in Nat
  /\ Cardinality(Workers) \in Nat
  /\ Cardinality(Admitted) <= Cardinality(Workers)
<1>1. Admitted \subseteq Workers
  BY DEF Admitted
<1>. QED
  BY <1>1, ConstantsAssumption, FS_Subset, FS_CardinalityType

(* The same after a step. *)
LEMMA AdmittedFinitePrime ==
  /\ IsFiniteSet(Admitted') /\ Cardinality(Admitted') \in Nat
  /\ Cardinality(Admitted') <= Cardinality(Workers)
<1>1. Admitted' \subseteq Workers
  BY DEF Admitted
<1>. QED
  BY <1>1, ConstantsAssumption, FS_Subset, FS_CardinalityType

(* A step that admits no slot and counts no call. *)
Quiet ==
  /\ callsUsed' \in Nat /\ callsUsed' <= callsUsed
  /\ \A w \in Workers :
       pc'[w] \in {"lock", "recover", "increment"} =>
         pc[w] \in {"lock", "recover", "increment"}

(* A quiet step keeps the bound. *)
LEMMA QuietLimit == ASSUME TypeOK, LimitInv, Quiet PROVE LimitInv'
<1>1. Admitted' \subseteq Admitted
  BY DEF Admitted, Quiet
<1>2. Cardinality(Admitted') <= Cardinality(Admitted)
  BY <1>1, AdmittedFinite, FS_Subset
<1>3. callsUsed \in Nat /\ callsUsed' \in Nat /\ callsUsed' <= callsUsed
  BY DEF Quiet, TypeOK, RowsOK
<1>. QED
  BY <1>2, <1>3, AdmittedFinite, AdmittedFinitePrime, ConstantsAssumption DEF LimitInv

(* Passing the check keeps it: the limit is not reached at that moment. *)
LEMMA AdmitLimit ==
  ASSUME TypeOK, NEW w \in Workers, ChecksPass(w) PROVE LimitInv'
BY AdmittedFinite, AdmittedFinitePrime, ConstantsAssumption
   DEF ChecksPass, LimitInv, TypeOK, RowsOK, rowVars

(* Counting a call moves one place from the admitted to the counted. *)
LEMMA CountLimit ==
  ASSUME TypeOK, LimitInv, NEW w \in Workers, Increment(w) PROVE LimitInv'
<1>1. w \in Admitted /\ Admitted' = Admitted \ {w}
  BY DEF Increment, Admitted, Goto, TypeOK, SlotsOK
<1>2. Cardinality(Admitted') = Cardinality(Admitted) - 1
  BY <1>1, AdmittedFinite, FS_RemoveElement
<1>3. callsUsed \in Nat /\ callsUsed' = callsUsed + 1
  BY DEF Increment, TypeOK, RowsOK
<1>. QED
  BY <1>2, <1>3, AdmittedFinite, ConstantsAssumption DEF LimitInv

(* All other steps of processCallJob are quiet, *)
LEMMA RunQuiet ==
  ASSUME TypeOK, NEW w \in Workers, Run(w), ~ChecksPass(w), ~Increment(w)
  PROVE  Quiet
<1>. USE DEF Quiet, TypeOK, RowsOK, SlotsOK, Goto, rowVars, runVars
<1>1. CASE LoadFails(w)
  BY <1>1 DEF LoadFails, Finish, LeaveSlot
<1>2. CASE AgentNotReady(w)
  BY <1>2 DEF AgentNotReady, Finish, LeaveSlot
<1>3. CASE DncBlocked(w)
  BY <1>3 DEF DncBlocked, Finish, LeaveSlot
<1>4. CASE NoWindow(w)
  BY <1>4 DEF NoWindow, Finish, LeaveSlot
<1>5. CASE ScheduleBlocked(w)
  BY <1>5 DEF ScheduleBlocked
<1>6. CASE Reschedule(w)
  BY <1>6 DEF Reschedule
<1>7. CASE RescheduleCapped(w)
  BY <1>7 DEF RescheduleCapped, Finish, LeaveSlot
<1>8. CASE RescheduleAdd(w)
  BY <1>8 DEF RescheduleAdd
<1>9. CASE RescheduleAddFails(w)
  BY <1>9 DEF RescheduleAddFails, Finish, LeaveSlot
<1>10. CASE Return(w)
  BY <1>10 DEF Return, Finish, LeaveSlot
<1>11. CASE LimitReached(w)
  BY <1>11 DEF LimitReached, Finish, LeaveSlot
<1>12. CASE TryLock(w)
  BY <1>12 DEF TryLock
<1>13. CASE RecoverLock(w)
  BY <1>13 DEF RecoverLock
<1>14. CASE SkipDuplicate(w)
  BY <1>14 DEF SkipDuplicate, Finish, LeaveSlot
<1>15. CASE Dial(w)
  BY <1>15 DEF Dial
<1>16. CASE CallCompleted(w)
  BY <1>16 DEF CallCompleted
<1>17. CASE CallbackRequested(w)
  BY <1>17 DEF CallbackRequested
<1>18. CASE CallRefused(w)
  BY <1>18 DEF CallRefused
<1>19. CASE CallMismatched(w)
  BY <1>19 DEF CallMismatched
<1>20. CASE CallFailed(w)
  BY <1>20 DEF CallFailed
<1>21. CASE BumpCounter(w)
  BY <1>21 DEF BumpCounter
<1>22. CASE CapReached(w)
  BY <1>22 DEF CapReached
<1>23. CASE RetryLater(w)
  BY <1>23 DEF RetryLater
<1>24. CASE RetryNow(w)
  BY <1>24 DEF RetryNow
<1>25. CASE CallbackAdd(w)
  BY <1>25 DEF CallbackAdd
<1>26. CASE CallbackAddFails(w)
  BY <1>26 DEF CallbackAddFails
<1>27. CASE Release(w)
  BY <1>27 DEF Release, Finish, LeaveSlot
<1>28. CASE ThrowUnlocked(w)
  BY <1>28 DEF ThrowUnlocked, FailJob, Finish, LeaveSlot
<1>29. CASE Throw(w)
  BY <1>29 DEF Throw
<1>30. CASE Unwind(w)
  BY <1>30 DEF Unwind, FailJob, Finish, LeaveSlot
<1>31. CASE DeadLetter(w)
  BY <1>31 DEF DeadLetter, LeaveSlot
<1>. QED
  BY <1>1, <1>2, <1>3, <1>4, <1>5, <1>6, <1>7, <1>8, <1>9, <1>10, <1>11,
     <1>12, <1>13, <1>14, <1>15, <1>16, <1>17, <1>18, <1>19, <1>20, <1>21,
     <1>22, <1>23, <1>24, <1>25, <1>26, <1>27, <1>28, <1>29, <1>30, <1>31 DEF
     Run

(* ... and so is everything outside of it. *)
LEMMA EnvQuiet ==
  ASSUME TypeOK,
         \/ \E c \in Contacts : Dashboard(c) \/ LockExpires(c)
         \/ \E w \in Workers, j \in Jobs : Dequeue(w, j)
         \/ \E j \in Jobs : DelayElapses(j) \/ StalledRequeue(j) \/ FalseStall(j)
         \/ Crash \/ NewDay \/ MonthlyReset
  PROVE  Quiet
<1>. USE DEF Quiet, TypeOK, RowsOK, SlotsOK, Goto, rowVars, runVars
<1>1. CASE \E c \in Contacts : Dashboard(c) \/ LockExpires(c)
  BY <1>1 DEF Dashboard, QuickCall, RetryContact, ResumeContact, LockExpires
<1>2. CASE \E w \in Workers, j \in Jobs : Dequeue(w, j)
  BY <1>2 DEF Dequeue
<1>3. CASE \E j \in Jobs : DelayElapses(j) \/ StalledRequeue(j) \/ FalseStall(j)
  BY <1>3 DEF DelayElapses, StalledRequeue, FalseStall
<1>4. CASE Crash \/ NewDay \/ MonthlyReset
  BY <1>4 DEF Crash, NewDay, MonthlyReset
<1>. QED
  BY <1>1, <1>2, <1>3, <1>4

(* Every step keeps the bound. *)
LEMMA LimitStep == ASSUME TypeOK, LimitInv, [Next]_vars PROVE LimitInv'
<1>1. CASE \E w \in Workers : Run(w)
  BY <1>1, AdmitLimit, CountLimit, RunQuiet, QuietLimit
<1>2. CASE UNCHANGED vars
  <2>1. Quiet
    BY <1>2 DEF Quiet, TypeOK, RowsOK, vars, rowVars, runVars
  <2>. QED
    BY <2>1, QuietLimit
<1>3. QED
  BY <1>1, <1>2, EnvQuiet, QuietLimit DEF Next

(* The monthly limit is overshot by at most one call per other slot. *)
THEOREM LimitHolds == Spec => []OvershootBounded
<1>1. Init => TypeOK /\ LimitInv
  <2>1. ASSUME Init PROVE LimitInv
    <3>1. Admitted = {} /\ callsUsed = 0
      BY <2>1 DEF Init, Admitted
    <3>2. Cardinality(Admitted) = 0
      BY <3>1, FS_EmptySet
    <3>. QED
      BY <3>1, <3>2, AdmittedFinite, ConstantsAssumption DEF LimitInv
  <2>. QED
    BY <2>1, InitTypeOK
<1>2. TypeOK /\ LimitInv /\ [Next]_vars => TypeOK' /\ LimitInv'
  BY TypeStep, LimitStep
<1>3. TypeOK /\ LimitInv => OvershootBounded
  BY AdmittedFinite, ConstantsAssumption DEF LimitInv, OvershootBounded, TypeOK, RowsOK
<1>. QED
  BY <1>1, <1>2, <1>3, PTL DEF Spec

----------------------------------------------------------------------------
(* No contact is forgotten *)

Limbo == {"queued", "calling"}
Passive == {"idle", "release", "return"}
Waits(j) == jobState[j] \notin {"free", "active"}

(* What a step of slot w must leave for the invariant to hold: the other   *)
(* slots and the waiting jobs as they are, and its own contact settled,    *)
(* noted as dropped, or with somebody to act for it.                       *)
LEMMA SlotLimbo ==
  ASSUME TypeOK, LimboOnlyWhenDropped, NEW w \in Workers, pc[w] # "idle",
         \A v \in Workers : v # w => pc'[v] = pc[v] /\ job'[v] = job[v],
         \A v \in Workers : pc[v] # "idle" => jobContact'[job[v]] = jobContact[job[v]],
         \A j \in Jobs : Waits(j) => jobState'[j] = jobState[j] /\ jobContact'[j] = jobContact[j],
         \A c \in Contacts : c # ContactOf(w) => status'[c] = status[c] /\ dropped'[c] = dropped[c],
         \/ status'[ContactOf(w)] \notin Limbo
         \/ dropped'[ContactOf(w)]
         \/ WillAct(ContactOf(w), Workers \ {w})
         \/ pc'[w] \notin Passive /\ job'[w] = job[w]
         \/ \E j \in Jobs : Waits(j)' /\ jobContact'[j] = ContactOf(w)
         \/ /\ pc[w] \in Passive /\ status'[ContactOf(w)] = status[ContactOf(w)]
            /\ dropped'[ContactOf(w)] = dropped[ContactOf(w)]
  PROVE  LimboOnlyWhenDropped'
<1>. USE DEF TypeOK, QueueOK, SlotsOK
<1>1. PICK d \in Contacts : d = ContactOf(w)
  BY DEF ContactOf
<1>2. \A c \in Contacts : WillAct(c, Workers \ {w}) => WillAct(c, Workers)'
  BY DEF WillAct, InFlight, ContactOf, Waits
<1>3. \A c \in Contacts : c # d /\ WillAct(c, Workers) => WillAct(c, Workers \ {w})
  BY <1>1 DEF WillAct
<1>4. pc[w] \in Passive /\ WillAct(d, Workers) => WillAct(d, Workers \ {w})
  BY DEF WillAct, Passive
<1>5. pc'[w] \notin Passive /\ job'[w] = job[w] => WillAct(d, Workers)'
  BY <1>1 DEF WillAct, Passive, ContactOf
<1>6. (\E j \in Jobs : Waits(j)' /\ jobContact'[j] = d) => WillAct(d, Workers)'
  BY DEF WillAct, InFlight, Waits
<1>7. ASSUME NEW c \in Contacts, c # d, status'[c] \in Limbo
      PROVE  WillAct(c, Workers)' \/ dropped'[c]
  BY <1>1, <1>2, <1>3, <1>7 DEF LimboOnlyWhenDropped, Backed, Limbo
<1>8. ASSUME status'[d] \in Limbo
      PROVE  WillAct(d, Workers)' \/ dropped'[d]
  BY <1>1, <1>2, <1>4, <1>5, <1>6, <1>8 DEF LimboOnlyWhenDropped, Backed, Limbo
<1>. QED
  BY <1>7, <1>8 DEF LimboOnlyWhenDropped, Backed, Limbo

(* The last write of a run leaves its contact settled, dropped or backed   *)
(* by another, and touches no other contact.                               *)
LEMMA RecordLimbo ==
  ASSUME TypeOK, NEW w \in Workers, pc[w] # "idle",
         NEW s \in Statuses \ Limbo, RecordStatus(w, s)
  PROVE  /\ \A c \in Contacts : c # ContactOf(w) =>
              status'[c] = status[c] /\ dropped'[c] = dropped[c]
         /\ \/ status'[ContactOf(w)] \notin Limbo
            \/ dropped'[ContactOf(w)]
            \/ WillAct(ContactOf(w), Workers \ {w})
<1>. USE DEF TypeOK, RowsOK, QueueOK, SlotsOK, HistoryOK, ContactOf
<1>1. CASE SetStatus(ContactOf(w), s) /\ UNCHANGED dropped
  BY <1>1 DEF SetStatus
<1>2. CASE UNCHANGED status /\ Discarded(w)
  BY <1>2 DEF Discarded
<1>. QED
  BY <1>1, <1>2 DEF RecordStatus

(* A discarded run does, too.                                              *)
LEMMA DiscardLimbo ==
  ASSUME TypeOK, NEW w \in Workers, pc[w] # "idle", UNCHANGED status, Discarded(w)
  PROVE  /\ \A c \in Contacts : c # ContactOf(w) =>
              status'[c] = status[c] /\ dropped'[c] = dropped[c]
         /\ dropped'[ContactOf(w)] \/ WillAct(ContactOf(w), Workers \ {w})
BY DEF TypeOK, RowsOK, QueueOK, SlotsOK, HistoryOK, ContactOf, Discarded

(* Closing the slot's own job frees no job that waits.                     *)
LEMMA CloseLimbo ==
  ASSUME TypeOK, CallInv, NEW w \in Workers, pc[w] # "idle", CloseJob(w)
  PROVE  /\ UNCHANGED jobContact
         /\ \A j \in Jobs : Waits(j) => jobState'[j] = jobState[j]
BY ConstantsAssumption DEF CloseJob, Owns, Waits, CallInv, QueueInv, TypeOK, QueueOK, SlotsOK

(* A new job takes no id that a waiting job or a slot has.                 *)
LEMMA AddLimbo ==
  ASSUME TypeOK, NEW c \in Contacts, NEW state \in {"delayed", "waiting"}, AddJob(c, state)
  PROVE  /\ \A v \in Workers : pc[v] # "idle" => jobContact'[job[v]] = jobContact[job[v]]
         /\ \A j \in Jobs : Waits(j) => jobState'[j] = jobState[j] /\ jobContact'[j] = jobContact[j]
         /\ \E j \in Jobs : Waits(j)' /\ jobContact'[j] = c
<1>1. NewJob \in Jobs /\ jobState[NewJob] = "free" /\ \A v \in Workers : job[v] # NewJob
  BY NewJobUnused
<1>2. /\ jobState' = [jobState EXCEPT ![NewJob] = state]
      /\ jobContact' = [jobContact EXCEPT ![NewJob] = c]
  BY DEF AddJob
<1>. HIDE DEF NewJob
<1>. QED
  BY <1>1, <1>2 DEF Waits, TypeOK, QueueOK, SlotsOK

(* A run that has added a job for its contact leaves it backed.            *)
LEMMA AddedLimbo ==
  ASSUME TypeOK, LimboOnlyWhenDropped, NEW w \in Workers, pc[w] # "idle",
         NEW state \in {"delayed", "waiting"}, AddJob(ContactOf(w), state),
         NEW label, Goto(w, label), UNCHANGED <<job, status, dropped>>
  PROVE  LimboOnlyWhenDropped'
<1>1. PICK c \in Contacts : c = ContactOf(w)
  BY DEF ContactOf, TypeOK, SlotsOK, QueueOK
<1>2. AddJob(c, state)
  BY <1>1
<1>3. /\ \A v \in Workers : pc[v] # "idle" => jobContact'[job[v]] = jobContact[job[v]]
      /\ \A j \in Jobs : Waits(j) => jobState'[j] = jobState[j] /\ jobContact'[j] = jobContact[j]
      /\ \E j \in Jobs : Waits(j)' /\ jobContact'[j] = c
  BY <1>2, AddLimbo
<1>4. \A v \in Workers : v # w => pc'[v] = pc[v] /\ job'[v] = job[v]
  BY DEF Goto, TypeOK, SlotsOK
<1>. QED
  BY <1>1, <1>3, <1>4, SlotLimbo

(* A run that fails: its slot owes a dead letter, or the run is discarded.  *)
LEMMA FailLimbo ==
  ASSUME TypeOK, CallInv, LimboOnlyWhenDropped, NEW w \in Workers, pc[w] # "idle",
         FailJob(w), UNCHANGED status
  PROVE  LimboOnlyWhenDropped'
<1>. USE DEF TypeOK, RowsOK, QueueOK, SlotsOK, HistoryOK, Goto
<1>1. CASE Goto(w, "dead") /\ CloseJob(w)
             /\ UNCHANGED <<job, newCount, sameDay, overran, dropped>>
  BY <1>1, CloseLimbo, SlotLimbo DEF Passive
<1>2. CASE Finish(w) /\ Discarded(w)
  BY <1>2, CloseLimbo, DiscardLimbo, SlotLimbo DEF Finish, LeaveSlot
<1>. QED
  BY <1>1, <1>2 DEF FailJob

(* A step of processCallJob leaves no contact in limbo.                    *)
LEMMA RunLimbo ==
  ASSUME TypeOK, CallInv, LimboOnlyWhenDropped, NEW w \in Workers, Run(w)
  PROVE  LimboOnlyWhenDropped'
<1>. USE DEF TypeOK, RowsOK, QueueOK, SlotsOK, HistoryOK, Goto,
         rowVars, jobVars, runVars, histVars
<1>1. CASE LoadFails(w)
  BY <1>1, CloseLimbo, DiscardLimbo, SlotLimbo DEF LoadFails, Finish, LeaveSlot
<1>2. CASE AgentNotReady(w)
  BY <1>2, CloseLimbo, RecordLimbo, SlotLimbo DEF AgentNotReady, Finish, LeaveSlot, Statuses,
     Limbo
<1>3. CASE DncBlocked(w)
  BY <1>3, CloseLimbo, RecordLimbo, SlotLimbo DEF DncBlocked, Finish, LeaveSlot, Statuses,
     Limbo
<1>4. CASE NoWindow(w)
  BY <1>4, CloseLimbo, RecordLimbo, SlotLimbo DEF NoWindow, Finish, LeaveSlot, Statuses,
     Limbo
<1>5. CASE ScheduleBlocked(w)
  BY <1>5, SlotLimbo DEF ScheduleBlocked, Passive
<1>6. CASE Reschedule(w)
  BY <1>6, SlotLimbo DEF Reschedule, Passive, WriteStatus, SetStatus, ContactOf, Limbo
<1>7. CASE RescheduleCapped(w)
  <2>1. CloseJob(w) /\ \A v \in Workers : v # w => pc'[v] = pc[v] /\ job'[v] = job[v]
    BY <1>7 DEF RescheduleCapped, Finish, LeaveSlot
  <2>2. /\ UNCHANGED jobContact
        /\ \A j \in Jobs : Waits(j) => jobState'[j] = jobState[j]
    BY <1>7, <2>1, CloseLimbo DEF RescheduleCapped
  <2>3. pc[w] # "idle" /\ ContactOf(w) \in Contacts
    BY <1>7 DEF RescheduleCapped, ContactOf
  <2>4. /\ \A c \in Contacts : c # ContactOf(w) =>
             status'[c] = status[c] /\ dropped'[c] = dropped[c]
        /\ \/ status'[ContactOf(w)] \notin Limbo
           \/ dropped'[ContactOf(w)]
           \/ WillAct(ContactOf(w), Workers \ {w})
    <3>1. CASE SetStatus(ContactOf(w), "needs_attention") /\ UNCHANGED dropped
      BY <2>3, <3>1 DEF SetStatus, Limbo
    <3>2. CASE UNCHANGED status /\ Discarded(w)
      BY <2>3, <3>2, DiscardLimbo
    <3>. QED
      BY <1>7, <3>1, <3>2 DEF RescheduleCapped
  <2>. QED
    BY <2>1, <2>2, <2>3, <2>4, SlotLimbo
<1>8. CASE RescheduleAdd(w)
  BY <1>8, AddedLimbo DEF RescheduleAdd
<1>9. CASE RescheduleAddFails(w)
  BY <1>9, CloseLimbo, RecordLimbo, SlotLimbo DEF RescheduleAddFails, Finish, LeaveSlot, Statuses,
     Limbo
<1>10. CASE Return(w)
  BY <1>10, CloseLimbo, SlotLimbo DEF Return, Finish, LeaveSlot, Passive
<1>11. CASE LimitReached(w)
  BY <1>11, CloseLimbo, DiscardLimbo, SlotLimbo DEF LimitReached, Finish, LeaveSlot
<1>12. CASE ChecksPass(w)
  BY <1>12, SlotLimbo DEF ChecksPass, Passive
<1>13. CASE TryLock(w)
  BY <1>13, SlotLimbo DEF TryLock, Passive
<1>14. CASE RecoverLock(w)
  BY <1>14, SlotLimbo DEF RecoverLock, Passive
<1>15. CASE SkipDuplicate(w)
  BY <1>15, CloseLimbo, DiscardLimbo, SlotLimbo DEF SkipDuplicate, Finish, LeaveSlot
<1>16. CASE Increment(w)
  BY <1>16, SlotLimbo DEF Increment, Passive
<1>17. CASE Dial(w)
  BY <1>17, SlotLimbo DEF Dial, Passive, WriteStatus, SetStatus, ContactOf, Limbo
<1>18. CASE CallCompleted(w)
  BY <1>18, RecordLimbo, SlotLimbo DEF CallCompleted, Statuses, Limbo
<1>19. CASE CallbackRequested(w)
  BY <1>19, SlotLimbo DEF CallbackRequested, Passive, WriteStatus, SetStatus, ContactOf, Limbo
<1>20. CASE CallRefused(w)
  BY <1>20, RecordLimbo, SlotLimbo DEF CallRefused, Statuses, Limbo
<1>21. CASE CallMismatched(w)
  BY <1>21, SlotLimbo DEF CallMismatched, Passive
<1>22. CASE CallFailed(w)
  BY <1>22, SlotLimbo DEF CallFailed, Passive
<1>23. CASE BumpCounter(w)
  BY <1>23, SlotLimbo DEF BumpCounter, Passive
<1>24. CASE CapReached(w)
  BY <1>24, RecordLimbo, SlotLimbo DEF CapReached, Statuses, Limbo
<1>25. CASE RetryLater(w)
  BY <1>25, AddedLimbo DEF RetryLater
<1>26. CASE RetryNow(w)
  BY <1>26, AddedLimbo DEF RetryNow
<1>27. CASE CallbackAdd(w)
  BY <1>27, AddedLimbo DEF CallbackAdd
<1>28. CASE CallbackAddFails(w)
  BY <1>28, RecordLimbo, SlotLimbo DEF CallbackAddFails, Statuses, Limbo
<1>29. CASE Release(w)
  BY <1>29, CloseLimbo, SlotLimbo DEF Release, Finish, LeaveSlot, Passive
<1>30. CASE ThrowUnlocked(w)
  BY <1>30, FailLimbo DEF ThrowUnlocked
<1>31. CASE Throw(w)
  BY <1>31, SlotLimbo DEF Throw, Passive
<1>32. CASE Unwind(w)
  BY <1>32, FailLimbo DEF Unwind
<1>33. CASE DeadLetter(w)
  BY <1>33, RecordLimbo, SlotLimbo DEF DeadLetter, LeaveSlot, Statuses, Limbo
<1>. QED
  BY <1>1, <1>2, <1>3, <1>4, <1>5, <1>6, <1>7, <1>8, <1>9, <1>10, <1>11,
     <1>12, <1>13, <1>14, <1>15, <1>16, <1>17, <1>18, <1>19, <1>20, <1>21,
     <1>22, <1>23, <1>24, <1>25, <1>26, <1>27, <1>28, <1>29, <1>30, <1>31, <1>32, <1>33 DEF Run

(* A step that concerns one contact and leaves it backed, settled or       *)
(* dropped.                                                                *)
LEMMA OneContactLimbo ==
  ASSUME LimboOnlyWhenDropped, NEW c \in Contacts,
         \A d \in Contacts : d # c =>
           /\ status'[d] = status[d] /\ dropped'[d] = dropped[d]
           /\ WillAct(d, Workers) => WillAct(d, Workers)',
         status'[c] \in Limbo => WillAct(c, Workers)' \/ dropped'[c]
  PROVE  LimboOnlyWhenDropped'
BY DEF LimboOnlyWhenDropped, Backed, Limbo

(* A route that adds a job for a contact.                                  *)
LEMMA RouteLimbo ==
  ASSUME TypeOK, LimboOnlyWhenDropped, NEW c \in Contacts, AddJob(c, "waiting"),
         UNCHANGED <<pc, job>>,
         \A d \in Contacts : d # c => status'[d] = status[d] /\ dropped'[d] = dropped[d]
  PROVE  LimboOnlyWhenDropped'
<1>1. /\ \A v \in Workers : pc[v] # "idle" => jobContact'[job[v]] = jobContact[job[v]]
      /\ \A j \in Jobs : Waits(j) => jobState'[j] = jobState[j] /\ jobContact'[j] = jobContact[j]
      /\ \E j \in Jobs : Waits(j)' /\ jobContact'[j] = c
  BY AddLimbo
<1>2. \A d \in Contacts : WillAct(d, Workers) => WillAct(d, Workers)'
  BY <1>1 DEF WillAct, InFlight, ContactOf, Waits
<1>3. WillAct(c, Workers)'
  BY <1>1 DEF WillAct, InFlight, Waits
<1>. QED
  BY <1>2, <1>3, OneContactLimbo

(* Nothing of what backs a contact is touched.                             *)
LEMMA BackedLimbo ==
  ASSUME LimboOnlyWhenDropped, UNCHANGED status,
         \A d \in Contacts : dropped[d] => dropped'[d],
         \A d \in Contacts : WillAct(d, Workers) => WillAct(d, Workers)' \/ dropped'[d]
  PROVE  LimboOnlyWhenDropped'
BY DEF LimboOnlyWhenDropped, Backed

(* Nor does a step of the dashboard, a timer, BullMQ or a crash.           *)
LEMMA EnvLimbo ==
  ASSUME TypeOK, CallInv, LimboOnlyWhenDropped,
         \/ \E c \in Contacts : Dashboard(c) \/ LockExpires(c)
         \/ \E w \in Workers, j \in Jobs : Dequeue(w, j)
         \/ \E j \in Jobs : DelayElapses(j) \/ StalledRequeue(j) \/ FalseStall(j)
         \/ Crash \/ NewDay \/ MonthlyReset
  PROVE  LimboOnlyWhenDropped'
<1>. USE DEF TypeOK, RowsOK, QueueOK, SlotsOK, HistoryOK, Goto,
         rowVars, jobVars, runVars, histVars
<1>1. CASE \E c \in Contacts : QuickCall(c)
  BY <1>1, RouteLimbo DEF QuickCall, SetStatus
<1>2. CASE \E c \in Contacts : RetryContact(c)
  <2>. PICK c \in Contacts : RetryContact(c)
    BY <1>2
  <2>1. CASE AddJob(c, "waiting") /\ dropped' = [dropped EXCEPT ![c] = FALSE]
    BY <2>1, RouteLimbo DEF RetryContact, SetStatus
  <2>2. CASE dropped' = [dropped EXCEPT ![c] = TRUE] /\ UNCHANGED jobVars
    <3>1. \A d \in Contacts : WillAct(d, Workers) => WillAct(d, Workers)'
      BY <2>2 DEF RetryContact, WillAct, InFlight, ContactOf
    <3>. QED
      BY <2>2, <3>1, OneContactLimbo DEF RetryContact, SetStatus
  <2>. QED
    BY <2>1, <2>2 DEF RetryContact
<1>3. CASE \E c \in Contacts : ResumeContact(c)
  BY <1>3, RouteLimbo DEF ResumeContact
<1>4. CASE \E c \in Contacts : LockExpires(c)
  BY <1>4, BackedLimbo DEF LockExpires, WillAct, InFlight, ContactOf
<1>5. CASE \E w \in Workers, j \in Jobs : Dequeue(w, j)
  <2>. PICK w \in Workers, j \in Jobs : Dequeue(w, j)
    BY <1>5
  <2>1. PICK c \in Contacts : c = jobContact[j]
    OBVIOUS
  <2>2. WillAct(c, Workers)'
    BY <2>1 DEF Dequeue, WillAct, ContactOf
  <2>3. \A d \in Contacts : d # c /\ WillAct(d, Workers) => WillAct(d, Workers)'
    BY <2>1 DEF Dequeue, WillAct, InFlight, ContactOf
  <2>. QED
    BY <2>1, <2>2, <2>3, OneContactLimbo DEF Dequeue
<1>6. CASE \E j \in Jobs : DelayElapses(j)
  <2>. PICK j \in Jobs : DelayElapses(j)
    BY <1>6
  <2>1. \A d \in Contacts : WillAct(d, Workers) => WillAct(d, Workers)'
    BY DEF DelayElapses, WillAct, InFlight, ContactOf
  <2>. QED
    BY <2>1, BackedLimbo DEF DelayElapses
<1>7. CASE \E j \in Jobs : StalledRequeue(j)
  <2>. PICK j \in Jobs : StalledRequeue(j)
    BY <1>7
  <2>1. CASE ~stalledOnce[j]
    <3>1. \A d \in Contacts : WillAct(d, Workers) => WillAct(d, Workers)'
      BY <2>1 DEF StalledRequeue, WillAct, InFlight, ContactOf
    <3>. QED
      BY <2>1, <3>1, BackedLimbo DEF StalledRequeue
  <2>2. CASE stalledOnce[j]
    <3>1. PICK c \in Contacts : c = jobContact[j]
      OBVIOUS
    <3>2. \A d \in Contacts : d # c /\ WillAct(d, Workers) => WillAct(d, Workers)'
      BY <2>2, <3>1 DEF StalledRequeue, WillAct, InFlight, ContactOf
    <3>3. CASE SetStatus(c, "failed") /\ UNCHANGED dropped
      BY <3>2, <3>3, OneContactLimbo DEF SetStatus, Limbo
    <3>4. CASE UNCHANGED status /\ dropped' = [dropped EXCEPT ![c] = TRUE]
      BY <3>2, <3>4, OneContactLimbo
    <3>. QED
      BY <2>2, <3>1, <3>3, <3>4 DEF StalledRequeue
  <2>. QED
    BY <2>1, <2>2
<1>8. CASE \E j \in Jobs : FalseStall(j)
  <2>. PICK j \in Jobs : FalseStall(j)
    BY <1>8
  <2>1. \A d \in Contacts : WillAct(d, Workers) => WillAct(d, Workers)'
    BY DEF FalseStall, WillAct, InFlight, ContactOf
  <2>. QED
    BY <2>1, BackedLimbo DEF FalseStall
<1>9. CASE Crash
  <2>1. \A j \in Jobs : Waits(j) => Waits(j)' /\ jobContact'[j] = jobContact[j]
    BY <1>9 DEF Crash, Waits
  <2>2. ASSUME NEW d \in Contacts, WillAct(d, Workers) PROVE WillAct(d, Workers)' \/ dropped'[d]
    <3>1. CASE \E j \in InFlight(d) : jobState[j] # "active"
      BY <2>1, <3>1 DEF WillAct, InFlight, Waits
    <3>2. CASE \E w \in Workers : pc[w] # "idle" /\ ContactOf(w) = d
      <4>. PICK w \in Workers : pc[w] # "idle" /\ ContactOf(w) = d
        BY <3>2
      <4>1. CASE Owns(w)
        <5>1. job[w] \in Jobs /\ jobState[job[w]] = "active"
          BY <4>1, ConstantsAssumption DEF Owns, CallInv, QueueInv
        <5>2. jobState'[job[w]] = "stalled" /\ jobContact'[job[w]] = d
          BY <1>9, <5>1 DEF Crash, ContactOf
        <5>. QED
          BY <5>1, <5>2 DEF WillAct, InFlight
      <4>2. CASE ~Owns(w)
        BY <1>9, <4>2 DEF Crash
      <4>. QED
        BY <4>1, <4>2
    <3>. QED
      BY <2>2, <3>1, <3>2 DEF WillAct
  <2>3. \A d \in Contacts : dropped[d] => dropped'[d]
    BY <1>9 DEF Crash
  <2>. QED
    BY <1>9, <2>2, <2>3, BackedLimbo DEF Crash
<1>10. CASE NewDay
  BY <1>10, BackedLimbo DEF NewDay, WillAct, InFlight, ContactOf
<1>11. CASE MonthlyReset
  BY <1>11, BackedLimbo DEF MonthlyReset, WillAct, InFlight, ContactOf
<1>. QED
  BY <1>1, <1>2, <1>3, <1>4, <1>5, <1>6, <1>7, <1>8, <1>9, <1>10, <1>11 DEF Dashboard

(* For any number of contacts, jobs and slots, whatever crashes, stalls or *)
(* fails: a contact shown as queued or calling has a job, a run or a dead  *)
(* letter behind it, or its last run left no trace.                        *)
THEOREM NobodyForgotten == Spec => []LimboOnlyWhenDropped
<1>1. Init => TypeOK /\ CallInv /\ LimboOnlyWhenDropped
  BY InitTypeOK, InitCallInv DEF Init, LimboOnlyWhenDropped
<1>2. ASSUME TypeOK, CallInv, LimboOnlyWhenDropped, [Next]_vars
      PROVE  TypeOK' /\ CallInv' /\ LimboOnlyWhenDropped'
  <2>1. CASE \E w \in Workers : Run(w)
    BY <1>2, <2>1, TypeStep, CallInvStep, RunLimbo
  <2>2. CASE UNCHANGED vars
    BY <1>2, <2>2, TypeStep, CallInvStep, BackedLimbo
       DEF vars, rowVars, jobVars, runVars, histVars, WillAct, InFlight, ContactOf
  <2>. QED
    BY <1>2, <2>1, <2>2, TypeStep, CallInvStep, EnvLimbo DEF Next
<1>. QED
  BY <1>1, <1>2, PTL DEF Spec

----------------------------------------------------------------------------
(* The daily cap                                                           *)

(* A slot whose run may still add a job.                                   *)
MayEnqueue(w) == pc[w] \notin {"idle", "dead", "return", "release", "throw"}

(* Whatever may call the contact next is one: a run that may still add a   *)
(* job, or a job that waits.  And every run of the contact has its job.    *)
Alone(c) ==
  /\ \A w \in Workers : InRun(w) /\ ContactOf(w) = c => Owns(w)
  /\ \A v, w \in Workers :
       MayEnqueue(v) /\ MayEnqueue(w) /\ ContactOf(v) = c /\ ContactOf(w) = c => v = w
  /\ \A i, j \in Jobs : Waits(i) /\ Waits(j) /\ jobContact[i] = c /\ jobContact[j] = c => i = j
  /\ \A w \in Workers, j \in Jobs :
       ~(MayEnqueue(w) /\ ContactOf(w) = c /\ Waits(j) /\ jobContact[j] = c)

(* The counter of the row covers the retries, and the one that a run is    *)
(* about to add, unless midnight came in between.                          *)
Counted(c) ==
  /\ retriesToday[c] <= MaxDailyRetries /\ retriesToday[c] <= retryCount[c]
  /\ \A w \in Workers : pc[w] \in {"resched", "bump"} /\ ContactOf(w) = c =>
       IF sameDay[w] THEN newCount[w] = Saturated(retryCount[c] + 1) ELSE retriesToday[c] = 0
  /\ \A w \in Workers : pc[w] \in {"reschedAdd", "retryLater"} /\ ContactOf(w) = c =>
       IF sameDay[w] THEN retriesToday[c] < retryCount[c] /\ retryCount[c] <= MaxDailyRetries
       ELSE retriesToday[c] = 0

(* BullMQ never holds more than finitely many jobs.                        *)
FiniteInv == IsFiniteSet({j \in Jobs : jobState[j] # "free"})

DailyInv == \A c \in Contacts : ~disturbed[c] => Alone(c) /\ Counted(c)

(* A step of slot w: the other slots and their jobs stay, and no job of    *)
(* the contact comes to wait but the one that w adds as its last act.      *)
SlotStep(w) ==
  /\ \A v \in Workers : v # w =>
       UNCHANGED <<pc[v], job[v], newCount[v], sameDay[v]>>
  /\ \A v \in Workers : pc[v] # "idle" => jobContact'[job[v]] = jobContact[job[v]]
  /\ \A j \in Jobs : j # job[w] \/ ~Owns(w) => runner'[j] = runner[j]
  /\ InRun(w)' => InRun(w) /\ job'[w] = job[w] /\ runner'[job[w]] = runner[job[w]]
  /\ MayEnqueue(w)' => MayEnqueue(w)

NoNewJob == \A j \in Jobs : Waits(j)' => Waits(j) /\ jobContact'[j] = jobContact[j]

NewJobOf(w) ==
  /\ MayEnqueue(w) /\ ~MayEnqueue(w)'
  /\ \E n \in Jobs : /\ jobContact'[n] = ContactOf(w)
                     /\ \A j \in Jobs : j # n /\ Waits(j)' =>
                          Waits(j) /\ jobContact'[j] = jobContact[j]

LEMMA SlotAlone ==
  ASSUME TypeOK, NEW c \in Contacts, Alone(c), NEW w \in Workers, pc[w] # "idle", SlotStep(w),
         NoNewJob \/ NewJobOf(w)
  PROVE  Alone(c)'
<1> USE DEF SlotStep, ContactOf
<1>1. ASSUME NEW v \in Workers, MayEnqueue(v)', ContactOf(v)' = c
      PROVE  MayEnqueue(v) /\ ContactOf(v) = c
  BY <1>1 DEF MayEnqueue, InRun
<1>2. ASSUME NEW v \in Workers, InRun(v)', ContactOf(v)' = c
      PROVE  Owns(v)'
  <2>1. InRun(v) /\ job'[v] = job[v] /\ job[v] \in Jobs /\ ContactOf(v) = c
    BY <1>2 DEF InRun, TypeOK, SlotsOK
  <2>2. Owns(v)
    BY <2>1 DEF Alone
  <2>3. CASE job[v] # job[w]
    BY <2>1, <2>2, <2>3 DEF Owns
  <2>4. CASE v = w
    BY <1>2, <2>1, <2>2, <2>4 DEF Owns
  <2>5. CASE v # w /\ job[v] = job[w]
    <3>1. runner'[job[v]] = runner[job[v]]
      BY <2>1, <2>2, <2>5 DEF Owns
    <3> QED
      BY <2>1, <2>2, <2>5, <3>1 DEF Owns
  <2> QED
    BY <2>3, <2>4, <2>5
<1>3. CASE NoNewJob
  BY <1>1, <1>2, <1>3 DEF Alone, NoNewJob
<1>4. CASE NewJobOf(w)
  <2>1. PICK n \in Jobs : /\ jobContact'[n] = ContactOf(w)
                          /\ \A j \in Jobs : j # n /\ Waits(j)' =>
                               Waits(j) /\ jobContact'[j] = jobContact[j]
    BY <1>4 DEF NewJobOf
  <2>2. CASE ContactOf(w) = c
    <3>1. \A v \in Workers : ~(MayEnqueue(v)' /\ ContactOf(v)' = c)
      BY <1>1, <1>4, <2>2 DEF NewJobOf, Alone
    <3>2. \A j \in Jobs : ~(Waits(j) /\ jobContact[j] = c)
      BY <1>4, <2>2 DEF NewJobOf, Alone
    <3> QED
      BY <1>2, <2>1, <3>1, <3>2 DEF Alone
  <2>3. CASE ContactOf(w) # c
    BY <1>1, <1>2, <2>1, <2>3 DEF Alone
  <2> QED
    BY <2>2, <2>3
<1> QED
  BY <1>3, <1>4

(* The counter of a contact is kept by a step of another contact's run, by *)
(* one that leaves it alone, and by one that is alone with the contact.    *)
LEMMA SlotCounted ==
  ASSUME TypeOK, NEW c \in Contacts, Alone(c), Counted(c),
         NEW w \in Workers, pc[w] # "idle", SlotStep(w),
         \/ UNCHANGED <<retryCount[c], retriesToday[c]>>
         \/ MayEnqueue(w) /\ ContactOf(w) = c,
         retriesToday'[c] <= MaxDailyRetries /\ retriesToday'[c] <= retryCount'[c],
         /\ pc'[w] \in {"resched", "bump"} /\ ContactOf(w)' = c =>
              IF sameDay'[w] THEN newCount'[w] = Saturated(retryCount'[c] + 1)
              ELSE retriesToday'[c] = 0
         /\ pc'[w] \in {"reschedAdd", "retryLater"} /\ ContactOf(w)' = c =>
              IF sameDay'[w]
                THEN retriesToday'[c] < retryCount'[c] /\ retryCount'[c] <= MaxDailyRetries
                ELSE retriesToday'[c] = 0
  PROVE  Counted(c)'
<1>1. ASSUME NEW v \in Workers, v # w, ContactOf(v)' = c,
             pc'[v] \in {"resched", "bump", "reschedAdd", "retryLater"}
      PROVE  /\ UNCHANGED <<retryCount[c], retriesToday[c], newCount[v], sameDay[v], pc[v]>>
             /\ ContactOf(v) = c
  <2>1. /\ UNCHANGED <<newCount[v], sameDay[v], pc[v], job[v]>>
        /\ ContactOf(v) = c
    BY <1>1 DEF SlotStep, ContactOf
  <2>2. MayEnqueue(v)
    BY <1>1, <2>1 DEF MayEnqueue
  <2> QED
    BY <1>1, <2>1, <2>2 DEF Alone
<1>2. ASSUME NEW v \in Workers, pc'[v] \in {"resched", "bump"}, ContactOf(v)' = c
      PROVE  IF sameDay'[v] THEN newCount'[v] = Saturated(retryCount'[c] + 1)
             ELSE retriesToday'[c] = 0
  BY <1>1, <1>2 DEF Counted, Saturated
<1>3. ASSUME NEW v \in Workers, pc'[v] \in {"reschedAdd", "retryLater"}, ContactOf(v)' = c
      PROVE  IF sameDay'[v]
                THEN retriesToday'[c] < retryCount'[c] /\ retryCount'[c] <= MaxDailyRetries
                ELSE retriesToday'[c] = 0
  BY <1>1, <1>3 DEF Counted
<1> QED
  BY <1>2, <1>3 DEF Counted, Saturated

(* The processor returned or threw.                                        *)
LEMMA FinishSlot ==
  ASSUME TypeOK, NEW w \in Workers, pc[w] # "idle", Finish(w) \/ FailJob(w)
  PROVE  SlotStep(w) /\ NoNewJob
<1> USE DEF TypeOK, QueueOK, SlotsOK, Finish, FailJob, LeaveSlot, Goto
<1>1. CloseJob(w)
  OBVIOUS
<1>2. NoNewJob
  BY <1>1 DEF CloseJob, NoNewJob, Waits
<1>3. /\ UNCHANGED jobContact
      /\ \A j \in Jobs : j # job[w] \/ ~Owns(w) => runner'[j] = runner[j]
  BY <1>1 DEF CloseJob
<1>4. /\ \A v \in Workers : v # w => UNCHANGED <<pc[v], job[v], newCount[v], sameDay[v]>>
      /\ pc'[w] \in {"idle", "dead"}
  BY DEF Finish, FailJob
<1> QED
  BY <1>2, <1>3, <1>4 DEF SlotStep, InRun, MayEnqueue

(* A step from one label to another.                                       *)
LEMMA GotoSlot ==
  ASSUME TypeOK, NEW w \in Workers, NEW label, Goto(w, label), UNCHANGED <<jobVars, job>>,
         \A v \in Workers : v # w => UNCHANGED <<newCount[v], sameDay[v]>>,
         InRun(w), label \in {"release", "throw"} \/ MayEnqueue(w)
  PROVE  SlotStep(w) /\ NoNewJob
BY DEF TypeOK, SlotsOK, QueueOK, Goto, jobVars, SlotStep, NoNewJob, Waits, InRun, MayEnqueue

(* The last act of a run that adds a job.                                  *)
LEMMA AddSlot ==
  ASSUME TypeOK, NEW w \in Workers, MayEnqueue(w),
         NEW label \in {"return", "release"}, Goto(w, label),
         NEW state \in {"delayed", "waiting"}, AddJob(ContactOf(w), state),
         UNCHANGED <<job, newCount, sameDay>>
  PROVE  SlotStep(w) /\ NewJobOf(w)
<1>1. PICK n \in Jobs : n = NewJob /\ \A v \in Workers : job[v] # n
  BY NewJobUnused
<1>2. /\ jobState' = [jobState EXCEPT ![n] = state]
      /\ jobContact' = [jobContact EXCEPT ![n] = ContactOf(w)]
      /\ runner' = runner
  BY <1>1 DEF AddJob
<1>3. NewJobOf(w)
  BY <1>2 DEF NewJobOf, MayEnqueue, Goto, Waits, TypeOK, SlotsOK, QueueOK
<1>4. SlotStep(w)
  BY <1>1, <1>2 DEF SlotStep, MayEnqueue, InRun, Goto, TypeOK, SlotsOK, QueueOK
<1> QED
  BY <1>3, <1>4

LEMMA RunSlot ==
  ASSUME TypeOK, NEW w \in Workers, Run(w)
  PROVE  pc[w] # "idle" /\ SlotStep(w) /\ (NoNewJob \/ NewJobOf(w))
<1> USE DEF InRun, MayEnqueue, rowVars, jobVars, runVars, histVars
<1>1. CASE LoadFails(w) \/ AgentNotReady(w) \/ DncBlocked(w) \/ NoWindow(w)
  BY <1>1, FinishSlot DEF LoadFails, AgentNotReady, DncBlocked, NoWindow
<1>2. CASE RescheduleCapped(w) \/ RescheduleAddFails(w) \/ Return(w) \/ LimitReached(w)
  BY <1>2, FinishSlot DEF RescheduleCapped, RescheduleAddFails, Return, LimitReached
<1>3. CASE SkipDuplicate(w) \/ Release(w) \/ ThrowUnlocked(w) \/ Unwind(w)
  BY <1>3, FinishSlot DEF SkipDuplicate, Release, ThrowUnlocked, Unwind
<1>4. CASE ScheduleBlocked(w) \/ CallFailed(w)
  <2>1. \A v \in Workers : v # w => UNCHANGED <<newCount[v], sameDay[v]>>
    BY <1>4 DEF ScheduleBlocked, CallFailed, ReadCounter, TypeOK, SlotsOK
  <2> QED
    BY <1>4, <2>1, GotoSlot DEF ScheduleBlocked, CallFailed
<1>5. CASE Reschedule(w)
  <2>1. \A v \in Workers : v # w => UNCHANGED <<newCount[v], sameDay[v]>>
    BY <1>5 DEF Reschedule, TypeOK, SlotsOK
  <2> QED
    BY <1>5, <2>1, GotoSlot DEF Reschedule
<1>6. CASE BumpCounter(w)
  <2>1. \A v \in Workers : v # w => UNCHANGED <<newCount[v], sameDay[v]>>
    BY <1>6 DEF BumpCounter, TypeOK, SlotsOK
  <2> QED
    BY <1>6, <2>1, GotoSlot DEF BumpCounter
<1>7. CASE RescheduleAdd(w) \/ RetryLater(w) \/ RetryNow(w) \/ CallbackAdd(w)
  BY <1>7, AddSlot DEF RescheduleAdd, RetryLater, RetryNow, CallbackAdd
<1>8. CASE ChecksPass(w) \/ RecoverLock(w) \/ Increment(w) \/ Dial(w) \/ Throw(w)
  BY <1>8, GotoSlot DEF ChecksPass, RecoverLock, Increment, Dial, Throw
<1>9. CASE TryLock(w)
  BY <1>9, GotoSlot DEF TryLock
<1>10. CASE CallCompleted(w) \/ CallbackRequested(w) \/ CallRefused(w) \/ CallMismatched(w)
  BY <1>10, GotoSlot DEF CallCompleted, CallbackRequested, CallRefused, CallMismatched
<1>11. CASE CapReached(w) \/ CallbackAddFails(w)
  BY <1>11, GotoSlot DEF CapReached, CallbackAddFails
<1>12. CASE DeadLetter(w)
  BY <1>12 DEF DeadLetter, LeaveSlot, Goto, SlotStep, NoNewJob, Waits, TypeOK, SlotsOK
<1> QED
  BY <1>1, <1>2, <1>3, <1>4, <1>5, <1>6, <1>7, <1>8, <1>9, <1>10, <1>11, <1>12 DEF Run

(* What the steps of a run do to the counters, by kind.                    *)
Reads(w)  == ScheduleBlocked(w) \/ CallFailed(w)
Writes(w) == Reschedule(w) \/ RescheduleCapped(w) \/ BumpCounter(w)
Retries(w) == RescheduleAdd(w) \/ RetryLater(w)

LEMMA OtherCounts ==
  ASSUME TypeOK, NEW w \in Workers, Run(w), ~(Reads(w) \/ Writes(w) \/ Retries(w))
  PROVE  /\ UNCHANGED <<retryCount, retriesToday, disturbed>>
         /\ pc'[w] \notin {"resched", "bump", "reschedAdd", "retryLater"}
<1> USE DEF TypeOK, SlotsOK, Goto, rowVars, histVars
<1>1. CASE LoadFails(w) \/ AgentNotReady(w) \/ DncBlocked(w) \/ NoWindow(w) \/ LimitReached(w)
  BY <1>1 DEF LoadFails, AgentNotReady, DncBlocked, NoWindow, LimitReached, Finish, LeaveSlot
<1>2. CASE RescheduleAddFails(w) \/ Return(w) \/ SkipDuplicate(w) \/ Release(w) \/ DeadLetter(w)
  BY <1>2 DEF RescheduleAddFails, Return, SkipDuplicate, Release, DeadLetter, Finish, LeaveSlot
<1>3. CASE ThrowUnlocked(w) \/ Unwind(w) \/ Throw(w)
  BY <1>3 DEF ThrowUnlocked, Unwind, Throw, FailJob, Finish, LeaveSlot
<1>4. CASE RetryNow(w) \/ CallbackAdd(w) \/ CallbackAddFails(w) \/ CapReached(w)
  BY <1>4 DEF RetryNow, CallbackAdd, CallbackAddFails, CapReached
<1>5. CASE ChecksPass(w) \/ TryLock(w) \/ RecoverLock(w) \/ Increment(w) \/ Dial(w)
  BY <1>5 DEF ChecksPass, TryLock, RecoverLock, Increment, Dial
<1>6. CASE CallCompleted(w) \/ CallbackRequested(w) \/ CallRefused(w) \/ CallMismatched(w)
  BY <1>6 DEF CallCompleted, CallbackRequested, CallRefused, CallMismatched
<1> QED
  BY <1>1, <1>2, <1>3, <1>4, <1>5, <1>6 DEF Run, Reads, Writes, Retries

LEMMA RunDaily ==
  ASSUME TypeOK, NEW w \in Workers, Run(w), NEW c \in Contacts, ~disturbed'[c],
         ~disturbed[c] => Alone(c) /\ Counted(c)
  PROVE  Alone(c)' /\ Counted(c)'
<1>1. pc[w] # "idle" /\ SlotStep(w) /\ (NoNewJob \/ NewJobOf(w))
  BY RunSlot
<1>2. PICK d \in Contacts : d = ContactOf(w)
  BY <1>1 DEF TypeOK, QueueOK, SlotsOK, ContactOf
<1>3. MaxDailyRetries \in Nat /\ retryCount[c] \in 0 .. MaxDailyRetries + 1
      /\ retriesToday[c] \in 0 .. MaxDailyRetries + 1
  BY ConstantsAssumption DEF TypeOK, RowsOK, HistoryOK
<1>4. CASE ~(Reads(w) \/ Writes(w) \/ Retries(w))
  <2>1. Alone(c) /\ Counted(c) /\ UNCHANGED <<retryCount[c], retriesToday[c]>>
    BY <1>4, OtherCounts
  <2> QED
    BY <1>1, <1>4, <2>1, OtherCounts, SlotAlone, SlotCounted DEF Counted
<1>5. CASE Reads(w)
  <2> USE <1>5 DEF Reads, ScheduleBlocked, CallFailed, ReadCounter, Goto, rowVars
  <2>1. Alone(c) /\ Counted(c) /\ UNCHANGED <<retryCount, retriesToday>>
    BY <1>2 DEF TypeOK, HistoryOK
  <2>2. pc'[w] \in {"resched", "bump"} /\ sameDay'[w] = TRUE
    BY DEF TypeOK, SlotsOK
  <2>3. ContactOf(w)' = c => newCount'[w] = Saturated(retryCount[c] + 1)
    <3>1. ContactOf(w)' = ContactOf(w)
      BY <1>1, <2>2 DEF SlotStep, InRun, ContactOf
    <3>2. c = d => ~(disturbed' = [disturbed EXCEPT ![d] = TRUE])
      BY DEF TypeOK, HistoryOK
    <3> QED
      BY <1>2, <3>1, <3>2 DEF TypeOK, SlotsOK
  <2> HIDE <1>5 DEF Reads, ScheduleBlocked, CallFailed, ReadCounter, Goto, rowVars
  <2> QED
    BY <1>1, <2>1, <2>2, <2>3, SlotAlone, SlotCounted DEF Counted, Saturated
<1>6. CASE Writes(w)
  <2>1. /\ pc[w] \in {"resched", "bump"} /\ UNCHANGED <<retriesToday>>
        /\ WriteCounter(w) \/ LoseCounter(w)
    BY <1>6 DEF Writes, Reschedule, RescheduleCapped, BumpCounter
  <2>2. Alone(c) /\ Counted(c)
    BY <1>2, <2>1 DEF WriteCounter, LoseCounter, TypeOK, HistoryOK
  <2>3. MayEnqueue(w)
    BY <2>1 DEF MayEnqueue
  <2>4. CASE c # d
    <3>1. UNCHANGED <<retryCount[c], retriesToday[c]>>
      BY <1>2, <2>1, <2>4 DEF WriteCounter, LoseCounter, TypeOK, RowsOK
    <3>2. InRun(w)' => ContactOf(w)' # c
      BY <1>1, <1>2, <2>4 DEF SlotStep, ContactOf, InRun
    <3> QED
      BY <1>1, <2>2, <3>1, <3>2, SlotAlone, SlotCounted DEF Counted, InRun
  <2>5. CASE c = d
    <3>1. retryCount'[c] = IF sameDay[w] THEN newCount[w] ELSE 0
      BY <1>2, <2>1, <2>5 DEF WriteCounter, LoseCounter, TypeOK, RowsOK, HistoryOK
    <3>2. IF sameDay[w] THEN newCount[w] = Saturated(retryCount[c] + 1) ELSE retriesToday[c] = 0
      BY <1>2, <2>1, <2>2, <2>5 DEF Counted
    <3>3. retriesToday'[c] <= MaxDailyRetries /\ retriesToday'[c] <= retryCount'[c]
      BY <1>3, <2>1, <2>2, <3>1, <3>2 DEF Counted, Saturated
    <3>4. pc'[w] \notin {"resched", "bump"}
      BY <1>6 DEF Writes, Reschedule, RescheduleCapped, BumpCounter, Finish, LeaveSlot, Goto,
        TypeOK, SlotsOK
    <3>5. pc'[w] \in {"reschedAdd", "retryLater"} =>
            newCount[w] <= MaxDailyRetries /\ sameDay'[w] = sameDay[w]
      BY <1>3, <1>6 DEF Writes, Reschedule, RescheduleCapped, BumpCounter, Finish, LeaveSlot, Goto,
        TypeOK, SlotsOK
    <3>6. pc'[w] \in {"reschedAdd", "retryLater"} =>
            IF sameDay'[w]
              THEN retriesToday'[c] < retryCount'[c] /\ retryCount'[c] <= MaxDailyRetries
              ELSE retriesToday'[c] = 0
      BY <1>3, <2>1, <2>2, <3>1, <3>2, <3>5 DEF Counted, Saturated
    <3> QED
      BY <1>1, <1>2, <2>2, <2>3, <2>5, <3>3, <3>4, <3>6, SlotAlone, SlotCounted
  <2> QED
    BY <2>4, <2>5
<1>7. CASE Retries(w)
  <2>1. /\ pc[w] \in {"reschedAdd", "retryLater"} /\ UNCHANGED <<retryCount, disturbed>>
        /\ CountRetry(w) /\ pc'[w] \in {"return", "release"}
    BY <1>7 DEF Retries, RescheduleAdd, RetryLater, Goto, rowVars, TypeOK, SlotsOK
  <2>2. Alone(c) /\ Counted(c)
    BY <2>1
  <2>3. MayEnqueue(w)
    BY <2>1 DEF MayEnqueue
  <2>4. CASE c # d
    <3>1. retriesToday'[c] = retriesToday[c]
      BY <1>2, <2>1, <2>4 DEF CountRetry, TypeOK, HistoryOK
    <3> QED
      BY <1>1, <2>1, <2>2, <3>1, SlotAlone, SlotCounted DEF Counted
  <2>5. CASE c = d
    <3>1. retriesToday'[c] = IF sameDay[w] THEN Saturated(retriesToday[c] + 1) ELSE retriesToday[c]
      BY <1>2, <2>1, <2>5 DEF CountRetry, TypeOK, HistoryOK
    <3>2. IF sameDay[w] THEN retriesToday[c] < retryCount[c] /\ retryCount[c] <= MaxDailyRetries
          ELSE retriesToday[c] = 0
      BY <1>2, <2>1, <2>2, <2>5 DEF Counted
    <3>3. retriesToday'[c] <= MaxDailyRetries /\ retriesToday'[c] <= retryCount'[c]
      BY <1>3, <2>1, <2>2, <3>1, <3>2 DEF Counted, Saturated
    <3> QED
      BY <1>1, <1>2, <2>1, <2>2, <2>3, <2>5, <3>3, SlotAlone, SlotCounted
  <2> QED
    BY <2>4, <2>5
<1> QED
  BY <1>4, <1>5, <1>6, <1>7

(* A step adds at most one job to the queue.                               *)
LEMMA FiniteStep ==
  ASSUME TypeOK, FiniteInv, [Next]_vars
  PROVE  FiniteInv'
<1> DEFINE Held == {j \in Jobs : jobState[j] # "free"}
<1>1. \E n : \A j \in Jobs : jobState'[j] # "free" => jobState[j] # "free" \/ j = n
  <2> USE DEF TypeOK, QueueOK, SlotsOK, rowVars, jobVars
  <2>1. CASE \E w \in Workers : Run(w)
    <3> PICK w \in Workers : Run(w)
      BY <2>1
    <3>1. NoNewJob \/ NewJobOf(w)
      BY RunSlot
    <3>2. \A j \in Jobs : jobState'[j] = "active" => jobState[j] # "free"
      <4>1. CASE \E c, state : AddJob(c, state) /\ state # "active"
        BY <4>1, NewJobUnused DEF AddJob
      <4>2. CASE CloseJob(w)
        BY <4>2 DEF CloseJob
      <4>3. CASE UNCHANGED jobState
        BY <4>3
      <4> QED
        BY <4>1, <4>2, <4>3 DEF Run, LoadFails, AgentNotReady, DncBlocked, NoWindow, ScheduleBlocked,
          Reschedule, RescheduleCapped, RescheduleAdd, RescheduleAddFails, Return, LimitReached,
          ChecksPass, TryLock, RecoverLock, SkipDuplicate, Increment, Dial, CallCompleted,
          CallbackRequested, CallRefused, CallMismatched, CallFailed, BumpCounter, CapReached,
          RetryLater, RetryNow, CallbackAdd, CallbackAddFails, Release, ThrowUnlocked, Throw, Unwind,
          DeadLetter, Finish, FailJob
    <3> QED
      BY <3>1, <3>2 DEF NoNewJob, NewJobOf, Waits
  <2>2. CASE \E c \in Contacts : Dashboard(c) \/ LockExpires(c)
    BY <2>2 DEF Dashboard, QuickCall, RetryContact, ResumeContact, LockExpires, AddJob
  <2>3. CASE \E w \in Workers, j \in Jobs : Dequeue(w, j)
    BY <2>3 DEF Dequeue
  <2>4. CASE \E j \in Jobs : DelayElapses(j) \/ StalledRequeue(j) \/ FalseStall(j)
    BY <2>4 DEF DelayElapses, StalledRequeue, FalseStall
  <2>5. CASE Crash \/ NewDay \/ MonthlyReset \/ UNCHANGED vars
    BY <2>5 DEF Crash, NewDay, MonthlyReset, vars
  <2> QED
    BY <2>1, <2>2, <2>3, <2>4, <2>5 DEF Next
<1>2. PICK n : Held' \subseteq Held \cup {n}
  BY <1>1
<1> QED
  BY <1>2, FS_AddElement, FS_Subset DEF FiniteInv

(* With at most one job in flight, and every run in charge of its job, the *)
(* contact has one call to come at most.                                   *)
LEMMA FewJobs ==
  ASSUME FiniteInv, NEW c \in Contacts, ~(Cardinality(InFlight(c)) > 1)
  PROVE  \A i, j \in InFlight(c) : i = j
<1>1. IsFiniteSet(InFlight(c))
  BY FS_Subset DEF FiniteInv, InFlight
<1>2. Cardinality(InFlight(c)) \in {0, 1}
  BY <1>1, FS_CardinalityType
<1> QED
  BY <1>1, <1>2, FS_EmptySet, FS_Singleton

LEMMA FewJobsAlone ==
  ASSUME TypeOK, QueueInv, FiniteInv, NEW c \in Contacts, ~(Cardinality(InFlight(c)) > 1),
         \A w \in Workers : InRun(w) /\ ContactOf(w) = c => Owns(w)
  PROVE  Alone(c)
<1>1. \A i, j \in InFlight(c) : i = j
  BY FewJobs
<1>2. \A w \in Workers : InRun(w) /\ ContactOf(w) = c =>
        job[w] \in InFlight(c) /\ jobState[job[w]] = "active" /\ Owns(w)
  BY ConstantsAssumption DEF InFlight, TypeOK, SlotsOK, QueueOK, QueueInv, InRun, ContactOf, Owns
<1>3. \A j \in Jobs : Waits(j) /\ jobContact[j] = c => j \in InFlight(c)
  BY DEF Waits, InFlight
<1>4. \A w \in Workers : MayEnqueue(w) => InRun(w)
  BY DEF MayEnqueue, InRun
<1> QED
  BY <1>1, <1>2, <1>3, <1>4 DEF Alone, Owns, Waits

(* A route of the dashboard adds the only job of its contact, or notes the *)
(* crowd.                                                                  *)
LEMMA RouteDaily ==
  ASSUME TypeOK, QueueInv, NEW d \in Contacts, AddJob(d, "waiting"), NoteCrowd(d),
         UNCHANGED <<pc, job, newCount, sameDay, retryCount, retriesToday>>,
         NEW c \in Contacts, ~disturbed'[c], ~disturbed[c] => Alone(c) /\ Counted(c)
  PROVE  Alone(c)' /\ Counted(c)'
<1> USE DEF TypeOK, QueueOK, SlotsOK, HistoryOK
<1>1. PICK n \in Jobs : n = NewJob /\ \A v \in Workers : job[v] # n
  BY NewJobUnused
<1>2. /\ jobState' = [jobState EXCEPT ![n] = "waiting"]
      /\ jobContact' = [jobContact EXCEPT ![n] = d]
      /\ runner' = runner
  BY <1>1 DEF AddJob
<1>3. Alone(c) /\ Counted(c) /\ (c = d => InFlight(c) = {})
  BY DEF NoteCrowd
<1>4. \A v \in Workers : pc[v] # "idle" => ContactOf(v)' = ContactOf(v) /\ (Owns(v)' <=> Owns(v))
  BY <1>1, <1>2 DEF ContactOf, Owns
<1>5. Counted(c)'
  BY <1>3, <1>4 DEF Counted, Saturated
<1>6. \A j \in Jobs : Waits(j)' /\ jobContact'[j] = c =>
        (Waits(j) /\ jobContact[j] = c) \/ (c = d /\ j = n)
  BY <1>2 DEF Waits
<1>7. Alone(c)'
  <2>1. CASE c # d
    BY <1>3, <1>4, <1>6, <2>1 DEF Alone, MayEnqueue, InRun
  <2>2. CASE c = d
    <3>1. \A j \in Jobs : ~(Waits(j) /\ jobContact[j] = c)
      BY <1>3, <2>2 DEF InFlight, Waits
    <3>2. \A w \in Workers : ~(InRun(w) /\ ContactOf(w) = c)
      <4> SUFFICES ASSUME NEW w \in Workers, InRun(w), ContactOf(w) = c PROVE FALSE
        OBVIOUS
      <4>1. Owns(w) /\ job[w] \in Jobs
        BY <1>3 DEF Alone, InRun
      <4>2. jobState[job[w]] = "active"
        BY <4>1, ConstantsAssumption DEF QueueInv, Owns
      <4> QED
        BY <1>3, <2>2, <4>1, <4>2 DEF InFlight, ContactOf
    <3> QED
      BY <1>4, <1>6, <3>1, <3>2 DEF Alone, MayEnqueue, InRun
  <2> QED
    BY <2>1, <2>2
<1> QED
  BY <1>5, <1>7

LEMMA EnvDaily ==
  ASSUME TypeOK, QueueInv, FiniteInv,
         \/ \E d \in Contacts : Dashboard(d) \/ LockExpires(d)
         \/ \E w \in Workers, j \in Jobs : Dequeue(w, j)
         \/ \E j \in Jobs : DelayElapses(j) \/ StalledRequeue(j) \/ FalseStall(j)
         \/ Crash \/ NewDay \/ MonthlyReset,
         NEW c \in Contacts, ~disturbed'[c], ~disturbed[c] => Alone(c) /\ Counted(c)
  PROVE  Alone(c)' /\ Counted(c)'
<1> USE DEF TypeOK, QueueOK, SlotsOK, HistoryOK, rowVars, jobVars, runVars, histVars
<1>1. CASE \E d \in Contacts : Dashboard(d)
  <2> PICK d \in Contacts : Dashboard(d)
    BY <1>1
  <2>1. CASE AddJob(d, "waiting") /\ NoteCrowd(d)
    BY <2>1, RouteDaily DEF Dashboard, QuickCall, RetryContact, ResumeContact
  <2>2. CASE UNCHANGED <<jobVars, reissued, disturbed>>
    BY <2>2 DEF Dashboard, QuickCall, RetryContact, ResumeContact, AddJob, NewJob, Unused, Alone,
      Counted, Saturated, InRun, MayEnqueue, ContactOf, Owns, Waits
  <2> QED
    BY <2>1, <2>2 DEF Dashboard, QuickCall, RetryContact, ResumeContact
<1>2. CASE (\E d \in Contacts : LockExpires(d)) \/ MonthlyReset
  BY <1>2 DEF LockExpires, MonthlyReset, Alone, Counted, Saturated, InRun, MayEnqueue, ContactOf,
    Owns, Waits
<1>3. CASE \E w \in Workers, j \in Jobs : Dequeue(w, j)
  <2> PICK w \in Workers, j \in Jobs : Dequeue(w, j)
    BY <1>3
  <2>1. /\ pc[w] = "idle" /\ pc' = [pc EXCEPT ![w] = "check"]
        /\ job' = [job EXCEPT ![w] = j] /\ runner' = [runner EXCEPT ![j] = w]
        /\ jobState[j] = "waiting" /\ jobState' = [jobState EXCEPT ![j] = "active"]
        /\ UNCHANGED <<jobContact, newCount, sameDay, retryCount, retriesToday, disturbed>>
    BY DEF Dequeue, Goto
  <2>2. Alone(c) /\ Counted(c)
    BY <2>1
  <2>3. \A v \in Workers : v # w => ContactOf(v)' = ContactOf(v)
    BY <2>1 DEF ContactOf
  <2>4. Counted(c)'
    BY <2>1, <2>2, <2>3 DEF Counted, Saturated
  <2>5. ASSUME NEW v \in Workers, InRun(v)', ContactOf(v)' = c
        PROVE  Owns(v)'
    <3>1. CASE v = w
      BY <2>1, <3>1 DEF Owns
    <3>2. CASE v # w
      <4>1. Owns(v) /\ job[v] # j
        BY <2>1, <2>2, <2>3, <2>5, <3>2, ConstantsAssumption DEF Alone, Owns, InRun, QueueInv
      <4> QED
        BY <2>1, <3>2, <4>1 DEF Owns
    <3> QED
      BY <3>1, <3>2
  <2>6. \A i \in Jobs : Waits(i)' => Waits(i) /\ i # j
    BY <2>1 DEF Waits
  <2>7. Waits(j)
    BY <2>1 DEF Waits
  <2>8. \A v \in Workers : v # w => (MayEnqueue(v)' <=> MayEnqueue(v))
    BY <2>1 DEF MayEnqueue
  <2>9. ContactOf(w)' = jobContact[j]
    BY <2>1 DEF ContactOf
  <2>10. UNCHANGED jobContact
    BY <2>1
  <2>11. ASSUME NEW v \in Workers, MayEnqueue(v)', ContactOf(v)' = c
         PROVE  \/ v = w /\ jobContact[j] = c
                \/ v # w /\ jobContact[j] # c /\ MayEnqueue(v) /\ ContactOf(v) = c
    BY <2>2, <2>3, <2>7, <2>8, <2>9, <2>11 DEF Alone
  <2>12. ASSUME NEW i \in Jobs, Waits(i)', jobContact'[i] = c
         PROVE  jobContact[j] # c /\ Waits(i) /\ jobContact[i] = c
    BY <2>2, <2>6, <2>7, <2>10, <2>12 DEF Alone
  <2>13. \A u, v \in Workers :
           MayEnqueue(u)' /\ MayEnqueue(v)' /\ ContactOf(u)' = c /\ ContactOf(v)' = c => u = v
    BY <2>2, <2>11 DEF Alone
  <2>14. \A h, i \in Jobs :
           Waits(h)' /\ Waits(i)' /\ jobContact'[h] = c /\ jobContact'[i] = c => h = i
    BY <2>2, <2>12 DEF Alone
  <2>15. \A v \in Workers, i \in Jobs :
           ~(MayEnqueue(v)' /\ ContactOf(v)' = c /\ Waits(i)' /\ jobContact'[i] = c)
    BY <2>2, <2>11, <2>12 DEF Alone
  <2> QED
    BY <2>4, <2>5, <2>13, <2>14, <2>15 DEF Alone
<1>4. CASE \E j \in Jobs : DelayElapses(j) \/ StalledRequeue(j)
  <2>1. /\ UNCHANGED <<pc, job, newCount, sameDay, retryCount, retriesToday, disturbed>>
        /\ UNCHANGED <<runner, jobContact>>
    BY <1>4 DEF DelayElapses, StalledRequeue
  <2>2. \A i \in Jobs : Waits(i)' => Waits(i)
    BY <1>4 DEF DelayElapses, StalledRequeue, Waits
  <2> QED
    BY <2>1, <2>2 DEF Alone, Counted, Saturated, InRun, MayEnqueue, ContactOf, Owns
<1>5. CASE \E j \in Jobs : FalseStall(j)
  <2> PICK j \in Jobs : FalseStall(j)
    BY <1>5
  <2>1. /\ UNCHANGED <<pc, job, newCount, sameDay, retryCount, retriesToday, jobContact>>
        /\ jobState' = [jobState EXCEPT ![j] = "waiting"] /\ runner' = [runner EXCEPT ![j] = None]
        /\ disturbed' = [disturbed EXCEPT ![jobContact[j]] = TRUE]
    BY DEF FalseStall
  <2>2. jobContact[j] # c /\ Alone(c) /\ Counted(c)
    BY <2>1
  <2>3. Counted(c)'
    BY <2>1, <2>2 DEF Counted, Saturated, ContactOf
  <2>4. \A v \in Workers : ContactOf(v) = c => (Owns(v)' <=> Owns(v))
    BY <2>1, <2>2 DEF ContactOf, Owns
  <2>5. \A i \in Jobs : jobContact[i] = c => (Waits(i)' <=> Waits(i))
    BY <2>1, <2>2 DEF Waits
  <2> QED
    BY <2>1, <2>2, <2>3, <2>4, <2>5 DEF Alone, InRun, MayEnqueue, ContactOf
<1>6. CASE Crash
  <2>1. ~disturbed[c] /\ ~(Cardinality(InFlight(c)) > 1)
    BY <1>6 DEF Crash
  <2>2. \A w \in Workers : ~InRun(w)' /\ ~MayEnqueue(w)'
    BY <1>6 DEF Crash, InRun, MayEnqueue
  <2>3. \A i \in Jobs : Waits(i)' => jobState[i] # "free"
    BY <1>6 DEF Crash, Waits
  <2>4. jobContact' = jobContact
    BY <1>6 DEF Crash
  <2>5. Alone(c)'
    BY <2>1, <2>2, <2>3, <2>4, FewJobs DEF Alone, InFlight
  <2> QED
    BY <1>6, <2>1, <2>5 DEF Crash, Counted
<1>7. CASE NewDay
  <2>1. /\ ~(Cardinality(InFlight(c)) > 1)
        /\ \A w \in Workers : InRun(w) /\ ContactOf(w) = c => Owns(w)
    BY <1>7 DEF NewDay, InRun
  <2>2. Alone(c)
    BY <2>1, FewJobsAlone
  <2>3. Alone(c)'
    BY <1>7, <2>2 DEF NewDay, Alone, InRun, MayEnqueue, ContactOf, Owns, Waits
  <2>4. retryCount'[c] = 0 /\ retriesToday'[c] = 0 /\ \A w \in Workers : ~sameDay'[w]
    BY <1>7 DEF NewDay
  <2> QED
    BY <2>3, <2>4, ConstantsAssumption DEF Counted
<1> QED
  BY <1>1, <1>2, <1>3, <1>4, <1>5, <1>6, <1>7

(* For any number of contacts, jobs, slots and retries: a day on which no  *)
(* second job of a contact was in flight and no request for its counter    *)
(* failed sees no more retries of it than the cap, though the counter is   *)
(* read, written and acted on in three steps, and midnight comes between.  *)
THEOREM DailyCap == Spec => []DailyCapWhenAlone
<1> DEFINE Inv == TypeOK /\ CallInv /\ FiniteInv /\ DailyInv
<1>1. Init => Inv
  <2> SUFFICES ASSUME Init PROVE Inv
    OBVIOUS
  <2>1. TypeOK /\ CallInv
    BY InitTypeOK, InitCallInv
  <2>2. {j \in Jobs : jobState[j] # "free"} = {}
    BY DEF Init
  <2>3. FiniteInv
    BY <2>2, FS_EmptySet DEF FiniteInv
  <2>4. DailyInv
    BY ConstantsAssumption DEF Init, DailyInv, Alone, Counted, InRun, MayEnqueue, Waits
  <2> QED
    BY <2>1, <2>3, <2>4
<1>2. Inv /\ [Next]_vars => Inv'
  <2> SUFFICES ASSUME Inv, [Next]_vars PROVE Inv'
    OBVIOUS
  <2>1. TypeOK' /\ CallInv' /\ FiniteInv'
    BY TypeStep, CallInvStep, FiniteStep
  <2>2. ASSUME NEW c \in Contacts, ~disturbed'[c] PROVE Alone(c)' /\ Counted(c)'
    <3>1. ~disturbed[c] => Alone(c) /\ Counted(c)
      BY DEF DailyInv
    <3>2. CASE \E w \in Workers : Run(w)
      BY <2>2, <3>1, <3>2, RunDaily
    <3>3. CASE UNCHANGED vars
      BY <2>2, <3>1, <3>3 DEF vars, rowVars, jobVars, runVars, histVars, Alone, Counted, Saturated,
        InRun, MayEnqueue, ContactOf, Owns, Waits
    <3> QED
      BY <2>2, <3>1, <3>2, <3>3, EnvDaily DEF Next, CallInv
  <2> QED
    BY <2>1, <2>2 DEF DailyInv
<1>3. Inv => DailyCapWhenAlone
  BY DEF DailyInv, Counted, DailyCapWhenAlone
<1> QED
  BY <1>1, <1>2, <1>3, PTL DEF Spec
=============================================================================
