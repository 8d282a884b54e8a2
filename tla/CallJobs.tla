------------------------------ MODULE CallJobs ------------------------------
(***************************************************************************)
(* The outbound call worker of voiceagent-saas/call-processor.js: BullMQ   *)
(* call jobs, the per-contact Redis lock, the campaign_contacts row and    *)
(* the decisions taken when a call ends (retry with backoff under a daily  *)
(* cap, transparent retry, callback, reschedule, dead letter), together    *)
(* with the dashboard routes that enqueue jobs.                            *)
(*                                                                         *)
(* A worker slot runs processCallJob for one job; every await at which     *)
(* another slot, the dashboard, a timer or a crash can interleave with a   *)
(* shared row or key ends a step.  The phone call itself is one step whose *)
(* outcome is chosen freely; module CallBridge models what is inside it.   *)
(***************************************************************************)
EXTENDS Naturals, FiniteSets

CONSTANTS
  Contacts,         \* campaign_contacts rows (one campaign, one tenant)
  Jobs,             \* BullMQ job ids; an id is reused once nothing refers to it
  Workers,          \* concurrent slots of the BullMQ worker
  None,             \* no job / no worker
  MaxDailyRetries,  \* MAX_DAILY_RETRIES
  CallLimit,        \* tenants.calls_limit
  EnvBound,         \* BOUND: runs and jobs in flight before the environment adds one
  Faults            \* what may go wrong: "request" a Redis or Postgres request fails,
                    \* "crash" the process dies, "stall" a live job is handed out again

ASSUME ConstantsAssumption ==
  /\ None \notin Jobs \cup Workers
  /\ IsFiniteSet(Workers)
  /\ MaxDailyRetries \in Nat \ {0}
  /\ CallLimit \in Nat \ {0}
  /\ EnvBound \in Nat
  /\ Faults \subseteq {"request", "crash", "stall"}

VARIABLES
  status,       \* campaign_contacts.status
  retryCount,   \* campaign_contacts.daily_retry_count, saturating at MaxDailyRetries + 1;
                \* 0 when last_retry_day is not today (Asia/Jerusalem)
  callsUsed,    \* tenants.calls_used_this_month
  lock,         \* Redis call-lock:<contact> : the job id stored as token, or None
  jobState,     \* BullMQ state of each job id
  jobContact,   \* job.data.campaignContactId
  runner,       \* the slot BullMQ believes is running the job
  stalledOnce,  \* the job's stalled counter has reached maxStalledCount (1)
  pc,           \* where each slot is in processCallJob
  job,          \* the job a slot is running
  newCount,     \* local newCount computed from the counter a slot has read
  sameDay,      \* the local `today` of that read is still the current day
  overran,      \* history: the slot's lock expired while it was in its call
  reissued,     \* history: the job was handed out while an earlier run was alive
  retriesToday, \* history: retries enqueued per contact and day
  disturbed,    \* history: today two jobs of the contact were in flight, or a request
                \* for its counter failed
  dropped       \* history: the outcome of the last run of the contact was not recorded

rowVars  == <<status, retryCount, callsUsed>>
jobVars  == <<jobState, jobContact, runner, stalledOnce>>
runVars  == <<pc, job, newCount, sameDay>>
histVars == <<overran, reissued, retriesToday, disturbed, dropped>>
vars     == <<rowVars, lock, jobVars, runVars, histVars>>

Statuses  == {"pending", "queued", "calling", "completed", "failed", "dnc", "needs_attention"}
JobStates == {"free", "delayed", "waiting", "active", "stalled"}
PreLock   == {"check", "resched", "reschedAdd", "return", "lock", "recover"}
Critical  == {"increment", "dial", "call", "bump", "cap", "retryNow", "retryLater",
              "callback", "release", "throw"}
Labels    == {"idle", "dead"} \cup PreLock \cup Critical

RowsOK ==
  /\ status \in [Contacts -> Statuses]
  /\ retryCount \in [Contacts -> 0 .. MaxDailyRetries + 1]
  /\ callsUsed \in Nat
  /\ lock \in [Contacts -> Jobs \cup {None}]

QueueOK ==
  /\ jobState \in [Jobs -> JobStates]
  /\ jobContact \in [Jobs -> Contacts]
  /\ runner \in [Jobs -> Workers \cup {None}]
  /\ stalledOnce \in [Jobs -> BOOLEAN]

SlotsOK ==
  /\ pc \in [Workers -> Labels]
  /\ job \in [Workers -> Jobs \cup {None}]
  /\ \A w \in Workers : job[w] = None <=> pc[w] = "idle"
  /\ newCount \in [Workers -> 0 .. MaxDailyRetries + 1]
  /\ sameDay \in [Workers -> BOOLEAN]

HistoryOK ==
  /\ overran \in [Workers -> BOOLEAN]
  /\ reissued \in [Jobs -> BOOLEAN]
  /\ retriesToday \in [Contacts -> 0 .. MaxDailyRetries + 1]
  /\ disturbed \in [Contacts -> BOOLEAN]
  /\ dropped \in [Contacts -> BOOLEAN]

TypeOK == RowsOK /\ QueueOK /\ SlotsOK /\ HistoryOK

Init ==
  /\ status = [c \in Contacts |-> "pending"]
  /\ retryCount = [c \in Contacts |-> 0]
  /\ callsUsed = 0
  /\ lock = [c \in Contacts |-> None]
  /\ jobState = [j \in Jobs |-> "free"]
  /\ jobContact \in {[j \in Jobs |-> c] : c \in Contacts}
  /\ runner = [j \in Jobs |-> None]
  /\ stalledOnce = [j \in Jobs |-> FALSE]
  /\ pc = [w \in Workers |-> "idle"]
  /\ job = [w \in Workers |-> None]
  /\ newCount = [w \in Workers |-> 0]
  /\ sameDay = [w \in Workers |-> FALSE]
  /\ overran = [w \in Workers |-> FALSE]
  /\ reissued = [j \in Jobs |-> FALSE]
  /\ retriesToday = [c \in Contacts |-> 0]
  /\ disturbed = [c \in Contacts |-> FALSE]
  /\ dropped = [c \in Contacts |-> FALSE]

----------------------------------------------------------------------------
(* Helpers *)

InFlight(c) == {j \in Jobs : jobState[j] # "free" /\ jobContact[j] = c}
ContactOf(w) == jobContact[job[w]]
Owns(w) == runner[job[w]] = w

(* Runs and jobs that may still enqueue: a run whose job BullMQ took back  *)
(* counts beside the job.  Only the environment's actions look at it.      *)
Load ==
  Cardinality({j \in Jobs : jobState[j] # "free"})
    + Cardinality({w \in Workers : pc[w] # "idle" /\ ~Owns(w)})

Unused ==
  {j \in Jobs : /\ jobState[j] = "free"
                /\ \A w \in Workers : job[w] # j
                /\ \A c \in Contacts : lock[c] # j}

NewJob == CHOOSE j \in Unused : TRUE

Saturated(n) == IF n > MaxDailyRetries THEN MaxDailyRetries + 1 ELSE n

(* queue.add: a job with a fresh id, delayed or ready to be picked up. *)
AddJob(c, state) ==
  /\ Unused # {}
  /\ jobState' = [jobState EXCEPT ![NewJob] = state]
  /\ jobContact' = [jobContact EXCEPT ![NewJob] = c]
  /\ reissued' = [reissued EXCEPT ![NewJob] = FALSE]
  /\ UNCHANGED <<runner, stalledOnce>>

Goto(w, label) == pc' = [pc EXCEPT ![w] = label]

(* Mutant of LeaveSlot: the slot keeps the job it ran. *)
LeaveSlotKeepsJob(w) ==
  /\ Goto(w, "idle")
  /\ newCount' = [newCount EXCEPT ![w] = 0]
  /\ sameDay' = [sameDay EXCEPT ![w] = FALSE]
  /\ overran' = [overran EXCEPT ![w] = FALSE]
  /\ UNCHANGED job

(* The processor returned or threw: the slot is free again. *)
LeaveSlot(w) ==
  /\ Goto(w, "idle")
  /\ job' = [job EXCEPT ![w] = None]
  /\ newCount' = [newCount EXCEPT ![w] = 0]
  /\ sameDay' = [sameDay EXCEPT ![w] = FALSE]
  /\ overran' = [overran EXCEPT ![w] = FALSE]

(* BullMQ completes (or fails) the job, unless it has taken the job back. *)
CloseJob(w) ==
  /\ jobState' = [jobState EXCEPT ![job[w]] = IF Owns(w) THEN "free" ELSE @]
  /\ runner' = [runner EXCEPT ![job[w]] = IF Owns(w) THEN None ELSE @]
  /\ stalledOnce' = [stalledOnce EXCEPT ![job[w]] = @ /\ ~Owns(w)]
  /\ UNCHANGED <<jobContact, reissued>>

Finish(w) == LeaveSlot(w) /\ CloseJob(w)

(* A job in the queue, or a slot among ws, that will write an outcome for  *)
(* the contact.                                                            *)
WillAct(c, ws) ==
  \/ \E j \in InFlight(c) : jobState[j] # "active"
  \/ \E w \in ws : pc[w] \notin {"idle", "release", "return"} /\ ContactOf(w) = c

(* The run of slot w comes to nothing that the row would show. *)
Discarded(w) ==
  dropped' = [dropped EXCEPT ![ContactOf(w)] = @ \/ ~WillAct(ContactOf(w), Workers \ {w})]

(* The processor threw.  BullMQ fails the job and emits "failed", unless   *)
(* it has taken the job back.                                              *)
FailJob(w) ==
  IF Owns(w)
    THEN Goto(w, "dead") /\ CloseJob(w) /\ UNCHANGED <<job, newCount, sameDay, overran, dropped>>
    ELSE Finish(w) /\ Discarded(w)

SetStatus(c, s) == status' = [status EXCEPT ![c] = s]

(* The row is updated by id and the error of the request is never looked   *)
(* at: a write that fails is lost and the processor goes on.               *)
WriteStatus(w, s) ==
  \/ SetStatus(ContactOf(w), s)
  \/ "request" \in Faults /\ UNCHANGED status

(* The last write of a run. *)
RecordStatus(w, s) ==
  \/ SetStatus(ContactOf(w), s) /\ UNCHANGED dropped
  \/ "request" \in Faults /\ UNCHANGED status /\ Discarded(w)

(* newCount = (last_retry_day == today) ? daily_retry_count + 1 : 1; a row *)
(* that cannot be read counts as a new day.                                *)
ReadCounter(w) ==
  LET c == ContactOf(w) IN
  /\ sameDay' = [sameDay EXCEPT ![w] = TRUE]
  /\ \/ /\ newCount' = [newCount EXCEPT
                           ![w] = Saturated(retryCount[c] + 1)]
        /\ UNCHANGED disturbed
     \/ /\ "request" \in Faults
        /\ newCount' = [newCount EXCEPT ![w] = 1]
        /\ disturbed' = [disturbed EXCEPT ![c] = TRUE]

(* update({daily_retry_count: newCount, last_retry_day: today}) *)
WriteCounter(w) ==
  /\ retryCount' = [retryCount EXCEPT
                       ![ContactOf(w)] = IF sameDay[w] THEN newCount[w] ELSE 0]
  /\ UNCHANGED disturbed

LoseCounter(w) ==
  /\ "request" \in Faults
  /\ disturbed' = [disturbed EXCEPT ![ContactOf(w)] = TRUE]
  /\ UNCHANGED retryCount

CountRetry(w) ==
  retriesToday' = [retriesToday EXCEPT
                     ![ContactOf(w)] = IF sameDay[w] THEN Saturated(@ + 1) ELSE @]

----------------------------------------------------------------------------
(* The dashboard: every route writes the row, then adds a job. *)

EnvRoom == Load < EnvBound

NoteCrowd(c) == disturbed' = [disturbed EXCEPT ![c] = @ \/ InFlight(c) # {}]

(* Campaign launch and quick call: upsert with status pending, then add. *)
QuickCall(c) ==
  /\ EnvRoom
  /\ SetStatus(c, "pending")
  /\ AddJob(c, "waiting")
  /\ dropped' = [dropped EXCEPT ![c] = FALSE]
  /\ NoteCrowd(c)
  /\ UNCHANGED <<retryCount, callsUsed, lock, runVars, overran, retriesToday>>

(* Manual retry: the row is set to queued first; the add may fail. *)
RetryContact(c) ==
  /\ EnvRoom
  /\ SetStatus(c, "queued")
  /\ \/ /\ AddJob(c, "waiting")
        /\ dropped' = [dropped EXCEPT ![c] = FALSE]
        /\ NoteCrowd(c)
     \/ /\ "request" \in Faults
        /\ dropped' = [dropped EXCEPT ![c] = TRUE]
        /\ UNCHANGED <<jobVars, reissued, disturbed>>
  /\ UNCHANGED <<retryCount, callsUsed, lock, runVars, overran, retriesToday>>

(* Resume of a paused campaign: a new job for every pending contact, on    *)
(* top of the jobs that pause left in the queue.                           *)
ResumeContact(c) ==
  /\ EnvRoom
  /\ status[c] = "pending"
  /\ AddJob(c, "waiting")
  /\ dropped' = [dropped EXCEPT ![c] = FALSE]
  /\ NoteCrowd(c)
  /\ UNCHANGED <<rowVars, lock, runVars, overran, retriesToday>>

----------------------------------------------------------------------------
(* processCallJob up to the lock *)

(* A free slot takes a waiting job. *)
Dequeue(w, j) ==
  /\ pc[w] = "idle"
  /\ jobState[j] = "waiting"
  /\ jobState' = [jobState EXCEPT ![j] = "active"]
  /\ runner' = [runner EXCEPT ![j] = w]
  /\ job' = [job EXCEPT ![w] = j]
  /\ Goto(w, "check")
  /\ dropped' = [dropped EXCEPT ![jobContact[j]] = FALSE]
  /\ UNCHANGED <<rowVars, lock, jobContact, stalledOnce, newCount, sameDay,
                 overran, reissued, retriesToday, disturbed>>

(* An entity or the campaign snapshot cannot be fetched: the processor     *)
(* logs and returns, the job completes and nothing is recorded.            *)
LoadFails(w) ==
  /\ "request" \in Faults
  /\ pc[w] = "check"
  /\ Finish(w)
  /\ Discarded(w)
  /\ UNCHANGED <<rowVars, lock, retriesToday, disturbed>>

(* Agent without voice, not synced or not created: no retry. *)
AgentNotReady(w) ==
  /\ pc[w] = "check"
  /\ RecordStatus(w, "needs_attention")
  /\ Finish(w)
  /\ UNCHANGED <<retryCount, callsUsed, lock, retriesToday, disturbed>>

DncBlocked(w) ==
  /\ pc[w] = "check"
  /\ RecordStatus(w, "dnc")
  /\ Finish(w)
  /\ UNCHANGED <<retryCount, callsUsed, lock, retriesToday, disturbed>>

(* Outside the schedule windows with no window in the next week. *)
NoWindow(w) ==
  /\ pc[w] = "check"
  /\ RecordStatus(w, "needs_attention")
  /\ Finish(w)
  /\ UNCHANGED <<retryCount, callsUsed, lock, retriesToday, disturbed>>

(* Outside the windows: handleScheduleBlockedReschedule reads the counter. *)
ScheduleBlocked(w) ==
  /\ pc[w] = "check"
  /\ ReadCounter(w)
  /\ Goto(w, "resched")
  /\ UNCHANGED <<rowVars, lock, jobVars, job, overran, reissued, retriesToday, dropped>>

(* ... and writes it together with the new status, *)
Reschedule(w) ==
  /\ pc[w] = "resched"
  /\ newCount[w] <= MaxDailyRetries
  /\ \/ SetStatus(ContactOf(w), "queued") /\ WriteCounter(w)
     \/ UNCHANGED status /\ LoseCounter(w)
  /\ Goto(w, "reschedAdd")
  /\ newCount' = [newCount EXCEPT ![w] = 0]
  /\ UNCHANGED <<callsUsed, lock, jobVars, job, sameDay,
                 overran, reissued, retriesToday, dropped>>

(* ... or gives up at the cap. *)
RescheduleCapped(w) ==
  /\ pc[w] = "resched"
  /\ newCount[w] > MaxDailyRetries
  /\ \/ /\ SetStatus(ContactOf(w), "needs_attention")
        /\ WriteCounter(w)
        /\ UNCHANGED dropped
     \/ /\ UNCHANGED status
        /\ LoseCounter(w)
        /\ Discarded(w)
  /\ Finish(w)
  /\ UNCHANGED <<callsUsed, lock, retriesToday>>

RescheduleAdd(w) ==
  /\ pc[w] = "reschedAdd"
  /\ AddJob(ContactOf(w), "delayed")
  /\ CountRetry(w)
  /\ Goto(w, "return")
  /\ UNCHANGED <<rowVars, lock, job, newCount, sameDay, overran, disturbed, dropped>>

(* Mutant of RescheduleAddFails: the row is not reverted. *)
RescheduleAddFailsSilently(w) ==
  /\ "request" \in Faults
  /\ pc[w] = "reschedAdd"
  /\ Finish(w)
  /\ UNCHANGED <<rowVars, lock, retriesToday, disturbed, dropped>>

(* The delayed add fails: the row is reverted to needs_attention. *)
RescheduleAddFails(w) ==
  /\ "request" \in Faults
  /\ pc[w] = "reschedAdd"
  /\ RecordStatus(w, "needs_attention")
  /\ Finish(w)
  /\ UNCHANGED <<retryCount, callsUsed, lock, retriesToday, disturbed>>

Return(w) ==
  /\ pc[w] = "return"
  /\ Finish(w)
  /\ UNCHANGED <<rowVars, lock, retriesToday, disturbed, dropped>>

(* Monthly limit reached: the job completes and nothing is recorded. *)
LimitReached(w) ==
  /\ pc[w] = "check"
  /\ callsUsed >= CallLimit
  /\ Finish(w)
  /\ Discarded(w)
  /\ UNCHANGED <<rowVars, lock, retriesToday, disturbed>>

(* Mutant of ChecksPass: the call that reaches the limit may be repeated. *)
ChecksPassAtLimit(w) ==
  /\ pc[w] = "check"
  /\ callsUsed <= CallLimit
  /\ Goto(w, "lock")
  /\ UNCHANGED <<rowVars, lock, jobVars, job, newCount, sameDay, histVars>>

(* DNC, schedule and limit allow the call; the limit is read last. *)
ChecksPass(w) ==
  /\ pc[w] = "check"
  /\ callsUsed < CallLimit
  /\ Goto(w, "lock")
  /\ UNCHANGED <<rowVars, lock, jobVars, job, newCount, sameDay, histVars>>

(* SET key token EX 900 NX *)
TryLock(w) ==
  LET c == ContactOf(w) IN
  /\ pc[w] = "lock"
  /\ IF lock[c] = None
       THEN lock' = [lock EXCEPT ![c] = job[w]] /\ Goto(w, "increment")
       ELSE UNCHANGED lock /\ Goto(w, "recover")
  /\ UNCHANGED <<rowVars, jobVars, job, newCount, sameDay, histVars>>

(* GET and EXPIRE: a lock that holds this job's id is taken over. *)
RecoverLock(w) ==
  /\ pc[w] = "recover"
  /\ lock[ContactOf(w)] = job[w]
  /\ Goto(w, "increment")
  /\ UNCHANGED <<rowVars, lock, jobVars, job, newCount, sameDay, histVars>>

(* call_lock_duplicate_skip: the job completes and nothing is recorded. *)
SkipDuplicate(w) ==
  /\ pc[w] = "recover"
  /\ lock[ContactOf(w)] # job[w]
  /\ Finish(w)
  /\ Discarded(w)
  /\ UNCHANGED <<rowVars, lock, retriesToday, disturbed>>

----------------------------------------------------------------------------
(* processCallJob under the lock *)

(* increment_calls_used *)
Increment(w) ==
  /\ pc[w] = "increment"
  /\ callsUsed' = callsUsed + 1
  /\ Goto(w, "dial")
  /\ UNCHANGED <<status, retryCount, lock, jobVars, job, newCount, sameDay, histVars>>

(* The calls row is inserted, the contact marked calling, the call begun. *)
Dial(w) ==
  /\ pc[w] = "dial"
  /\ WriteStatus(w, "calling")
  /\ Goto(w, "call")
  /\ UNCHANGED <<retryCount, callsUsed, lock, jobVars, job, newCount, sameDay, histVars>>

(* The call ended with no failure reason. *)
CallCompleted(w) ==
  /\ pc[w] = "call"
  /\ RecordStatus(w, "completed")
  /\ Goto(w, "release")
  /\ UNCHANGED <<retryCount, callsUsed, lock, jobVars, job, newCount, sameDay, overran, reissued,
                 retriesToday, disturbed>>

(* The lead asked to be called back: scheduleRequestedCallback. *)
CallbackRequested(w) ==
  /\ pc[w] = "call"
  /\ WriteStatus(w, "queued")
  /\ Goto(w, "callback")
  /\ UNCHANGED <<retryCount, callsUsed, lock, jobVars, job, newCount, sameDay, histVars>>

(* A non-retryable failure reason, or one the processor does not know. *)
CallRefused(w) ==
  /\ pc[w] = "call"
  /\ RecordStatus(w, "needs_attention")
  /\ Goto(w, "release")
  /\ UNCHANGED <<retryCount, callsUsed, lock, jobVars, job, newCount, sameDay, overran, reissued,
                 retriesToday, disturbed>>

(* agent_version_mismatch: retried at once, the counter is left alone. *)
CallMismatched(w) ==
  /\ pc[w] = "call"
  /\ Goto(w, "retryNow")
  /\ UNCHANGED <<rowVars, lock, jobVars, job, newCount, sameDay, histVars>>

(* A retryable failure: the daily counter is read ... *)
CallFailed(w) ==
  /\ pc[w] = "call"
  /\ ReadCounter(w)
  /\ Goto(w, "bump")
  /\ UNCHANGED <<rowVars, lock, jobVars, job, overran, reissued, retriesToday, dropped>>

(* Mutant of BumpCounter: the cap is one too high. *)
BumpCounterOffByOne(w) ==
  /\ pc[w] = "bump"
  /\ (WriteCounter(w) \/ LoseCounter(w))
  /\ Goto(w, IF newCount[w] > MaxDailyRetries + 1 THEN "cap" ELSE "retryLater")
  /\ newCount' = [newCount EXCEPT ![w] = 0]
  /\ UNCHANGED <<status, callsUsed, lock, jobVars, job, sameDay,
                 overran, reissued, retriesToday, dropped>>

(* ... written back, and compared with the cap. *)
BumpCounter(w) ==
  /\ pc[w] = "bump"
  /\ (WriteCounter(w) \/ LoseCounter(w))
  /\ Goto(w, IF newCount[w] > MaxDailyRetries THEN "cap" ELSE "retryLater")
  /\ newCount' = [newCount EXCEPT ![w] = 0]
  /\ UNCHANGED <<status, callsUsed, lock, jobVars, job, sameDay,
                 overran, reissued, retriesToday, dropped>>

CapReached(w) ==
  /\ pc[w] = "cap"
  /\ RecordStatus(w, "needs_attention")
  /\ Goto(w, "release")
  /\ UNCHANGED <<retryCount, callsUsed, lock, jobVars, job, newCount, sameDay, overran, reissued,
                 retriesToday, disturbed>>

(* enqueueRetry with the backoff delay; the contact stays calling. *)
RetryLater(w) ==
  /\ pc[w] = "retryLater"
  /\ AddJob(ContactOf(w), "delayed")
  /\ CountRetry(w)
  /\ Goto(w, "release")
  /\ UNCHANGED <<rowVars, lock, job, newCount, sameDay, overran, disturbed, dropped>>

(* enqueueRetry with delay 0, while the lock is still held. *)
RetryNow(w) ==
  /\ pc[w] = "retryNow"
  /\ AddJob(ContactOf(w), "waiting")
  /\ Goto(w, "release")
  /\ UNCHANGED <<rowVars, lock, job, newCount, sameDay, overran, retriesToday, disturbed, dropped>>

(* The callback job: delayed, or due at once when its time has passed. *)
CallbackAdd(w) ==
  /\ pc[w] = "callback"
  /\ \E state \in {"delayed", "waiting"} : AddJob(ContactOf(w), state)
  /\ Goto(w, "release")
  /\ UNCHANGED <<rowVars, lock, job, newCount, sameDay, overran, retriesToday, disturbed, dropped>>

CallbackAddFails(w) ==
  /\ "request" \in Faults
  /\ pc[w] = "callback"
  /\ RecordStatus(w, "needs_attention")
  /\ Goto(w, "release")
  /\ UNCHANGED <<retryCount, callsUsed, lock, jobVars, job, newCount, sameDay, overran, reissued,
                 retriesToday, disturbed>>

(* Mutant of ReleaseLock: the key is deleted whoever holds it. *)
ReleaseLockBlindly(w) == lock' = [lock EXCEPT ![ContactOf(w)] = None]

(* The compare-and-delete of the finally block; Redis may refuse it. *)
ReleaseLock(w) ==
  \/ lock' = [lock EXCEPT ![ContactOf(w)] = IF @ = job[w] THEN None ELSE @]
  \/ "request" \in Faults /\ UNCHANGED lock

Release(w) ==
  /\ pc[w] = "release"
  /\ ReleaseLock(w)
  /\ Finish(w)
  /\ UNCHANGED <<rowVars, retriesToday, disturbed, dropped>>

(* A request fails before the lock: the job fails at once (attempts: 1). *)
ThrowUnlocked(w) ==
  /\ "request" \in Faults
  /\ pc[w] \in {"check", "lock", "recover"}
  /\ FailJob(w)
  /\ UNCHANGED <<rowVars, lock, retriesToday, disturbed>>

(* A request fails under the lock and unwinds to the finally block. *)
Throw(w) ==
  /\ "request" \in Faults
  /\ pc[w] \in {"increment", "dial", "call", "retryNow", "retryLater"}
  /\ Goto(w, "throw")
  /\ UNCHANGED <<rowVars, lock, jobVars, job, newCount, sameDay, histVars>>

Unwind(w) ==
  /\ pc[w] = "throw"
  /\ ReleaseLock(w)
  /\ FailJob(w)
  /\ UNCHANGED <<rowVars, retriesToday, disturbed>>

(* worker.on("failed"): the dead letter is written after the job failed. *)
DeadLetter(w) ==
  /\ pc[w] = "dead"
  /\ RecordStatus(w, "failed")
  /\ LeaveSlot(w)
  /\ UNCHANGED <<retryCount, callsUsed, lock, jobVars, reissued,
                 retriesToday, disturbed>>

----------------------------------------------------------------------------
(* Timers, BullMQ and failures *)

DelayElapses(j) ==
  /\ jobState[j] = "delayed"
  /\ jobState' = [jobState EXCEPT ![j] = "waiting"]
  /\ UNCHANGED <<rowVars, lock, jobContact, runner, stalledOnce, runVars, histVars>>

(* The 15-minute TTL of the lock runs out; nothing renews it in a call. *)
LockExpires(c) ==
  /\ lock[c] # None
  /\ lock' = [lock EXCEPT ![c] = None]
  /\ overran' = [w \in Workers |->
                   overran[w] \/ (pc[w] \in Critical /\ job[w] = lock[c])]
  /\ UNCHANGED <<rowVars, jobVars, runVars, reissued, retriesToday, disturbed, dropped>>

(* The process dies; so does it when shutdown gives up waiting for its slots. *)
Crash ==
  /\ "crash" \in Faults
  /\ Load <= EnvBound
  /\ \E w \in Workers : pc[w] # "idle"
  /\ jobState' = [j \in Jobs |-> IF jobState[j] = "active" THEN "stalled" ELSE jobState[j]]
  /\ runner' = [j \in Jobs |-> None]
  /\ pc' = [w \in Workers |-> "idle"]
  /\ job' = [w \in Workers |-> None]
  /\ newCount' = [w \in Workers |-> 0]
  /\ sameDay' = [w \in Workers |-> FALSE]
  /\ overran' = [w \in Workers |-> FALSE]
  /\ disturbed' = [c \in Contacts |-> disturbed[c] \/ Cardinality(InFlight(c)) > 1]
  /\ dropped' = [c \in Contacts |->
                   dropped[c] \/ \E w \in Workers : /\ pc[w] # "idle"
                                                  /\ ~Owns(w)
                                                  /\ ContactOf(w) = c]
  /\ UNCHANGED <<rowVars, lock, jobContact, stalledOnce, reissued, retriesToday>>

(* Mutant of StalledRequeue: a job that stalls twice is left alone. *)
StalledRequeueOnce(j) ==
  /\ jobState[j] = "stalled"
  /\ ~stalledOnce[j]
  /\ jobState' = [jobState EXCEPT ![j] = "waiting"]
  /\ stalledOnce' = [stalledOnce EXCEPT ![j] = TRUE]
  /\ UNCHANGED <<rowVars, lock, jobContact, runner, runVars, histVars>>

(* BullMQ gives a stalled job back once; the second time it fails it. *)
StalledRequeue(j) ==
  /\ jobState[j] = "stalled"
  /\ IF stalledOnce[j]
       THEN /\ jobState' = [jobState EXCEPT ![j] = "free"]
            /\ \/ SetStatus(jobContact[j], "failed") /\ UNCHANGED dropped
               \/ /\ "request" \in Faults
                  /\ dropped' = [dropped EXCEPT ![jobContact[j]] = TRUE]
                  /\ UNCHANGED status
            /\ stalledOnce' = [stalledOnce EXCEPT ![j] = FALSE]
       ELSE /\ jobState' = [jobState EXCEPT ![j] = "waiting"]
            /\ stalledOnce' = [stalledOnce EXCEPT ![j] = TRUE]
            /\ UNCHANGED <<status, dropped>>
  /\ UNCHANGED <<retryCount, callsUsed, lock, jobContact, runner, runVars,
                 overran, reissued, retriesToday, disturbed>>

(* Redis was unreachable for longer than BullMQ's lockDuration: the job is *)
(* handed out again while its first run is still alive.                    *)
FalseStall(j) ==
  /\ "stall" \in Faults
  /\ Load <= EnvBound
  /\ jobState[j] = "active"
  /\ ~stalledOnce[j]
  /\ jobState' = [jobState EXCEPT ![j] = "waiting"]
  /\ stalledOnce' = [stalledOnce EXCEPT ![j] = TRUE]
  /\ runner' = [runner EXCEPT ![j] = None]
  /\ reissued' = [reissued EXCEPT ![j] = TRUE]
  /\ disturbed' = [disturbed EXCEPT ![jobContact[j]] = TRUE]
  /\ UNCHANGED <<rowVars, lock, jobContact, runVars, overran, retriesToday, dropped>>

(* Midnight in Israel: yesterday's counters no longer count. *)
NewDay ==
  /\ retryCount' = [c \in Contacts |-> 0]
  /\ sameDay' = [w \in Workers |-> FALSE]
  /\ retriesToday' = [c \in Contacts |-> 0]
  /\ disturbed' = [c \in Contacts |->
                   \/ Cardinality(InFlight(c)) > 1
                   \/ \E w \in Workers : pc[w] # "idle" /\ ~Owns(w) /\ ContactOf(w) = c]
  /\ UNCHANGED <<status, callsUsed, lock, jobVars, pc, job, newCount,
                 overran, reissued, dropped>>

MonthlyReset ==
  /\ callsUsed > 0
  /\ callsUsed' = 0
  /\ UNCHANGED <<status, retryCount, lock, jobVars, runVars, histVars>>

----------------------------------------------------------------------------
Run(w) ==
  \/ LoadFails(w) \/ AgentNotReady(w) \/ DncBlocked(w) \/ NoWindow(w)
  \/ ScheduleBlocked(w) \/ Reschedule(w) \/ RescheduleCapped(w)
  \/ RescheduleAdd(w) \/ RescheduleAddFails(w)
  \/ Return(w) \/ LimitReached(w) \/ ChecksPass(w)
  \/ TryLock(w) \/ RecoverLock(w) \/ SkipDuplicate(w)
  \/ Increment(w) \/ Dial(w)
  \/ CallCompleted(w) \/ CallbackRequested(w) \/ CallRefused(w)
  \/ CallMismatched(w) \/ CallFailed(w)
  \/ BumpCounter(w) \/ CapReached(w) \/ RetryLater(w) \/ RetryNow(w)
  \/ CallbackAdd(w) \/ CallbackAddFails(w) \/ Release(w)
  \/ ThrowUnlocked(w) \/ Throw(w) \/ Unwind(w) \/ DeadLetter(w)

Dashboard(c) == QuickCall(c) \/ RetryContact(c) \/ ResumeContact(c)

Next ==
  \/ \E c \in Contacts : Dashboard(c) \/ LockExpires(c)
  \/ \E w \in Workers : Run(w) \/ \E j \in Jobs : Dequeue(w, j)
  \/ \E j \in Jobs : DelayElapses(j) \/ StalledRequeue(j) \/ FalseStall(j)
  \/ Crash \/ NewDay \/ MonthlyReset

(* Slots run on the event loop, delays and the stalled check are timers,   *)
(* and the waiting list is first-in first-out: a waiting job that finds a  *)
(* free slot again and again is taken.  Nothing makes a phone call return: *)
(* a bridge may leave the promise of start() unresolved.                   *)
Fairness ==
  /\ \A w \in Workers : WF_vars(pc[w] # "call" /\ Run(w))
  /\ \A j \in Jobs : /\ WF_vars(DelayElapses(j))
                     /\ WF_vars(StalledRequeue(j))
                     /\ SF_vars(\E w \in Workers : Dequeue(w, j))
  /\ \A c \in Contacts : WF_vars(LockExpires(c))

Spec == Init /\ [][Next]_vars
FairSpec == Spec /\ Fairness

----------------------------------------------------------------------------
(* Properties *)

(* Two calls to one contact run at once only if one of them outlived the   *)
(* 15-minute lock or its job was handed out twice: acquisition, recovery,  *)
(* compare-and-delete and crashes never let a third job in.                *)
Excused(w) == overran[w] \/ reissued[job[w]]
OneCallPerContact ==
  \A v, w \in Workers :
    /\ v # w
    /\ pc[v] \in Critical /\ pc[w] \in Critical
    /\ ContactOf(v) = ContactOf(w)
    => Excused(v) \/ Excused(w)

(* A contact shown as queued or calling has a job, a run or a pending dead *)
(* letter behind it, unless a silent return or a lost write left the last  *)
(* run of it without a trace.                                              *)
Backed(c) == WillAct(c, Workers)
LimboOnlyWhenDropped ==
  \A c \in Contacts : status[c] \in {"queued", "calling"} => Backed(c) \/ dropped[c]

(* The check of the monthly limit is not atomic with the increment: the    *)
(* overshoot is at most one call per other slot.                           *)
OvershootBounded == callsUsed <= CallLimit + Cardinality(Workers) - 1

(* The daily cap on automatic retries holds as long as no second job of    *)
(* the contact was in flight and no request for its counter failed that    *)
(* day.                                                                    *)
DailyCapWhenAlone ==
  \A c \in Contacts : ~disturbed[c] => retriesToday[c] <= MaxDailyRetries

(* A job in the queue waits for ever only for a phone call that does not   *)
(* return: its own, or one in every slot.  Neither a crash, nor a lock     *)
(* left behind by a call, nor one stuck slot keeps the others from it.     *)
InCall(j) == \E w \in Workers : pc[w] = "call" /\ job[w] = j
NoFreeSlot == \A w \in Workers : pc[w] = "call"
JobsEnd ==
  \A j \in Jobs : jobState[j] # "free" ~> jobState[j] = "free" \/ InCall(j) \/ NoFreeSlot
=============================================================================
