------------------------------ MODULE AgentSync ------------------------------
(***************************************************************************)
(* voiceagent-saas/agent-sync-processor.js: BullMQ jobs bring the agent    *)
(* that ElevenLabs keeps for a campaign in line with the campaign's row.   *)
(* Five jobs may run side by side.  A job takes a snapshot of the row,     *)
(* marks it provisioning, talks to ElevenLabs and writes the result, each  *)
(* write only if sync_version is still that of the snapshot.               *)
(*                                                                         *)
(* One campaign.  What a row says is a number, content, that every edit    *)
(* raises; sync_version is raised by a trigger, for some columns only.     *)
(* The jobs of a campaign share one job id, Stable, except those of a      *)
(* script that gives none.  Operators' scripts act on the row and on       *)
(* ElevenLabs without a job.                                               *)
(***************************************************************************)
EXTENDS Naturals, FiniteSets

CONSTANTS
  Agents,      \* ids that ElevenLabs can give; BOUND on the creations
  None,
  Jobs,        \* slots for jobs in Redis
  Stable,      \* the job id agent-sync-<campaign>
  Partial,     \* what resync-all-agents.js pushes, which is no row's content
  MaxContent,  \* BOUND: edits of the row
  Faults       \* "http" requests to ElevenLabs fail, "db" requests to the
               \* database fail, "crash" the process stops

ASSUME SyncAssumption ==
  /\ None \notin Agents
  /\ Stable \in Jobs
  /\ MaxContent \in Nat /\ Partial \notin Nat
  /\ Faults \subseteq {"http", "db", "crash"}

VARIABLES
  version,      \* campaigns.sync_version
  content,      \* what the columns that make up the agent say
  voice,        \* voice_id is set
  agentId,      \* elevenlabs_agent_id
  agentStatus,  \* agent_status
  live,         \* agents that exist at ElevenLabs
  born,         \* agents ever created there
  config,       \* the content an agent was last given, or Partial
  pc,           \* where a job is: before which request
  action,       \* job.data.action
  snap,         \* the row as the job read it
  found,        \* agentId of handleCreate: the result to write back
  transient,    \* the error of the create request is one that isRetryable knows
  stalledOnce,  \* BullMQ has given the job back once
  resync,       \* the agent to which resync-all-agents.js is about to push
  mixed,        \* history: two jobs, or a job and a script, worked side by side, an
                \* unwatched column was edited during a job, or a search by name
                \* found an agent that its job had not made
  disturbed,    \* history: mixed, or something kept a job from recording the agent
                \* it had made (an edit, a reset, a crash, a failing request)
  readyAt,      \* history: sync_version when ready was last written
  unpushed,     \* history: that ready was written without a push, or a column the
                \* trigger does not know was edited since
  abandoned     \* history: a job ended without having settled the status

rowVars  == <<version, content, voice, agentId, agentStatus>>
elVars   == <<live, born, config>>
jobVars  == <<pc, action, snap, found, transient, stalledOnce>>
histVars == <<mixed, disturbed, readyAt, unpushed, abandoned>>
vars     == <<rowVars, elVars, jobVars, resync, histVars>>

Versions == 0 .. MaxContent
Payloads == Versions \cup {Partial}
Actions  == {"create", "update", "delete"}
Statuses == {"pending", "provisioning", "ready", "failed"}
Running  == {"provision", "post", "list", "patch", "forget", "delete", "clear",
             "success", "markFailed"}
Snapshots == [version : Versions, content : Versions, voice : BOOLEAN,
              agent : Agents \cup {None}]

RowOK ==
  /\ version \in Versions /\ content \in Versions /\ voice \in BOOLEAN
  /\ agentId \in Agents \cup {None}
  /\ agentStatus \in Statuses

ElevenLabsOK ==
  /\ live \subseteq born /\ born \subseteq Agents
  /\ config \in [Agents -> Payloads]

JobsOK ==
  /\ pc \in [Jobs -> Running \cup {"none", "waiting", "done"}]
  /\ action \in [Jobs -> Actions]
  /\ snap \in [Jobs -> Snapshots]
  /\ found \in [Jobs -> Agents \cup {None}]
  /\ transient \in [Jobs -> BOOLEAN]
  /\ stalledOnce \in [Jobs -> BOOLEAN]

TypeOK ==
  /\ RowOK /\ ElevenLabsOK /\ JobsOK
  /\ resync \in Agents \cup {None}
  /\ {mixed, disturbed, unpushed, abandoned} \subseteq BOOLEAN
  /\ readyAt \in Versions

(* What a job knows before it has read the row and after it has ended.     *)
Blank == [version |-> 0, content |-> 0, voice |-> TRUE, agent |-> None]
Row   == [version |-> version, content |-> content, voice |-> voice, agent |-> agentId]

(* A campaign that was never synchronised.                                 *)
Init ==
  /\ version = 0 /\ content = 0 /\ voice = TRUE
  /\ agentId = None /\ agentStatus = "pending"
  /\ live = {} /\ born = {} /\ config = [a \in Agents |-> 0]
  /\ pc = [j \in Jobs |-> "none"]
  /\ action = [j \in Jobs |-> "create"]
  /\ snap = [j \in Jobs |-> Blank]
  /\ found = [j \in Jobs |-> None]
  /\ transient = [j \in Jobs |-> FALSE]
  /\ stalledOnce = [j \in Jobs |-> FALSE]
  /\ resync = None
  /\ mixed = FALSE /\ disturbed = FALSE /\ readyAt = 0 /\ unpushed = FALSE /\ abandoned = FALSE

Active(j)  == pc[j] \in Running
SomeActive == \E j \in Jobs : Active(j)
Pending    == {j \in Jobs : pc[j] \in Running \cup {"waiting"}}
(* BOUND: every job still to run can create an agent.                      *)
RoomFor(n) == Cardinality(Agents \ born) >= Cardinality(Pending) + n

Mix(b) == mixed' = (mixed \/ b) /\ disturbed' = (disturbed \/ b)
Disturb(b) == disturbed' = (disturbed \/ b) /\ UNCHANGED mixed

Goto(j, label) ==
  /\ pc' = [pc EXCEPT ![j] = label]
  /\ UNCHANGED <<action, snap, found, transient, stalledOnce>>
(* A worker without a "attempts" in the job's options never runs it again: *)
(* defaultJobOptions is an option of queues, which startAgentSyncWorker    *)
(* gives to the worker.                                                    *)
Leave(j) ==
  /\ pc' = [pc EXCEPT ![j] = "done"]
  /\ action' = [action EXCEPT ![j] = "create"]
  /\ snap' = [snap EXCEPT ![j] = Blank]
  /\ found' = [found EXCEPT ![j] = None]
  /\ transient' = [transient EXCEPT ![j] = FALSE]
  /\ stalledOnce' = [stalledOnce EXCEPT ![j] = FALSE]
GotoWith(j, label, agent) ==
  /\ pc' = [pc EXCEPT ![j] = label]
  /\ found' = [found EXCEPT ![j] = agent]
  /\ UNCHANGED <<action, snap, transient, stalledOnce>>
Await(j, a) ==
  /\ pc' = [pc EXCEPT ![j] = "waiting"]
  /\ action' = [action EXCEPT ![j] = a]
  /\ UNCHANGED <<snap, found, transient, stalledOnce>>

----------------------------------------------------------------------------
(* Producers.  BullMQ ignores an id that it still knows, finished or not.  *)

(* The dashboard's server actions, which keep to the producer contract.    *)
AddStable(a) ==
  IF pc[Stable] = "none" THEN Await(Stable, a) ELSE UNCHANGED jobVars
Enqueue(a) ==
  /\ RoomFor(1)
  /\ AddStable(a)
  /\ UNCHANGED <<rowVars, elVars, resync, histVars>>

(* enqueue-agent-sync.js gives no job id.                                  *)
EnqueuePlain(j) ==
  /\ j # Stable /\ pc[j] = "none"
  /\ RoomFor(1)
  /\ Await(j, "create")
  /\ UNCHANGED <<rowVars, elVars, resync, histVars>>

(* reset-campaign-el-agent-sync.js clears the row, whatever its version,   *)
(* and asks for a new agent under the stable id; the old agent stays.      *)
Reset ==
  /\ RoomFor(1)
  /\ agentId' = None /\ agentStatus' = "pending"
  /\ AddStable("create")
  /\ Disturb(agentId # None \/ SomeActive)
  /\ abandoned' = FALSE
  /\ UNCHANGED <<version, content, voice, elVars, resync, readyAt, unpushed>>

(* Finished jobs stay in Redis until somebody removes them.                *)
Clean(j) ==
  /\ pc[j] = "done"
  /\ Goto(j, "none")
  /\ UNCHANGED <<rowVars, elVars, resync, histVars>>

----------------------------------------------------------------------------
(* Edits of the row *)

(* The trigger raises sync_version; saving the settings enqueues nothing.  *)
Edit ==
  /\ content < MaxContent
  /\ content' = content + 1
  /\ version' = version + 1
  /\ voice' \in BOOLEAN
  /\ Disturb(SomeActive)
  /\ UNCHANGED <<agentId, agentStatus, elVars, jobVars, resync, readyAt, unpushed,
                 abandoned>>

(* system_prompt and first_message go into the agent, but the trigger does *)
(* not watch them.                                                         *)
EditUnwatched ==
  /\ content < MaxContent
  /\ content' = content + 1
  /\ unpushed' = TRUE
  /\ Mix(SomeActive)
  /\ UNCHANGED <<version, voice, agentId, agentStatus, elVars, jobVars, resync,
                 readyAt, abandoned>>

----------------------------------------------------------------------------
(* A job *)

ReadRow(j) ==
  /\ pc[j] = "waiting"
  /\ \/ /\ pc' = [pc EXCEPT ![j] = "provision"]
        /\ snap' = [snap EXCEPT ![j] = Row]
        /\ Mix(SomeActive \/ resync # None)
        /\ UNCHANGED <<action, found, transient, stalledOnce>>
     \/ /\ "db" \in Faults  \* acknowledged all the same
        /\ Leave(j)
        /\ UNCHANGED <<mixed, disturbed>>
  /\ UNCHANGED <<rowVars, elVars, resync, readyAt, unpushed, abandoned>>

(* An update of the row that is compared with the snapshot: it applies,    *)
(* finds a newer version, or fails.                                        *)
(* Mutant of Current: the update is not compared with the snapshot.       *)
Unconditional(j) == TRUE

Current(j) == version = snap[j].version

(* The first request after the row is marked.                              *)
FirstStep(j) ==
  CASE action[j] # "delete" /\ ~snap[j].voice           -> "markFailed"
    [] action[j] = "delete" /\ snap[j].agent = None     -> "clear"
    [] action[j] = "delete" /\ snap[j].agent # None     -> "delete"
    [] action[j] = "create" /\ snap[j].voice /\ snap[j].agent # None -> "success"
    [] action[j] = "update" /\ snap[j].voice /\ snap[j].agent # None -> "patch"
    [] OTHER                                            -> "post"

Provision(j) ==
  /\ pc[j] = "provision"
  /\ \/ /\ Current(j)
        /\ agentStatus' = "provisioning"
        /\ GotoWith(j, FirstStep(j), snap[j].agent)
        /\ abandoned' = FALSE
     \/ /\ ~Current(j) \/ "db" \in Faults  \* "newer job queued", or thrown
        /\ Leave(j)
        /\ abandoned' = TRUE
        /\ UNCHANGED agentStatus
  /\ UNCHANGED <<version, content, voice, agentId, elVars, resync, mixed,
                 disturbed, readyAt, unpushed>>

NewAgent(a, j) ==
  /\ a \notin born
  /\ born' = born \cup {a}
  /\ live' = live \cup {a}
  /\ config' = [config EXCEPT ![a] = snap[j].content]

(* POST: created, refused, or an error of which nobody knows whether the   *)
(* agent was created (a timeout, a lost connection, a 5xx); found then     *)
(* keeps it for the history only.                                          *)
Post(j) ==
  /\ pc[j] = "post"
  /\ \/ \E a \in Agents : NewAgent(a, j) /\ GotoWith(j, "success", a)
     \/ /\ "http" \in Faults
        /\ Goto(j, "markFailed")
        /\ UNCHANGED elVars
     \/ /\ "http" \in Faults
        /\ \/ \E a \in Agents :
                /\ NewAgent(a, j)
                /\ found' = [found EXCEPT ![j] = a]
           \/ UNCHANGED <<elVars, found>>
        /\ pc' = [pc EXCEPT ![j] = "list"]
        /\ \E t \in BOOLEAN : transient' = [transient EXCEPT ![j] = t]
        /\ UNCHANGED <<action, snap, stalledOnce>>
  /\ UNCHANGED <<rowVars, resync, histVars>>

(* Without an agent to use the original error is thrown on: a timeout ends *)
(* the job, anything else marks the row.                                   *)
Rethrow(j) ==
  IF transient[j] THEN Leave(j) /\ abandoned' = TRUE
                  ELSE Goto(j, "markFailed") /\ UNCHANGED abandoned

(* Mutant of List: the error is thrown at once.                            *)
ListNever(j) ==
  /\ pc[j] = "list"
  /\ Rethrow(j)
  /\ UNCHANGED <<rowVars, elVars, resync, mixed, disturbed, readyAt, unpushed>>

(* Every agent of the campaign has the same name.                          *)
List(j) ==
  /\ pc[j] = "list"
  /\ \/ /\ \E a \in live : GotoWith(j, "success", a) /\ Mix(a # found[j])
        /\ UNCHANGED abandoned
     \/ /\ live = {} \/ "http" \in Faults
        /\ Rethrow(j)
        /\ Disturb(live # {})
  /\ UNCHANGED <<rowVars, elVars, resync, readyAt, unpushed>>

(* PATCH of the snapshot's agent.                                          *)
Patch(j) ==
  LET a == snap[j].agent
      push == config' = [config EXCEPT ![a] = snap[j].content]
  IN
  /\ pc[j] = "patch"
  /\ \/ /\ a \in live
        /\ push
        /\ Goto(j, "success")
        /\ UNCHANGED abandoned
     \/ /\ a \notin live  \* 404
        /\ Goto(j, "forget")
        /\ UNCHANGED <<config, abandoned>>
     \/ /\ "http" \in Faults
        /\ \/ a \in live /\ push
           \/ UNCHANGED config
        /\ \/ Goto(j, "markFailed") /\ UNCHANGED abandoned
           \/ Leave(j) /\ abandoned' = TRUE
  /\ UNCHANGED <<rowVars, live, born, resync, mixed, disturbed, readyAt, unpushed>>

(* The id is cleared; nobody looks whether that worked.                    *)
Forget(j) ==
  /\ pc[j] = "forget"
  /\ \/ Current(j) /\ agentId' = None
     \/ ~Current(j) /\ UNCHANGED agentId
     \/ "db" \in Faults /\ UNCHANGED agentId
  /\ pc' = [pc EXCEPT ![j] = "post"]
  /\ snap' = [snap EXCEPT ![j].agent = None]
  /\ UNCHANGED <<version, content, voice, agentStatus, elVars, action, found,
                 transient, stalledOnce, resync, histVars>>

(* DELETE: a 404 is as good as an answer.                                  *)
Delete(j) ==
  /\ pc[j] = "delete"
  /\ \/ /\ live' = live \ {snap[j].agent}
        /\ Goto(j, "clear")
        /\ UNCHANGED abandoned
     \/ /\ "http" \in Faults
        /\ live' \in {live, live \ {snap[j].agent}}
        /\ \/ Goto(j, "markFailed") /\ UNCHANGED abandoned
           \/ Leave(j) /\ abandoned' = TRUE
  /\ UNCHANGED <<rowVars, born, config, resync, mixed, disturbed, readyAt, unpushed>>

(* A write of the status that ends the job: st and id if it applies.  The  *)
(* callers differ in what they do with an error.                           *)
Settle(j, st, id) ==
  \/ /\ Current(j)
     /\ agentStatus' = st /\ agentId' = id
     /\ Leave(j)
     /\ abandoned' = FALSE
  \/ /\ ~Current(j)
     /\ UNCHANGED <<agentStatus, agentId>>
     /\ Leave(j)
     /\ abandoned' = TRUE
SettleFails(j) ==
  /\ "db" \in Faults
  /\ UNCHANGED <<agentStatus, agentId>>
  /\ Leave(j)
  /\ abandoned' = TRUE

Clear(j) ==
  /\ pc[j] = "clear"
  /\ Settle(j, "pending", None) \/ SettleFails(j)
  /\ UNCHANGED <<version, content, voice, elVars, resync, mixed, disturbed, readyAt, unpushed>>

(* Mutant of MarkFailed: the failure is only logged.                       *)
MarkFailedLogs(j) ==
  /\ pc[j] = "markFailed"
  /\ Leave(j)
  /\ UNCHANGED <<rowVars, elVars, resync, histVars>>

MarkFailed(j) ==
  /\ pc[j] = "markFailed"
  /\ Settle(j, "failed", agentId) \/ SettleFails(j)
  /\ UNCHANGED <<version, content, voice, elVars, resync, mixed, disturbed, readyAt, unpushed>>

(* The agent of the result gets into the row only here; when it does not   *)
(* (a newer version, an error), the agent stays where it is.               *)
WriteSuccess(j) ==
  /\ pc[j] = "success"
  /\ \/ /\ Settle(j, "ready", found[j])
        /\ IF Current(j)
             THEN /\ readyAt' = version
                  /\ unpushed' = (action[j] = "create" /\ snap[j].agent # None)
             ELSE UNCHANGED <<readyAt, unpushed>>
        /\ UNCHANGED <<mixed, disturbed>>
     \/ /\ "db" \in Faults  \* thrown, and not retryable
        /\ Goto(j, "markFailed")
        /\ Disturb(agentId # found[j])
        /\ UNCHANGED <<agentStatus, agentId, readyAt, unpushed, abandoned>>
  /\ UNCHANGED <<version, content, voice, elVars, resync>>

----------------------------------------------------------------------------
(* Crashes and operators *)

(* The process stops: BullMQ gives its jobs back once and then fails them. *)
Crash ==
  /\ "crash" \in Faults
  /\ SomeActive
  /\ RoomFor(1)
  /\ pc' = [j \in Jobs |-> IF ~Active(j) THEN pc[j]
                           ELSE IF stalledOnce[j] THEN "done" ELSE "waiting"]
  /\ stalledOnce' = [j \in Jobs |-> Active(j) /\ ~stalledOnce[j]]
  /\ snap' = [j \in Jobs |-> Blank]
  /\ found' = [j \in Jobs |-> None]
  /\ transient' = [j \in Jobs |-> FALSE]
  /\ Disturb(TRUE)
  /\ abandoned' = TRUE
  /\ UNCHANGED <<rowVars, elVars, action, resync, readyAt, unpushed>>

(* resync-all-agents.js reads the rows and pushes them one by one, with    *)
(* half a second between two, and looks at no version.                     *)
ResyncRead ==
  /\ resync = None /\ agentId # None
  /\ resync' = agentId
  /\ Mix(SomeActive)
  /\ UNCHANGED <<rowVars, elVars, jobVars, readyAt, unpushed, abandoned>>

(* Its payload is its own, and no row's content: the prompt is the column  *)
(* script even where there is a system_prompt, the tools are stubs without *)
(* parameters, and first_message and turn are not in it.                   *)
PushPartial(a) == config' = [config EXCEPT ![a] = Partial]

ResyncPush ==
  /\ resync # None
  /\ \/ resync \in live /\ PushPartial(resync)
     \/ /\ resync \notin live \/ "http" \in Faults  \* refused, or never arrived
        /\ UNCHANGED config
  /\ resync' = None
  /\ UNCHANGED <<rowVars, live, born, jobVars, histVars>>

(* delete-el-agent.js deletes at ElevenLabs and leaves the row.            *)
DeleteScript(a) ==
  /\ a \in live
  /\ live' = live \ {a}
  /\ UNCHANGED <<rowVars, born, config, jobVars, resync, histVars>>

----------------------------------------------------------------------------
Run(j) ==
  \/ ReadRow(j) \/ Provision(j) \/ Post(j) \/ List(j) \/ Patch(j) \/ Forget(j)
  \/ Delete(j) \/ Clear(j) \/ MarkFailed(j) \/ WriteSuccess(j)

Operators ==
  \/ \E a \in Actions : Enqueue(a)
  \/ \E j \in Jobs : EnqueuePlain(j) \/ Clean(j)
  \/ Reset \/ Edit \/ EditUnwatched \/ ResyncRead \/ ResyncPush
  \/ \E a \in Agents : DeleteScript(a)

Next == (\E j \in Jobs : Run(j)) \/ Operators \/ Crash

Spec == Init /\ [][Next]_vars

----------------------------------------------------------------------------
(* Properties *)

(* Without overlapping jobs, edits during a job, resets, crashes or a      *)
(* failing search, ElevenLabs never has two agents of one campaign: the    *)
(* short-circuit, the search by name and the write-back together replace   *)
(* the idempotency key that its API lacks.                                 *)
OneAgentWhenAlone ==
  ~disturbed => \A a, b \in live : a = b

(* Under the same conditions no agent is forgotten: one that exists is in  *)
(* the row, or a running job is about to put it there or take it away.     *)
NoOrphanWhenAlone ==
  ~disturbed => \A a \in live :
    \/ agentId = a
    \/ \E j \in Jobs : (pc[j] = "success" /\ found[j] = a) \/ pc[j] = "list"

(* The types, and both: no second agent, and none forgotten.               *)
AgentsSafe == TypeOK /\ OneAgentWhenAlone /\ NoOrphanWhenAlone

(* Neither jobs nor scripts that work side by side, nor an unwatched edit, *)
(* have spoilt the status ready.                                           *)
ReadyStands ==
  ~mixed /\ ~unpushed /\ agentStatus = "ready" /\ version = readyAt

(* A ready row of unchanged version has an agent that was given what the   *)
(* row says, unless ready came from the short-circuit of create, an        *)
(* unwatched column was edited, or the bulk script pushed its own payload  *)
(* over it: edits, resets and crashes in the middle of a job never let an  *)
(* answer to an older row pass for one to the newer.                       *)
ReadyIsPushed ==
  ReadyStands => agentId # None /\ config[agentId] \in {content, Partial}

(* A row is left in provisioning with no job to come only by a job that    *)
(* lost its compare-and-set, timed out, failed to write, or stalled twice: *)
(* every refusal by ElevenLabs ends in a status that a user can see.       *)
ProvisioningExplained ==
  (agentStatus = "provisioning" /\ Pending = {}) => abandoned

=============================================================================
