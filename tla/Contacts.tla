----------------------------- MODULE Contacts -----------------------------
(***************************************************************************)
(* What the dashboard's routes do to one person's data, against each other *)
(* and against a call: the contact row of his number, its enrolment in a   *)
(* campaign, the call jobs, the calls and their recordings.  Each route is *)
(* a sequence of requests to the database with an await between them; the  *)
(* lead webhook reads the contact and writes all of it back; the deletion  *)
(* of a data subject runs over five tables and a bucket; a caller may opt  *)
(* out at any time.                                                        *)
(*                                                                         *)
(* Calls are those of the worker of CallJobs or LegacyCall, reduced to     *)
(* what they do to these tables.  Left out: phone numbers, CSV parsing,    *)
(* the audit log, retries (CallJobs), schedules and limits (a job may be   *)
(* turned away).                                                           *)
(***************************************************************************)
EXTENDS Naturals, FiniteSets

CONSTANTS
    Engine,     \* who takes the jobs: "legacy" or "saas"
    Leads,      \* posts of the lead webhook, all for the person's number
    MaxIds,     \* contact rows his number ever gets (bound)
    MaxCalls,   \* calls (bound)
    MaxJobs,    \* jobs of one contact in the queue (bound)
    MaxFaults   \* failing requests (bound)

ASSUME ContactsAssumption ==
    /\ Engine \in {"legacy", "saas"}
    /\ MaxIds \in Nat /\ MaxCalls \in Nat /\ MaxJobs \in Nat /\ MaxFaults \in Nat

VARIABLES
    contact,   \* the row of contacts with the person's number, if any
    ids,       \* contact ids given out
    cc,        \* its row of campaign_contacts
    campaign,  \* the campaign's status, and whether its webhook is enabled
    jobs,      \* jobs in the queue, by the contact id they name
    lead,      \* the webhook posts
    route,     \* the launch or quick-call route (one at a time)
    erase,     \* the data subject deletion
    run,       \* the job the worker has taken
    rows,      \* the rows of calls, and whether they name a recording
    store,     \* recordings of the legacy engine, in its bucket
    faults,
    hist       \* history, for the properties

vars == <<contact, ids, cc, campaign, jobs, lead, route, erase, run,
          rows, store, faults, hist>>
calling == <<run, rows, store>>

Ids == 1..MaxIds
Calls == 1..MaxCalls

(* data: what is known of the person, collected before ("old") or after    *)
(* ("new") his data were deleted.                                          *)
NoContact == [id |-> 0, dnc |-> FALSE, data |-> "none"]
Idle == [pc |-> "idle", id |-> 0]
NoCc == [id |-> 0, st |-> "none"]

(* opted: the person has asked not to be called; unsaved: that was not     *)
(* stored; gone: a lead or the deletion took it away; dropped: a job of    *)
(* his was turned away, or enrolled and never queued, since the last one   *)
(* was queued; revived: deleted data were written back; spared: a job of   *)
(* his ran when the deletion listed his calls, or a recording came         *)
(* afterwards, or a request about recordings failed.                       *)
Init ==
    /\ contact = NoContact /\ ids = 0 /\ cc = NoCc
    /\ campaign = [st |-> "none", hook |-> FALSE]
    /\ jobs = [i \in Ids |-> 0]
    /\ lead = [l \in Leads |-> [pc |-> "idle", read |-> NoContact, id |-> 0]]
    /\ route = Idle
    /\ erase = [pc |-> "idle", id |-> 0, listed |-> {}, any |-> FALSE]
    /\ run = [pc |-> "idle", id |-> 0, call |-> 0, optedOut |-> FALSE]
    /\ rows = [n \in Calls |-> [id |-> 0, path |-> FALSE]]
    /\ store = {}
    /\ faults = 0
    /\ hist = [opted |-> FALSE, unsaved |-> FALSE, gone |-> FALSE, dropped |-> FALSE,
               revived |-> FALSE, spared |-> FALSE]

Fault == faults < MaxFaults /\ faults' = faults + 1
Fresh == IF erase.pc = "done" THEN "new" ELSE "old"

(* upsert on (tenant_id, phone): the row keeps its id and the columns that *)
(* are not given.                                                          *)
Upsert(dnc, data) ==
    IF contact.id = 0
    THEN /\ ids < MaxIds
         /\ ids' = ids + 1
         /\ contact' = [id |-> ids + 1, dnc |-> dnc, data |-> data]
    ELSE /\ contact' = [contact EXCEPT !.dnc = dnc, !.data = data]
         /\ UNCHANGED ids

(* Whatever was known of the person, merged with what is new.              *)
Merged(r) == IF r.data = "none" THEN Fresh ELSE r.data

Enqueue(i) ==
    /\ jobs[i] < MaxJobs
    /\ jobs' = [jobs EXCEPT ![i] = @ + 1]
    /\ hist' = [hist EXCEPT !.dropped = @ /\ i # contact.id]

-----------------------------------------------------------------------------
(* CAMPAIGN, UPLOAD, LAUNCH, QUICK CALL                                    *)

(* A file of contacts: name, email and fields are replaced.                *)
Upload ==
    /\ Upsert(contact.dnc, Fresh)
    /\ UNCHANGED <<cc, campaign, jobs, lead, route, erase, calling, faults, hist>>

(* The campaign, one in this model, is created active; the contacts' ids   *)
(* come from an upload.                                                    *)
Launch ==
    /\ route.pc = "idle" /\ contact.id # 0
    /\ campaign.st = "none"
    /\ campaign' = [campaign EXCEPT !.st = "active"]
    /\ route' = [pc |-> "launched", id |-> contact.id]
    /\ UNCHANGED <<contact, ids, cc, jobs, lead, erase, calling, faults, hist>>

(* The insert fails when a contact is gone by now (foreign key).           *)
LaunchEnrolls ==
    /\ route.pc = "launched"
    /\ IF contact.id = route.id
       THEN /\ cc' = IF cc.id = 0 THEN [id |-> contact.id, st |-> "pending"] ELSE cc
            /\ route' = [route EXCEPT !.pc = "launchEnrolled"]
       ELSE /\ route' = Idle
            /\ UNCHANGED cc
    /\ UNCHANGED <<contact, ids, campaign, jobs, lead, erase, calling, faults, hist>>

LaunchEnqueues ==
    /\ route.pc = "launchEnrolled"
    /\ Enqueue(route.id)
    /\ route' = Idle
    /\ UNCHANGED <<contact, ids, cc, campaign, lead, erase, calling, faults>>

(* Enabling needs a secret; rotating the secret enables.                   *)
ConfigureWebhook ==
    /\ campaign.st # "none"
    /\ campaign' = [campaign EXCEPT !.hook = ~@]
    /\ UNCHANGED <<contact, ids, cc, jobs, lead, route, erase, calling, faults, hist>>

Pause ==
    /\ campaign.st = "active"
    /\ campaign' = [campaign EXCEPT !.st = "paused"]
    /\ UNCHANGED <<contact, ids, cc, jobs, lead, route, erase, calling, faults, hist>>

(* Every pending contact is queued again, queued already or not.  The      *)
(* requests of the route are one step; where the query (not looked at) or  *)
(* the queue fails, the campaign is active and nobody is queued.           *)
Resume ==
    /\ campaign.st = "paused"
    /\ campaign' = [campaign EXCEPT !.st = "active"]
    /\ \/ /\ IF cc.st = "pending" THEN Enqueue(cc.id) ELSE UNCHANGED <<jobs, hist>>
          /\ UNCHANGED faults
       \/ Fault /\ UNCHANGED <<jobs, hist>>
    /\ UNCHANGED <<contact, ids, cc, lead, route, erase, calling>>

(* The name is replaced, the rest of the row stays.                        *)
Quick ==
    /\ route.pc = "idle" /\ campaign.st # "none"
    /\ Upsert(contact.dnc, Merged(contact))
    /\ route' = [pc |-> "quick", id |-> contact'.id]
    /\ UNCHANGED <<cc, campaign, jobs, lead, erase, calling, faults, hist>>

(* The enrolment goes back to pending whatever it was.                     *)
QuickEnrolls ==
    /\ route.pc = "quick"
    /\ IF contact.id = route.id
       THEN /\ cc' = [id |-> contact.id, st |-> "pending"]
            /\ route' = [route EXCEPT !.pc = "quickEnrolled"]
       ELSE /\ route' = Idle
            /\ UNCHANGED cc
    /\ UNCHANGED <<contact, ids, campaign, jobs, lead, erase, calling, faults, hist>>

QuickEnqueues ==
    /\ route.pc = "quickEnrolled"
    /\ Enqueue(route.id)
    /\ route' = Idle
    /\ UNCHANGED <<contact, ids, cc, campaign, lead, erase, calling, faults>>

(* A request of either route fails: 500.                                   *)
RouteFails ==
    /\ route.pc # "idle"
    /\ Fault
    /\ route' = Idle
    /\ hist' = [hist EXCEPT !.dropped = TRUE]
    /\ UNCHANGED <<contact, ids, cc, campaign, jobs, lead, erase, calling>>

-----------------------------------------------------------------------------
(* THE LEAD WEBHOOK                                                        *)

LeadGoto(l, pc) == lead' = [lead EXCEPT ![l].pc = pc]
LeadOver(l) == lead' = [lead EXCEPT ![l] = [pc |-> "done", read |-> NoContact, id |-> 0]]

(* Campaign, secret and payload are in order.  A rejected lead changes     *)
(* nothing here.                                                           *)
LeadAccepted(l) ==
    /\ lead[l].pc = "idle"
    /\ campaign.st = "active" /\ campaign.hook
    /\ LeadGoto(l, "accepted")
    /\ UNCHANGED <<contact, ids, cc, campaign, jobs, route, erase, calling, faults, hist>>

LeadReads(l) ==
    /\ lead[l].pc = "accepted"
    /\ lead' = [lead EXCEPT ![l].pc = "read", ![l].read = contact]
    /\ UNCHANGED <<contact, ids, cc, campaign, jobs, route, erase, calling, faults, hist>>

(* What upsertOne is given: dnc as it was read, and the merged data.       *)
LeadDncForgetful(r) == FALSE
LeadDnc(r) == r.dnc

LeadUpserts(l) ==
    /\ lead[l].pc = "read"
    /\ LET r == lead[l].read IN
         /\ Upsert(LeadDnc(r), Merged(r))
         /\ lead' = [lead EXCEPT ![l].pc = "saved", ![l].id = contact'.id,
                                 ![l].read = NoContact]
         /\ hist' = [hist EXCEPT
              !.gone = @ \/ (contact.dnc /\ ~r.dnc),
              !.revived = @ \/ (r.id # 0 /\ r.id # contact.id)]
    /\ UNCHANGED <<cc, campaign, jobs, route, erase, calling, faults>>

(* Already enrolled, the lead is accepted and not queued.                  *)
LeadEnrolled(l) ==
    /\ lead[l].pc = "saved"
    /\ cc.id = lead[l].id
    /\ LeadOver(l)
    /\ UNCHANGED <<contact, ids, cc, campaign, jobs, route, erase, calling, faults, hist>>

LeadLooks(l) ==
    /\ lead[l].pc = "saved"
    /\ cc.id # lead[l].id
    /\ LeadGoto(l, "looked")
    /\ UNCHANGED <<contact, ids, cc, campaign, jobs, route, erase, calling, faults, hist>>

LeadEnrollsOver(l) ==
    /\ lead[l].pc = "looked"
    /\ IF contact.id = lead[l].id
       THEN /\ cc' = [id |-> contact.id, st |-> "pending"]
            /\ LeadOver(l)
       ELSE /\ LeadOver(l)
            /\ UNCHANGED cc
    /\ UNCHANGED <<contact, ids, campaign, jobs, route, erase, calling, faults, hist>>

(* A plain insert: the second of two leads fails here.                     *)
LeadEnrolls(l) ==
    /\ lead[l].pc = "looked"
    /\ IF contact.id = lead[l].id /\ cc.id = 0
       THEN /\ cc' = [id |-> contact.id, st |-> "pending"]
            /\ LeadGoto(l, "enrolled")
       ELSE /\ LeadOver(l)
            /\ UNCHANGED cc
    /\ UNCHANGED <<contact, ids, campaign, jobs, route, erase, calling, faults, hist>>

LeadEnqueues(l) ==
    /\ lead[l].pc = "enrolled"
    /\ Enqueue(lead[l].id)
    /\ LeadOver(l)
    /\ UNCHANGED <<contact, ids, cc, campaign, route, erase, calling, faults>>

(* A request fails: 500, and the sender may post the lead again, which     *)
(* finds it enrolled.                                                      *)
LeadFails(l) ==
    /\ lead[l].pc \in {"accepted", "read", "saved", "looked", "enrolled"}
    /\ Fault
    /\ LeadOver(l)
    /\ hist' = [hist EXCEPT !.dropped = @ \/ lead[l].pc = "enrolled"]
    /\ UNCHANGED <<contact, ids, cc, campaign, jobs, route, erase, calling>>

-----------------------------------------------------------------------------
(* THE CALL                                                                *)

(* The legacy engine reads and writes is_dnc, and takes a contact that is  *)
(* gone for one who must not be called.  The other engine reads and writes *)
(* a column dnc_status, which the schema does not have: the read gives     *)
(* nothing, the write is refused, neither error is looked at.              *)
IsDnc(i) ==
    IF Engine = "legacy" THEN contact.id # i \/ contact.dnc ELSE FALSE

(* The tool mark_opt_out, in a call.  markDnc throws when its request      *)
(* fails; the tool answers with an error, and the call goes on.            *)
OptOut ==
    /\ run.pc = "calling" /\ ~hist.opted
    /\ \/ /\ contact' = IF Engine = "legacy" /\ contact.id = run.id
                        THEN [contact EXCEPT !.dnc = TRUE] ELSE contact
          /\ hist' = [hist EXCEPT !.opted = TRUE]
          /\ UNCHANGED faults
       \/ /\ Fault
          /\ hist' = [hist EXCEPT !.opted = TRUE, !.unsaved = TRUE]
          /\ UNCHANGED contact
    /\ UNCHANGED <<ids, cc, campaign, jobs, lead, route, erase, calling>>

TakeJob(i) ==
    /\ run.pc = "idle" /\ jobs[i] > 0
    /\ jobs' = [jobs EXCEPT ![i] = @ - 1]
    /\ run' = [run EXCEPT !.pc = "taken", !.id = i]
    /\ UNCHANGED <<contact, ids, cc, campaign, lead, route, erase, rows, store, faults, hist>>

LeaveJob == run' = [pc |-> "idle", id |-> 0, call |-> 0, optedOut |-> FALSE]
SetCc(st) == cc' = IF cc.id = run.id THEN [cc EXCEPT !.st = st] ELSE cc

(* Rows missing, campaign not active (the saas worker does not ask), hours *)
(* or limit: the job is over.                                              *)
TurnedAway ==
    /\ run.pc = "taken"
    /\ LeaveJob
    /\ hist' = [hist EXCEPT !.dropped = TRUE]
    /\ UNCHANGED <<contact, ids, cc, campaign, jobs, lead, route, erase, rows, store, faults>>

Dnc ==
    /\ run.pc = "taken" /\ IsDnc(run.id)
    /\ SetCc("dnc")
    /\ LeaveJob
    /\ UNCHANGED <<contact, ids, campaign, jobs, lead, route, erase, rows, store, faults, hist>>

Callable ==
    /\ run.pc = "taken" /\ ~IsDnc(run.id)
    /\ Engine = "legacy" => campaign.st = "active"
    /\ run' = [run EXCEPT !.pc = "checked", !.optedOut = hist.opted]
    /\ UNCHANGED <<contact, ids, cc, campaign, jobs, lead, route, erase, rows, store, faults, hist>>

(* The row refers to contact and enrolment: without them the insert fails, *)
(* and the job with it.                                                    *)
CreateCall ==
    /\ run.pc = "checked"
    /\ IF contact.id = run.id /\ cc.id = run.id
       THEN \E n \in Calls :
              /\ rows[n].id = 0 /\ \A r \in store : r.call # n
              /\ \A k \in 1..(n - 1) : rows[k].id # 0 \/ \E r \in store : r.call = k
              /\ rows' = [rows EXCEPT ![n] = [id |-> run.id, path |-> FALSE]]
              /\ run' = [run EXCEPT !.pc = "calling", !.call = n]
              /\ SetCc("calling")
              /\ UNCHANGED hist
       ELSE /\ LeaveJob
            /\ hist' = [hist EXCEPT !.dropped = TRUE]
            /\ UNCHANGED <<rows, cc>>
    /\ UNCHANGED <<contact, ids, campaign, jobs, lead, route, erase, store, faults>>

(* The row gets its end; an update of a row that is gone throws, and the   *)
(* job fails.                                                              *)
CallEnds ==
    /\ run.pc = "calling"
    /\ IF rows[run.call].id = run.id
       THEN /\ run' = [run EXCEPT !.pc = "ended"]
            /\ UNCHANGED hist
       ELSE /\ LeaveJob
            /\ hist' = [hist EXCEPT !.dropped = TRUE]
    /\ UNCHANGED <<contact, ids, cc, campaign, jobs, lead, route, erase, rows, store, faults>>

(* The legacy engine puts the recording into the bucket, then its path     *)
(* into the row, if it is still there; an error is logged.  The other      *)
(* engine's come by the webhook of Conversations, into a bucket and under  *)
(* a column that the deletion does not read: they are not modelled here.   *)
UploadRecording ==
    /\ Engine = "legacy" /\ run.pc = "ended"
    /\ store' = store \cup {[call |-> run.call, of |-> run.id]}
    /\ run' = [run EXCEPT !.pc = "uploaded"]
    /\ hist' = [hist EXCEPT !.spared =
                  @ \/ (run.id = erase.id /\ erase.pc \notin {"idle", "found"})]
    /\ UNCHANGED <<contact, ids, cc, campaign, jobs, lead, route, erase, rows, faults>>

SavePath ==
    /\ run.pc = "uploaded"
    /\ \/ /\ rows' = [rows EXCEPT ![run.call].path = rows[run.call].id # 0]
          /\ UNCHANGED <<faults, hist>>
       \/ /\ Fault
          /\ hist' = [hist EXCEPT !.spared = TRUE]
          /\ UNCHANGED rows
    /\ run' = [run EXCEPT !.pc = "over"]
    /\ UNCHANGED <<contact, ids, cc, campaign, jobs, lead, route, erase, store>>

CallOver ==
    /\ run.pc \in {"ended", "over"}
    /\ SetCc("called")
    /\ LeaveJob
    /\ UNCHANGED <<contact, ids, campaign, jobs, lead, route, erase, rows, store, faults, hist>>

-----------------------------------------------------------------------------
(* DELETION OF A DATA SUBJECT                                              *)

EraseGoto(pc) == erase' = [erase EXCEPT !.pc = pc]

Erase ==
    /\ erase.pc = "idle" /\ contact.id # 0
    /\ erase' = [erase EXCEPT !.pc = "found", !.id = contact.id]
    /\ UNCHANGED <<contact, ids, cc, campaign, jobs, lead, route, calling, faults, hist>>

CallsOf(i) == {n \in Calls : rows[n].id = i}
ListedOver(i) == {n \in CallsOf(i) : rows[n].path /\ cc.st = "called"}
Listed(i) == {n \in CallsOf(i) : rows[n].path}

(* A failing query counts as no calls.                                     *)
EraseLists ==
    /\ erase.pc = "found"
    /\ \/ /\ erase' = [erase EXCEPT !.pc = "listed", !.listed = Listed(erase.id),
                                   !.any = CallsOf(erase.id) # {}]
          /\ hist' = [hist EXCEPT !.spared = @ \/ run.id = erase.id]
          /\ UNCHANGED faults
       \/ /\ Fault
          /\ EraseGoto("listed")
          /\ hist' = [hist EXCEPT !.spared = TRUE]
    /\ UNCHANGED <<contact, ids, cc, campaign, jobs, lead, route, calling>>

(* A failing removal is logged and the deletion goes on.                   *)
EraseRecordings ==
    /\ erase.pc = "listed"
    /\ \/ /\ store' = {r \in store : r.call \notin erase.listed}
          /\ UNCHANGED <<faults, hist>>
       \/ /\ erase.listed # {}
          /\ Fault
          /\ hist' = [hist EXCEPT !.spared = TRUE]
          /\ UNCHANGED store
    /\ erase' = [erase EXCEPT !.pc = "removed", !.listed = {}]
    /\ UNCHANGED <<contact, ids, cc, campaign, jobs, lead, route, run, rows>>

NoRow == [id |-> 0, path |-> FALSE]
RowsWithout(i) == [n \in Calls |-> IF rows[n].id = i THEN NoRow ELSE rows[n]]

(* Transcripts and calls, if any were listed; the results of these         *)
(* requests are not looked at.                                             *)
EraseCalls ==
    /\ erase.pc = "removed"
    /\ \/ /\ rows' = IF erase.any THEN RowsWithout(erase.id) ELSE rows
          /\ UNCHANGED faults
       \/ erase.any /\ Fault /\ UNCHANGED rows
    /\ erase' = [erase EXCEPT !.pc = "called", !.any = FALSE]
    /\ UNCHANGED <<contact, ids, cc, campaign, jobs, lead, route, run, store, hist>>

EraseEnrolment ==
    /\ erase.pc = "called"
    /\ \/ cc' = (IF cc.id = erase.id THEN NoCc ELSE cc) /\ UNCHANGED faults
       \/ Fault /\ UNCHANGED cc
    /\ EraseGoto("unenrolled")
    /\ UNCHANGED <<contact, ids, campaign, jobs, lead, route, calling, hist>>

(* The contact's row takes enrolment and calls with it (on delete cascade).*)
EraseContact ==
    /\ erase.pc = "unenrolled"
    /\ contact' = IF contact.id = erase.id THEN NoContact ELSE contact
    /\ cc' = IF cc.id = erase.id THEN NoCc ELSE cc
    /\ rows' = RowsWithout(erase.id)
    /\ hist' = [hist EXCEPT !.gone = TRUE]
    /\ EraseGoto("done")
    /\ UNCHANGED <<ids, campaign, jobs, lead, route, run, store, faults>>

EraseFails ==
    /\ erase.pc \in {"found", "unenrolled"}
    /\ Fault
    /\ EraseGoto("failed")
    /\ UNCHANGED <<contact, ids, cc, campaign, jobs, lead, route, calling, hist>>

-----------------------------------------------------------------------------
Dashboard ==
    \/ Upload \/ Launch \/ LaunchEnrolls \/ LaunchEnqueues \/ ConfigureWebhook
    \/ Pause \/ Resume \/ Quick \/ QuickEnrolls \/ QuickEnqueues \/ RouteFails

Lead(l) ==
    \/ LeadAccepted(l) \/ LeadReads(l) \/ LeadUpserts(l) \/ LeadEnrolled(l)
    \/ LeadLooks(l) \/ LeadEnrolls(l) \/ LeadEnqueues(l) \/ LeadFails(l)

Call ==
    \/ OptOut \/ TurnedAway \/ Dnc \/ Callable \/ CreateCall \/ CallEnds
    \/ UploadRecording \/ SavePath \/ CallOver
    \/ \E i \in Ids : TakeJob(i)

Erasure ==
    \/ Erase \/ EraseLists \/ EraseRecordings \/ EraseCalls
    \/ EraseEnrolment \/ EraseContact \/ EraseFails

Next == Dashboard \/ Call \/ Erasure \/ \E l \in Leads : Lead(l)

Spec == Init /\ [][Next]_vars

-----------------------------------------------------------------------------
(* PROPERTIES                                                              *)

TypeOK ==
    /\ contact \in [id : 0..MaxIds, dnc : BOOLEAN, data : {"none", "old", "new"}]
    /\ ids \in 0..MaxIds
    /\ cc \in [id : 0..MaxIds, st : {"none", "pending", "calling", "called", "dnc"}]
    /\ campaign \in [st : {"none", "active", "paused"}, hook : BOOLEAN]
    /\ jobs \in [Ids -> 0..MaxJobs]
    /\ \A l \in Leads :
         /\ lead[l].pc \in {"idle", "accepted", "read", "saved", "looked",
                            "enrolled", "done"}
         /\ lead[l].id \in 0..MaxIds
    /\ route.pc \in {"idle", "launched", "launchEnrolled", "quick", "quickEnrolled"}
    /\ erase.listed \subseteq Calls
    /\ run.pc \in {"idle", "taken", "checked", "calling", "ended", "uploaded", "over"}
    /\ rows \in [Calls -> [id : 0..MaxIds, path : BOOLEAN]]
    /\ store \subseteq [call : Calls, of : Ids]
    /\ cc.id \in {0, contact.id}

(* Somebody who has opted out is called only if a lead that had read his   *)
(* row before wrote it back afterwards, or his row was deleted and made    *)
(* anew, or the request that was to store it failed, which the tool        *)
(* reports to the agent and nobody else.                                   *)
OptOutRespected == run.optedOut => hist.gone \/ hist.unsaved

(* Somebody who has opted out is never let through to be called.           *)
OptOutPermanent == ~run.optedOut

(* Deleted data come back only with a lead that read them before they were *)
(* deleted and wrote them afterwards.                                      *)
ErasedStaysErased ==
    (erase.pc = "done" /\ contact.data = "old") => hist.revived

(* After a deletion reported as done, no recording of the person is left,  *)
(* unless a job of his ran beside the deletion, or a recording came in     *)
(* after it listed them, or a request about recordings failed.  This holds *)
(* of the legacy engine's recordings; the other engine's are not deleted.  *)
RecordingsErased ==
    (erase.pc = "done" /\ \E r \in store : r.of = erase.id) => hist.spared

(* Types, and both: what was deleted stays deleted, the recordings as far  *)
(* as the legacy engine goes.                                              *)
DataErased ==
    TypeOK /\ ErasedStaysErased /\ (Engine = "legacy" => RecordingsErased)

(* An enrolled contact that waits for its call has a job, or a route is    *)
(* still to make one, or a job of his was turned away or never queued.     *)
NoneForgotten ==
    (cc.st = "pending" /\ jobs[cc.id] = 0 /\ run.id # cc.id) =>
        \/ hist.dropped
        \/ route.pc \in {"launchEnrolled", "quickEnrolled"}
        \/ \E l \in Leads : lead[l].pc = "enrolled"
=============================================================================
