--------------------------- MODULE ContactsProofs ---------------------------
(***************************************************************************)
(* Proofs about Contacts, for any numbers of leads, contact rows, calls,   *)
(* jobs and failing requests.  The invariant says what each party still    *)
(* knows of a row it has read: the id it names may be one that is gone,    *)
(* the data it holds may have been deleted, the recording it lists may not *)
(* be in the bucket yet.                                                   *)
(***************************************************************************)
EXTENDS Contacts, TLAPS

Contact  == [id : 0..MaxIds, dnc : BOOLEAN, data : {"none", "old", "new"}]
LeadPcs  == {"idle", "accepted", "read", "saved", "looked", "enrolled", "done"}
RoutePcs == {"idle", "launched", "launchEnrolled", "quick", "quickEnrolled"}
Erasing  == {"found", "listed", "removed", "called", "unenrolled"}
Hist     == [opted : BOOLEAN, unsaved : BOOLEAN, gone : BOOLEAN, dropped : BOOLEAN,
             revived : BOOLEAN, spared : BOOLEAN]
InCall   == {"calling", "ended", "uploaded", "over"}

(* The types, and what the ids that each party names may be: every one was *)
(* given out, and while it is being deleted the contact has its row.       *)
ContactOK ==
  /\ contact \in Contact /\ ids \in 0..MaxIds /\ contact.id <= ids
  /\ contact.id = 0 => contact = NoContact
CcOK ==
  /\ cc \in [id : 0..MaxIds, st : {"none", "pending", "calling", "called", "dnc"}]
  /\ cc.id \in {0, contact.id} /\ (cc.st = "none" <=> cc.id = 0)
CampaignOK == campaign \in [st : {"none", "active", "paused"}, hook : BOOLEAN]
JobsOK ==
  /\ jobs \in [Ids -> 0..MaxJobs]
  /\ \A i \in Ids : jobs[i] > 0 => i <= ids
LeadOK ==
  /\ lead \in [Leads -> [pc : LeadPcs, read : Contact, id : 0..MaxIds]]
  /\ \A l \in Leads : /\ lead[l].id <= ids /\ lead[l].read.id <= ids
                      /\ lead[l].pc \in {"saved", "looked", "enrolled"} => lead[l].id # 0
                      /\ lead[l].read.id = 0 => lead[l].read = NoContact
RouteOK ==
  /\ route \in [pc : RoutePcs, id : 0..MaxIds]
  /\ route.id <= ids /\ (route.pc = "idle" <=> route.id = 0)
EraseOK ==
  /\ erase \in [pc : {"idle", "done", "failed"} \cup Erasing, id : 0..MaxIds,
                listed : SUBSET Calls, any : BOOLEAN]
  /\ erase.id <= ids /\ (erase.pc = "idle" <=> erase.id = 0)
  /\ erase.pc \in Erasing => contact.id = erase.id
RunOK ==
  /\ run \in [pc : {"idle", "taken", "checked"} \cup InCall, id : 0..MaxIds,
              call : 0..MaxCalls, optedOut : BOOLEAN]
  /\ run.id <= ids /\ (run.pc = "idle" <=> run.id = 0)
  /\ run.pc \in InCall => run.call \in Calls
CallsOK ==
  /\ rows \in [Calls -> [id : 0..MaxIds, path : BOOLEAN]]
  /\ store \subseteq [call : Calls, of : Ids]
(* Until a row is deleted there is one at most.                            *)
HistOK ==
  /\ hist \in Hist
  /\ ~hist.gone => contact.id = ids /\ ids <= 1

StateInv == /\ ContactOK /\ CcOK /\ CampaignOK /\ JobsOK /\ LeadOK /\ RouteOK /\ EraseOK
            /\ RunOK /\ CallsOK /\ HistOK

----------------------------------------------------------------------------
(* Who writes what                                                         *)

Upserts == Upload \/ Quick \/ \E l \in Leads : LeadUpserts(l)

LEMMA DashboardFrame ==
  ASSUME Dashboard
  PROVE  /\ UNCHANGED <<lead, erase, run, rows, store>>
         /\ UNCHANGED <<contact, ids>> \/ Upload \/ Quick
         /\ UNCHANGED cc \/ LaunchEnrolls \/ QuickEnrolls
         /\ UNCHANGED campaign \/ Launch \/ ConfigureWebhook \/ Pause \/ Resume
         /\ UNCHANGED jobs \/ LaunchEnqueues \/ Resume \/ QuickEnqueues
         /\ UNCHANGED hist \/ LaunchEnqueues \/ Resume \/ QuickEnqueues \/ RouteFails
<1> USE DEF calling
<1>1. CASE Upload \/ Launch \/ LaunchEnrolls \/ LaunchEnqueues \/ ConfigureWebhook
  BY <1>1 DEF Upload, Launch, LaunchEnrolls, LaunchEnqueues, ConfigureWebhook
<1>2. CASE Pause \/ Resume \/ Quick \/ QuickEnrolls \/ QuickEnqueues \/ RouteFails
  BY <1>2 DEF Pause, Resume, Quick, QuickEnrolls, QuickEnqueues, RouteFails
<1> QED
  BY <1>1, <1>2 DEF Dashboard

LEMMA LeadFrame ==
  ASSUME NEW l \in Leads, Lead(l)
  PROVE  /\ UNCHANGED <<campaign, route, erase, run, rows, store>>
         /\ UNCHANGED <<contact, ids>> \/ LeadUpserts(l)
         /\ UNCHANGED cc \/ LeadEnrolls(l)
         /\ UNCHANGED jobs \/ LeadEnqueues(l)
         /\ UNCHANGED hist \/ LeadUpserts(l) \/ LeadEnqueues(l) \/ LeadFails(l)
<1> USE DEF calling
<1>1. CASE LeadAccepted(l) \/ LeadReads(l) \/ LeadUpserts(l) \/ LeadEnrolled(l)
  BY <1>1 DEF LeadAccepted, LeadReads, LeadUpserts, LeadEnrolled
<1>2. CASE LeadLooks(l) \/ LeadEnrolls(l) \/ LeadEnqueues(l) \/ LeadFails(l)
  BY <1>2 DEF LeadLooks, LeadEnrolls, LeadEnqueues, LeadFails
<1> QED
  BY <1>1, <1>2 DEF Lead

LEMMA CallFrame ==
  ASSUME Call
  PROVE  /\ UNCHANGED <<ids, campaign, lead, route, erase>>
         /\ UNCHANGED contact \/ OptOut
         /\ UNCHANGED cc \/ Dnc \/ CreateCall \/ CallOver
         /\ UNCHANGED jobs \/ \E i \in Ids : TakeJob(i)
         /\ UNCHANGED rows \/ CreateCall \/ SavePath
         /\ UNCHANGED store \/ UploadRecording
         /\ \/ UNCHANGED hist
            \/ OptOut \/ TurnedAway \/ CreateCall \/ CallEnds \/ UploadRecording \/ SavePath
<1> USE DEF calling
<1>1. CASE OptOut \/ TurnedAway \/ Dnc \/ Callable \/ \E i \in Ids : TakeJob(i)
  BY <1>1 DEF OptOut, TurnedAway, Dnc, Callable, TakeJob
<1>2. CASE CreateCall \/ SavePath \/ CallOver
  BY <1>2 DEF CreateCall, SavePath, CallOver
<1>3. CASE CallEnds \/ UploadRecording
  BY <1>3 DEF CallEnds, UploadRecording
<1> QED
  BY <1>1, <1>2, <1>3 DEF Call

LEMMA ErasureFrame ==
  ASSUME Erasure
  PROVE  /\ UNCHANGED <<ids, campaign, jobs, lead, route, run>>
         /\ UNCHANGED contact \/ EraseContact
         /\ UNCHANGED cc \/ EraseEnrolment \/ EraseContact
         /\ UNCHANGED rows \/ EraseCalls \/ EraseContact
         /\ UNCHANGED store \/ EraseRecordings
         /\ UNCHANGED hist \/ EraseLists \/ EraseRecordings \/ EraseContact
<1> USE DEF calling
<1>1. CASE Erase \/ EraseLists \/ EraseRecordings \/ EraseCalls
  BY <1>1 DEF Erase, EraseLists, EraseRecordings, EraseCalls
<1>2. CASE EraseEnrolment \/ EraseContact \/ EraseFails
  BY <1>2 DEF EraseEnrolment, EraseContact, EraseFails
<1> QED
  BY <1>1, <1>2 DEF Erasure

----------------------------------------------------------------------------
(* Types and ids                                                           *)

(* The contact keeps its id, or gets one that was never given out, or is   *)
(* deleted.                                                                *)
LEMMA UpsertContact ==
  ASSUME ContactOK, NEW dnc \in BOOLEAN, NEW data \in {"none", "old", "new"}, Upsert(dnc, data)
  PROVE  /\ ContactOK'
         /\ contact'.dnc = dnc /\ contact'.data = data
         /\ \/ contact.id # 0 /\ contact'.id = contact.id /\ ids' = ids
            \/ contact.id = 0 /\ contact'.id = ids + 1 /\ ids' = ids + 1
<1> USE ContactsAssumption DEF ContactOK, Contact, NoContact, Upsert
<1>1. CASE contact.id = 0
  BY <1>1
<1>2. CASE contact.id # 0
  BY <1>2
<1> QED
  BY <1>1, <1>2

LEMMA UpsertsContact ==
  ASSUME ContactOK, LeadOK, Upserts
  PROVE  /\ ContactOK'
         /\ \/ contact.id # 0 /\ contact'.id = contact.id /\ ids' = ids
            \/ contact.id = 0 /\ contact'.id = ids + 1 /\ ids' = ids + 1
<1>1. CASE Upload \/ Quick
  <2>1. /\ contact.dnc \in BOOLEAN /\ Fresh \in {"none", "old", "new"}
        /\ Merged(contact) \in {"none", "old", "new"}
    BY DEF ContactOK, Contact, Fresh, Merged
  <2>2. Upsert(contact.dnc, Fresh) \/ Upsert(contact.dnc, Merged(contact))
    BY <1>1 DEF Upload, Quick
  <2> QED
    BY <2>1, <2>2, UpsertContact
<1>2. CASE \E l \in Leads : LeadUpserts(l)
  <2>1. PICK l \in Leads : LeadUpserts(l)
    BY <1>2
  <2>2. PICK r \in Contact : r = lead[l].read
    BY DEF LeadOK
  <2>3. r.dnc \in BOOLEAN /\ Merged(r) \in {"none", "old", "new"}
    BY <2>2 DEF Merged, Contact, Fresh
  <2>4. Upsert(r.dnc, Merged(r))
    BY <2>1, <2>2 DEF LeadUpserts, LeadDnc
  <2> QED
    BY <2>3, <2>4, UpsertContact
<1> QED
  BY <1>1, <1>2 DEF Upserts

LEMMA ContactStep ==
  ASSUME ContactOK, LeadOK, EraseOK, RunOK, Next
  PROVE  /\ ContactOK'
         /\ \/ contact'.id = contact.id /\ ids' = ids
            \/ contact.id = 0 /\ contact'.id = ids + 1 /\ ids' = ids + 1
            \/ contact'.id = 0 /\ ids' = ids /\ EraseContact
<1>1. CASE UNCHANGED <<contact, ids>>
  BY <1>1 DEF ContactOK
<1>2. CASE Upserts
  BY <1>2, UpsertsContact
<1>3. CASE OptOut
  <2>1. ids' = ids /\ (contact' = contact \/
          (contact.id = run.id /\ run.id # 0 /\ contact' = [contact EXCEPT !.dnc = TRUE]))
    BY <1>3 DEF OptOut, RunOK
  <2> QED
    BY <2>1 DEF ContactOK, Contact
<1>4. CASE EraseContact
  <2>1. contact' = NoContact /\ ids' = ids
    BY <1>4 DEF EraseContact, EraseOK, Erasing
  <2> QED
    BY <1>4, <2>1, ContactsAssumption DEF ContactOK, Contact, NoContact
<1> QED
  BY <1>1, <1>2, <1>3, <1>4, DashboardFrame, LeadFrame, CallFrame, ErasureFrame
  DEF Next, Upserts

(* ids only grow.                                                          *)
LEMMA IdsGrow ==
  ASSUME StateInv, Next
  PROVE  /\ ids \in Nat /\ ids' \in Nat /\ ids <= ids' /\ ContactOK'
         /\ contact'.id \in {0, contact.id, ids'}
         /\ contact.id # 0 /\ ~EraseContact => contact'.id = contact.id
BY ContactStep, ContactsAssumption DEF StateInv, ContactOK, Contact

(* Whatever SetCc writes, the enrolment is the contact's.                  *)
LEMMA CcStep ==
  ASSUME StateInv, Next
  PROVE  CcOK'
<1> USE DEF StateInv, CcOK
<1>0. contact.id \in 0..MaxIds /\ contact'.id \in 0..MaxIds
  BY IdsGrow DEF ContactOK, Contact
<1>1. CASE UNCHANGED cc /\ ~EraseContact
  <2>1. cc.id # 0 => contact'.id = contact.id
    BY <1>1, IdsGrow
  <2> QED
    BY <1>1, <2>1
<1>2. CASE LaunchEnrolls
  BY <1>0, <1>2 DEF LaunchEnrolls, RouteOK
<1>3. CASE QuickEnrolls
  BY <1>0, <1>3 DEF QuickEnrolls, RouteOK
<1>4. CASE \E l \in Leads : LeadEnrolls(l)
  <2>1. PICK l \in Leads : LeadEnrolls(l)
    BY <1>4
  <2>2. contact' = contact /\ lead[l].id # 0
    BY <2>1 DEF LeadEnrolls, LeadOK
  <2>3. cc' = cc \/ (contact.id # 0 /\ cc' = [id |-> contact.id, st |-> "pending"])
    BY <2>1, <2>2 DEF LeadEnrolls
  <2> QED
    BY <1>0, <2>2, <2>3
<1>5. CASE Dnc \/ CreateCall \/ CallOver
  <2>1. contact' = contact /\ run.id # 0
    BY <1>5 DEF Dnc, CreateCall, CallOver, RunOK
  <2>2. cc' = cc \/ (cc.id # 0 /\
          \E st \in {"dnc", "calling", "called"} : cc' = [cc EXCEPT !.st = st])
    BY <1>5, <2>1 DEF Dnc, CreateCall, CallOver, SetCc
  <2> QED
    BY <2>1, <2>2
<1>6. CASE EraseEnrolment
  <2>1. contact' = contact /\ (cc' = cc \/ cc' = NoCc)
    BY <1>6 DEF EraseEnrolment
  <2>2. 0 \in 0..MaxIds
    BY ContactsAssumption
  <2>3. CASE cc' = cc
    BY <2>1, <2>3
  <2>4. CASE cc' = NoCc
    BY <2>2, <2>4 DEF NoCc
  <2> QED
    BY <2>1, <2>3, <2>4
<1>7. CASE EraseContact
  <2>1. contact' = NoContact /\ cc' = NoCc
    BY <1>7 DEF EraseContact, EraseOK, Erasing, NoCc
  <2> QED
    BY <1>0, <2>1 DEF NoCc, NoContact
<1> QED
  BY <1>1, <1>2, <1>3, <1>4, <1>5, <1>6, <1>7, DashboardFrame, LeadFrame, CallFrame, ErasureFrame
  DEF Next

LEMMA CampaignStep ==
  ASSUME CampaignOK, Next
  PROVE  CampaignOK'
<1> USE DEF CampaignOK
<1>1. CASE UNCHANGED campaign
  BY <1>1
<1>2. CASE Launch \/ Pause \/ Resume
  BY <1>2 DEF Launch, Pause, Resume
<1>3. CASE ConfigureWebhook
  <2>1. PICK hook \in BOOLEAN : campaign' = [campaign EXCEPT !.hook = hook]
    BY <1>3 DEF ConfigureWebhook
  <2> QED
    BY <2>1
<1> QED
  BY <1>1, <1>2, <1>3, DashboardFrame, LeadFrame, CallFrame, ErasureFrame DEF Next

(* A job is queued for an id that some party names.                        *)
LEMMA EnqueueJobs ==
  ASSUME StateInv, NEW i \in Ids, i <= ids, ids' = ids, Enqueue(i)
  PROVE  JobsOK'
<1>1. jobs[i] + 1 \in 0..MaxJobs
  BY ContactsAssumption DEF Enqueue, StateInv, JobsOK
<1> QED
  BY <1>1 DEF Enqueue, StateInv, JobsOK

LEMMA JobsStep ==
  ASSUME StateInv, Next
  PROVE  JobsOK'
<1>0. ids \in 0..MaxIds /\ contact.id <= ids /\ contact.id \in 0..MaxIds
  BY DEF StateInv, ContactOK, Contact
<1>1. CASE UNCHANGED jobs
  BY <1>1, IdsGrow, ContactsAssumption DEF StateInv, JobsOK, Ids
<1>2. CASE LaunchEnqueues \/ QuickEnqueues
  <2>1. ids' = ids /\ Enqueue(route.id) /\ route.pc # "idle"
    BY <1>2 DEF LaunchEnqueues, QuickEnqueues
  <2>2. route.id \in Ids /\ route.id <= ids
    BY <2>1, ContactsAssumption DEF StateInv, RouteOK, Ids
  <2> QED
    BY <2>1, <2>2, EnqueueJobs
<1>3. CASE Resume /\ ~UNCHANGED jobs
  <2>1. CASE cc.st = "pending"
    <3>1. ids' = ids /\ Enqueue(cc.id)
      BY <1>3, <2>1 DEF Resume
    <3>2. cc.id \in Ids /\ cc.id <= ids
      BY <1>0, <2>1, ContactsAssumption DEF StateInv, CcOK, Ids
    <3> QED
      BY <3>1, <3>2, EnqueueJobs
  <2>2. CASE cc.st # "pending"
    BY <1>3, <2>2 DEF Resume
  <2> QED
    BY <2>1, <2>2
<1>4. CASE \E l \in Leads : LeadEnqueues(l)
  <2>1. PICK l \in Leads : LeadEnqueues(l)
    BY <1>4
  <2>2. ids' = ids /\ Enqueue(lead[l].id) /\ lead[l].pc = "enrolled"
    BY <2>1 DEF LeadEnqueues
  <2>3. lead[l].id \in Ids /\ lead[l].id <= ids
    BY <2>2, ContactsAssumption DEF StateInv, LeadOK, Ids
  <2> QED
    BY <2>2, <2>3, EnqueueJobs
<1>5. CASE \E i \in Ids : TakeJob(i)
  BY <1>5, ContactsAssumption DEF TakeJob, StateInv, JobsOK, Ids
<1> QED
  BY <1>1, <1>2, <1>3, <1>4, <1>5, DashboardFrame, LeadFrame, CallFrame, ErasureFrame DEF Next

(* After an upsert there is a contact.                                     *)
LEMMA UpsertIds ==
  ASSUME StateInv, Upserts
  PROVE  contact'.id # 0
BY UpsertsContact, ContactsAssumption DEF StateInv, ContactOK

LEMMA LeadChange ==
  ASSUME StateInv, ids \in Nat, ids' \in Nat, ids <= ids', NEW l \in Leads,
         NEW pc \in LeadPcs, NEW read \in Contact, NEW id \in 0..MaxIds,
         lead' = [lead EXCEPT ![l] = [pc |-> pc, read |-> read, id |-> id]],
         read.id <= ids, id <= ids', pc \in {"saved", "looked", "enrolled"} => id # 0,
         read.id = 0 => read = NoContact
  PROVE  LeadOK'
<1>1. \A k \in Leads : lead[k].id \in Nat /\ lead[k].read.id \in Nat
  BY ContactsAssumption DEF StateInv, LeadOK, Contact
<1>2. read.id \in Nat /\ id \in Nat
  BY ContactsAssumption DEF Contact
<1>3. lead' \in [Leads -> [pc : LeadPcs, read : Contact, id : 0..MaxIds]]
  BY DEF StateInv, LeadOK
<1>4. lead'[l] = [pc |-> pc, read |-> read, id |-> id] /\ \A k \in Leads \ {l} : lead'[k] = lead[k]
  BY DEF StateInv, LeadOK
<1> HIDE DEF LeadPcs
<1>5. ASSUME NEW k \in Leads
      PROVE  /\ lead'[k].id <= ids' /\ lead'[k].read.id <= ids'
             /\ lead'[k].pc \in {"saved", "looked", "enrolled"} => lead'[k].id # 0
             /\ lead'[k].read.id = 0 => lead'[k].read = NoContact
  <2>1. CASE k = l
    BY <1>2, <1>4, <2>1
  <2>2. CASE k # l
    <3>1. lead'[k] = lead[k]
      BY <1>4, <2>2
    <3>2. /\ lead[k].id <= ids /\ lead[k].read.id <= ids
          /\ lead[k].pc \in {"saved", "looked", "enrolled"} => lead[k].id # 0
          /\ lead[k].read.id = 0 => lead[k].read = NoContact
          /\ lead[k].id \in Nat /\ lead[k].read.id \in Nat
      BY <1>1 DEF StateInv, LeadOK
    <3> QED
      BY <3>1, <3>2
  <2> QED
    BY <2>1, <2>2
<1> QED
  BY <1>3, <1>5 DEF LeadOK

LEMMA LeadStep ==
  ASSUME StateInv, Next
  PROVE  LeadOK'
<1>0. /\ contact \in Contact /\ contact.id <= ids /\ contact.id \in 0..MaxIds
      /\ (contact.id = 0 => contact = NoContact)
      /\ NoContact \in Contact /\ NoContact.id = 0 /\ 0 \in 0..MaxIds
      /\ ids \in Nat /\ ids' \in Nat /\ ids <= ids' /\ 0 <= ids /\ 0 <= ids'
  BY IdsGrow, ContactsAssumption DEF StateInv, ContactOK, Contact, NoContact
<1>1. CASE UNCHANGED lead
  BY <1>1, IdsGrow, ContactsAssumption DEF StateInv, LeadOK, Contact
<1>2. ASSUME NEW l \in Leads, Lead(l)
      PROVE  LeadOK'
  <2>1. lead[l] \in [pc : LeadPcs, read : Contact, id : 0..MaxIds]
    BY DEF StateInv, LeadOK
  <2>2. PICK pc \in LeadPcs, read \in Contact, id \in 0..MaxIds :
          lead[l] = [pc |-> pc, read |-> read, id |-> id]
    BY <2>1
  <2>3. /\ id <= ids /\ id <= ids' /\ read.id <= ids
        /\ pc \in {"saved", "looked", "enrolled"} => id # 0
        /\ read.id = 0 => read = NoContact
    <3>1. id \in Nat
      BY ContactsAssumption
    <3> QED
      BY <1>0, <2>2, <3>1 DEF StateInv, LeadOK
  <2>4. lead[l].pc = pc /\ lead[l].read = read /\ lead[l].id = id
    BY <2>2
  <2>5. ASSUME NEW q \in LeadPcs, LeadGoto(l, q), pc \in {"saved", "looked"}
                                                  \/ q = "accepted"
        PROVE  LeadOK'
    <3>1. lead' = [lead EXCEPT ![l] = [pc |-> q, read |-> read, id |-> id]]
      <4>1. [lead[l] EXCEPT !.pc = q] = [pc |-> q, read |-> read, id |-> id]
        BY <2>2
      <4>2. lead' = [lead EXCEPT ![l] = [lead[l] EXCEPT !.pc = q]]
        BY <2>5 DEF LeadGoto
      <4> QED
        BY <4>1, <4>2
    <3>2. q \in {"saved", "looked", "enrolled"} => id # 0
      BY <2>3, <2>5
    <3> QED
      BY <1>0, <2>3, <3>1, <3>2, LeadChange
  <2>6. CASE LeadOver(l)
    <3>1. "done" \in LeadPcs
      BY DEF LeadPcs
    <3> QED
      BY <1>0, <2>6, <3>1, LeadChange DEF LeadOver
  <2>7. CASE LeadAccepted(l) \/ LeadLooks(l) \/ LeadEnrolls(l)
    <3>1. {"accepted", "looked", "enrolled"} \subseteq LeadPcs
      BY DEF LeadPcs
    <3> QED
      BY <2>4, <2>5, <2>6, <2>7, <3>1 DEF LeadAccepted, LeadLooks, LeadEnrolls
  <2>8. CASE LeadReads(l)
    <3>1. PICK c \in Contact : c = contact
      BY <1>0
    <3>2. lead' = [lead EXCEPT ![l] = [pc |-> "read", read |-> c, id |-> id]]
      <4>1. [lead[l] EXCEPT !.pc = "read", !.read = c] = [pc |-> "read", read |-> c, id |-> id]
        <5>1. PICK e : e = [lead[l] EXCEPT !.pc = "read"]
          OBVIOUS
        <5>2. e = [pc |-> "read", read |-> read, id |-> id]
          BY <2>2, <5>1
        <5>3. [e EXCEPT !.read = c] = [pc |-> "read", read |-> c, id |-> id]
          BY <5>2
        <5> QED
          BY <5>1, <5>3, Zenon
      <4>2. lead' = [lead EXCEPT ![l] = [lead[l] EXCEPT !.pc = "read", !.read = c]]
        BY <2>8, <3>1 DEF LeadReads, StateInv, LeadOK
      <4> QED
        BY <4>1, <4>2
    <3>3. "read" \in LeadPcs
      BY DEF LeadPcs
    <3> QED
      BY <1>0, <2>3, <3>1, <3>2, <3>3, LeadChange
  <2>9. CASE LeadUpserts(l)
    <3>1. contact'.id # 0 /\ contact'.id \in 0..MaxIds /\ contact'.id <= ids'
      BY <2>9, IdsGrow, UpsertIds DEF Upserts, ContactOK, Contact
    <3>2. PICK i \in 0..MaxIds : i = contact'.id
      BY <3>1
    <3>3. lead' = [lead EXCEPT ![l] = [pc |-> "saved", read |-> NoContact, id |-> i]]
      <4>1. [lead[l] EXCEPT !.pc = "saved", !.id = i, !.read = NoContact]
              = [pc |-> "saved", read |-> NoContact, id |-> i]
        <5>1. PICK e : e = [lead[l] EXCEPT !.pc = "saved"]
          OBVIOUS
        <5>2. e = [pc |-> "saved", read |-> read, id |-> id]
          BY <2>2, <5>1
        <5>3. PICK f : f = [e EXCEPT !.id = i]
          OBVIOUS
        <5>4. f = [pc |-> "saved", read |-> read, id |-> i]
          BY <5>2, <5>3
        <5>5. [f EXCEPT !.read = NoContact] = [pc |-> "saved", read |-> NoContact, id |-> i]
          BY <5>4
        <5> QED
          BY <5>1, <5>3, <5>5, Zenon
      <4>2. lead' = [lead EXCEPT ![l] =
                       [lead[l] EXCEPT !.pc = "saved", !.id = i, !.read = NoContact]]
        BY <2>9, <3>2 DEF LeadUpserts, StateInv, LeadOK
      <4> QED
        BY <4>1, <4>2
    <3>4. "saved" \in LeadPcs
      BY DEF LeadPcs
    <3> QED
      BY <1>0, <3>1, <3>2, <3>3, <3>4, LeadChange
  <2> QED
    BY <1>2, <2>6, <2>7, <2>8, <2>9 DEF Lead, LeadEnrolled, LeadEnqueues, LeadFails
<1> QED
  BY <1>1, <1>2, DashboardFrame, CallFrame, ErasureFrame DEF Next

LEMMA RouteStep ==
  ASSUME StateInv, Next
  PROVE  RouteOK'
<1> USE DEF RoutePcs
<1>0. /\ contact.id <= ids /\ contact.id \in 0..MaxIds /\ route.id \in 0..MaxIds
      /\ contact'.id <= ids' /\ contact'.id \in 0..MaxIds
      /\ ids \in Nat /\ ids' \in Nat /\ ids <= ids' /\ 0 \in 0..MaxIds
  BY IdsGrow, ContactsAssumption DEF StateInv, ContactOK, Contact, RouteOK
<1>1. CASE UNCHANGED route
  BY <1>0, <1>1 DEF StateInv, RouteOK
<1>2. CASE route' = Idle
  <2>1. 0 <= ids'
    BY <1>0
  <2> QED
    BY <1>0, <1>2, <2>1 DEF RouteOK, Idle
<1>3. CASE Launch
  BY <1>0, <1>3 DEF Launch, RouteOK
<1>4. CASE LaunchEnrolls
  BY <1>0, <1>2, <1>4 DEF LaunchEnrolls, StateInv, RouteOK
<1>5. CASE Quick
  <2>1. contact'.id # 0
    BY <1>5, UpsertIds DEF Upserts
  <2> QED
    BY <1>0, <1>5, <2>1 DEF Quick, RouteOK
<1>6. CASE QuickEnrolls
  BY <1>0, <1>2, <1>6 DEF QuickEnrolls, StateInv, RouteOK
<1> QED
  BY <1>1, <1>2, <1>3, <1>4, <1>5, <1>6, LeadFrame, CallFrame, ErasureFrame
  DEF Next, Dashboard, Upload, LaunchEnqueues, ConfigureWebhook, Pause, Resume, QuickEnqueues,
    RouteFails

LEMMA EraseStep ==
  ASSUME StateInv, Next
  PROVE  EraseOK'
<1> USE DEF Erasing
<1>0. /\ contact.id <= ids /\ contact.id \in 0..MaxIds /\ erase.id \in 0..MaxIds
      /\ ids \in Nat /\ ids' \in Nat /\ ids <= ids'
  BY IdsGrow, ContactsAssumption DEF StateInv, ContactOK, Contact, EraseOK
<1>1. CASE UNCHANGED erase
  <2>1. ~EraseContact
    BY <1>1 DEF EraseContact, EraseGoto, StateInv, EraseOK
  <2>2. erase.pc \in Erasing => contact'.id = contact.id
    BY <2>1, IdsGrow DEF StateInv, EraseOK
  <2> QED
    BY <1>0, <1>1, <2>2 DEF StateInv, EraseOK
<1>2. CASE Erase
  BY <1>0, <1>2 DEF Erase, StateInv, EraseOK
<1>3. CASE EraseLists
  <2>1. PICK listed \in SUBSET Calls, any \in BOOLEAN :
          erase' = [erase EXCEPT !.pc = "listed", !.listed = listed, !.any = any]
    <3>1. Listed(erase.id) \in SUBSET Calls /\ (CallsOf(erase.id) # {}) \in BOOLEAN
      BY DEF Listed, CallsOf
    <3>2. CASE erase' = [erase EXCEPT !.pc = "listed", !.listed = Listed(erase.id),
                                      !.any = CallsOf(erase.id) # {}]
      BY <3>1, <3>2
    <3>3. CASE EraseGoto("listed")
      <4>1. erase' = [erase EXCEPT !.pc = "listed", !.listed = erase.listed, !.any = erase.any]
        BY <3>3 DEF EraseGoto, StateInv, EraseOK
      <4>2. erase.listed \in SUBSET Calls /\ erase.any \in BOOLEAN
        BY DEF StateInv, EraseOK
      <4> QED
        BY <4>1, <4>2
    <3> QED
      BY <1>3, <3>2, <3>3 DEF EraseLists
  <2>2. UNCHANGED <<contact, ids>> /\ erase.pc = "found"
    BY <1>3 DEF EraseLists
  <2> QED
    BY <1>0, <2>1, <2>2 DEF StateInv, EraseOK
<1>4. CASE EraseRecordings \/ EraseCalls \/ EraseEnrolment \/ EraseFails
  <2>1. UNCHANGED <<contact, ids>> /\ erase.pc \in Erasing
    BY <1>4 DEF EraseRecordings, EraseCalls, EraseEnrolment, EraseFails
  <2>2. \/ erase' = [erase EXCEPT !.pc = "removed", !.listed = {}]
        \/ erase' = [erase EXCEPT !.pc = "called", !.any = FALSE]
        \/ erase' = [erase EXCEPT !.pc = "unenrolled"]
        \/ erase' = [erase EXCEPT !.pc = "failed"]
    BY <1>4 DEF EraseRecordings, EraseCalls, EraseEnrolment, EraseFails, EraseGoto
  <2> QED
    BY <1>0, <2>1, <2>2 DEF StateInv, EraseOK
<1>5. CASE EraseContact
  <2>1. ids' = ids /\ erase' = [erase EXCEPT !.pc = "done"] /\ erase.pc # "idle"
    BY <1>5 DEF EraseContact, EraseGoto
  <2> QED
    BY <1>0, <2>1 DEF StateInv, EraseOK
<1> QED
  BY <1>1, <1>2, <1>3, <1>4, <1>5, DashboardFrame, LeadFrame, CallFrame DEF Next, Erasure

LEMMA RunStep ==
  ASSUME StateInv, Next
  PROVE  RunOK'
<1> USE DEF InCall
<1>0. /\ run.id \in 0..MaxIds /\ 0 \in 0..MaxIds /\ 0 \in 0..MaxCalls
      /\ ids \in Nat /\ ids' \in Nat /\ ids <= ids' /\ 0 <= ids'
  BY IdsGrow, ContactsAssumption DEF StateInv, RunOK
<1>1. CASE UNCHANGED run
  BY <1>0, <1>1 DEF StateInv, RunOK
<1>2. CASE LeaveJob
  BY <1>0, <1>2 DEF LeaveJob, RunOK
<1>3. CASE \E i \in Ids : TakeJob(i)
  <2>1. PICK i \in Ids : TakeJob(i)
    BY <1>3
  <2>2. i # 0 /\ i \in 0..MaxIds /\ i <= ids' /\ ids' = ids
    BY <2>1, ContactsAssumption DEF TakeJob, Ids, StateInv, JobsOK
  <2>3. run' = [run EXCEPT !.pc = "taken", !.id = i]
    BY <2>1 DEF TakeJob
  <2> QED
    BY <2>2, <2>3 DEF StateInv, RunOK
<1>4. CASE Callable
  <2>1. hist.opted \in BOOLEAN /\ run.pc = "taken"
    BY <1>4 DEF Callable, StateInv, HistOK, Hist
  <2>2. PICK opted \in BOOLEAN : /\ run' = [run EXCEPT !.pc = "checked", !.optedOut = opted]
                                 /\ ids' = ids
    BY <1>4, <2>1 DEF Callable
  <2> QED
    BY <2>1, <2>2 DEF StateInv, RunOK
<1>5. CASE CreateCall
  <2>1. CASE LeaveJob
    BY <1>2, <2>1
  <2>2. CASE \E n \in Calls : run' = [run EXCEPT !.pc = "calling", !.call = n]
    <3>1. PICK n \in Calls : run' = [run EXCEPT !.pc = "calling", !.call = n]
      BY <2>2
    <3>2. n \in 0..MaxCalls
      BY ContactsAssumption DEF Calls
    <3>3. run.pc = "checked" /\ ids' = ids
      BY <1>5 DEF CreateCall
    <3> QED
      BY <3>1, <3>2, <3>3 DEF StateInv, RunOK
  <2> QED
    BY <1>5, <2>1, <2>2 DEF CreateCall
<1>6. CASE CallEnds \/ UploadRecording \/ SavePath
  <2>1. LeaveJob \/ \E pc \in InCall : run' = [run EXCEPT !.pc = pc]
    BY <1>6 DEF CallEnds, UploadRecording, SavePath
  <2>2. run.pc \in InCall
    BY <1>6 DEF CallEnds, UploadRecording, SavePath
  <2>3. CASE \E pc \in InCall : run' = [run EXCEPT !.pc = pc]
    BY <1>0, <2>2, <2>3 DEF StateInv, RunOK
  <2> QED
    BY <1>2, <2>1, <2>3
<1> QED
  BY <1>1, <1>2, <1>3, <1>4, <1>5, <1>6, DashboardFrame, LeadFrame, ErasureFrame
  DEF Next, Call, OptOut, calling, TurnedAway, Dnc, CallOver

LEMMA CallsStep ==
  ASSUME StateInv, Next
  PROVE  CallsOK'
<1>0. /\ rows \in [Calls -> [id : 0..MaxIds, path : BOOLEAN]]
      /\ store \subseteq [call : Calls, of : Ids]
  BY DEF StateInv, CallsOK
<1>1. rows' \in [Calls -> [id : 0..MaxIds, path : BOOLEAN]]
  <2>1. CASE UNCHANGED rows
    BY <1>0, <2>1
  <2>2. CASE CreateCall
    <3>1. PICK row \in [id : 0..MaxIds, path : BOOLEAN] : row = [id |-> run.id, path |-> FALSE]
      BY DEF StateInv, RunOK
    <3>2. UNCHANGED rows \/ \E n \in Calls : rows' = [rows EXCEPT ![n] = row]
      BY <2>2, <3>1 DEF CreateCall
    <3> QED
      BY <1>0, <3>2
  <2>3. CASE SavePath
    <3>1. run.call \in Calls /\ rows[run.call] \in [id : 0..MaxIds, path : BOOLEAN]
      BY <1>0, <2>3 DEF SavePath, StateInv, RunOK, InCall
    <3>2. CASE UNCHANGED rows
      BY <1>0, <3>2
    <3>3. CASE rows' = [rows EXCEPT ![run.call].path = rows[run.call].id # 0]
      <4>1. PICK b \in BOOLEAN, n \in Calls : rows' = [rows EXCEPT ![n].path = b]
        BY <3>1, <3>3
      <4>2. PICK row \in [id : 0..MaxIds, path : BOOLEAN] : row = [rows[n] EXCEPT !.path = b]
        BY <1>0
      <4>3. rows' = [rows EXCEPT ![n] = row]
        BY <4>1, <4>2
      <4> QED
        BY <1>0, <4>3
    <3> QED
      BY <2>3, <3>2, <3>3 DEF SavePath
  <2>4. CASE EraseCalls \/ EraseContact
    <3>1. UNCHANGED rows \/ rows' = RowsWithout(erase.id)
      BY <2>4 DEF EraseCalls, EraseContact
    <3>2. NoRow \in [id : 0..MaxIds, path : BOOLEAN]
      BY ContactsAssumption DEF NoRow
    <3>3. RowsWithout(erase.id) \in [Calls -> [id : 0..MaxIds, path : BOOLEAN]]
      BY <1>0, <3>2 DEF RowsWithout
    <3> QED
      BY <1>0, <3>1, <3>3
  <2> QED
    BY <2>1, <2>2, <2>3, <2>4, DashboardFrame, LeadFrame, CallFrame, ErasureFrame DEF Next
<1>2. store' \subseteq [call : Calls, of : Ids]
  <2>1. CASE UNCHANGED store
    BY <1>0, <2>1
  <2>2. CASE UploadRecording
    <3>1. run.call \in Calls /\ run.id # 0 /\ run.id \in 0..MaxIds
      BY <2>2 DEF UploadRecording, StateInv, RunOK, InCall
    <3>2. run.id \in Ids
      BY <3>1, ContactsAssumption DEF Ids
    <3>3. store' = store \cup {[call |-> run.call, of |-> run.id]}
      BY <2>2 DEF UploadRecording
    <3> QED
      BY <1>0, <3>1, <3>2, <3>3
  <2>3. CASE EraseRecordings
    BY <1>0, <2>3 DEF EraseRecordings
  <2> QED
    BY <2>1, <2>2, <2>3, DashboardFrame, LeadFrame, CallFrame, ErasureFrame DEF Next
<1> QED
  BY <1>1, <1>2 DEF CallsOK

(* Each step writes what it must of the history, and what happened stays   *)
(* there, but for dropped.                                                 *)
LEMMA HistFrame ==
  ASSUME StateInv, Next
  PROVE  /\ hist' \in Hist
         /\ hist.gone => hist'.gone
         /\ EraseContact => hist'.gone
         /\ hist.revived => hist'.revived
         /\ hist.spared => hist'.spared
         /\ hist.opted => hist'.opted
         /\ \/ hist'.gone = hist.gone
            \/ EraseContact \/ \E l \in Leads : LeadUpserts(l)
         /\ hist.unsaved => hist'.unsaved
         /\ hist'.opted = hist.opted \/ OptOut
<1>0. hist \in Hist
  BY DEF StateInv, HistOK
<1> USE DEF Hist
<1>1. CASE UNCHANGED hist /\ ~EraseContact
  BY <1>0, <1>1
<1>2. ASSUME NEW i, Enqueue(i), ~EraseContact
      PROVE  \E b \in BOOLEAN : hist' = [hist EXCEPT !.dropped = b]
  <2>1. PICK b \in BOOLEAN : b = (hist.dropped /\ i # contact.id)
    BY <1>0
  <2> QED
    BY <1>2, <2>1 DEF Enqueue
<1>3. CASE (\E b \in BOOLEAN : hist' = [hist EXCEPT !.dropped = b]) /\ ~EraseContact
  BY <1>0, <1>3
<1>4. CASE \E l \in Leads : LeadUpserts(l)
  <2>1. PICK l \in Leads : LeadUpserts(l)
    BY <1>4
  <2>2. PICK g \in BOOLEAN : g = (hist.gone \/ (contact.dnc /\ ~lead[l].read.dnc))
    BY <1>0
  <2>3. PICK r \in BOOLEAN :
          r = (hist.revived \/ (lead[l].read.id # 0 /\ lead[l].read.id # contact.id))
    BY <1>0
  <2>4. hist' = [hist EXCEPT !.gone = g, !.revived = r] /\ UNCHANGED erase
    BY <2>1, <2>2, <2>3 DEF LeadUpserts
  <2>5. ~EraseContact
    BY <2>4 DEF EraseContact, EraseGoto, StateInv, EraseOK
  <2> QED
    BY <1>0, <1>4, <2>2, <2>3, <2>4, <2>5
<1>5. CASE OptOut
  <2>1. ~EraseContact
    BY <1>5 DEF OptOut, EraseContact, EraseGoto, StateInv, EraseOK
  <2>2. PICK u \in BOOLEAN : /\ hist' = [hist EXCEPT !.opted = TRUE, !.unsaved = u]
                             /\ hist.unsaved => u
    <3>1. hist.unsaved \in BOOLEAN /\ hist = [hist EXCEPT !.unsaved = hist.unsaved]
      BY <1>0
    <3>2. CASE hist' = [hist EXCEPT !.opted = TRUE]
      <4>1. hist' = [hist EXCEPT !.opted = TRUE, !.unsaved = hist.unsaved]
        BY <1>0, <3>2
      <4> QED
        BY <3>1, <4>1
    <3> QED
      BY <1>5, <3>2 DEF OptOut
  <2> QED
    BY <1>0, <1>5, <2>1, <2>2
<1>6. CASE (\E b \in BOOLEAN : hist' = [hist EXCEPT !.spared = b] /\ (hist.spared => b))
           /\ ~EraseContact
  BY <1>0, <1>6
<1>7. CASE EraseContact
  BY <1>0, <1>7 DEF EraseContact
<1>8. CASE Dashboard /\ ~EraseContact
  <2>1. CASE LaunchEnqueues \/ Resume \/ QuickEnqueues
    <3>1. UNCHANGED hist \/ Enqueue(route.id) \/ Enqueue(cc.id)
      BY <2>1 DEF LaunchEnqueues, Resume, QuickEnqueues
    <3>2. PICK i, j : i = route.id /\ j = cc.id
      OBVIOUS
    <3> QED
      BY <1>1, <1>2, <1>3, <1>8, <3>1, <3>2
  <2>2. CASE RouteFails
    BY <1>3, <1>8, <2>2 DEF RouteFails
  <2> QED
    BY <1>1, <1>8, <2>1, <2>2, DashboardFrame
<1>9. ASSUME NEW l \in Leads, Lead(l), ~EraseContact, ~LeadUpserts(l)
      PROVE  (UNCHANGED hist \/ \E b \in BOOLEAN : hist' = [hist EXCEPT !.dropped = b])
  <2>1. CASE LeadEnqueues(l)
    <3>1. PICK i : i = lead[l].id
      OBVIOUS
    <3> QED
      BY <1>2, <1>9, <2>1, <3>1 DEF LeadEnqueues
  <2>2. CASE LeadFails(l)
    <3>1. PICK b \in BOOLEAN : b = (hist.dropped \/ lead[l].pc = "enrolled")
      BY <1>0
    <3> QED
      BY <2>2, <3>1 DEF LeadFails
  <2> QED
    BY <1>9, <2>1, <2>2, LeadFrame
<1>10. CASE Call /\ ~OptOut /\ ~EraseContact
  <2>1. CASE TurnedAway \/ CreateCall \/ CallEnds
    <3>1. UNCHANGED hist \/ hist' = [hist EXCEPT !.dropped = TRUE]
      BY <2>1 DEF TurnedAway, CreateCall, CallEnds
    <3> QED
      BY <1>1, <1>3, <1>10, <3>1
  <2>2. CASE UploadRecording
    <3>1. PICK b \in BOOLEAN :
            b = (hist.spared \/ (run.id = erase.id /\ erase.pc \notin {"idle", "found"}))
      BY <1>0
    <3> QED
      BY <1>6, <1>10, <2>2, <3>1 DEF UploadRecording
  <2>3. CASE SavePath
    BY <1>1, <1>6, <1>10, <2>3 DEF SavePath
  <2> QED
    BY <1>1, <1>10, <2>1, <2>2, <2>3, CallFrame
<1>11. CASE Erasure /\ ~EraseContact
  <2>1. CASE EraseLists
    <3>1. PICK b \in BOOLEAN : b = (hist.spared \/ run.id = erase.id)
      BY <1>0
    <3> QED
      BY <1>6, <1>11, <2>1, <3>1 DEF EraseLists
  <2>2. CASE EraseRecordings
    BY <1>1, <1>6, <1>11, <2>2 DEF EraseRecordings
  <2> QED
    BY <1>1, <1>11, <2>1, <2>2, ErasureFrame
<1> QED
  BY <1>1, <1>3, <1>4, <1>5, <1>7, <1>8, <1>9, <1>10, <1>11 DEF Next

LEMMA HistStep ==
  ASSUME StateInv, Next
  PROVE  HistOK'
<1>1. \/ contact'.id = contact.id /\ ids' = ids
      \/ contact.id = 0 /\ contact'.id = ids + 1 /\ ids' = ids + 1
      \/ EraseContact
  <2>1. ContactOK /\ LeadOK /\ EraseOK /\ RunOK
    BY DEF StateInv
  <2> QED
    BY <2>1, ContactStep, Zenon
<1>2. ~hist'.gone => ~hist.gone /\ ~EraseContact
  BY HistFrame
<1> QED
  BY <1>1, <1>2, HistFrame, ContactsAssumption DEF StateInv, HistOK, ContactOK

LEMMA StateStep ==
  ASSUME StateInv, [Next]_vars
  PROVE  StateInv'
<1>1. CASE Next
  <2>1. ContactOK'
    BY <1>1, IdsGrow
  <2> QED
    BY <1>1, <2>1, CcStep, CampaignStep, JobsStep, LeadStep, RouteStep, EraseStep, RunStep,
       CallsStep, HistStep DEF StateInv
<1>2. CASE UNCHANGED vars
  BY <1>2 DEF vars, calling, StateInv, ContactOK, CcOK, CampaignOK, JobsOK, LeadOK, RouteOK,
    EraseOK, RunOK, CallsOK, HistOK
<1> QED
  BY <1>1, <1>2

LEMMA StateInit == Init => StateInv
<1> SUFFICES ASSUME Init PROVE StateInv
  OBVIOUS
<1> USE ContactsAssumption DEF Init, NoContact, NoCc, Idle, Contact
<1>1. ContactOK /\ CcOK /\ CampaignOK /\ JobsOK
  BY DEF ContactOK, CcOK, CampaignOK, JobsOK, Ids
<1>2. LeadOK
  <2>1. [pc |-> "idle", read |-> NoContact, id |-> 0] \in
          [pc : LeadPcs, read : Contact, id : 0..MaxIds]
    BY DEF LeadPcs
  <2>2. ids = 0 /\ lead = [l \in Leads |-> [pc |-> "idle", read |-> NoContact, id |-> 0]]
    OBVIOUS
  <2>3. NoContact.id = 0
    OBVIOUS
  <2> HIDE DEF Init, NoContact, Contact
  <2> QED
    BY <2>1, <2>2, <2>3 DEF LeadOK
<1>3. RouteOK /\ EraseOK /\ RunOK
  BY DEF RouteOK, RoutePcs, EraseOK, Erasing, RunOK, InCall
<1>4. CallsOK /\ HistOK
  BY DEF CallsOK, HistOK, Hist
<1> QED
  BY <1>1, <1>2, <1>3, <1>4 DEF StateInv

(* What every party names and knows is what the model says it may be.      *)
THEOREM TypesHold == Spec => []StateInv
BY StateInit, StateStep, PTL DEF Spec

----------------------------------------------------------------------------
(* Opting out                                                              *)

(* Until his row is deleted, or a lead takes it back, the wish of somebody *)
(* who opted out is in his row, if it was ever stored, and a call is let   *)
(* through only without it.                                                *)
OptOutInv ==
  /\ hist.opted /\ ~hist.gone /\ ~hist.unsaved => contact.dnc
  /\ run.optedOut => hist.gone \/ hist.unsaved

(* Before that there is one id at most, so a call is to the row's person.  *)
LEMMA OptOutStep ==
  ASSUME Engine = "legacy", StateInv, OptOutInv, Next
  PROVE  OptOutInv'
<1>1. ASSUME hist'.opted, ~hist'.gone, ~hist'.unsaved
      PROVE  contact'.dnc
  <2>1. ~hist.gone /\ ~hist.unsaved /\ ~EraseContact
    BY <1>1, HistFrame
  <2>2. CASE OptOut
    <3>1. run.id # 0 /\ run.id <= ids /\ run.id \in Nat
      BY <2>2, ContactsAssumption DEF OptOut, StateInv, RunOK
    <3>2. contact.id = ids /\ ids <= 1 /\ ids \in Nat
      BY <2>1, ContactsAssumption DEF StateInv, HistOK, ContactOK
    <3>3. contact.id = run.id
      BY <3>1, <3>2
    <3>4. contact' = [contact EXCEPT !.dnc = TRUE]
      <4>1. hist' # [hist EXCEPT !.opted = TRUE, !.unsaved = TRUE]
        BY <1>1 DEF StateInv, HistOK, Hist
      <4> QED
        BY <2>2, <3>3, <4>1 DEF OptOut
    <3> QED
      BY <3>4 DEF StateInv, ContactOK, Contact
  <2>3. CASE ~OptOut
    <3>1. hist.opted /\ contact.dnc
      BY <1>1, <2>1, <2>3, HistFrame DEF OptOutInv
    <3>2. ContactOK /\ LeadOK
      BY DEF StateInv
    <3>3. CASE Upload \/ Quick
      <4>1. /\ contact.dnc \in BOOLEAN /\ Fresh \in {"none", "old", "new"}
            /\ Merged(contact) \in {"none", "old", "new"}
        BY <3>2 DEF ContactOK, Contact, Fresh, Merged
      <4> QED
        BY <3>1, <3>2, <3>3, <4>1, UpsertContact DEF Upload, Quick
    <3>4. CASE \E l \in Leads : LeadUpserts(l)
      <4>1. PICK l \in Leads : LeadUpserts(l)
        BY <3>4
      <4>2. PICK r \in Contact : r = lead[l].read
        BY <3>2 DEF LeadOK
      <4>3. r.dnc \in BOOLEAN /\ Merged(r) \in {"none", "old", "new"}
        BY DEF Merged, Contact, Fresh
      <4>4. Upsert(r.dnc, Merged(r))
        BY <4>1, <4>2 DEF LeadUpserts, LeadDnc
      <4>5. contact'.dnc = r.dnc
        BY <3>2, <4>3, <4>4, UpsertContact
      <4>6. hist'.gone = (hist.gone \/ (contact.dnc /\ ~r.dnc))
        <5>1. PICK g, v : /\ g = (hist.gone \/ (contact.dnc /\ ~r.dnc))
                          /\ v = (hist.revived \/ (r.id # 0 /\ r.id # contact.id))
          OBVIOUS
        <5>2. hist' = [hist EXCEPT !.gone = g, !.revived = v]
          BY <4>1, <4>2, <5>1 DEF LeadUpserts
        <5> QED
          BY <5>1, <5>2 DEF StateInv, HistOK, Hist
      <4> QED
        BY <1>1, <3>1, <4>5, <4>6
    <3>5. CASE UNCHANGED contact
      BY <3>1, <3>5
    <3> QED
      BY <2>1, <2>3, <3>3, <3>4, <3>5, DashboardFrame, LeadFrame, CallFrame, ErasureFrame
      DEF Next
  <2> QED
    BY <2>2, <2>3
<1>2. ASSUME run'.optedOut
      PROVE  hist'.gone \/ hist'.unsaved
  <2>1. CASE run.optedOut
    BY <2>1, HistFrame DEF OptOutInv
  <2>2. CASE ~run.optedOut
    <3>1. Callable
      <4>1. CASE LeaveJob
        BY <1>2, <4>1 DEF LeaveJob
      <4>2. CASE UNCHANGED run
        BY <1>2, <2>2, <4>2
      <4>3. CASE \E i \in Ids : TakeJob(i)
        BY <1>2, <2>2, <4>3 DEF TakeJob, StateInv, RunOK
      <4>4. CASE CreateCall \/ CallEnds \/ UploadRecording \/ SavePath
        BY <1>2, <2>2, <4>1, <4>4 DEF CreateCall, CallEnds, UploadRecording, SavePath,
          StateInv, RunOK
      <4> QED
        BY <4>1, <4>2, <4>3, <4>4, DashboardFrame, LeadFrame, ErasureFrame
        DEF Next, Call, OptOut, calling, TurnedAway, Dnc, CallOver
    <3>2. ~contact.dnc /\ hist' = hist
      BY <3>1 DEF Callable, IsDnc
    <3>3. hist.opted
      BY <1>2, <3>1 DEF Callable, StateInv, RunOK
    <3> QED
      BY <3>2, <3>3 DEF OptOutInv
  <2> QED
    BY <2>1, <2>2
<1> QED
  BY <1>1, <1>2 DEF OptOutInv

(* With the legacy engine, nobody who has opted out is let through to be   *)
(* called unless his row was deleted since, or a lead wrote back what it   *)
(* had read before, or the request that was to store it failed.            *)
THEOREM OptOutKept == Engine = "legacy" => (Spec => []OptOutRespected)
<1> SUFFICES ASSUME Engine = "legacy"
             PROVE  Spec => []OptOutRespected
  OBVIOUS
<1>1. Init => StateInv /\ OptOutInv
  BY StateInit DEF Init, OptOutInv
<1>2. StateInv /\ OptOutInv /\ [Next]_vars => (StateInv /\ OptOutInv)'
  <2>1. CASE UNCHANGED vars
    BY <2>1, StateStep DEF vars, calling, OptOutInv
  <2> QED
    BY <2>1, OptOutStep, StateStep
<1>3. StateInv /\ OptOutInv => OptOutRespected
  BY DEF OptOutInv, OptOutRespected
<1> QED
  BY <1>1, <1>2, <1>3, PTL DEF Spec

----------------------------------------------------------------------------
(* Deleted data                                                            *)

(* After the deletion, what was known before it is in the row only if it   *)
(* was brought back; a lead that still holds it has read another row.      *)
StaleInv ==
  erase.pc = "done" =>
    /\ ErasedStaysErased
    /\ \A l \in Leads :
         lead[l].read.data = "old" =>
           hist.revived \/ (lead[l].read.id # 0 /\ lead[l].read.id # contact.id)

(* What a lead holds is what it held, or nothing, or what it has just read.*)
LEMMA LeadReadFrame ==
  ASSUME StateInv, Next, NEW l \in Leads
  PROVE  \/ lead'[l].read = lead[l].read
         \/ lead'[l].read = NoContact
         \/ lead'[l].read = contact /\ contact' = contact /\ ~EraseContact
<1>0. lead \in [Leads -> [pc : LeadPcs, read : Contact, id : 0..MaxIds]]
  BY DEF StateInv, LeadOK
<1>1. CASE UNCHANGED lead
  BY <1>1
<1>2. ASSUME NEW k \in Leads, Lead(k)
      PROVE  \/ lead'[l].read = lead[l].read
             \/ lead'[l].read = NoContact
             \/ lead'[l].read = contact /\ contact' = contact /\ ~EraseContact
  <2>1. ASSUME NEW q, LeadGoto(k, q)
        PROVE  lead'[l].read = lead[l].read
    <3>1. PICK e : e = [lead[k] EXCEPT !.pc = q]
      OBVIOUS
    <3>2. lead' = [lead EXCEPT ![k] = e]
      BY <2>1, <3>1 DEF LeadGoto
    <3>3. e.read = lead[k].read
      BY <1>0, <3>1
    <3> QED
      BY <1>0, <3>2, <3>3
  <2>2. CASE LeadOver(k)
    <3>1. PICK e : e = [pc |-> "done", read |-> NoContact, id |-> 0]
      OBVIOUS
    <3>2. lead' = [lead EXCEPT ![k] = e] /\ e.read = NoContact
      BY <2>2, <3>1 DEF LeadOver
    <3> QED
      BY <1>0, <3>2
  <2>3. CASE LeadReads(k)
    <3>1. PICK e : e = [lead[k] EXCEPT !.pc = "read"]
      OBVIOUS
    <3>2. PICK f : f = [e EXCEPT !.read = contact]
      OBVIOUS
    <3>3. lead' = [lead EXCEPT ![k] = f] /\ contact' = contact /\ UNCHANGED erase
      BY <1>0, <2>3, <3>1, <3>2 DEF LeadReads
    <3>4. e \in [pc : LeadPcs, read : Contact, id : 0..MaxIds]
      BY <1>0, <3>1 DEF LeadPcs
    <3>5. f.read = contact
      BY <3>2, <3>4
    <3>6. ~EraseContact
      BY <3>3 DEF EraseContact, EraseGoto, StateInv, EraseOK
    <3> QED
      BY <1>0, <3>3, <3>5, <3>6
  <2>4. CASE LeadUpserts(k)
    <3>1. PICK e : e = [[lead[k] EXCEPT !.pc = "saved"] EXCEPT !.id = contact'.id]
      OBVIOUS
    <3>2. PICK f : f = [e EXCEPT !.read = NoContact]
      OBVIOUS
    <3>3. lead' = [lead EXCEPT ![k] = f]
      BY <1>0, <2>4, <3>1, <3>2 DEF LeadUpserts
    <3>4. e.read = lead[k].read /\ DOMAIN e = {"pc", "read", "id"}
      BY <1>0, <3>1
    <3>5. f.read = NoContact
      BY <3>2, <3>4
    <3> QED
      BY <1>0, <3>3, <3>5
  <2> QED
    BY <1>2, <2>1, <2>2, <2>3, <2>4
    DEF Lead, LeadAccepted, LeadLooks, LeadEnrolls, LeadEnrolled, LeadEnqueues, LeadFails
<1> QED
  BY <1>1, <1>2, DashboardFrame, CallFrame, ErasureFrame DEF Next

LEMMA StaleStep ==
  ASSUME StateInv, StaleInv, Next
  PROVE  StaleInv'
<1>0. /\ ids \in Nat /\ contact.id \in Nat
      /\ \A l \in Leads : /\ lead[l].read \in Contact /\ lead[l].read.id \in Nat
                          /\ lead[l].read.id <= ids
                          /\ lead[l].read.id = 0 => lead[l].read = NoContact
  BY ContactsAssumption DEF StateInv, ContactOK, LeadOK, Contact
<1>1. CASE EraseContact
  <2>1. contact' = NoContact /\ UNCHANGED lead
    BY <1>1 DEF EraseContact, StateInv, EraseOK, Erasing
  <2>2. NoContact.data = "none" /\ NoContact.id = 0
    BY DEF NoContact
  <2>3. \A l \in Leads : lead'[l].read.data = "old" => lead'[l].read.id # 0
    BY <1>0, <2>1, <2>2
  <2> QED
    BY <2>1, <2>2, <2>3 DEF StaleInv, ErasedStaysErased
<1>2. CASE ~EraseContact /\ erase'.pc = "done"
  <2>1. erase.pc = "done" /\ UNCHANGED erase
    <3>1. CASE Erasure
      BY <1>2, <3>1 DEF Erasure, Erase, EraseLists, EraseRecordings, EraseCalls, EraseEnrolment,
        EraseFails, EraseGoto, StateInv, EraseOK
    <3> QED
      BY <1>2, <3>1, DashboardFrame, LeadFrame, CallFrame DEF Next
  <2>2. Fresh = "new" /\ ContactOK /\ LeadOK
    BY <2>1 DEF Fresh, StateInv
  <2>3. ASSUME contact'.data = "old"
        PROVE  hist'.revived
    <3>1. CASE contact'.data = contact.data
      BY <2>1, <2>3, <3>1, HistFrame DEF StaleInv, ErasedStaysErased
    <3>2. CASE Upload \/ Quick
      <4>1. /\ contact.dnc \in BOOLEAN /\ contact.data \in {"none", "old", "new"}
            /\ Merged(contact) \in {contact.data, "new"}
        BY <2>2 DEF ContactOK, Contact, Merged
      <4>2. contact'.data \in {contact.data, "new"}
        BY <2>2, <3>2, <4>1, UpsertContact DEF Upload, Quick
      <4> QED
        BY <2>3, <3>1, <4>2
    <3>3. CASE \E l \in Leads : LeadUpserts(l)
      <4>1. PICK l \in Leads : LeadUpserts(l)
        BY <3>3
      <4>2. PICK r \in Contact : r = lead[l].read
        BY <1>0
      <4>3. r.dnc \in BOOLEAN /\ Merged(r) \in {"none", "old", "new"}
        BY DEF Merged, Contact, Fresh
      <4>4. Upsert(r.dnc, Merged(r))
        BY <4>1, <4>2 DEF LeadUpserts, LeadDnc
      <4>5. r.data = "old"
        BY <2>2, <2>3, <4>3, <4>4, UpsertContact DEF Merged
      <4>6. hist'.revived = (hist.revived \/ (r.id # 0 /\ r.id # contact.id))
        <5>1. PICK g, v : /\ g = (hist.gone \/ (contact.dnc /\ ~r.dnc))
                          /\ v = (hist.revived \/ (r.id # 0 /\ r.id # contact.id))
          OBVIOUS
        <5>2. hist' = [hist EXCEPT !.gone = g, !.revived = v]
          BY <4>1, <4>2, <5>1 DEF LeadUpserts
        <5> QED
          BY <5>1, <5>2 DEF StateInv, HistOK, Hist
      <4> QED
        BY <2>1, <4>2, <4>5, <4>6 DEF StaleInv
    <3>4. CASE OptOut
      BY <3>1, <3>4 DEF OptOut, StateInv, ContactOK, Contact
    <3> QED
      BY <1>2, <3>1, <3>2, <3>3, <3>4, DashboardFrame, LeadFrame, CallFrame, ErasureFrame DEF Next
  <2>4. ASSUME NEW l \in Leads, lead'[l].read.data = "old"
        PROVE  hist'.revived \/ (lead'[l].read.id # 0 /\ lead'[l].read.id # contact'.id)
    <3>1. CASE lead'[l].read = lead[l].read
      <4>1. hist.revived \/ (lead[l].read.id # 0 /\ lead[l].read.id # contact.id)
        BY <2>1, <2>4, <3>1 DEF StaleInv
      <4>2. \/ contact'.id = contact.id
            \/ contact.id = 0 /\ contact'.id = ids + 1
            \/ contact'.id = 0
        BY <2>2, ContactStep DEF StateInv
      <4> QED
        BY <1>0, <3>1, <4>1, <4>2, HistFrame
    <3>2. CASE lead'[l].read = NoContact
      BY <2>4, <3>2 DEF NoContact
    <3>3. CASE lead'[l].read = contact /\ contact' = contact
      BY <2>1, <2>4, <3>3, HistFrame DEF StaleInv, ErasedStaysErased
    <3> QED
      BY <3>1, <3>2, <3>3, LeadReadFrame
  <2> QED
    BY <2>3, <2>4 DEF StaleInv, ErasedStaysErased
<1> QED
  BY <1>1, <1>2 DEF StaleInv

----------------------------------------------------------------------------
(* Recordings                                                              *)

(* The row of a call is there until the deletion takes it, and so is the   *)
(* path of its recording once it is saved: what the deletion does not list *)
(* is made beside it.                                                      *)
RowInv ==
  run.pc \in InCall =>
    \/ rows[run.call].id = run.id
    \/ rows[run.call].id = 0 /\ run.id = erase.id /\ erase.pc \notin {"idle", "found"}
SavedInv ==
  \A r \in store : \/ rows[r.call].id = r.of /\ rows[r.call].path
                   \/ run.pc = "uploaded" /\ run.call = r.call /\ run.id = r.of
UploadInv ==
  run.pc = "uploaded" => /\ rows[run.call].id = run.id
                         /\ run.id = erase.id => erase.pc \in {"found", "failed"}
ListedInv ==
  erase.pc = "listed" => \A r \in store : r.of = erase.id => r.call \in erase.listed
RemovedInv ==
  erase.pc \in {"removed", "called", "unenrolled", "done"} => \A r \in store : r.of # erase.id

RecordingInv == /\ RowInv
                /\ ~hist.spared => SavedInv /\ UploadInv /\ ListedInv /\ RemovedInv

(* A job before and after its call.                                        *)
LEMMA QuietStep ==
  ASSUME RecordingInv, hist.spared => hist'.spared, UNCHANGED <<rows, store, erase>>,
         \/ UNCHANGED run
         \/ /\ run.pc # "uploaded" /\ run'.pc # "uploaded"
            /\ run'.pc \in InCall => run.pc \in InCall /\ run'.call = run.call /\ run'.id = run.id
  PROVE  RecordingInv'
<1>1. RowInv'
  BY DEF RecordingInv, RowInv
<1>2. ASSUME ~hist'.spared
      PROVE  (SavedInv /\ UploadInv /\ ListedInv /\ RemovedInv)'
  <2>1. SavedInv /\ UploadInv /\ ListedInv /\ RemovedInv
    BY <1>2 DEF RecordingInv
  <2> QED
    BY <2>1 DEF SavedInv, UploadInv, ListedInv, RemovedInv
<1> QED
  BY <1>1, <1>2 DEF RecordingInv

LEMMA CreateStep ==
  ASSUME StateInv, RecordingInv, CreateCall
  PROVE  RecordingInv'
<1>1. CASE ~(contact.id = run.id /\ cc.id = run.id)
  <2>1. hist.spared => hist'.spared
    BY <1>1 DEF CreateCall, StateInv, HistOK, Hist
  <2>2. UNCHANGED <<rows, store, erase>> /\ run.pc = "checked" /\ run'.pc = "idle"
    <3>1. UNCHANGED <<rows, store, erase>> /\ run.pc = "checked" /\ LeaveJob
      BY <1>1 DEF CreateCall
    <3> QED
      BY <3>1 DEF LeaveJob
  <2> QED
    BY <2>1, <2>2, QuietStep DEF InCall
<1>2. CASE contact.id = run.id /\ cc.id = run.id
  <2>1. PICK n \in Calls : /\ rows[n].id = 0 /\ \A r \in store : r.call # n
                           /\ rows' = [rows EXCEPT ![n] = [id |-> run.id, path |-> FALSE]]
                           /\ run' = [run EXCEPT !.pc = "calling", !.call = n]
                           /\ UNCHANGED <<store, erase, hist>> /\ run.pc = "checked"
    BY <1>2 DEF CreateCall
  <2>2. PICK row : row = [id |-> run.id, path |-> FALSE]
    OBVIOUS
  <2>3. rows'[n] = row /\ row.id = run.id /\ \A k \in Calls \ {n} : rows'[k] = rows[k]
    BY <2>1, <2>2 DEF StateInv, CallsOK
  <2>4. run'.pc = "calling" /\ run'.call = n /\ run'.id = run.id
    BY <2>1 DEF StateInv, RunOK
  <2>5. RowInv'
    BY <2>3, <2>4 DEF RowInv
  <2>6. ASSUME ~hist'.spared
        PROVE  (SavedInv /\ UploadInv /\ ListedInv /\ RemovedInv)'
    <3>1. SavedInv /\ UploadInv /\ ListedInv /\ RemovedInv
      BY <2>1, <2>6 DEF RecordingInv
    <3>2. \A r \in store : r.call \in Calls \ {n}
      BY <2>1 DEF StateInv, CallsOK
    <3>3. \A r \in store : rows'[r.call] = rows[r.call]
      BY <2>3, <3>2
    <3>4. SavedInv'
      BY <2>1, <3>1, <3>3 DEF SavedInv
    <3> QED
      BY <2>1, <2>4, <3>1, <3>4 DEF UploadInv, ListedInv, RemovedInv
  <2> QED
    BY <2>5, <2>6 DEF RecordingInv
<1> QED
  BY <1>1, <1>2

(* The recording is in the bucket before its path is in the row.           *)
LEMMA UploadStep ==
  ASSUME StateInv, RecordingInv, UploadRecording
  PROVE  RecordingInv'
<1>1. /\ UNCHANGED <<rows, erase>> /\ run.pc = "ended"
      /\ run'.pc = "uploaded" /\ run'.call = run.call /\ run'.id = run.id
  BY DEF UploadRecording, StateInv, RunOK
<1>2. RowInv'
  BY <1>1 DEF RecordingInv, RowInv, InCall
<1>3. ASSUME ~hist'.spared
      PROVE  (SavedInv /\ UploadInv /\ ListedInv /\ RemovedInv)'
  <2>1. ~hist.spared /\ (run.id = erase.id => erase.pc \in {"idle", "found"})
    <3>1. PICK b \in BOOLEAN :
            b = (hist.spared \/ (run.id = erase.id /\ erase.pc \notin {"idle", "found"}))
      BY DEF StateInv, HistOK, Hist
    <3>2. hist' = [hist EXCEPT !.spared = b]
      BY <3>1 DEF UploadRecording
    <3>3. ~b
      BY <1>3, <3>2 DEF StateInv, HistOK, Hist
    <3> QED
      BY <3>1, <3>3
  <2>2. SavedInv /\ ListedInv /\ RemovedInv
    BY <2>1 DEF RecordingInv
  <2>3. run.id # 0 /\ (erase.pc = "idle" => erase.id = 0)
    BY <1>1 DEF StateInv, RunOK, EraseOK
  <2>4. run.id = erase.id => erase.pc = "found"
    BY <2>1, <2>3
  <2>5. PICK n : n = [call |-> run.call, of |-> run.id]
    OBVIOUS
  <2>6. store' = store \cup {n} /\ n.call = run.call /\ n.of = run.id
    BY <2>5 DEF UploadRecording
  <2>7. SavedInv'
    BY <1>1, <2>2, <2>6 DEF SavedInv
  <2>8. UploadInv'
    BY <1>1, <2>4 DEF UploadInv, RecordingInv, RowInv, InCall
  <2>9. ListedInv' /\ RemovedInv'
    BY <1>1, <2>2, <2>4, <2>6 DEF ListedInv, RemovedInv
  <2> QED
    BY <2>7, <2>8, <2>9
<1> QED
  BY <1>2, <1>3 DEF RecordingInv

LEMMA SavePathStep ==
  ASSUME StateInv, RecordingInv, SavePath
  PROVE  RecordingInv'
<1>1. /\ UNCHANGED <<store, erase>> /\ run.pc = "uploaded"
      /\ run'.pc = "over" /\ run'.call = run.call /\ run'.id = run.id
      /\ run.id # 0 /\ run.call \in Calls
  BY DEF SavePath, StateInv, RunOK, InCall
<1>2. \A k \in Calls : rows'[k].id = rows[k].id /\ (k # run.call => rows'[k] = rows[k])
  BY DEF SavePath, StateInv, CallsOK
<1>3. RowInv'
  BY <1>1, <1>2 DEF RecordingInv, RowInv, InCall
<1>4. ASSUME ~hist'.spared
      PROVE  (SavedInv /\ UploadInv /\ ListedInv /\ RemovedInv)'
  <2>1. UNCHANGED hist /\ rows' = [rows EXCEPT ![run.call].path = rows[run.call].id # 0]
    BY <1>4 DEF SavePath, StateInv, HistOK, Hist
  <2>2. SavedInv /\ UploadInv /\ ListedInv /\ RemovedInv
    BY <1>4, <2>1 DEF RecordingInv
  <2>3. rows[run.call].id = run.id
    BY <1>1, <2>2 DEF UploadInv
  <2>4. rows'[run.call].path
    <3>1. PICK b : b = (rows[run.call].id # 0)
      OBVIOUS
    <3>2. PICK n : n = [rows[run.call] EXCEPT !.path = b]
      OBVIOUS
    <3>3. rows' = [rows EXCEPT ![run.call] = n] /\ n.path = b
      BY <1>1, <2>1, <3>1, <3>2 DEF StateInv, CallsOK
    <3> QED
      BY <1>1, <2>3, <3>1, <3>3 DEF StateInv, CallsOK
  <2>5. SavedInv'
    <3>1. ASSUME NEW r \in store
          PROVE  rows'[r.call].id = r.of /\ rows'[r.call].path
      <4>1. r.call \in Calls
        BY DEF StateInv, CallsOK
      <4>2. CASE r.call = run.call
        BY <1>1, <1>2, <2>2, <2>3, <2>4, <4>2 DEF SavedInv
      <4>3. CASE r.call # run.call
        BY <1>2, <2>2, <4>1, <4>3 DEF SavedInv
      <4> QED
        BY <4>2, <4>3
    <3> QED
      BY <1>1, <3>1 DEF SavedInv
  <2> QED
    BY <1>1, <2>2, <2>5 DEF UploadInv, ListedInv, RemovedInv
<1> QED
  BY <1>3, <1>4 DEF RecordingInv

(* The deletion clears the rows it found, and no recording of the person   *)
(* is left when it does.                                                   *)
LEMMA ClearStep ==
  ASSUME StateInv, RecordingInv, EraseCalls \/ EraseContact
  PROVE  RecordingInv'
<1>1. /\ UNCHANGED <<store, run>> /\ erase.pc \in {"removed", "unenrolled"}
      /\ erase'.pc \in {"called", "done"} /\ erase'.id = erase.id
      /\ rows' = rows \/ rows' = RowsWithout(erase.id)
  BY DEF EraseCalls, EraseContact, EraseGoto, StateInv, EraseOK
<1>2. \A k \in Calls : \/ rows'[k] = rows[k]
                       \/ rows[k].id = erase.id /\ rows'[k].id = 0
  BY <1>1 DEF RowsWithout, NoRow
<1>3. hist.spared => hist'.spared
  BY DEF EraseCalls, EraseContact, StateInv, HistOK, Hist
<1>4. RowInv'
  <2>1. run.pc \in InCall => run.call \in Calls
    BY DEF StateInv, RunOK
  <2> QED
    BY <1>1, <1>2, <2>1 DEF RecordingInv, RowInv
<1>5. ASSUME ~hist'.spared
      PROVE  (SavedInv /\ UploadInv /\ ListedInv /\ RemovedInv)'
  <2>1. SavedInv /\ UploadInv /\ RemovedInv
    BY <1>3, <1>5 DEF RecordingInv
  <2>2. \A r \in store : r.of # erase.id /\ r.call \in Calls
    BY <1>1, <2>1 DEF RemovedInv, StateInv, CallsOK
  <2>3. SavedInv'
    BY <1>1, <1>2, <2>1, <2>2 DEF SavedInv
  <2>4. run.pc = "uploaded" => run.id # erase.id /\ run.call \in Calls
    BY <1>1, <2>1 DEF UploadInv, StateInv, RunOK, InCall
  <2>5. UploadInv'
    BY <1>1, <1>2, <2>1, <2>4 DEF UploadInv
  <2>6. ListedInv' /\ RemovedInv'
    BY <1>1, <2>2 DEF ListedInv, RemovedInv
  <2> QED
    BY <2>3, <2>5, <2>6
<1> QED
  BY <1>4, <1>5 DEF RecordingInv

(* The deletion's other steps.                                             *)
LEMMA EraseOtherStep ==
  ASSUME StateInv, RecordingInv,
         Erase \/ EraseLists \/ EraseRecordings \/ EraseEnrolment \/ EraseFails
  PROVE  RecordingInv'
<1>1. UNCHANGED <<rows, run>>
  BY DEF Erase, EraseLists, EraseRecordings, EraseEnrolment, EraseFails, calling
<1>2. \/ erase.pc = "idle" /\ erase'.pc = "found"
      \/ erase'.id = erase.id /\ erase'.pc \notin {"idle", "found"}
  BY DEF Erase, EraseLists, EraseRecordings, EraseEnrolment, EraseFails, EraseGoto, StateInv,
    EraseOK
<1>3. RowInv'
  BY <1>1, <1>2 DEF RecordingInv, RowInv
<1>4. CASE Erase
  <2>1. UNCHANGED <<store, hist>> /\ erase'.pc = "found"
    BY <1>4 DEF Erase, StateInv, EraseOK, calling
  <2> QED
    BY <1>1, <1>3, <2>1 DEF RecordingInv, SavedInv, UploadInv, ListedInv, RemovedInv
<1>5. CASE EraseLists
  <2>1. ASSUME ~hist'.spared
        PROVE  (SavedInv /\ UploadInv /\ ListedInv /\ RemovedInv)'
    <3>1. /\ erase.pc = "found" /\ UNCHANGED store /\ ~hist.spared /\ run.id # erase.id
          /\ erase' = [erase EXCEPT !.pc = "listed", !.listed = Listed(erase.id),
                                    !.any = CallsOf(erase.id) # {}]
      <4>1. PICK b \in BOOLEAN : b = (hist.spared \/ run.id = erase.id)
        BY DEF StateInv, HistOK, Hist
      <4>2. hist' # [hist EXCEPT !.spared = TRUE]
        BY <2>1 DEF StateInv, HistOK, Hist
      <4>3. hist' = [hist EXCEPT !.spared = b]
        BY <1>5, <4>1, <4>2 DEF EraseLists
      <4>4. ~b
        BY <4>2, <4>3 DEF StateInv, HistOK, Hist
      <4> QED
        BY <1>5, <4>1, <4>2, <4>4 DEF EraseLists, calling
    <3>2. SavedInv /\ UploadInv
      BY <3>1 DEF RecordingInv
    <3>3. erase'.pc = "listed" /\ erase'.id = erase.id /\ erase'.listed = Listed(erase.id)
      BY <3>1 DEF StateInv, EraseOK
    <3>4. \A r \in store : r.of = erase.id => r.call \in Listed(erase.id)
      BY <3>1, <3>2 DEF SavedInv, Listed, CallsOf, StateInv, CallsOK
    <3> QED
      BY <1>1, <3>1, <3>2, <3>3, <3>4 DEF SavedInv, UploadInv, ListedInv, RemovedInv
  <2> QED
    BY <1>3, <2>1 DEF RecordingInv
<1>6. CASE EraseRecordings
  <2>1. ASSUME ~hist'.spared
        PROVE  (SavedInv /\ UploadInv /\ ListedInv /\ RemovedInv)'
    <3>1. /\ erase.pc = "listed" /\ UNCHANGED hist
          /\ store' = {r \in store : r.call \notin erase.listed}
      BY <1>6, <2>1 DEF EraseRecordings, StateInv, HistOK, Hist
    <3>2. erase'.pc = "removed" /\ erase'.id = erase.id
      BY <1>6 DEF EraseRecordings, StateInv, EraseOK
    <3>3. SavedInv /\ UploadInv /\ ListedInv
      BY <2>1, <3>1 DEF RecordingInv
    <3>4. SavedInv' /\ UploadInv'
      BY <1>1, <3>1, <3>2, <3>3 DEF SavedInv, UploadInv
    <3> QED
      BY <3>1, <3>2, <3>3, <3>4 DEF ListedInv, RemovedInv
  <2> QED
    BY <1>3, <2>1 DEF RecordingInv
<1>7. CASE EraseEnrolment \/ EraseFails
  <2>1. /\ UNCHANGED <<store, hist>> /\ erase'.id = erase.id
        /\ \/ erase.pc = "called" /\ erase'.pc = "unenrolled"
           \/ erase.pc \in {"found", "unenrolled"} /\ erase'.pc = "failed"
    BY <1>7 DEF EraseEnrolment, EraseFails, EraseGoto, StateInv, EraseOK, calling
  <2>2. ASSUME ~hist'.spared
        PROVE  (SavedInv /\ UploadInv /\ ListedInv /\ RemovedInv)'
    <3>1. SavedInv /\ UploadInv /\ RemovedInv
      BY <2>1, <2>2 DEF RecordingInv
    <3> QED
      BY <1>1, <2>1, <3>1 DEF SavedInv, UploadInv, ListedInv, RemovedInv
  <2> QED
    BY <1>3, <2>2 DEF RecordingInv
<1> QED
  BY <1>4, <1>5, <1>6, <1>7

(* The legacy engine's recordings; the other engine's are another matter.  *)
LEMMA RecordingStep ==
  ASSUME Engine = "legacy", StateInv, RecordingInv, Next
  PROVE  RecordingInv'
<1>1. hist.spared => hist'.spared
  BY HistFrame
<1>2. CASE UNCHANGED <<rows, store, erase, run>>
  BY <1>1, <1>2, QuietStep
<1>3. CASE TurnedAway \/ Dnc \/ CallOver
  <2>1. UNCHANGED <<rows, store, erase>> /\ run.pc # "uploaded" /\ run'.pc = "idle"
    BY <1>3 DEF TurnedAway, Dnc, CallOver, LeaveJob
  <2> QED
    BY <1>1, <2>1, QuietStep DEF InCall
<1>4. CASE Callable \/ \E i \in Ids : TakeJob(i)
  <2>1. UNCHANGED <<rows, store, erase>> /\ run.pc # "uploaded" /\ run'.pc \in {"taken", "checked"}
    BY <1>4 DEF Callable, TakeJob, StateInv, RunOK
  <2> QED
    BY <1>1, <2>1, QuietStep DEF InCall
<1>5. CASE CallEnds
  <2>1. UNCHANGED <<rows, store, erase>> /\ run.pc = "calling"
    BY <1>5 DEF CallEnds
  <2>2. \/ run'.pc = "idle"
        \/ run'.pc = "ended" /\ run'.call = run.call /\ run'.id = run.id
    BY <1>5 DEF CallEnds, LeaveJob, StateInv, RunOK
  <2> QED
    BY <1>1, <2>1, <2>2, QuietStep DEF InCall
<1> QED
  BY <1>2, <1>3, <1>4, <1>5, CreateStep, UploadStep, SavePathStep, ClearStep, EraseOtherStep,
     DashboardFrame, LeadFrame
  DEF Next, Call, Erasure, OptOut, calling

(* What was deleted stays deleted: the data come back only with a lead     *)
(* that had read them, and with the legacy engine no recording is left but *)
(* of a call beside the deletion or where a request failed.                *)
THEOREM ErasedIsGone == Spec => []DataErased
<1> DEFINE I == StateInv /\ StaleInv /\ (Engine = "legacy" => RecordingInv)
<1>1. Init => I
  <2> SUFFICES ASSUME Init PROVE I
    OBVIOUS
  <2>1. StaleInv
    BY DEF Init, StaleInv
  <2>2. RecordingInv
    BY DEF Init, RecordingInv, RowInv, SavedInv, UploadInv, ListedInv, RemovedInv, InCall
  <2> QED
    BY <2>1, <2>2, StateInit
<1>2. I /\ [Next]_vars => I'
  <2>1. CASE UNCHANGED vars
    BY <2>1, StateStep DEF vars, calling, StaleInv, ErasedStaysErased, RecordingInv, RowInv,
      SavedInv, UploadInv, ListedInv, RemovedInv
  <2> QED
    BY <2>1, StateStep, StaleStep, RecordingStep
<1>3. I => DataErased
  <2> SUFFICES ASSUME I PROVE DataErased
    OBVIOUS
  <2>1. TypeOK
    <3>1. /\ contact \in [id : 0..MaxIds, dnc : BOOLEAN, data : {"none", "old", "new"}]
          /\ ids \in 0..MaxIds
      BY DEF StateInv, ContactOK, Contact
    <3>2. /\ cc \in [id : 0..MaxIds, st : {"none", "pending", "calling", "called", "dnc"}]
          /\ cc.id \in {0, contact.id}
          /\ campaign \in [st : {"none", "active", "paused"}, hook : BOOLEAN]
          /\ jobs \in [Ids -> 0..MaxJobs]
      BY DEF StateInv, CcOK, CampaignOK, JobsOK
    <3>3. \A l \in Leads : /\ lead[l].pc \in LeadPcs
                           /\ lead[l].id \in 0..MaxIds
      BY DEF StateInv, LeadOK
    <3>4. route.pc \in RoutePcs /\ erase.listed \subseteq Calls
      BY DEF StateInv, RouteOK, EraseOK
    <3>5. run.pc \in {"idle", "taken", "checked"} \cup InCall
      BY DEF StateInv, RunOK
    <3>6. /\ rows \in [Calls -> [id : 0..MaxIds, path : BOOLEAN]]
          /\ store \subseteq [call : Calls, of : Ids]
      BY DEF StateInv, CallsOK
    <3> HIDE DEF I
    <3> QED
      BY <3>1, <3>2, <3>3, <3>4, <3>5, <3>6 DEF TypeOK, LeadPcs, RoutePcs, InCall
  <2>2. ErasedStaysErased
    BY DEF StaleInv, ErasedStaysErased
  <2>3. Engine = "legacy" => RecordingsErased
    BY DEF RecordingInv, RemovedInv, RecordingsErased
  <2> QED
    BY <2>1, <2>2, <2>3 DEF DataErased
<1> HIDE DEF I
<1> QED
  BY <1>1, <1>2, <1>3, PTL DEF Spec

----------------------------------------------------------------------------
(* Pending enrolments                                                      *)

(* Whoever is still to queue the job names the contact that waits for it.  *)
PendingInv ==
  (cc.st = "pending" /\ jobs[cc.id] = 0 /\ run.id # cc.id) =>
    \/ hist.dropped
    \/ route.pc \in {"launchEnrolled", "quickEnrolled"} /\ route.id = cc.id
    \/ \E l \in Leads : lead[l].pc = "enrolled" /\ lead[l].id = cc.id

(* A job is queued for another contact id than the one enrolled only if    *)
(* that one is gone.                                                       *)
LEMMA EnqueuePending ==
  ASSUME StateInv, PendingInv, NEW i \in Ids, Enqueue(i), UNCHANGED <<contact, cc, run>>,
         cc.id # i =>
           /\ route.pc \in {"launchEnrolled", "quickEnrolled"} /\ route.id = cc.id =>
                UNCHANGED route
           /\ \A l \in Leads : lead[l].pc = "enrolled" /\ lead[l].id = cc.id =>
                lead'[l] = lead[l]
  PROVE  PendingInv'
<1>1. jobs'[i] # 0 /\ \A k \in Ids \ {i} : jobs'[k] = jobs[k]
  BY ContactsAssumption DEF Enqueue, StateInv, JobsOK
<1>2. hist.dropped /\ i # contact.id => hist'.dropped
  <2>1. PICK b \in BOOLEAN : b = (hist.dropped /\ i # contact.id)
    BY DEF StateInv, HistOK, Hist
  <2>2. hist' = [hist EXCEPT !.dropped = b]
    BY <2>1 DEF Enqueue
  <2> QED
    BY <2>1, <2>2 DEF StateInv, HistOK, Hist
<1>3. SUFFICES ASSUME cc.st = "pending", jobs'[cc.id] = 0, run.id # cc.id
               PROVE  \/ hist'.dropped
                      \/ route'.pc \in {"launchEnrolled", "quickEnrolled"} /\ route'.id = cc.id
                      \/ \E l \in Leads : lead'[l].pc = "enrolled" /\ lead'[l].id = cc.id
  BY DEF PendingInv
<1>4. cc.id # i /\ cc.id = contact.id /\ cc.id \in Ids
  BY <1>1, <1>3, ContactsAssumption DEF StateInv, CcOK, Ids
<1> QED
  BY <1>1, <1>2, <1>3, <1>4 DEF PendingInv

(* Steps that take nobody's reason away.                                   *)
LEMMA PendingKept ==
  ASSUME PendingInv, UNCHANGED <<cc, jobs>>, run'.id = run.id \/ run.id = 0,
         cc.st = "pending" => cc.id # 0,
         \/ hist'.dropped
         \/ /\ hist.dropped => hist'.dropped
            /\ route.pc \in {"launchEnrolled", "quickEnrolled"} => UNCHANGED route
            /\ \A l \in Leads : lead[l].pc = "enrolled" => lead'[l] = lead[l]
  PROVE  PendingInv'
BY DEF PendingInv

(* A lead other than those enrolled changes.                               *)
LEMMA LeadOthers ==
  ASSUME StateInv, NEW l \in Leads, Lead(l)
  PROVE  \A k \in Leads \ {l} : lead'[k] = lead[k]
<1>1. lead \in [Leads -> [pc : LeadPcs, read : Contact, id : 0..MaxIds]]
  BY DEF StateInv, LeadOK
<1>2. \E e : lead' = [lead EXCEPT ![l] = e]
  <2>1. CASE LeadAccepted(l) \/ LeadLooks(l) \/ LeadEnrolls(l)
    <3>1. \/ LeadOver(l) \/ LeadGoto(l, "accepted")
          \/ LeadGoto(l, "looked") \/ LeadGoto(l, "enrolled")
      BY <2>1 DEF LeadAccepted, LeadLooks, LeadEnrolls
    <3> QED
      BY <3>1 DEF LeadOver, LeadGoto
  <2>2. CASE LeadReads(l)
    <3>1. lead' = [lead EXCEPT ![l] = [lead[l] EXCEPT !.pc = "read", !.read = contact]]
      BY <1>1, <2>2 DEF LeadReads
    <3> QED
      BY <3>1
  <2>3. CASE LeadUpserts(l)
    <3>1. lead' = [lead EXCEPT ![l] =
                     [lead[l] EXCEPT !.pc = "saved", !.id = contact'.id, !.read = NoContact]]
      BY <1>1, <2>3 DEF LeadUpserts
    <3> QED
      BY <3>1
  <2>4. CASE LeadEnrolled(l) \/ LeadEnqueues(l) \/ LeadFails(l)
    BY <2>4 DEF LeadEnrolled, LeadEnqueues, LeadFails, LeadOver
  <2> QED
    BY <2>1, <2>2, <2>3, <2>4 DEF Lead
<1> QED
  BY <1>1, <1>2

LEMMA DroppedKept ==
  ASSUME StateInv, Call \/ Erasure
  PROVE  hist.dropped => hist'.dropped
<1>0. hist \in Hist
  BY DEF StateInv, HistOK
<1>1. CASE UNCHANGED hist \/ hist' = [hist EXCEPT !.dropped = TRUE]
  BY <1>0, <1>1 DEF Hist
<1>2. CASE \E b : \/ hist' = [hist EXCEPT !.opted = b]
                  \/ hist' = [hist EXCEPT !.spared = b]
                  \/ hist' = [hist EXCEPT !.gone = b]
  BY <1>0, <1>2 DEF Hist
<1>3. CASE TurnedAway \/ CreateCall \/ CallEnds
  BY <1>1, <1>3 DEF TurnedAway, CreateCall, CallEnds
<1>4. CASE SavePath \/ EraseRecordings \/ EraseContact
  BY <1>1, <1>2, <1>4 DEF SavePath, EraseRecordings, EraseContact
<1>6. CASE OptOut
  BY <1>0, <1>6 DEF OptOut, Hist
<1>5. CASE UploadRecording \/ EraseLists
  <2>1. PICK b, c : /\ b = (hist.spared \/ (run.id = erase.id /\ erase.pc \notin {"idle", "found"}))
                    /\ c = (hist.spared \/ run.id = erase.id)
    OBVIOUS
  <2> QED
    BY <1>2, <1>5, <2>1 DEF UploadRecording, EraseLists
<1> QED
  BY <1>1, <1>3, <1>4, <1>5, <1>6, CallFrame, ErasureFrame

LEMMA PendingDashboard ==
  ASSUME StateInv, PendingInv, Next, Dashboard
  PROVE  PendingInv'
<1>0. UNCHANGED <<lead, run>> /\ (cc.st = "pending" => cc.id # 0)
  BY DashboardFrame DEF StateInv, CcOK
<1>1. CASE LaunchEnrolls
  <2>1. UNCHANGED <<hist, jobs>> /\ route.pc = "launched"
    BY <1>1 DEF LaunchEnrolls
  <2>2. CASE UNCHANGED cc
    BY <1>0, <2>1, <2>2, PendingKept
  <2>3. CASE ~UNCHANGED cc
    <3>1. cc' = [id |-> contact.id, st |-> "pending"] /\ contact.id = route.id
          /\ route' = [route EXCEPT !.pc = "launchEnrolled"]
      BY <1>1, <2>3 DEF LaunchEnrolls
    <3> QED
      BY <3>1 DEF PendingInv, StateInv, RouteOK
  <2> QED
    BY <2>2, <2>3
<1>2. CASE QuickEnrolls
  <2>1. UNCHANGED <<hist, jobs>> /\ route.pc = "quick"
    BY <1>2 DEF QuickEnrolls
  <2>2. CASE UNCHANGED cc
    BY <1>0, <2>1, <2>2, PendingKept
  <2>3. CASE ~UNCHANGED cc
    <3>1. cc' = [id |-> contact.id, st |-> "pending"] /\ contact.id = route.id
          /\ route' = [route EXCEPT !.pc = "quickEnrolled"]
      BY <1>2, <2>3 DEF QuickEnrolls
    <3> QED
      BY <3>1 DEF PendingInv, StateInv, RouteOK
  <2> QED
    BY <2>2, <2>3
<1>3. CASE LaunchEnqueues \/ QuickEnqueues
  <2>1. Enqueue(route.id) /\ UNCHANGED <<contact, cc>> /\ route.pc # "idle"
    BY <1>3 DEF LaunchEnqueues, QuickEnqueues
  <2>2. PICK i \in Ids : i = route.id
    BY <2>1, ContactsAssumption DEF StateInv, RouteOK, Ids
  <2> QED
    BY <1>0, <2>1, <2>2, EnqueuePending
<1>4. CASE Resume /\ UNCHANGED <<jobs, hist>>
  <2>1. UNCHANGED <<cc, route>>
    BY <1>4 DEF Resume
  <2> QED
    BY <1>0, <1>4, <2>1, PendingKept
<1>7. CASE Resume /\ ~UNCHANGED <<jobs, hist>>
  <2>1. CASE cc.st = "pending"
    <3>1. Enqueue(cc.id) /\ UNCHANGED <<contact, cc>>
      BY <1>7, <2>1 DEF Resume
    <3>2. PICK i \in Ids : i = cc.id
      BY <1>0, <2>1, ContactsAssumption DEF StateInv, CcOK, Ids
    <3> QED
      BY <1>0, <3>1, <3>2, EnqueuePending
  <2>2. CASE cc.st # "pending"
    <3>1. UNCHANGED cc
      BY <1>7 DEF Resume
    <3> QED
      BY <2>2, <3>1 DEF PendingInv
  <2> QED
    BY <2>1, <2>2
<1>5. CASE RouteFails
  <2>1. hist'.dropped /\ UNCHANGED <<cc, jobs>>
    BY <1>5 DEF RouteFails, StateInv, HistOK, Hist
  <2> QED
    BY <1>0, <2>1, PendingKept
<1>6. CASE Upload \/ Launch \/ ConfigureWebhook \/ Pause \/ Quick
  <2>1. /\ UNCHANGED <<cc, jobs, hist>>
        /\ route.pc \in {"launchEnrolled", "quickEnrolled"} => UNCHANGED route
    BY <1>6 DEF Upload, Launch, ConfigureWebhook, Pause, Quick
  <2> QED
    BY <1>0, <2>1, PendingKept
<1> QED
  BY <1>1, <1>2, <1>3, <1>4, <1>5, <1>6, <1>7 DEF Dashboard

LEMMA PendingLead ==
  ASSUME StateInv, PendingInv, Next, NEW l \in Leads, Lead(l)
  PROVE  PendingInv'
<1>0. /\ UNCHANGED <<run, route>> /\ (cc.st = "pending" => cc.id # 0)
      /\ \A k \in Leads \ {l} : lead'[k] = lead[k]
  BY LeadFrame, LeadOthers DEF StateInv, CcOK
<1>1. CASE LeadEnqueues(l)
  <2>1. Enqueue(lead[l].id) /\ UNCHANGED <<contact, cc>> /\ lead[l].pc = "enrolled"
    BY <1>1 DEF LeadEnqueues
  <2>2. PICK i \in Ids : i = lead[l].id
    BY <2>1, ContactsAssumption DEF StateInv, LeadOK, Ids
  <2> QED
    BY <1>0, <2>1, <2>2, EnqueuePending
<1>2. CASE LeadEnrolls(l)
  <2>1. UNCHANGED <<hist, jobs>> /\ lead[l].pc = "looked"
    BY <1>2 DEF LeadEnrolls
  <2>2. CASE UNCHANGED cc
    BY <1>0, <2>1, <2>2, PendingKept
  <2>3. CASE ~UNCHANGED cc
    <3>1. /\ cc' = [id |-> contact.id, st |-> "pending"] /\ contact.id = lead[l].id
          /\ LeadGoto(l, "enrolled")
      BY <1>2, <2>3 DEF LeadEnrolls
    <3>2. PICK e : e = [lead[l] EXCEPT !.pc = "enrolled"]
      OBVIOUS
    <3>3. lead' = [lead EXCEPT ![l] = e]
      BY <3>1, <3>2 DEF LeadGoto
    <3>4. e.pc = "enrolled" /\ e.id = lead[l].id /\ lead'[l] = e
      BY <3>2, <3>3 DEF StateInv, LeadOK
    <3> QED
      BY <3>1, <3>4 DEF PendingInv
  <2> QED
    BY <2>2, <2>3
<1>3. CASE ~LeadEnqueues(l) /\ ~LeadEnrolls(l)
  <2>1. UNCHANGED <<cc, jobs>>
    BY <1>3, LeadFrame
  <2>2. hist.dropped => hist'.dropped
    <3>1. CASE UNCHANGED hist
      BY <3>1
    <3>2. PICK g, v, d : /\ g = (hist.gone \/ (contact.dnc /\ ~lead[l].read.dnc))
                         /\ v = (hist.revived \/
                                   (lead[l].read.id # 0 /\ lead[l].read.id # contact.id))
                         /\ d = (hist.dropped \/ lead[l].pc = "enrolled")
      OBVIOUS
    <3>3. CASE LeadUpserts(l) \/ LeadFails(l)
      <4>1. \/ hist' = [hist EXCEPT !.gone = g, !.revived = v]
            \/ hist' = [hist EXCEPT !.dropped = d]
        BY <3>2, <3>3 DEF LeadUpserts, LeadFails
      <4> QED
        BY <3>2, <4>1 DEF StateInv, HistOK, Hist
    <3> QED
      BY <1>3, <3>1, <3>3, LeadFrame
  <2>3. lead[l].pc = "enrolled" => hist'.dropped
    <3>1. lead[l].pc = "enrolled" => LeadFails(l)
      BY <1>3 DEF Lead, LeadAccepted, LeadReads, LeadUpserts, LeadEnrolled, LeadLooks
    <3>2. ASSUME lead[l].pc = "enrolled"
          PROVE  hist'.dropped
      <4>1. PICK d : d = (hist.dropped \/ lead[l].pc = "enrolled")
        OBVIOUS
      <4>2. hist' = [hist EXCEPT !.dropped = d] /\ d
        BY <3>1, <3>2, <4>1 DEF LeadFails
      <4> QED
        BY <4>2 DEF StateInv, HistOK, Hist
    <3> QED
      BY <3>2
  <2> QED
    BY <1>0, <2>1, <2>2, <2>3, PendingKept
<1> QED
  BY <1>1, <1>2, <1>3

LEMMA PendingCall ==
  ASSUME StateInv, PendingInv, Call
  PROVE  PendingInv'
<1>0. /\ UNCHANGED <<lead, route>> /\ (cc.st = "pending" => cc.id # 0)
      /\ run.pc = "idle" <=> run.id = 0
      /\ hist.dropped => hist'.dropped
  BY CallFrame, DroppedKept DEF StateInv, CcOK, RunOK
<1>1. CASE \E i \in Ids : TakeJob(i)
  <2>1. PICK i \in Ids : TakeJob(i)
    BY <1>1
  <2>2. /\ UNCHANGED cc /\ run.id = 0 /\ run'.id = i
        /\ \A k \in Ids \ {i} : jobs'[k] = jobs[k]
    BY <1>0, <2>1 DEF TakeJob, StateInv, RunOK, JobsOK
  <2>3. cc.st = "pending" => cc.id \in Ids
    BY <1>0, ContactsAssumption DEF StateInv, CcOK, Ids
  <2> QED
    BY <1>0, <2>2, <2>3 DEF PendingInv
<1>2. ASSUME hist'.dropped, UNCHANGED <<cc, jobs>>
      PROVE  PendingInv'
  BY <1>2 DEF PendingInv
<1>3. CASE OptOut \/ Callable \/ UploadRecording \/ SavePath
  <2>1. UNCHANGED <<cc, jobs>>
    BY <1>3 DEF OptOut, Callable, UploadRecording, SavePath
  <2>2. run'.id = run.id
    BY <1>3 DEF OptOut, Callable, UploadRecording, SavePath, calling,
      StateInv, RunOK
  <2> QED
    BY <1>0, <2>1, <2>2, PendingKept
<1>4. CASE TurnedAway
  BY <1>2, <1>4 DEF TurnedAway, StateInv, HistOK, Hist
<1>5. CASE CallEnds
  <2>1. UNCHANGED <<cc, jobs>>
    BY <1>5 DEF CallEnds
  <2>2. CASE run' = [run EXCEPT !.pc = "ended"]
    <3>1. run'.id = run.id
      BY <2>2 DEF StateInv, RunOK
    <3> QED
      BY <1>0, <2>1, <3>1, PendingKept
  <2>3. CASE hist' = [hist EXCEPT !.dropped = TRUE]
    BY <1>2, <2>1, <2>3 DEF StateInv, HistOK, Hist
  <2> QED
    BY <1>5, <2>2, <2>3 DEF CallEnds
<1>6. CASE Dnc \/ CallOver
  <2>1. /\ UNCHANGED jobs
        /\ cc' = IF cc.id = run.id THEN cc' ELSE cc
        /\ cc.id = run.id => cc'.st # "pending"
    BY <1>6 DEF Dnc, CallOver, SetCc, StateInv, CcOK
  <2> QED
    BY <1>0, <2>1 DEF PendingInv
<1>7. CASE CreateCall
  <2>1. CASE contact.id = run.id /\ cc.id = run.id
    <3>1. cc'.st = "calling"
      BY <1>7, <2>1 DEF CreateCall, SetCc, StateInv, CcOK
    <3> QED
      BY <3>1 DEF PendingInv
  <2>2. CASE ~(contact.id = run.id /\ cc.id = run.id)
    <3>1. UNCHANGED <<cc, jobs>> /\ hist' = [hist EXCEPT !.dropped = TRUE]
      BY <1>7, <2>2 DEF CreateCall
    <3> QED
      BY <1>2, <3>1 DEF StateInv, HistOK, Hist
  <2> QED
    BY <2>1, <2>2
<1> QED
  BY <1>1, <1>3, <1>4, <1>5, <1>6, <1>7 DEF Call

LEMMA PendingErasure ==
  ASSUME StateInv, PendingInv, Erasure
  PROVE  PendingInv'
<1>0. /\ UNCHANGED <<lead, route, run, jobs>> /\ (cc.st = "pending" => cc.id # 0)
      /\ hist.dropped => hist'.dropped
  BY ErasureFrame, DroppedKept DEF StateInv, CcOK
<1>1. CASE UNCHANGED cc
  BY <1>0, <1>1, PendingKept
<1>2. CASE cc' = NoCc
  BY <1>2 DEF PendingInv, NoCc
<1>3. UNCHANGED cc \/ cc' = NoCc
  BY ErasureFrame DEF EraseEnrolment, EraseContact
<1> QED
  BY <1>1, <1>2, <1>3

(* An enrolled contact that waits for its call has a job, or a route or a  *)
(* lead is about to make one, or a job of his was turned away or never     *)
(* queued.                                                                 *)
THEOREM NobodyForgotten == Spec => []NoneForgotten
<1>1. Init => StateInv /\ PendingInv
  BY StateInit DEF Init, PendingInv, NoCc
<1>2. StateInv /\ PendingInv /\ [Next]_vars => (StateInv /\ PendingInv)'
  <2>1. CASE UNCHANGED vars
    BY <2>1, StateStep DEF vars, calling, PendingInv
  <2> QED
    BY <2>1, StateStep, PendingDashboard, PendingLead, PendingCall, PendingErasure DEF Next
<1>3. PendingInv => NoneForgotten
  BY DEF PendingInv, NoneForgotten
<1> QED
  BY <1>1, <1>2, <1>3, PTL DEF Spec
=============================================================================
