---------------------------- MODULE Conversations ----------------------------
(***************************************************************************)
(* What becomes of a call's row and recording when the call is over.       *)
(* Three parties write them without a common lock:                         *)
(*   - the bridge that carried the call, when it finalizes;                *)
(*   - the dashboard's webhook route conversation-ended, to which          *)
(*     ElevenLabs delivers a transcription and a recording, in any order,  *)
(*     again when it got no answer, each delivery handled on its own;      *)
(*   - the janitor, which finalizes calls that nobody finalized.           *)
(* One call, one conversation.  Each request to the database or the        *)
(* storage is a step.  The rows of webhook_events, a log that the route     *)
(* writes, the janitor cuts short and nothing reads, are left out.         *)
(***************************************************************************)
EXTENDS Naturals

CONSTANTS
  Transcriptions, Audios,  \* BOUND: deliveries of post_call_transcription and
                           \* post_call_audio, numbered
  None,
  MaxFaults                \* BOUND: requests that fail, handlers and processes that die

ASSUME ConversationAssumption ==
  /\ Transcriptions \subseteq Nat /\ Audios \subseteq Nat
  /\ Transcriptions \cap Audios = {}
  /\ None \notin Nat \cup {"bridge", "webhook", "janitor", "pending", "archived",
                          "sparse", "full"}
  /\ MaxFaults \in Nat

VARIABLES
  (* columns of the calls row *)
  convId,      \* elevenlabs_conversation_id: "none", "sent" while the bridge's
               \* update is on its way, "set"
  ended,       \* who wrote ended_at last, or None
  status,      \* calls.status
  reason,      \* who wrote failure_reason last, or None
  transcript,  \* the delivery whose transcript the row has: webhook_processed_at
  archive,     \* audio_archive_status, None for NULL
  path,        \* audio_storage_path is set
  (* other tables and the storage bucket *)
  metrics,     \* the row of call_metrics
  toolRows,    \* deliveries whose tool calls are in call_tool_invocations
  files,       \* "pending" and "final", if there is a file
  (* processes *)
  pc,          \* of a delivery: before which request its handler is
  bridge,      \* "early" before the conversation has its id, "live", "silent" when the
               \* session is closed but not the bridge, then the steps of finalizing
  sweep,       \* of the janitor
  old,         \* started_at is more than fifteen minutes ago
  faults,      \* faults left
  (* history *)
  slow,        \* the janitor finalized the call before its bridge did
  unmatched    \* stored audio that the other handler cannot see: "null", the row had
               \* no audio_archive_status; "late", staged after the search for it

rowVars   == <<ended, status, reason, transcript, archive, path>>
storeVars == <<metrics, toolRows, files>>
voiceVars == <<convId, bridge, sweep, old, slow>>
vars      == <<rowVars, storeVars, voiceVars, pc, faults, unmatched>>

Deliveries == Transcriptions \cup Audios
Finished   == {"acked", "failed", "vanished"}
Handling   == {"lookup", "claim", "tools", "download", "move", "unstage",
               "markArchived", "markPending", "stage", "upload", "record"}

TypeOK ==
  /\ convId \in {"none", "sent", "set"}
  /\ ended \in {None, "bridge", "webhook", "janitor"}
  /\ status \in {"open", "completed", "failed"}
  /\ reason \in {None, "bridge", "janitor"}
  /\ transcript \in Transcriptions \cup {None}
  /\ archive \in {None, "pending", "archived"}
  /\ path \in BOOLEAN /\ toolRows \subseteq Transcriptions
  /\ metrics \in {None, "sparse", "full"}
  /\ files \subseteq {"pending", "final"}
  /\ pc \in [Deliveries -> {"idle"} \cup Handling \cup Finished]
  /\ bridge \in {"early", "live", "silent", "ending", "metrics", "done", "dead"}
  /\ sweep \in {"idle", "finalize", "metrics"}
  /\ old \in BOOLEAN /\ slow \in BOOLEAN /\ unmatched \subseteq {"null", "late"}
  /\ faults \in 0 .. MaxFaults
  (* a call with a final status, or that the janitor took up, has ended *)
  /\ status # "open" \/ reason # None => ended # None

Init ==
  /\ convId = "none" /\ ended = None /\ status = "open" /\ reason = None
  /\ transcript = None /\ archive = None /\ path = FALSE
  /\ metrics = None /\ toolRows = {} /\ files = {}
  /\ pc = [h \in Deliveries |-> "idle"]
  /\ bridge = "early" /\ sweep = "idle" /\ old = FALSE
  /\ faults = MaxFaults /\ slow = FALSE /\ unmatched = {}

----------------------------------------------------------------------------
(* Requests *)

Fault   == faults > 0 /\ faults' = faults - 1
NoFault == UNCHANGED faults

Goto(h, label) == pc' = [pc EXCEPT ![h] = label]
Answer200(h)   == Goto(h, "acked")
(* An error: ElevenLabs delivers again.                                    *)
Answer500(h)   == Goto(h, "failed")

----------------------------------------------------------------------------
(* The webhook route *)

(* The order of the numbers is no restriction: deliveries of a kind are    *)
(* alike.                                                                  *)
NextOfItsKind(h) ==
  /\ pc[h] = "idle"
  /\ \A g \in Deliveries :
       (g < h /\ (g \in Audios <=> h \in Audios)) => pc[g] # "idle"
ConversationOver == convId # "none" /\ bridge \notin {"early", "live"}

(* POST: the size, the signature, the timestamp, the conversation id or    *)
(* the audio may be refused.                                               *)
Receive(h) ==
  /\ ConversationOver /\ NextOfItsKind(h)
  /\ \/ NoFault /\ Goto(h, "lookup")
     \/ Fault /\ Answer500(h)
  /\ UNCHANGED <<rowVars, storeVars, voiceVars, unmatched>>

(* handleTranscription and handleAudio look the call up by the id of the   *)
(* conversation.  Without a row the transcript is acknowledged and gone,   *)
(* while audio is staged.                                                  *)
Lookup(h) ==
  /\ pc[h] = "lookup"
  /\ \/ Fault /\ Answer500(h)
     \/ /\ NoFault /\ convId = "set" /\ h \in Transcriptions
        /\ Goto(h, "claim")
     \/ /\ NoFault /\ convId # "set" /\ h \in Transcriptions
        /\ Answer200(h)
     \/ NoFault /\ convId = "set" /\ h \in Audios /\ archive = "archived" /\ Answer200(h)
     \/ NoFault /\ convId = "set" /\ h \in Audios /\ archive # "archived" /\ Goto(h, "upload")
     \/ NoFault /\ convId # "set" /\ h \in Audios /\ Goto(h, "stage")
  /\ UNCHANGED <<rowVars, storeVars, voiceVars, unmatched>>

(* Mutant of Claim: a replay records its tool calls too.                   *)
ClaimReplay(h) ==
  /\ pc[h] = "claim"
  /\ \/ Fault /\ Answer500(h) /\ UNCHANGED <<transcript, ended>>
     \/ /\ NoFault /\ transcript # None
        /\ Goto(h, "tools") /\ UNCHANGED <<transcript, ended>>
     \/ /\ NoFault /\ transcript = None
        /\ transcript' = h /\ ended' \in {ended, "webhook"}
        /\ Goto(h, "tools")
  /\ UNCHANGED <<status, reason, archive, path, storeVars, voiceVars, unmatched>>
(* The first delivery to find webhook_processed_at empty wins; the payload *)
(* may tell when the conversation ended.                                   *)
Claim(h) ==
  /\ pc[h] = "claim"
  /\ \/ Fault /\ Answer500(h) /\ UNCHANGED <<transcript, ended>>
     \/ /\ NoFault /\ transcript # None
        /\ Answer200(h) /\ UNCHANGED <<transcript, ended>>
     \/ /\ NoFault /\ transcript = None
        /\ transcript' = h /\ ended' \in {ended, "webhook"}
        /\ Goto(h, "tools")
  /\ UNCHANGED <<status, reason, archive, path, storeVars, voiceVars, unmatched>>

(* The tool calls in the transcript; a failure is logged.                  *)
RecordTools(h) ==
  /\ pc[h] = "tools"
  /\ \/ NoFault /\ toolRows' = toolRows \cup {h}
     \/ Fault /\ UNCHANGED toolRows
  /\ Goto(h, "download")
  /\ UNCHANGED <<rowVars, metrics, files, voiceVars, unmatched>>

(* movePendingToFinal: download, upload, remove.                           *)
Download(h) ==
  /\ pc[h] = "download"
  /\ \/ NoFault /\ "pending" \in files /\ Goto(h, "move")
     \/ NoFault /\ "pending" \notin files /\ Goto(h, "markPending")
     \/ Fault /\ Goto(h, "markPending")
  /\ UNCHANGED <<rowVars, storeVars, voiceVars, unmatched>>

(* Mutant of Move: a failed upload is taken for a move.                    *)
MoveMarked(h) ==
  /\ pc[h] = "move"
  /\ \/ NoFault /\ files' = files \cup {"final"} /\ Goto(h, "unstage")
     \/ Fault /\ UNCHANGED files /\ Goto(h, "markArchived")
  /\ UNCHANGED <<rowVars, metrics, toolRows, voiceVars, unmatched>>
Move(h) ==
  /\ pc[h] = "move"
  /\ \/ NoFault /\ files' = files \cup {"final"} /\ Goto(h, "unstage")
     \/ Fault /\ UNCHANGED files /\ Goto(h, "markPending")
  /\ UNCHANGED <<rowVars, metrics, toolRows, voiceVars, unmatched>>

Unstage(h) ==
  /\ pc[h] = "unstage"
  /\ \/ NoFault /\ files' = files \ {"pending"}
     \/ Fault /\ UNCHANGED files
  /\ Goto(h, "markArchived")
  /\ UNCHANGED <<rowVars, metrics, toolRows, voiceVars, unmatched>>

(* Neither of the two updates that end the reconciliation is checked.      *)
MarkArchived(h) ==
  /\ pc[h] = "markArchived"
  /\ \/ NoFault /\ archive' = "archived" /\ path' = TRUE
     \/ Fault /\ UNCHANGED <<archive, path>>
  /\ Answer200(h)
  /\ UNCHANGED <<ended, status, reason, transcript, storeVars, voiceVars, unmatched>>

(* Only where audio_storage_path is NULL: the recording may have come in   *)
(* since (but see RecordArchive).                                          *)
MarkPending(h) ==
  /\ pc[h] = "markPending"
  /\ \/ NoFault /\ ~path /\ archive' = "pending"
     \/ NoFault /\ path /\ UNCHANGED archive
     \/ Fault /\ UNCHANGED archive
  /\ Answer200(h)
  /\ UNCHANGED <<ended, status, reason, transcript, path, storeVars, voiceVars, unmatched>>

(* handleAudio without a row.  A transcription that has looked for staged  *)
(* audio before does not look again.                                       *)
LookedForAudio == \E h \in Transcriptions : transcript = h /\ pc[h] \notin {"tools", "download"}
Stage(h) ==
  /\ pc[h] = "stage"
  /\ \/ /\ NoFault /\ files' = files \cup {"pending"} /\ Answer200(h)
        /\ unmatched' = unmatched \cup (IF LookedForAudio THEN {"late"} ELSE {})
     \/ Fault /\ UNCHANGED <<files, unmatched>> /\ Answer500(h)
  /\ UNCHANGED <<rowVars, metrics, toolRows, voiceVars>>

(* handleAudio with a row.                                                 *)
UploadFinal(h) ==
  /\ pc[h] = "upload"
  /\ \/ NoFault /\ files' = files \cup {"final"} /\ Goto(h, "record")
     \/ Fault /\ UNCHANGED files /\ Answer500(h)
  /\ UNCHANGED <<rowVars, metrics, toolRows, voiceVars, unmatched>>

(* Mutant of RecordArchive: no row matches.                                *)
RecordNothing(h) ==
  /\ pc[h] = "record"
  /\ NoFault /\ Answer200(h)
  /\ UNCHANGED <<rowVars, storeVars, voiceVars, unmatched>>
(* .neq(audio_archive_status, archived) is not true of NULL, which the     *)
(* column is until a transcription has been handled: then no row matches.  *)
RecordArchive(h) ==
  /\ pc[h] = "record"
  /\ \/ /\ NoFault /\ archive = "pending"
        /\ archive' = "archived" /\ path' = TRUE /\ UNCHANGED unmatched
     \/ /\ NoFault /\ archive # "pending"
        /\ unmatched' = unmatched \cup (IF archive = None THEN {"null"} ELSE {}) /\ UNCHANGED <<archive, path>>
     \/ Fault /\ UNCHANGED <<archive, path, unmatched>>
  /\ Answer200(h)
  /\ UNCHANGED <<ended, status, reason, transcript, storeVars, voiceVars>>

(* The dashboard's process goes away under the handler.                    *)
Vanish(h) ==
  /\ pc[h] \in Handling
  /\ Fault /\ Goto(h, "vanished")
  /\ UNCHANGED <<rowVars, storeVars, voiceVars, unmatched>>

Handle(h) ==
  \/ Lookup(h) \/ Claim(h) \/ RecordTools(h) \/ Download(h) \/ Move(h) \/ Unstage(h)
  \/ MarkArchived(h) \/ MarkPending(h) \/ Stage(h) \/ UploadFinal(h) \/ RecordArchive(h)

----------------------------------------------------------------------------
(* The bridge *)

hookVars == <<pc, unmatched>>
hookRow  == <<transcript, archive, path, toolRows, files>>

(* The session's conversation_id event; its handler is not awaited.        *)
Converse ==
  /\ bridge = "early" /\ bridge' = "live"
  /\ convId' = "sent"
  /\ UNCHANGED <<rowVars, storeVars, hookVars, sweep, old, faults, slow>>
LandConvId ==
  /\ convId = "sent"
  /\ \/ NoFault /\ convId' = "set"
     \/ Fault /\ UNCHANGED convId
  /\ UNCHANGED <<rowVars, storeVars, hookVars, bridge, sweep, old, slow>>
(* The socket to ElevenLabs is closed: the session stops its timers, that  *)
(* of the maximum duration too, and the bridge only logs it.               *)
SessionCloses ==
  /\ bridge = "live" /\ bridge' = "silent"
  /\ UNCHANGED <<rowVars, storeVars, hookVars, convId, sweep, old, faults, slow>>
EndCall ==
  /\ bridge \in {"early", "live", "silent"} /\ bridge' = "ending"
  /\ UNCHANGED <<rowVars, storeVars, hookVars, convId, sweep, old, faults, slow>>

(* _persistFinalState writes whatever the row says; failure_reason only    *)
(* when there is one.                                                      *)
PersistCall ==
  /\ bridge = "ending" /\ bridge' = "metrics"
  /\ \/ /\ NoFault /\ ended' = "bridge"
        /\ \/ status' = "completed" /\ UNCHANGED reason
           \/ status' = "failed" /\ reason' = "bridge"
     \/ Fault /\ UNCHANGED <<ended, status, reason>>
  /\ UNCHANGED <<hookRow, metrics, hookVars, convId, sweep, old, slow>>
(* ignoreDuplicates: false.                                                *)
PersistMetrics ==
  /\ bridge = "metrics" /\ bridge' = "done"
  /\ \/ NoFault /\ metrics' = "full"
     \/ Fault /\ UNCHANGED metrics
  /\ UNCHANGED <<rowVars, toolRows, files, hookVars, convId, sweep, old, slow>>

(* The janitor runs in the bridge's process.  systemd starts it again, and *)
(* with it the janitor; nobody takes the call up.                          *)
Crash ==
  /\ bridge \notin {"done", "dead"} \/ sweep # "idle"
  /\ Fault
  /\ bridge' = IF bridge = "done" THEN "done" ELSE "dead"
  /\ sweep' = "idle"
  /\ UNCHANGED <<rowVars, storeVars, hookVars, convId, old, slow>>

----------------------------------------------------------------------------
(* The janitor *)

(* An open session ends itself, and its bridge, after ten minutes.  A      *)
(* bridge that never came to start one, or whose session is closed, may    *)
(* still be there after fifteen.                                           *)
GrowOld ==
  /\ ~old /\ bridge # "live"
  /\ old' = TRUE
  /\ UNCHANGED <<rowVars, storeVars, hookVars, convId, bridge, sweep, faults, slow>>

(* Mutant of SelectStuck: calls that have a final status, only.            *)
SelectSettled ==
  /\ sweep = "idle" /\ old /\ ended = None /\ status # "open"
  /\ NoFault /\ sweep' = "finalize"
  /\ UNCHANGED <<rowVars, storeVars, hookVars, convId, bridge, old, slow>>
(* runOnce, one at a time; sweepStuckCalls selects the calls to finalize.  *)
SelectStuck ==
  /\ sweep = "idle" /\ old /\ ended = None
  /\ \/ NoFault /\ sweep' = "finalize"
     \/ Fault /\ UNCHANGED sweep
  /\ UNCHANGED <<rowVars, storeVars, hookVars, convId, bridge, old, slow>>

(* The update holds for a row still without ended_at.  Whether it did is   *)
(* not looked at.  status is left as it is.                                *)
FinalizeStuck ==
  /\ sweep = "finalize"
  /\ \/ /\ NoFault /\ ended = None /\ sweep' = "metrics"
        /\ ended' = "janitor" /\ reason' = "janitor"
        /\ slow' = (slow \/ bridge \in {"early", "live", "silent", "ending"})
     \/ NoFault /\ ended # None /\ sweep' = "metrics" /\ UNCHANGED <<ended, reason, slow>>
     \/ Fault /\ sweep' = "idle" /\ UNCHANGED <<ended, reason, slow>>
  /\ UNCHANGED <<status, transcript, archive, path, storeVars, hookVars, convId, bridge, old>>

(* ignoreDuplicates: true.                                                 *)
SweepMetrics ==
  /\ sweep = "metrics" /\ sweep' = "idle"
  /\ \/ NoFault /\ metrics' = IF metrics = None THEN "sparse" ELSE metrics
     \/ Fault /\ UNCHANGED metrics
  /\ UNCHANGED <<rowVars, toolRows, files, hookVars, convId, bridge, old, slow>>

----------------------------------------------------------------------------
BridgeStep  == PersistCall \/ PersistMetrics
JanitorStep == SelectStuck \/ FinalizeStuck \/ SweepMetrics

Next ==
  \/ \E h \in Deliveries : Receive(h) \/ Handle(h) \/ Vanish(h)
  \/ Converse \/ LandConvId \/ SessionCloses \/ EndCall \/ BridgeStep \/ Crash
  \/ GrowOld \/ JanitorStep

(* Requests are answered, time passes, an open session ends by its own     *)
(* timer at the latest, and the janitor's fires every minute.  Nothing     *)
(* ends a bridge without an open session.                                  *)
Spec == Init /\ [][Next]_vars
             /\ WF_vars(bridge = "live" /\ EndCall) /\ WF_vars(BridgeStep)
             /\ WF_vars(GrowOld) /\ WF_vars(JanitorStep)

----------------------------------------------------------------------------
(* Properties *)

AtRest == \A h \in Deliveries : pc[h] \notin Handling
Acked(kind) == \E h \in kind : pc[h] = "acked"

(* A row that says archived names a file, and a row that names a file says *)
(* archived and the file is there, whatever the order of the deliveries    *)
(* and wherever they fail: neither handler takes back what the other wrote.*)
ArchivedIsStored ==
  /\ path <=> archive = "archived"
  /\ path => "final" \in files

(* A recording that was acknowledged is in the bucket, staged or final,    *)
(* through every failure in the middle of a move.                          *)
AckedAudioIsStored ==
  Acked(Audios) => files # {}

(* Both deliveries acknowledged, one transcript taken, no fault: the       *)
(* recording is archived, except in the two cases in which neither handler *)
(* sees the other's work (a NULL status, a late staging).                  *)
ArchivedUnlessUnmatched ==
  (AtRest /\ Acked(Audios) /\ transcript # None /\ faults = MaxFaults /\ unmatched = {})
    => archive = "archived"

(* No recording is lost and, but for those cases, none stays unarchived.   *)
AudioKept == AckedAudioIsStored /\ ArchivedUnlessUnmatched

(* A call that completed is reported as finalized by the janitor only if   *)
(* the janitor came before its bridge had written the row, never after.    *)
CompletedNotBlamed ==
  (status = "completed" /\ reason = "janitor") => slow

(* What the row says is of one piece, however many processes write it.     *)
RowSafe == TypeOK /\ ArchivedIsStored /\ CompletedNotBlamed

(* The first transcript of a conversation stays, the tool calls of no      *)
(* other delivery are recorded, whichever are handled at once, again or    *)
(* after a crash, and the metrics that a bridge measured are never         *)
(* replaced by the janitor's duration, whichever writes first.             *)
RecordsKept ==
  [][/\ transcript # None => transcript' = transcript
     /\ toolRows' \subseteq {transcript'}
     /\ metrics = "full" => metrics' = "full"]_vars

(* Every call gets an ended_at, though processes die, requests fail and    *)
(* bridges are never told that their call is over.                         *)
EveryCallEnds == <>(ended # None)
=============================================================================
