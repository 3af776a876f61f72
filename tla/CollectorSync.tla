--------------------------- MODULE CollectorSync ---------------------------
(***************************************************************************)
(* One source of the Collector synchronised to IncidentOps Core over HTTP: *)
(* run_sync (core/pipeline.py), the API exporter it drives                 *)
(* (exporters/incidentops_api.py), the SQLite state both share             *)
(* (state/sqlite_store.py) and `queue retry` / `queue clear` (queue.py).   *)
(*                                                                         *)
(* A process is one run of `sync`, of a daemon or watch cycle, or of       *)
(* `queue retry`; processes share the database and nothing else.  A step   *)
(* is one SQLite statement with its commit or one HTTP call, so processes  *)
(* interleave between any two of them, and a crash falls between any two.  *)
(*                                                                         *)
(* Abstracted: a document is its content (the checksum); the redaction and *)
(* metadata of a document are functions of it.  Files are the files that   *)
(* pass the path and type filters, numbered in the sorted order of         *)
(* discover_files.  A file does not change while it is being captured.     *)
(***************************************************************************)
EXTENDS Integers, FiniteSets

CONSTANTS
  Files,         \* the files of the source: numbers, in path order
  Contents,      \* what a file can hold
  Procs,         \* processes working on the state database
  RetryLimit,    \* settings.sync.retry_count
  BatchSize,     \* min(settings.sync.batch_size, Core's max_batch_size)
  Answers,       \* what an upload can come to, a subset of AnswerKinds
  TracksSyncs,   \* Core advertises sync_tracking or sync_lifecycle
  MayCrash,      \* a process may be killed
  MayClear,      \* an operator may run `queue clear`
  MayRevert,     \* a file may go back to contents it had before
  None,          \* no content
  MaxRowId       \* bound: no run begins with a row of this id or above

(* "ok"        2xx, every document stored                                   *)
(* "isolated"  2xx, Core refused some of the documents on their own         *)
(* "retryable" transport error, timeout, 408/409/425/429 or 5xx: whatever   *)
(*             Core had stored by then stays stored                         *)
(* "rejected"  any other 4xx, nothing stored; or a 2xx whose body is not    *)
(*             JSON, everything stored                                      *)
(* "missing"   404 from all three ingestion endpoints                       *)
AnswerKinds == {"ok", "isolated", "retryable", "rejected", "missing"}

ASSUME FilesAssumption == Files \subseteq Nat
ASSUME LimitsAssumption ==
  RetryLimit \in Nat /\ BatchSize \in Nat \ {0} /\ MaxRowId \in Nat
ASSUME AnswersAssumption == Answers \subseteq AnswerKinds
ASSUME SwitchAssumption ==
  /\ TracksSyncs \in BOOLEAN /\ MayCrash \in BOOLEAN /\ MayClear \in BOOLEAN
  /\ MayRevert \in BOOLEAN
ASSUME ContentsAssumption == MayRevert \/ Contents \subseteq Nat
ASSUME NoneAssumption == None \notin Contents

VARIABLES
  disk,      \* what each file holds now
  files,     \* table files: the last recorded content and status of each
  queue,     \* table failed_uploads
  run,       \* the local variables of each process
  core,      \* Core: the content it holds for each document
  remote,    \* Core: the status of the sync each process last opened
  accepted,  \* history: every content Core ever stored for each document
  cleared    \* history: documents whose queue entry an operator cleared
             \* and that have not been queued again since

vars == <<disk, files, queue, run, core, remote, accepted, cleared>>

-----------------------------------------------------------------------------
(* Data *)

(* ext is document_external_id; file and content are the payload.  The two  *)
(* differ when an UPDATE by id hits a row that another document has reused. *)
Rows == [id : Nat \ {0}, ext : Files, file : Files, content : Contents,
         retries : 0..RetryLimit, due : BOOLEAN]

FileRecords == [content : Contents \cup {None},
                status : {"none", "synced", "failed"}]

RunStates == {"idle", "scan", "export", "settle", "stamp", "bump",
              "select", "write", "record"}

Runs == [pc : RunStates,
         force : BOOLEAN,                        \* --force
         left : SUBSET Files,                    \* still to visit in this loop
         docs : [Files -> Contents \cup {None}], \* documents captured
         due : SUBSET Rows,                      \* rows read, still to retry
         row : Rows \cup {None},                 \* the row being retried
         batch : SUBSET Files,                   \* failed batch, to be queued
         failed : SUBSET Files,                  \* failed_external_ids
         answer : Answers \cup {"none"},         \* how the last upload ended
         read : Nat,                             \* what the last SELECT gave
         trouble : BOOLEAN]                      \* summary.failed_uploads > 0

SyncStatuses == {"none", "started", "success", "partial_success", "failed"}

NoRecord == [content |-> None, status |-> "none"]

IdleRun == [pc |-> "idle", force |-> FALSE, left |-> {},
            docs |-> [f \in Files |-> None], due |-> {}, row |-> None,
            batch |-> {}, failed |-> {}, answer |-> "none", read |-> 0,
            trouble |-> FALSE]

TypeOK ==
  /\ disk \in [Files -> Contents]
  /\ files \in [Files -> FileRecords]
  /\ queue \subseteq Rows
  /\ run \in [Procs -> Runs]
  /\ core \in [Files -> Contents \cup {None}]
  /\ remote \in [Procs -> SyncStatuses]
  /\ accepted \in [Files -> SUBSET Contents]
  /\ cleared \subseteq Files

Init ==
  /\ disk \in [Files -> Contents]
  /\ files = [f \in Files |-> NoRecord]
  /\ queue = {}
  /\ run = [p \in Procs |-> IdleRun]
  /\ core = [f \in Files |-> None]
  /\ remote = [p \in Procs |-> "none"]
  /\ accepted = [f \in Files |-> {}]
  /\ cleared = {}

-----------------------------------------------------------------------------
(* Helpers *)

At(p, state) == run[p].pc = state

First(f, S) == f \in S /\ \A g \in S : f <= g

Captured(p) == {f \in Files : run[p].docs[f] # None}

(* should_process_item: mtime and size, or else the checksum, agree with    *)
(* the record; last_status plays no part.                                   *)
Unchanged(f) == files[f].content = disk[f]

(* get_due_failed_uploads *)
IsDue(r) == r.retries < RetryLimit /\ r.due

(* ORDER BY created_at, id: a new row takes the id after the largest one in *)
(* the table, so the rows present are in creation order by id.              *)
Oldest(r, S) == r \in S /\ \A s \in S : r.id <= s.id

Ids == {r.id : r \in queue}

(* Ids grow without end while the table never empties; this caps them. *)
IdsInBound == \A i \in Ids : i < MaxRowId

(* batch_items: the next BatchSize documents of the list *)
NextBatch(S) == {f \in S : Cardinality({g \in S : g < f}) < BatchSize}

(* the exporter reads the status code alone, never the body *)
TakenAsSuccess(a) == a \in {"ok", "isolated"}

(* is_retryable_api_error *)
IsRetryable(a) == a = "retryable"

(* the documents of B that Core may have stored when the answer is a *)
Storable(a, B) == CASE a = "ok" -> {B}
                    [] a \in {"isolated", "retryable"} -> SUBSET B
                    [] a = "rejected" -> {{}, B}
                    [] OTHER -> {{}}

(* Core stores content[f] for every f in S, replacing what it held *)
CoreStores(S, content) ==
  /\ core' = [f \in Files |-> IF f \in S THEN content[f] ELSE core[f]]
  /\ accepted' = [f \in Files |->
       IF f \in S THEN accepted[f] \cup {content[f]} ELSE accepted[f]]

(* back in the export loop, the locals of the upload just settled dropped *)
BackToExport(p) ==
  [run EXCEPT ![p].pc = "export", ![p].row = None, ![p].answer = "none", ![p].read = 0]

(* upsert_file_record *)
UpsertFile(f, content, status) ==
  files' = [files EXCEPT ![f] = [content |-> content, status |-> status]]

-----------------------------------------------------------------------------
(* A run: capture the files that changed *)

(* run_sync opens the store and starts over the source's files. *)
BeginSync(p) ==
  /\ At(p, "idle")
  /\ IdsInBound
  /\ \E forced \in BOOLEAN :
       run' = [run EXCEPT ![p] = [IdleRun EXCEPT !.pc = "scan",
                                                 !.force = forced,
                                                 !.left = Files]]
  /\ remote' = [remote EXCEPT ![p] = "none"]
  /\ UNCHANGED <<disk, files, queue, core, accepted, cleared>>

(* retry_queue goes on only when some row is due, and exports no documents. *)
BeginRetry(p) ==
  /\ At(p, "idle")
  /\ \E r \in queue : IsDue(r)
  /\ run' = [run EXCEPT ![p] = [IdleRun EXCEPT !.pc = "scan"]]
  /\ remote' = [remote EXCEPT ![p] = "none"]
  /\ UNCHANGED <<disk, files, queue, core, accepted, cleared>>

(* One turn of run_sync's loop: skip the file as unchanged, or read and     *)
(* normalise it.                                                            *)
Scan(p, f) ==
  /\ At(p, "scan")
  /\ First(f, run[p].left)
  /\ run' = [run EXCEPT
       ![p].left = @ \ {f},
       ![p].docs = IF Unchanged(f) /\ ~run[p].force
                     THEN @ ELSE [@ EXCEPT ![f] = disk[f]]]
  /\ UNCHANGED <<disk, files, queue, core, remote, accepted, cleared>>

-----------------------------------------------------------------------------
(* A run: export_documents *)

(* Mutant: the due rows are not read. *)
ConnectIgnoresQueue(p) ==
  /\ At(p, "scan")
  /\ run[p].left = {}
  /\ run' = [run EXCEPT ![p].pc = "export",
                        ![p].force = FALSE,
                        ![p].left = Captured(p)]
  /\ remote' = [remote EXCEPT ![p] = IF TracksSyncs THEN "started" ELSE @]
  /\ UNCHANGED <<disk, files, queue, core, accepted, cleared>>

(* capabilities, register_collector, register_source and create_sync, then  *)
(* get_due_failed_uploads.                                                  *)
Connect(p) ==
  /\ At(p, "scan")
  /\ run[p].left = {}
  /\ run' = [run EXCEPT ![p].pc = "export",
                        ![p].force = FALSE,
                        ![p].left = Captured(p),
                        ![p].due = {r \in queue : IsDue(r)}]
  /\ remote' = [remote EXCEPT ![p] = IF TracksSyncs THEN "started" ELSE @]
  /\ UNCHANGED <<disk, files, queue, core, accepted, cleared>>

(* One of those calls fails and the run with it; a create_sync whose answer *)
(* was lost leaves a sync that nobody finishes.                             *)
ConnectFails(p) ==
  /\ At(p, "scan")
  /\ run[p].left = {}
  /\ run' = [run EXCEPT ![p] = IdleRun]
  /\ remote' \in {remote, [remote EXCEPT ![p] = IF TracksSyncs THEN "started" ELSE @]}
  /\ UNCHANGED <<disk, files, queue, core, accepted, cleared>>

(* Mutant: the row stays in the list after its upload. *)
RetryKeepsRow(p, r) ==
  /\ At(p, "export")
  /\ Oldest(r, run[p].due)
  /\ \E a \in Answers : \E S \in Storable(a, {r.file}) :
       /\ CoreStores(S, [f \in Files |-> r.content])
       /\ run' = [run EXCEPT ![p].pc = "settle",
                             ![p].row = r,
                             ![p].answer = a,
                             ![p].trouble = @ \/ ~TakenAsSuccess(a)]
  /\ UNCHANGED <<disk, files, queue, remote, cleared>>

(* _retry_due_uploads: upload the payload of the next row that was read *)
Retry(p, r) ==
  /\ At(p, "export")
  /\ Oldest(r, run[p].due)
  /\ \E a \in Answers : \E S \in Storable(a, {r.file}) :
       /\ CoreStores(S, [f \in Files |-> r.content])
       /\ run' = [run EXCEPT ![p].pc = "settle",
                             ![p].row = r,
                             ![p].due = @ \ {r},
                             ![p].answer = a,
                             ![p].trouble = @ \/ ~TakenAsSuccess(a)]
  /\ UNCHANGED <<disk, files, queue, remote, cleared>>

(* delete_failed_upload, by id *)
DeleteRow(p) ==
  /\ At(p, "settle")
  /\ TakenAsSuccess(run[p].answer)
  /\ queue' = {r \in queue : r.id # run[p].row.id}
  /\ run' = [run EXCEPT ![p].pc = "stamp"]
  /\ UNCHANGED <<disk, files, core, remote, accepted, cleared>>

(* Mutant: the file record is left as it was. *)
StampRetriedNever(p) ==
  /\ At(p, "stamp")
  /\ run' = BackToExport(p)
  /\ UNCHANGED <<disk, files, queue, core, remote, accepted, cleared>>

(* ... and then the file record takes the payload's checksum *)
StampRetried(p) ==
  /\ At(p, "stamp")
  /\ UpsertFile(run[p].row.file, run[p].row.content, "synced")
  /\ run' = BackToExport(p)
  /\ UNCHANGED <<disk, queue, core, remote, accepted, cleared>>

(* update_failed_upload_retry: SELECT retry_count, return if the row went *)
ReadRetries(p) ==
  /\ At(p, "settle")
  /\ IsRetryable(run[p].answer)
  /\ \/ \E r \in queue : /\ r.id = run[p].row.id
                         /\ run' = [run EXCEPT ![p].pc = "bump",
                                               ![p].read = r.retries]
     \/ /\ run[p].row.id \notin Ids
        /\ run' = BackToExport(p)
  /\ UNCHANGED <<disk, files, queue, core, remote, accepted, cleared>>

(* Mutant: the count is not capped. *)
BumpRetriesUncapped(p) ==
  /\ At(p, "bump")
  /\ queue' = {IF r.id = run[p].row.id
                 THEN [r EXCEPT !.retries = run[p].read + 1, !.due = FALSE]
                 ELSE r : r \in queue}
  /\ run' = BackToExport(p)
  /\ UNCHANGED <<disk, files, core, remote, accepted, cleared>>

(* Mutant: the count is written back as it was read. *)
BumpRetriesNot(p) ==
  /\ At(p, "bump")
  /\ queue' = {IF r.id = run[p].row.id
                 THEN [r EXCEPT !.retries = run[p].read, !.due = FALSE]
                 ELSE r : r \in queue}
  /\ run' = BackToExport(p)
  /\ UNCHANGED <<disk, files, core, remote, accepted, cleared>>

(* ... and UPDATE it, due again after the backoff *)
BumpRetries(p) ==
  /\ At(p, "bump")
  /\ LET once_more == IF run[p].read < RetryLimit THEN run[p].read + 1 ELSE RetryLimit
     IN  queue' = {IF r.id = run[p].row.id
                     THEN [r EXCEPT !.retries = once_more, !.due = FALSE]
                     ELSE r : r \in queue}
  /\ run' = BackToExport(p)
  /\ UNCHANGED <<disk, files, core, remote, accepted, cleared>>

(* Mutant: a row that cannot be retried is deleted. *)
GiveUpDeletes(p) ==
  /\ At(p, "settle")
  /\ ~TakenAsSuccess(run[p].answer) /\ ~IsRetryable(run[p].answer)
  /\ queue' = {r \in queue : r.id # run[p].row.id}
  /\ run' = BackToExport(p)
  /\ UNCHANGED <<disk, files, core, remote, accepted, cleared>>

(* mark_failed_upload_non_retryable; a NULL next_retry_at counts as due *)
GiveUp(p) ==
  /\ At(p, "settle")
  /\ ~TakenAsSuccess(run[p].answer) /\ ~IsRetryable(run[p].answer)
  /\ queue' = {IF r.id = run[p].row.id
                 THEN [r EXCEPT !.retries = RetryLimit, !.due = TRUE]
                 ELSE r : r \in queue}
  /\ run' = BackToExport(p)
  /\ UNCHANGED <<disk, files, core, remote, accepted, cleared>>

(* Mutant: the new documents go before the rows to retry. *)
UploadBatchFirst(p) ==
  /\ At(p, "export")
  /\ run[p].left # {}
  /\ LET B == NextBatch(run[p].left)
     IN  \E a \in Answers \ {"missing"} : \E S \in Storable(a, B) :
           /\ CoreStores(S, run[p].docs)
           /\ run' = [run EXCEPT
                ![p].left = @ \ B,
                ![p].answer = IF TakenAsSuccess(a) THEN "none" ELSE a,
                ![p].pc = IF TakenAsSuccess(a) THEN "export" ELSE "select",
                ![p].batch = IF TakenAsSuccess(a) THEN {} ELSE B,
                ![p].trouble = @ \/ ~TakenAsSuccess(a)]
  /\ UNCHANGED <<disk, files, queue, remote, cleared>>

(* Mutant: a failed batch is noted in failed_external_ids alone. *)
UploadBatchUnqueued(p) ==
  /\ At(p, "export")
  /\ run[p].due = {}
  /\ run[p].left # {}
  /\ LET B == NextBatch(run[p].left)
     IN  \E a \in Answers \ {"missing"} : \E S \in Storable(a, B) :
           /\ CoreStores(S, run[p].docs)
           /\ run' = [run EXCEPT
                ![p].left = @ \ B,
                ![p].failed = IF TakenAsSuccess(a) THEN @ ELSE @ \cup B,
                ![p].trouble = @ \/ ~TakenAsSuccess(a)]
  /\ UNCHANGED <<disk, files, queue, remote, cleared>>

(* batch_upload_documents for the next batch, after every due row *)
UploadBatch(p) ==
  /\ At(p, "export")
  /\ run[p].due = {}
  /\ run[p].left # {}
  /\ LET B == NextBatch(run[p].left)
     IN  \E a \in Answers \ {"missing"} : \E S \in Storable(a, B) :
           /\ CoreStores(S, run[p].docs)
           /\ run' = [run EXCEPT
                ![p].left = @ \ B,
                ![p].answer = IF TakenAsSuccess(a) THEN "none" ELSE a,
                ![p].pc = IF TakenAsSuccess(a) THEN "export" ELSE "select",
                ![p].batch = IF TakenAsSuccess(a) THEN {} ELSE B,
                ![p].trouble = @ \/ ~TakenAsSuccess(a)]
  /\ UNCHANGED <<disk, files, queue, remote, cleared>>

(* The exporter raises: it tries to finish the sync as failed, swallowing   *)
(* what that comes to, and run_sync ends without touching a file record.    *)
Abort(p) ==
  /\ run' = [run EXCEPT ![p] = IdleRun]
  /\ remote' \in {remote, [remote EXCEPT ![p] = IF TracksSyncs THEN "failed" ELSE @]}
  /\ UNCHANGED <<disk, files, queue, core, accepted, cleared>>

(* MissingBatchEndpointError out of a batch *)
NoEndpoint(p) ==
  /\ "missing" \in Answers
  /\ At(p, "export")
  /\ run[p].due = {}
  /\ run[p].left # {}
  /\ Abort(p)

(* Mutant: no look for an existing row. *)
SelectRowNever(p, f) ==
  /\ At(p, "select")
  /\ First(f, run[p].batch)
  /\ run' = [run EXCEPT ![p].pc = "write", ![p].failed = @ \cup {f}]
  /\ UNCHANGED <<disk, files, queue, core, remote, accepted, cleared>>

(* record_failed_upload for the next document of a failed batch: SELECT the *)
(* latest row of the document ...                                           *)
SelectRow(p, f) ==
  /\ At(p, "select")
  /\ First(f, run[p].batch)
  /\ LET mine == {r.id : r \in {q \in queue : q.ext = f}}
     IN  \E i \in mine \cup {0} :
           /\ \A j \in mine : j <= i
           /\ run' = [run EXCEPT ![p].pc = "write",
                                 ![p].failed = @ \cup {f},
                                 ![p].read = i]
  /\ UNCHANGED <<disk, files, queue, core, remote, accepted, cleared>>

(* Mutant: the UPDATE resets the counters and leaves the old payload. *)
WriteRowKeepsPayload(p, f) ==
  /\ At(p, "write")
  /\ First(f, run[p].batch)
  /\ LET content == run[p].docs[f]
         tries == IF IsRetryable(run[p].answer) THEN 0 ELSE RetryLimit
     IN  \/ /\ run[p].read # 0
            /\ queue' = {IF r.id = run[p].read
                           THEN [r EXCEPT !.retries = tries, !.due = TRUE]
                           ELSE r : r \in queue}
         \/ /\ run[p].read = 0
            /\ \E top \in Ids \cup {0} :
                 /\ \A i \in Ids : i <= top
                 /\ queue' = queue \cup
                      {[id |-> top + 1, ext |-> f, file |-> f, content |-> content,
                        retries |-> tries, due |-> TRUE]}
  /\ cleared' = IF run[p].read = 0 \/ run[p].read \in Ids THEN cleared \ {f} ELSE cleared
  /\ run' = IF run[p].batch = {f}
              THEN [BackToExport(p) EXCEPT ![p].batch = {}]
              ELSE [run EXCEPT ![p].pc = "select", ![p].batch = @ \ {f}, ![p].read = 0]
  /\ UNCHANGED <<disk, files, core, remote, accepted>>

(* ... then UPDATE the row found, by its id, or INSERT one *)
WriteRow(p, f) ==
  /\ At(p, "write")
  /\ First(f, run[p].batch)
  /\ LET content == run[p].docs[f]
         tries == IF IsRetryable(run[p].answer) THEN 0 ELSE RetryLimit
     IN  \/ /\ run[p].read # 0
            /\ queue' = {IF r.id = run[p].read
                           THEN [r EXCEPT !.file = f, !.content = content,
                                          !.retries = tries, !.due = TRUE]
                           ELSE r : r \in queue}
         \/ /\ run[p].read = 0
            /\ \E top \in Ids \cup {0} :
                 /\ \A i \in Ids : i <= top
                 /\ queue' = queue \cup
                      {[id |-> top + 1, ext |-> f, file |-> f, content |-> content,
                        retries |-> tries, due |-> TRUE]}
  /\ cleared' = IF run[p].read = 0 \/ run[p].read \in Ids THEN cleared \ {f} ELSE cleared
  /\ run' = IF run[p].batch = {f}
              THEN [BackToExport(p) EXCEPT ![p].batch = {}]
              ELSE [run EXCEPT ![p].pc = "select", ![p].batch = @ \ {f}, ![p].read = 0]
  /\ UNCHANGED <<disk, files, core, remote, accepted>>

(* Mutant: the sync is finished as a success whatever failed. *)
FinishAsSuccess(p) ==
  /\ At(p, "export")
  /\ run[p].due = {}
  /\ run[p].left = {}
  /\ remote' = [remote EXCEPT ![p] = IF TracksSyncs THEN "success" ELSE @]
  /\ run' = [run EXCEPT ![p].pc = "record", ![p].left = Captured(p)]
  /\ UNCHANGED <<disk, files, queue, core, accepted, cleared>>

(* _core_finish_status *)
FinishStatus(p) == IF run[p].trouble THEN "partial_success" ELSE "success"

(* update_sync with that status; export_documents returns. *)
Finish(p) ==
  /\ At(p, "export")
  /\ run[p].due = {}
  /\ run[p].left = {}
  /\ remote' = [remote EXCEPT ![p] = IF TracksSyncs THEN FinishStatus(p) ELSE @]
  /\ run' = [run EXCEPT ![p].pc = "record", ![p].left = Captured(p)]
  /\ UNCHANGED <<disk, files, queue, core, accepted, cleared>>

(* update_sync fails: the exporter raises with everything uploaded.  Core   *)
(* may have stored the status and its answer been lost; the attempt to      *)
(* finish the sync as failed may fail as well.                              *)
FinishFails(p) ==
  /\ TracksSyncs
  /\ At(p, "export")
  /\ run[p].due = {}
  /\ run[p].left = {}
  /\ run' = [run EXCEPT ![p] = IdleRun]
  /\ \E status \in {remote[p], FinishStatus(p), "failed"} :
       remote' = [remote EXCEPT ![p] = status]
  /\ UNCHANGED <<disk, files, queue, core, accepted, cleared>>

-----------------------------------------------------------------------------
(* A run: record what happened to each document, synced ones first *)

(* Mutant: failed_external_ids is not looked at. *)
RecordAllSynced(p, f) ==
  /\ At(p, "record")
  /\ First(f, run[p].left)
  /\ UpsertFile(f, run[p].docs[f], "synced")
  /\ run' = [run EXCEPT ![p].left = @ \ {f}]
  /\ UNCHANGED <<disk, queue, core, remote, accepted, cleared>>

RecordSynced(p, f) ==
  /\ At(p, "record")
  /\ First(f, run[p].left \ run[p].failed)
  /\ UpsertFile(f, run[p].docs[f], "synced")
  /\ run' = [run EXCEPT ![p].left = @ \ {f}]
  /\ UNCHANGED <<disk, queue, core, remote, accepted, cleared>>

RecordFailed(p, f) ==
  /\ At(p, "record")
  /\ run[p].left \subseteq run[p].failed
  /\ First(f, run[p].left)
  /\ UpsertFile(f, run[p].docs[f], "failed")
  /\ run' = [run EXCEPT ![p].left = @ \ {f}]
  /\ UNCHANGED <<disk, queue, core, remote, accepted, cleared>>

(* checkpoint, sync_runs row and audit line, which nothing here reads *)
EndRun(p) ==
  /\ At(p, "record")
  /\ run[p].left = {}
  /\ run' = [run EXCEPT ![p] = IdleRun]
  /\ UNCHANGED <<disk, files, queue, core, remote, accepted, cleared>>

-----------------------------------------------------------------------------
(* The environment *)

(* A file is rewritten: with new contents, numbered upwards, or, if files   *)
(* may be reverted (git checkout, restored backups), with any other ones.   *)
Edit(f, c) ==
  /\ c \in {d \in Contents \ {disk[f]} : MayRevert \/ d > disk[f]}
  /\ disk' = [disk EXCEPT ![f] = c]
  /\ UNCHANGED <<files, queue, run, core, remote, accepted, cleared>>

(* next_retry_at passes *)
BackoffElapses(r) ==
  /\ ~r.due
  /\ queue' = (queue \ {r}) \cup {[r EXCEPT !.due = TRUE]}
  /\ UNCHANGED <<disk, files, run, core, remote, accepted, cleared>>

(* `queue clear --failed-before`: every row created up to r *)
ClearQueue(r) ==
  /\ MayClear
  /\ queue' = {q \in queue : q.id > r.id}
  /\ cleared' = cleared \cup {q.file : q \in {q \in queue : q.id <= r.id}}
  /\ UNCHANGED <<disk, files, run, core, remote, accepted>>

(* The process is killed: what it committed stays, the rest is gone. *)
Crash(p) ==
  /\ MayCrash
  /\ ~At(p, "idle")
  /\ run' = [run EXCEPT ![p] = IdleRun]
  /\ UNCHANGED <<disk, files, queue, core, remote, accepted, cleared>>

-----------------------------------------------------------------------------
(* The specification *)

(* the steps a run takes by itself once it has begun *)
Advance(p) ==
  \/ \E f \in Files : Scan(p, f)
  \/ Connect(p)
  \/ ConnectFails(p)
  \/ \E r \in run[p].due : Retry(p, r)
  \/ DeleteRow(p)
  \/ StampRetried(p)
  \/ ReadRetries(p)
  \/ BumpRetries(p)
  \/ GiveUp(p)
  \/ UploadBatch(p)
  \/ NoEndpoint(p)
  \/ \E f \in Files : SelectRow(p, f)
  \/ \E f \in Files : WriteRow(p, f)
  \/ Finish(p)
  \/ FinishFails(p)
  \/ \E f \in Files : RecordSynced(p, f)
  \/ \E f \in Files : RecordFailed(p, f)
  \/ EndRun(p)

Next ==
  \/ \E p \in Procs : BeginSync(p) \/ BeginRetry(p) \/ Advance(p) \/ Crash(p)
  \/ \E f \in Files, c \in Contents : Edit(f, c)
  \/ \E r \in queue : BackoffElapses(r) \/ ClearQueue(r)

Spec == Init /\ [][Next]_vars

(* The daemon begins a sync again and again, a run that has begun goes on,  *)
(* and time passes.  Nothing is assumed of Core, of files or of operators.  *)
FairSpec ==
  /\ Spec
  /\ \A p \in Procs : WF_vars(BeginSync(p)) /\ WF_vars(Advance(p))
  /\ \A i \in 1..MaxRowId : WF_vars(\E r \in queue : r.id = i /\ BackoffElapses(r))

-----------------------------------------------------------------------------
(* Safety *)

Queued(f) == \E r \in queue : r.file = f

Quiescent == \A p \in Procs : At(p, "idle")

(* No fake success: a content recorded as synced was stored by Core at some *)
(* time (core/pipeline.py:257-266, exporters/incidentops_api.py:215-224).   *)
SyncedIsAccepted ==
  \A f \in Files : files[f].status = "synced" => files[f].content \in accepted[f]

(* A sync finished at Core as a success left nothing out: Core stored every *)
(* document the run captured, and none is in failed_external_ids            *)
(* (_core_finish_status, exporters/incidentops_api.py:119-135).             *)
SuccessIsTotal ==
  \A p \in Procs : At(p, "record") /\ remote[p] = "success" =>
    /\ run[p].failed = {}
    /\ \A f \in Captured(p) : run[p].docs[f] \in accepted[f]

(* Old payloads never overwrite the documents of the run that retries them: *)
(* when a run starts to record, Core holds what the run captured for every  *)
(* document it did not fail on (retries go first,                           *)
(* exporters/incidentops_api.py:94-96).  One process at a time.             *)
FreshWins ==
  \A p \in Procs : At(p, "record") =>
    \A f \in Captured(p) \ run[p].failed : core[f] = run[p].docs[f]

(* Between runs the file records tell what Core holds, except for documents *)
(* that are still queued or whose entry an operator cleared: what the next  *)
(* sync skips as unchanged (state/checkpoints.py:24-29) is in Core.  One    *)
(* process at a time, no crash, no run that fails after uploading.          *)
RecordMatchesCore ==
  Quiescent => \A f \in Files :
    files[f].content = core[f] \/ Queued(f) \/ f \in cleared

(* Nothing is forgotten: a file that the next sync will skip as unchanged   *)
(* was stored by Core, or is queued, or its entry was cleared.  Crashes and *)
(* failed runs included (core/pipeline.py:257-278).  One process at a time. *)
NothingForgotten ==
  Quiescent => \A f \in Files :
    Unchanged(f) => disk[f] \in accepted[f] \/ Queued(f) \/ f \in cleared

(* A document has one queue row, which carries its own payload: the SELECT  *)
(* before the INSERT stands in for the missing UNIQUE constraint            *)
(* (state/sqlite_store.py:133-162).  One process at a time.                 *)
OneRowPerDocument ==
  \A r \in queue :
    /\ r.ext = r.file
    /\ \A s \in queue : r.id = s.id \/ r.ext = s.ext => r = s

(* The rows _retry_due_uploads still has to visit are as it read them: no   *)
(* stale payload is uploaded and no row given up is tried again             *)
(* (exporters/incidentops_api.py:185-186).  One process, no `queue clear`.  *)
SnapshotIsCurrent == \A p \in Procs : run[p].due \subseteq queue

(* a row leaves the table only when Core has stored the payload it held, or *)
(* on `queue clear`                                                         *)
RowsRemain ==
  \A r \in queue :
    r.id \notin Ids' => r.content \in accepted[r.file] \/ r.file \in cleared'

(* docs/aws-deployment.md:192: "Failed uploads remain in SQLite until retry *)
(* succeeds, retry limits are exhausted, or an operator clears old          *)
(* entries."  A row that is exhausted remains all the same.                 *)
FailedUploadsRemain == [][RowsRemain]_vars

(* what can become of a row that stays: it counts one more failure, its     *)
(* backoff elapses, or its document has failed afresh and takes the row     *)
RowSpent(r, s) ==
  \/ s = r
  \/ s.retries > r.retries
  \/ ~r.due /\ s = [r EXCEPT !.due = TRUE]
  \/ \E p \in Procs : /\ At(p, "write") /\ run[p].read = r.id
                      /\ s.due /\ s.content = run[p].docs[r.file]

(* A failed upload uses up its retries: no step puts its count back, or     *)
(* leaves it as it was after a failed retry, so it is delivered or          *)
(* exhausted after RetryLimit of them (state/sqlite_store.py:202-234).  One *)
(* process at a time.                                                       *)
RetriesRunOut ==
  [][\A r \in queue : \A s \in queue' : r.id = s.id => RowSpent(r, s)]_vars

(* docs/core-contract.md:143: "If Core does not expose a compatible         *)
(* document ingestion endpoint, Collector must fail clearly": the next step *)
(* of a run whose upload found no endpoint ends the run.                    *)
MissingEndpointFailsRun ==
  [][\A p \in Procs : run[p].answer = "missing" /\ run'[p] # run[p]
                        => run'[p] = IdleRun]_vars

-----------------------------------------------------------------------------
(* Progress *)

(* the loops of a run, in the order it goes through them *)
Loop(pc) == CASE pc = "scan" -> 1
              [] pc = "record" -> 3
              [] pc = "idle" -> 4
              [] OTHER -> 2

(* the statements of one upload, in their order *)
Place(pc) == CASE pc \in {"settle", "select"} -> 1
               [] pc \in {"stamp", "bump", "write"} -> 2
               [] OTHER -> 3

Smaller(S, T) == S \subseteq T /\ S # T

(* s is closer to its end than r: in a later loop, or with fewer rows to    *)
(* retry, or with fewer files to visit, or with fewer documents to queue,   *)
(* or further on in the upload it is at.                                    *)
Closer(s, r) ==
  \/ Loop(s.pc) > Loop(r.pc)
  \/ /\ Loop(s.pc) = Loop(r.pc)
     /\ \/ Smaller(s.due, r.due)
        \/ s.due = r.due /\ Smaller(s.left, r.left)
        \/ s.due = r.due /\ s.left = r.left /\ Smaller(s.batch, r.batch)
        \/ /\ s.due = r.due /\ s.left = r.left /\ s.batch = r.batch
           /\ Place(s.pc) > Place(r.pc)

(* Every step of a run brings it closer to its end, whatever Core answers   *)
(* and whatever other processes, edits and operators do meanwhile: nothing  *)
(* is retried twice by one run and no list it walks grows                   *)
(* (exporters/incidentops_api.py:94-119, 185-229).                          *)
RunsComeCloser ==
  [][\A p \in Procs :
       ~At(p, "idle") /\ run'[p] # run[p] => Closer(run'[p], run[p])]_vars

-----------------------------------------------------------------------------
(* Liveness *)

(* A run that has begun ends, whatever Core answers: the retry loop walks a *)
(* list read once (exporters/incidentops_api.py:185-186).                   *)
RunsEnd == \A p \in Procs : ~At(p, "idle") ~> At(p, "idle")

UploadFails(p) ==
  At(p, "export") /\ (run'[p].pc = "select" \/ run'[p].answer \notin {"none", "ok"})

(* the steps that stop once files, Core, hosts and operators are at rest *)
Disturbance ==
  \/ \E p \in Procs : ConnectFails(p) \/ UploadFails(p) \/ NoEndpoint(p)
                        \/ FinishFails(p) \/ Crash(p)
  \/ \E f \in Files, c \in Contents : Edit(f, c)
  \/ \E r \in queue : ClearQueue(r)

ComesToRest == <>[][~Disturbance]_vars

Exhausted(f) == \E r \in queue : r.file = f /\ r.retries = RetryLimit

(* Once everything is at rest Core ends up with what is on disk, or an      *)
(* exhausted queue row says that it did not.                                *)
Converges ==
  ComesToRest => \A f \in Files : <>[](core[f] = disk[f] \/ Exhausted(f))

(* Once everything is at rest the pending rows are delivered: only the      *)
(* exhausted ones stay.                                                     *)
QueueDrains == ComesToRest => <>[](\A r \in queue : r.retries = RetryLimit)

=============================================================================
