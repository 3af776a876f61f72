# Verification of the OpsIncident Collector

TLA+ models of the Collector in `src/opsincident_collector`, checked with TLC on small
instances, and theorems about them checked with TLAPS for every instance.  Paths below are
relative to `src/opsincident_collector` unless they begin with `docs/`.

## 1. The system

The Collector walks directories, turns files into redacted documents and sends them to
IncidentOps Core over HTTP, or to a file.  One SQLite database keeps its state.

| Component | State | Operations | Interacts with |
|---|---|---|---|
| Sync pipeline, `core/pipeline.py` | the locals of one run: documents, `failed_external_ids`, summary | `run_sync`: discover, filter, skip unchanged, read, normalise, export, record | store, exporter, files |
| API exporter, `exporters/incidentops_api.py` | `failed_external_ids`, whether a remote sync was started | `export_documents`, `_retry_due_uploads`, `_record_failed_batch` | Core client, store |
| Store, `state/sqlite_store.py` | tables `files`, `failed_uploads`, `sync_runs`, `source_checkpoints` | upsert of a file record; record, list, bump, give up, delete, clear queue rows | shared by every process on the host |
| Queue commands, `queue.py` | none | `queue status`, `queue retry`, `queue clear` | store, exporter |
| Core client, `adapters/core_client.py` | an HTTP connection | register, start and finish a sync, upload a batch with two fallbacks, classify errors | Core |
| Daemon, `daemon/` | runtime state, stop event, two HTTP threads | cycle over the sources, health, metrics, shutdown | pipeline, store, Core |
| Agent graphs, `langgraph_agent/` | tables `graph_runs`, `graph_events`, `graph_approvals` | run a graph node by node, ask for approval, approve, reject, resume | pipeline, Core, store |
| Discovery and filters, `receivers/`, `processors/path_policy.py`, `processors/file_filter.py` | none | which files of a tree are taken | files |
| Normalisation, `processors/` | none | classify, redact, extract metadata and hints | file contents |
| File exporters, `exporters/jsonl_exporter.py`, `sqlite_exporter.py` | the output file | append, replace | files |
| Analysis, benchmark, contract validation, configuration, CLI | none | reports, probes, parsing | all of the above |

What is hard here:

* **Concurrency.**  Processes share nothing but the database: a daemon, a `sync` typed by
  hand and a `queue retry` may run at once.  Every statement is committed on its own, and
  several operations are a SELECT followed by a write that trusts it
  (`record_failed_upload`, `update_failed_upload_retry`, `delete_failed_upload` after an
  upload).  Graph runs and approvals have the same shape.
* **Failure.**  A run uploads first and records later, one commit per document, so a crash
  or an exception falls between what Core knows and what the database says.  An upload that
  times out may have been stored in part.
* **Ordering.**  A queued payload may be older than what the same run is about to upload.
* **Time.**  Backoff and the retry limit decide together when a row is tried again.

What makes each component correct, in one line each: the pipeline never records as synced
what Core did not store and never forgets a file; the exporter never lets an old payload win
over a newer one; the queue keeps one row per document until it is delivered, exhausted or
cleared; the daemon keeps every source going and reports truthfully; the graphs export
nothing that was not approved; discovery takes the same files for inspection and for sync.

## 2. Modules

| Module | What it is |
|---|---|
| `CollectorSync` | the run seen from Core: pipeline, API exporter, both tables, queue commands and Core, for one source |
| `Delivery` | the abstract promise of a sync to Core, without runs, rows, batches and retries |
| `SyncDelivery` | the refinement mapping from `CollectorSync` to `Delivery` |
| `MCsync` | `SyncDelivery` for TLC: adds a symmetry set |
| `CollectorSyncProofs` | inductive invariants of `CollectorSync` and theorems for any number of processes |
| `SyncQueueProofs` | theorems about its queue, the order of uploads and what is forgotten, for one process at a time |
| `SyncRecordProofs` | what the file records tell of Core, for one process whose runs end |
| `SyncDeliveryProofs` | the proof of the refinement |
| `SyncProgressProofs` | why runs end and retries run out, for any number of files and processes |
| `FileSync` | the run seen from the files: discovery, filters, skip decision, capture, JSONL and SQLite export |
| `MCfiles` | `FileSync` for TLC: the classes of its files |
| `FileSyncProofs` | the inductive invariants of `FileSync` and the theorems |
| `GraphRun` | one graph run, its approvals, and the commands that start, decide and resume it |
| `Approvals` | the abstract promise about approvals, without graphs, saved states and executions |
| `GraphApprovals` | the refinement mapping from `GraphRun` to `Approvals`; the module TLC checks |
| `GraphRunProofs` | the inductive invariants of `GraphRun`, the theorems and the proof of the refinement |
| `Daemon` | the daemon's main thread, its HTTP threads and signals, over any number of sources |
| `DaemonProofs` | the inductive invariants of `Daemon` and the theorems |

The models meet in the run.  `CollectorSync` takes its upload apart and captures a file in one step;
`FileSync` takes the capture apart and exports to a file.  `GraphRun` and `Daemon` take the whole run in
one step, and `RunsEnd` of `CollectorSync` is what the fairness of `Daemon` assumes of it.

### CollectorSync: state and code

| Variable | Code |
|---|---|
| `disk` | the contents of the files (environment) |
| `files` | table `files`: `checksum` (as a content) and `last_status` |
| `queue` | table `failed_uploads`: `id`, `document_external_id` (`ext`), `payload_json` (`file`, `content`), `retry_count` (`retries`), `next_retry_at <= now` (`due`) |
| `run[p]` | locals of `run_sync`, `export_documents` and `_retry_due_uploads` in process `p` |
| `core`, `remote` | what Core holds for each document; the status of the sync that `p` opened |
| `accepted`, `cleared` | history: all that Core ever stored; documents whose row an operator cleared |

A step is one SQLite statement with its commit, or one HTTP call, so that two processes
interleave, and a crash falls, between any two of them.  `run[p].pc` names the place:

    idle -> scan -> export -> (settle -> stamp | bump -> export)*    each due row
                           -> (export | select -> write ...)*        each batch
                           -> record -> idle

`Scan` is one turn of the discovery loop; `Connect` the calls before the first upload and the
reading of the due rows; `Retry` the upload of a due row, whose outcome leads to `DeleteRow`
and `StampRetried`, to `ReadRetries` and `BumpRetries`, or to `GiveUp`; `UploadBatch` uploads
a batch, and after a failure `SelectRow` and `WriteRow` are the two halves of
`record_failed_upload` for each of its documents; `Finish` is `update_sync`;
`RecordSynced` and `RecordFailed` are the two loops that write file records;
`ConnectFails`, `NoEndpoint` and `FinishFails` are the ways a run raises; the last leaves the remote sync
as it was, failed, or, when only the answer to `update_sync` was lost, as `Finish` would.  `BeginRetry` is
`queue retry`: it starts only when a row is due, and then is a run with no documents.
`Edit`, `BackoffElapses`, `ClearQueue` and `Crash` are the environment.

`Answers` is what an upload may come to: `ok`; `isolated` (2xx, some documents refused by
Core on their own); `retryable` (transport error, timeout, 408, 409, 425, 429, 5xx: any part of
the batch may have been stored); `rejected` (any other 4xx, or a 2xx with an unreadable body);
`missing` (404 from all three endpoints).

Abstractions, none of which a property depends on:

* A document is its content; redaction and metadata are functions of it.  `files[f].content`
  is the checksum; the shortcut on equal mtime and size (`state/checkpoints.py:24`) is taken
  to agree with the checksum.
* Reading one file is atomic (`FileSync` takes it apart).
* One source; rows of other sources are other instances of the model, apart from ids, which
  they share: deleting by id can only hit rows of this source because ids are unique.
* A request that timed out is stored before the client gives up on it, or never.
* SQLite statements do not fail ("database is locked" after five seconds is left out).
* Row ids are `max(id) + 1`, as SQLite assigns them without AUTOINCREMENT, so an id is reused
  after the largest row goes.
* `created_at` follows `id` (one clock), so "oldest first" is by id.

### Properties of CollectorSync

| Property | Says | Run |
|---|---|---|
| `TypeOK` | types; retry counts stay within the limit, whatever two processes do to them | pair |
| `SyncedIsAccepted` | what is recorded as synced was stored by Core | pair |
| `SuccessIsTotal` | a sync finished as a success left no document out | restart |
| `FreshWins` | when a run starts recording, Core holds what the run captured, not an old payload | single |
| `RecordMatchesCore` | between runs the records tell what Core holds, unless queued or cleared | single |
| `NothingForgotten` | a file that will be skipped was stored, or is queued, or was cleared; crashes and failed runs included | restart |
| `OneRowPerDocument` | one row per document, carrying its own payload | single |
| `SnapshotIsCurrent` | the rows still to be retried are as they were read | single |
| `FailedUploadsRemain` | a row goes only when its payload was stored, or on a clear | single; broken in queue_race |
| `MissingEndpointFailsRun` | a run that finds no ingestion endpoint fails | broken in no_endpoint |
| `RunsEnd` | a run ends whatever Core answers | live |
| `Converges` | once things are at rest Core gets what is on disk, or an exhausted row says why not | live |
| `QueueDrains` | once things are at rest only exhausted rows stay | live |
| `ImplementsDelivery` | a sync keeps the promise of `Delivery` | restart |
| `RunsComeCloser` | every step of a run brings it closer to its end, whatever happens around it | restart |
| `RetriesRunOut` | the count of a queued upload is never put back, nor left alone by a failed retry | single |

### Delivery, and how CollectorSync implements it

`Delivery` has seven variables and seven kinds of steps: a file changes (`Change`), contents are taken or
let go of (`Hold`), Core stores some of what is held (`Store`), a note says "synced" about something
Core stored (`NoteSynced`) or "failed" about what is pending (`NoteFailed`), a failed upload becomes pending
(`Keep`), is delivered (`Delivered`) or dropped (`Drop`).  What it forbids is the point: sending what
was not taken from a file or from the pending uploads, noting a success without one, losing a pending
upload in any other way than by its delivery, its replacement or an operator.

| Abstract | Concrete |
|---|---|
| `disk`, `core` | the same |
| `held` | what the locals of the runs carry: captured documents, rows still to be retried, the row being retried |
| `stored`, `noted`, `dropped` | `accepted`, `files`, `cleared` |
| `pending` | the content of the document's row in `queue` |

| Steps of CollectorSync | Step of Delivery |
|---|---|
| `Edit` | `Change` |
| `BeginSync`, `BeginRetry`, `Scan`, `Connect`, `SelectRow`, `ReadRetries`, `BumpRetries`, `GiveUp`, `BackoffElapses`, `Finish`, every way a run ends, `Crash` | `Hold` |
| `Retry`, `UploadBatch` | `Store` |
| `WriteRow` | `Keep`, or `Hold` |
| `DeleteRow` | `Delivered`, or `Hold` when the row is gone |
| `StampRetried`, `RecordSynced` | `NoteSynced` |
| `RecordFailed` | `NoteFailed` |
| `ClearQueue` | `Drop` |

It is a refinement for one process at a time: with two, a document can have two rows, and finding 1 loses
one.

### FileSync: state and code

| Variable | Code |
|---|---|
| `disk` | body and mtime (`stamp`) of each path, a body of `None` for no file (environment) |
| `records` | table `files`: size, mtime, checksum (`sum`); `text` is history: the body exported under the record |
| `target` | the export target, one per behaviour |
| `output` | what a reader of the JSONL file, or of table `normalized_documents`, finds of each path |
| `torn_line` | the JSONL file ends in the middle of a line |
| `run[p]` | the locals of `run_sync` in process `p`; `source_type` is the parameter that the loop reassigns |
| `held`, `spoiled`, `cuts` | history: bodies a path has held; bodies whose line was glued to half a line; appends cut short |

A step is one access to a file, one write to the output or one commit:

    idle -> next -> sniff -> decide -> read -> hash -> next ...     each listed file
            next -> export -> record -> idle

`Stat` is the turn of `discover_files` with the path policy and the size filter; `Sniff` the binary and
extension filters; `SkipByStat` and `DecideBySum` are `should_process_item`; `Read` is
`_read_raw_document`; `Hash` is `normalize_document`, which takes the checksum of the file as it is
*then*, beside the text read before and the size and mtime of discovery.  `Vanished` is any access to a
file that is gone, the `stat` right after an `is_file` that still found it included: it raises, and the
run with it.  `AppendDocuments` is the append to
the JSONL file and `AppendCut` one cut short by a kill or a full disk; `Replace` one
`INSERT OR REPLACE`; `Record` one `upsert_file_record`.

Abstractions:

* A body is the bytes of a file and their SHA-256; redaction and metadata are functions of it.
* Every edit gives the file an mtime it never had.  A tool that restores the mtime of contents of the
  same size is not noticed by the code, and no property holds for it.
* Which paths are denied or unsupported, which bodies are binary and what `classify_content` says are
  CONSTANTS; globs and depth decide what is in `Files`.
* `inspect` is evaluated where a run begins (`Announced`), and its plan lapses when a file changes: the
  property compares the two copies of the filters, not two moments.
* A dry run is a run until its loop is over (`EndDryRun`).
* `AppendDocuments` is one step.  The code opens the file for appending and writes the lines through a
  buffered handle, which flushes in chunks (`exporters/jsonl_exporter.py:16-23`).  With one process this makes
  no difference: the run reads nothing of the output, and a kill or a full disk between two chunks is
  `AppendCut`.  With several, the chunks of two appends could mix inside a line, and documents recorded as
  synced would be lost though no append was cut short.  What the properties and theorems say of the JSONL
  file is therefore for one process.
* `sync_runs` and `source_checkpoints` are written and never read here, and left out.

### Properties of FileSync

| Property | Says | Run |
|---|---|---|
| `TypeOK` | types | files |
| `SkippedIsExported` | what the next run skips as unchanged was exported as it is | files |
| `OneLossPerCut` | an append cut short costs one document at most, however often it is repeated | files |
| `PlanIsKept` | a run takes what inspection announced, if nothing changed in between, and no more | files |
| `CoreTypeIsOwn` | the type of one file never becomes the type under which Core files the next | files |
| `Converges` | once things are at rest every file that passes the filters is in the output | files |

`SkippedIsExported`, `PlanIsKept` and `Converges` exempt two kinds of bodies, and both are real losses,
kept in the model by name.  `Glued`: after an append cut short in the middle of a line the next document is
written onto the same line, so that no reader finds it, while its record says it was exported.
`Misread`: a file edited between `read_text` and the checksum of `normalize_document` gets a record
that vouches for a body that was never read.  No other moment of an edit, a removal or a kill loses
anything, and that is what the properties say.

### GraphRun: state and code

| Variable | Code |
|---|---|
| `graph_run` | the run's row in `graph_runs`: `graph_name` and `state_json` (`status`, `approved`, the inputs, the id in `approval_request`) |
| `graph_approvals` | the status of each of the run's approvals, in order of creation |
| `exec[p]` | the locals of `run_graph` or `approve_action` in process `p`, the node next in `pc` |
| `consent` | history: whether the operator's last word on the run was yes (`--yes`, `--approve`) |

A process is one `agent` command.  `Start` creates the run; `Resume` is `--resume`, which overlays
its options, defaults included, on the stored state; `Decide` is the UPDATE of `--approve` and
`--reject`, `ReadDecided` and `SaveDecision` the read and the write of the run that follow, and
`Reload` the resumption that `--approve` goes on to.  The nodes follow in the order of the graph:

    onboarding:  load -> validate -> local ------------> gate -> [ask -> pending] -> sync -> verify
    bridge:      load -> health ---> local -> decide --> gate -> [ask -> pending] -> sync -> investigate
    both:        -> report -> idle

`Ask` and `InsertApproval` are the two halves of `ensure_approval`, `SavePending` the save after
it.  `Fail` is any exception: a resumed run keeps only what the command gave, and the first
execution of a new run leaves it "running" and records the failure under another new id, a
run that `StartAsFailed` begins.  `Crash` kills a command between any two commits.

Abstractions:

* One run.  Every statement names a run or an approval of it, so that runs do not meet, except in
  the sync, which is `CollectorSync`.
* Reports, warnings and the event log do not decide anything and are left out; what the reports
  make `decide_if_sync_needed` say is nondeterministic.
* The sync uploads, raises before it did, or raises after.
* A node and the save after it are one step when the node touches nothing else.
* `status` is both the column and the key of `state_json`: they differ only between the "running"
  of `run_graph` and that of `load_config`, and nothing reads the key there.
* A run is resumed by the command of its own graph; a run resumed by the other graph's command
  is left out.

### Properties of GraphRun

| Property | Says | Run |
|---|---|---|
| `TypeOK` | types; the statuses a report leaves are those the code knows | approval |
| `UploadsAreApproved` | nothing is uploaded against the operator's last word | approval; broken in reject_race |
| `PendingRunsCanBeDecided` | a run saved as waiting names an approval in the table | approval |
| `OnePendingApproval` | a run has at most one pending approval, whatever crashed or was decided twice | approval |
| `InvestigatesAfterSync` | Core investigates only after the sync that was required took place | approval |
| `CompletedRunsUploaded` | a run asked to upload that ends as completed has uploaded | broken in second_try |
| `ImplementsApprovals` | the graphs keep the promise of `Approvals` | approval |

### Approvals, and how GraphRun implements it

`Approvals` has four variables and seven kinds of steps.  The operator begins a run, with `--yes` or without
(`Begin`), and answers approvals (`Answer`); an approval is asked for when none is pending (`Ask`); the run
begins to wait for one that is pending at that moment (`Wait`) and stops waiting (`StopWaiting`); a command uploads,
once, if the operator's last word was yes (`Upload`), and ends (`End`).  It says nothing of nodes, of states
that are read, overlaid and saved again, or of where a command may be killed.  That none of these brings back a
word the operator has taken back, or lets the run wait for an approval that was already decided, is what
the refinement shows.

| Abstract | Concrete |
|---|---|
| `approvals`, `word` | `graph_approvals`, `consent` |
| `waits` | the id in the stored `approval_request` while the stored status is "pending_approval", else 0 |
| `sent` | the commands whose execution has uploaded |

| Steps of GraphRun | Step of Approvals |
|---|---|
| `Start`, `StartAsFailed`, `Resume` | `Begin` |
| `Decide` | `Answer` |
| `InsertApproval` | `Ask` |
| `SavePending` | `Wait` |
| `Begin`, the save after a node | `StopWaiting`, or nothing |
| `SyncSource` | `Upload`, or nothing |
| `SaveDecision`, `Report`, `Fail`, `Crash` | `End` |
| the other steps | nothing |

It is a refinement for one command at a time, for the reasons of finding 4.

### Daemon: state and code

| Variable | Code |
|---|---|
| `settings` | `max_cycles` (0 for None), `run_once`, whether `api.base_url` is set |
| `pc`, `source` | where the main thread is in `run` and `_run_cycle`, and in the list of sources |
| `state` | `DaemonRuntimeState`: `permanent_error`, whether `last_failed_sync` is set, `core_reachable`, `state_db_writable`, `cycles_completed` |
| `stop_event`, `serving` | the event the signal handlers set; whether the health server takes requests |
| `reader[r]` | the locals of `health_payload` in a request |
| `broken` | the sources that `run_sync` raises for (environment) |
| `synced`, `whole`, `late` | history: sources synced in this cycle; whether the last cycle synced them all; cycles ended after the signal |

    start -> touch -> servers -> loop -> refresh -> sync -> end -> wait -> loop ...
                         loop, end, wait -> stopping -> closed -> stopped

A request is `Request`, `ReadDepth`, `ReadErrors`, `Verdict`: the queue depth, the first condition on
the status and the second, between which the main thread goes on.  `ReadDepth`, `Metrics`, `LogCycle`
and `Return` all call `_failed_upload_depth`, which sets `state_db_writable` to False, from any
thread, when the queue cannot be read.  Timestamps, totals, `last_error`, `last_sync_status` and
`last_summary` are only reported and are left out; so is `validate_startup`, which refuses a
configuration before anything starts.

### Properties of Daemon

| Property | Says | Run |
|---|---|---|
| `TypeOK` | types; no more cycles than `max_cycles` | daemon |
| `OkIsTrue` | "ok" means an empty queue was read and the last cycle missed no source | daemon |
| `NoCycleAfterStop` | besides the cycle it falls into, no cycle ends after a signal | daemon |
| `ShutsDown` | after a signal the daemon stops | daemon |
| `SourcesAreSynced` | a source is synced again and again if from some time on neither it nor one before it fails | daemon |

`SourcesAreSynced` asks that the sources *before* it work: the first source that raises ends the
cycle, so that the ones after it starve as long as it fails.  No document promises otherwise.
Nor does one say that health recovers: `last_failed_sync` and a False `state_db_writable` are
never taken back, so after one failure the daemon is never "ok" again.

## 3. Runs

| Run | Instance | Shows |
|---|---|---|
| `single` | 2 files, 2 symmetric contents with reverts, 1 process, limit 2, batches of 2 | the six properties of a process alone, failures of every kind |
| `restart` | 2 files, contents 1 < 2, 1 process, crashes, clears, sync tracking, limit 1, batches of 1 | what survives a crash between any two commits; the refinement of `Delivery`; that runs get on |
| `pair` | 1 file, 2 contents, 2 processes | bounds and honesty under every interleaving |
| `live` | 1 file, contents 1 < 2 < 3, fairness | the three liveness properties |
| `queue_race` | 1 file, 2 processes | finding 1 |
| `partial_batch` | Core isolates documents | finding 2 |
| `no_endpoint` | Core has no endpoint | finding 3 |
| `approval` | both graphs, 1 command at a time, failures, crashes, 3 approvals | the five properties of `GraphRun`, and the refinement of `Approvals` |
| `reject_race` | onboarding, 2 commands at a time | finding 4 |
| `second_try` | onboarding, 1 command at a time | finding 5 |
| `daemon` | 2 sources, 1 request at a time, no limit or 2 cycles, with and without Core, fairness | the five properties of `Daemon` |
| `files` | 7 paths, one of each class; one is edited, emptied, removed; JSONL and SQLite, crashes, one torn append, fairness | the six properties of `FileSync` |

Bounds.  Two files make batches, orders and "the other document" real; two contents make old
and new, and reverts bring the old one back; three contents in `live` let a file change again
while an older failure is still queued.  A retry limit of 2 has a row that is retried, fails,
waits and is retried again.  `MaxRowId` bounds row ids: a run begins only while they are below
it, since they grow for ever as long as the table is never empty.  In `restart` that is 2, so
that a run finds at most one row when it begins and may leave two; a run that finds two is in `single`.  `MaxApprovals` bounds the
approvals of a run: a command begins only while the table has room for what the commands under
way may add (`Room`).  Three approvals are a first one, one that follows its rejection or a failed
execution, and one to spare for a decision on the older.  Two sources are the least with a
"before" and an "after"; requests do not see each other, except through `state_db_writable`, which
`Metrics` sets for any number of them.  In `files` path 1 is denied, 2 empty, 3 oversized, 4 binary and 5
of an unsupported extension, 6 is edited at most twice (`MaxEdits`: one edit inside a capture, one after it), and 7 is of another type than 6, so that a type can leak; one append
may be cut short (`MaxCuts`).  Nothing else is bounded.

Preconditions named by the properties are preconditions of the code, not of the proof effort:
`RecordMatchesCore`, `OneRowPerDocument` and `SnapshotIsCurrent` are false with two processes
(the missing UNIQUE constraint and the DELETE by id); `RecordMatchesCore` is false after a crash
between `DeleteRow` and `StampRetried` or after a run that raised once documents were stored;
`NothingForgotten` and `Converges` are false when, in addition, a file is put back to
contents that are already recorded: it is then skipped as unchanged while Core keeps the
other contents.  `restart` and `live` therefore have contents that only move forward.
`SkippedIsExported` and `OneLossPerCut` need one process: two appends to the JSONL file mix, and two runs
replace each other's rows of the SQLite table.  With SQLite `SkippedIsExported` also needs contents that do
not go back: a killed run may have replaced a document whose record is older, and a file put back to the
contents of that record is then skipped.
`ImplementsDelivery` needs one process and a Core that refuses no single documents (finding 2).
`RetriesRunOut` needs one process: A reads a count of 0, B gives the row up, and A's UPDATE puts it at 1.
`UploadsAreApproved` and `OnePendingApproval` are false with two commands at a time: decisions are
not seen by an execution under way, and `ensure_approval` is a SELECT and then an INSERT;
`ImplementsApprovals` is false with two for the same reasons.

Fairness (`FairSpec`).  Weak fairness of `BeginSync`: the daemon's loop begins a run again and
again (`daemon/service.py:92-103`).  Of `Advance`: a run that has begun takes its next step; an
HTTP call ends because the client has a timeout.  Of `BackoffElapses`, row by row: time
passes.  Nothing is assumed of Core: `ComesToRest` is a hypothesis of `Converges` and
`QueueDrains` (from some time on no call fails, no file changes, nobody clears or kills), not of
the specification.
In `FileSync`, weak fairness of plain runs (`BeginSync(p, FALSE)`: the daemon begins one cycle after another,
and goes on when a source of one raises, `daemon/service.py:92-103, 247-260`; `watch` would not do, it ends on
most exceptions) and of `Advance`, the next step of a run; `Disturbance` lists what `ComesToRest` stops.  It says `Crash(p) /\ ~Advance(p)` because a kill in the last state of a run
is the same step as its end.
In `Daemon`, weak fairness of the main thread: its HTTP calls and waits have timeouts, and a sync
ends.  Nothing is assumed of requests, signals or sources.

## 4. Findings

1. **A failed upload can vanish** (`queue_race`).  Two processes: A uploads the payload of a
   row; before A deletes the row, B fails on a newer content of the same document and UPDATEs
   the row with it; A deletes by id.  docs/aws-deployment.md:192 lists the only ways a failed
   upload leaves; this is another.  (That page is marked archived; the queue it describes is still
   the one in the code.)
2. **A document refused inside an accepted batch is recorded as synced** (`partial_batch`).  The
   body of a 2xx is not read.  docs/core-contract.md:116 names the isolation of documents inside
   a batch as Core's behaviour.
3. **A missing endpoint does not fail the run** (`no_endpoint`).  While retrying, it exhausts the
   rows and the run completes.  docs/core-contract.md:143 wants a clear failure.
4. **A rejection does not stop an execution under way** (`reject_race`).  `run_graph` reads the
   state once; a `--reject` committed while it executes is not seen, the upload takes place, and
   the next save overwrites the rejection.  docs/production-usage.md:128 says that exports must be
   approved.
5. **An approved run can complete without uploading** (`second_try`).  When the execution after
   `--approve` raises, the stored state is replaced by `{}` and the error; approving again resumes
   a run without a path, whose sync is skipped and which ends as completed.
   tests/integration/test_langgraph_agent.py:136-137 expects documents synced.

## 5. Proofs

`CollectorSyncProofs` holds for any set of files and contents, any number of processes, any
batch size and retry limit, with or without crashes, clears, reverts and sync tracking, under
the named ASSUMEs of `CollectorSync` (files are numbers, the limits are naturals).

* `TypeCorrect`: `Spec => []TypeOK`.  `TypeOK` is not inductive: uploading and queueing need
  that what a loop visits was captured, and settling that there is a row.  `Shape` adds that, and
  `TypeInv == TypeOK /\ Shape` is inductive (`TypeInit`, `TypeStep`).
* `NoFakeSuccess`: `Spec => []SyncedIsAccepted` if Core never isolates documents (with
  `isolated`, finding 2 is the counterexample).  The invariant `Honest` says that every claim a
  run will make is true: a captured document is still to be uploaded, is being queued, has
  failed, or was stored; a payload about to be stamped was stored.  Claims stay true while
  others act because what Core has stored once stays in `accepted` (`ClaimsStayTrue`), so one
  step per action is enough (`HonestStep`, `HonestNext`).
* `SuccessMeansAll`: `Spec => []SuccessIsTotal`, from the same invariant: no trouble means nothing
  failed, and nothing failed means everything captured was stored.

`SyncQueueProofs` adds what holds when processes run one at a time (`Sole`), still for any files,
contents, limits and batches.

* `OneRowEach`: `Spec => []OneRowPerDocument`, crashes and clears included.  `RowsInv` says of the locals what
  a read of the table told them: the id that `SelectRow` found is that of the one row of the document,
  or 0 if it has none, or its row was cleared since; a row that was read is as it was read unless it
  is gone.
* `SnapshotStaysCurrent`: `Spec => []SnapshotIsCurrent` when nobody clears (`~MayClear`).
* `FreshAlwaysWins`: `Spec => []FreshWins` if Core isolates no documents.  `FreshInv` says why the order in
  `export_documents` matters: while a row is due or being retried nothing captured was uploaded yet, and
  afterwards what was captured is to be uploaded, failed, or is what Core holds.  `FailInv` says that what
  failed is queued or was cleared.
* `NothingIsForgotten`: `Spec => []NothingForgotten` when contents only move forward (`~MayRevert`) and Core
  isolates none.  The property is about the record and the disk only; what carries it is
  `ForgetInv == Aged /\ Carried`.  `Aged`: nothing a run, the table or the records know of a file is newer
  than the disk, nor newer than what the run captured.  `Carried`: what a record names was stored, was
  cleared, is older than the disk, or a row of the queue carries it or something newer.

* `FailedUploadsStay`: `Spec => FailedUploadsRemain` if Core isolates no documents.  A row is deleted by its
  id after its payload was uploaded; `RowsInv` says that the row of that id is still the row that was read,
  and `Honest` that Core has stored what it carries.

`SyncRecordProofs` proves `RecordsTellCore`: `Spec => []RecordMatchesCore` under `Sole`, `RunsToTheEnd` and
without isolated documents; clears and files that go back are included.  The property speaks of the time
between runs only, and what it says is false within one: `RecordInv` says that whatever the record of a file
does not tell of Core is queued, was cleared, or is still to be told by the run under way (`Open`), and
that a row being retried stays in the table until Core holds its payload.  `RunsToTheEnd` excludes what
leaves a run between the upload and the record: a kill, an error of sync tracking, an endpoint
that is missing.

`SyncDeliveryProofs` proves `KeepsThePromise`: `Spec => ImplementsDelivery` under `Sole` and without isolated
documents.  `InitMaps` maps the initial state; `StepMaps` maps every step as in the table above, from
`DeliveryInv`, the conjunction of the type invariant, `RowsInv`, `FailInv` and `Honest`: `NoteSynced` needs
`Honest`, `NoteFailed` needs `FailInv`, `Delivered` and `Keep` need that a document has one row, so that
`Pending` is a function (`PayloadOfRow`, `PayloadSame`).

`SyncProgressProofs` says why runs end, short of fairness, for any files, contents, processes, limits and answers.

* `RunsAlwaysComeCloser`: `Spec => RunsComeCloser`, with no assumption on processes, crashes, clears or Core.
  `Closer` orders the local states of a run by its loop, then the rows still to be retried, then the files to
  visit, then the documents to be queued, then the statement within an upload.  It needs that the
  next batch of a non-empty set is not empty (`BatchNotEmpty`): otherwise `UploadBatch` would go round for ever.
* `CloserIsWellFounded`: over local states whose lists are finite, every non-empty set has one that none in the set is
  closer than; so there are no infinite descents.
* `RunsStayFinite`: with a finite number of files the queue and every list of every run stay finite, so that
  runs stay in the domain of that order.  `Scan`, `Connect` and `BeginRetry` are where a list grows, from
  the queue or the files, and each of them goes on to another loop or shortens another list.
* `RetriesAlwaysRunOut`: `Spec => RetriesRunOut` under `Sole`, through crashes and clears.  `RetryInv` says that a row
  being retried was read with a count below the limit, and that what `ReadRetries` read is what that row
  still says: the UPDATE then raises it by exactly one.

`FileSyncProofs` holds for any files, bodies, filters and classification, any number of edits, removals,
kills and torn appends, under the ASSUMEs of `FileSync`.  The first two theorems hold for any number of
processes; those about the output are for one (`Sole`), because an append is one step only then.

* `FileTypeCorrect`: `Spec => []TypeOK`; `Shape` adds that a busy run has a file at hand and exports only
  documents.
* `CoreTypesAreOwn`: `Spec => []CoreTypeIsOwn`, for any classification: Core knows a name for every type
  that `classify_content` returns (`KnownTypes`), so the source type is never asked.
* `SkipsAreSafe`: `Spec => []SkippedIsExported` under `Sole`, with SQLite if no file goes back.  `StampsTell`: a size and mtime anywhere that are the file's today
  belong to the body it holds.  `JsonlInv`: a recorded text was appended (the file only grows).  `SqliteInv`:
  while a record stands for what the file holds, nothing else has been read from that file, so that
  nothing else can replace its row.
* `PlansAreKept`: `Spec => []PlanIsKept` for one process (another one may overwrite a record that the plan relied
  on), with SQLite if no file goes back.  `OnPlan` says of a run whose plan is in force that it takes only
  announced files, as they are on disk, and that an announced file is to be visited, at hand, captured, or in
  the output; the skips among them are safe by the invariant of `SkipsAreSafe`.
* `TornLinesCostOne`: `Spec => []OneLossPerCut` under `Sole`.  The invariant counts the losses and the debt of a torn last
  line together: `Cardinality(Losses) + Debt <= cuts`.

`GraphRunProofs` holds for any set of commands at a time, either graph or both, any bound on
approvals, with or without crashes, under the ASSUMEs of `GraphRun`.

* `GraphTypeCorrect`: `Spec => []TypeOK`; it is inductive as it stands.
* `PendingCanBeDecided`: `Spec => []PendingRunsCanBeDecided`, for concurrent commands too.  The
  property is about the row only, but a command saves the state it holds over it at any time.  The
  invariant `AllNamed` therefore says it of every state held or stored, except between the gate and
  the insertion, where the request is still 0 and nothing is saved.  It is preserved because
  approvals are never removed (`UsedGrows`).
* `ApprovedUploads`: `Spec => UploadsAreApproved` if there is at most one process (`OneAtATime`; with
  two, finding 4 is the counterexample).  The invariant `Consented` says of an execution under way
  that an approval in its state is the operator's last word, and that past the gate a sync
  that would upload has one.  It holds of executions and not of the stored state, which may keep an
  approval that a rejection has overtaken: a resumption overwrites it.

* `OnePending`: `Spec => []OnePendingApproval` under `OneAtATime` (two commands each find no pending approval
  and insert one).  `NothingPending` says that between the SELECT and the INSERT of `ensure_approval` the
  table still has none.
* `InvestigationIsSynced`: `Spec => []InvestigatesAfterSync`, for concurrent commands too.  The property is
  about one execution, but its state is read from a row that others write: `AllEvident` says of each
  execution what its place in the graph proves (past the decision it has a path to sync; past the
  sync it has uploaded or is a dry run), and of the row that a bridge never stores an export to a file.

* `GraphKeepsApprovals`: `Spec => ImplementsApprovals` under `OneAtATime`, crashes included.  `CommandPromise` and
  `AdvancePromise` map every step as in the table of section 2, from the invariants above and `AllFaithful`: an
  execution that says it waits says so of an approval that is pending, or that the stored run names as well, and
  only past its sync has it uploaded.  `Wait` is where it is needed (a request left over from an
  earlier execution would be saved as the one waited for), `Upload` is where `Consented` is.

`DaemonProofs` holds for any number of sources and of requests at a time and any limits.

* `DaemonTypeCorrect`: `Spec => []TypeOK`.  That `max_cycles` is never exceeded needs `BelowLimit`: a
  daemon that goes on has not reached it.
* `OkIsTheTruth`: `Spec => []OkIsTrue`.  `Turns` says that `last_failed_sync` remembers every cycle that
  missed a source, `Reading` that what speaks against "ok" in a request is still there when it comes
  to the status: the flags only ever get worse once the servers are up (`MainKeeps`, `HealthKeeps`).
* `StopsSoon`: `Spec => []NoCycleAfterStop`; `Obeys` adds that no cycle is under way once one has ended
  after the signal.

Every safety property and action property of the passing runs, and both refinements, are proved.  Only
model-checked: liveness (`RunsEnd`, `Converges` of both modules, `QueueDrains`, `ShutsDown`, `SourcesAreSynced`),
which is beyond the prover, as ENABLED and fairness are.  Of `RunsEnd` everything but these is
proved: a run that takes steps comes to its end (`SyncProgressProofs`); that it takes them is the fairness of
`Advance`, and that one is always enabled is checked by TLC.  The assumptions of a theorem are those of the run that checks its property, or weaker.  No
module has a recursive operator.

## 6. Not modelled, and the plan

Facts met while modelling on which no document takes a position, so that no property states them:

* A file record does not name the export target.  After `sync` to JSONL, a `sync` of the same folder to Core
  finds every file unchanged and uploads nothing (the quick start, README.md:44-45 of the repository,
  shows the two in that order).
* The console target prints ten documents and `run_sync` records all of them as synced.
* `max_file_size_mb = 0` is the default to the inspection and "nothing passes" to `run_sync`; the
  `validate` command refuses it (`BoundsAssumption`).
* `watch` ends on any exception that is not a `ValueError`.
* After one failed source the daemon is never "ok" again, as said above.
* When a queued row could not be retried and the same run then uploads newer contents of its document, the row
  stays.  A later run retries it, so that Core goes back to the old contents until the sync after that one:
  `StampRetried` makes the record differ from the disk, and the file is uploaded once more.  `FreshWins` is
  about one run, and `Converges` about where this ends.

What would come next, in this order:

1. Two sources under one `daemon.source_name` (`daemon/service.py:268`): `CollectorSync` with keys shared by two
   trees.
2. `watch` as a second driver of `FileSync`, with the exceptions that end it.
3. The isolation of documents in `Delivery`, so that finding 2 is a step of the abstract promise too.
4. An abstract promise of an export to a file, implemented by `FileSync` up to its two named losses; the
   read-only graphs.
5. The JSONL append split into its flushes, for several processes.
6. The changing export target, with the promise one would want of it.

Out of scope: matching of globs and deny patterns, classification, metadata, hints and redaction (regular
expressions over one text, sequential and without state), the allow-list (checked once, before a run),
reports, scores and benchmarks (functions of one inspection), contract validation (read-only probes of a live
Core), configuration and CLI parsing, the legacy agent workflow (one sequential function over
`run_sync` and the Core client).
