------------------------------ MODULE FileSync ------------------------------
(***************************************************************************)
(* run_sync (core/pipeline.py) seen from the files: discovery, the filters, *)
(* the decision to skip a file as unchanged, its capture, and the export to *)
(* a JSONL file or a SQLite database, while files are edited and removed    *)
(* and processes are killed.  CollectorSync is the same run seen from Core: *)
(* there a capture is one step and the upload is taken apart.               *)
(*                                                                          *)
(* A step is one access to a file, one write to the output or one commit.   *)
(* A process is one `sync`, watch or daemon run.                            *)
(*                                                                          *)
(* Abstracted: a body stands for the bytes of a file and for their SHA-256; *)
(* a stamp for its mtime, and every edit gives the file a stamp it never    *)
(* had.  The documents of a body differ in what their file is and in the    *)
(* source type alone.                                                       *)
(***************************************************************************)
EXTENDS Integers, FiniteSets

CONSTANTS
  Files,           \* the paths that depth and globs let through, in order
  Bodies,          \* what a file can hold
  Size,            \* the size of each body
  Binary,          \* the bodies that is_binary_file takes for binary
  Detected,        \* Detected[f][b]: classify_content of path f and text b
  Denied,          \* the paths that match a deny pattern
  Unsupported,     \* the paths whose extension is not supported
  MaxSize,         \* settings.sync.max_file_size_mb
  SourceType,      \* --source-type, or the type configured for the source
  Targets,         \* the export targets considered, of "jsonl" and "sqlite"
  Procs,           \* processes working on the source
  MayCrash,        \* a process may be killed, a write may fail
  Initial,         \* what each path holds at first
  None,            \* no file, no record, no document
  MayRevert,       \* a file may go back to a body it had before
  Edits,           \* bound: the bodies each path may be edited to
  MaxEdits,        \* bound: edits of a path
  MaxCuts          \* bound: writes to the JSONL file that are cut short

DetectedTypes == {"code", "api_doc", "patch", "logs", "deploy_history", "runbook",
                  "incident_report", "config", "unknown_text"}

ASSUME FilesAssumption ==
  /\ Files \subseteq Nat /\ IsFiniteSet(Files) /\ IsFiniteSet(Bodies)
  /\ Denied \subseteq Files /\ Unsupported \subseteq Files
ASSUME BodiesAssumption ==
  /\ None \notin Bodies
  /\ Size \in [Bodies -> Nat]
  /\ Detected \in [Files -> [Bodies -> DetectedTypes]]
  /\ Initial \in [Files -> Bodies \cup {None}]
  /\ Edits \in [Files -> SUBSET Bodies]
ASSUME BoundsAssumption ==
  /\ MaxSize \in Nat \ {0} /\ MaxEdits \in Nat /\ MaxCuts \in Nat
ASSUME TargetsAssumption == Targets \subseteq {"jsonl", "sqlite"}

VARIABLES
  disk,      \* the body and the stamp of each path
  records,   \* table files
  target,    \* the export target of the source
  output,    \* output[f]: the bodies of f that a reader of the output finds
  torn_line, \* the JSONL file ends in the middle of a line
  run,       \* the local variables of each process
  held,      \* history: the bodies each path has held
  spoiled,   \* history: bodies whose line was glued to the rest of another
  cuts       \* history: writes to the JSONL file that were cut short

vars == <<disk, records, target, output, torn_line, run, held, spoiled, cuts>>

-----------------------------------------------------------------------------
(* Data *)

SourceTypes == DetectedTypes \cup {SourceType}

(* sum is the column checksum.  text is not a column: it is the body of the *)
(* document that was exported under this record.                            *)
Records == [size : Nat, stamp : Nat, sum : Bodies, text : Bodies]

Documents == [size : Nat, stamp : Nat, sum : Bodies, text : Bodies,
              source_type : SourceTypes]

ASSUME NoneAssumption == None \notin Documents

Runs == [pc : {"idle", "next", "sniff", "decide", "read", "hash", "export", "record"},
         force : BOOLEAN,                        \* --force
         left : SUBSET Files,                    \* still to visit in this loop
         file : Files \cup {None},               \* the file at hand ...
         size : Nat,                             \* ... as stat gave it
         stamp : Nat,
         text : Bodies \cup {None},              \* what read_text gave
         source_type : SourceTypes,              \* the parameter, reassigned
         docs : [Files -> Documents \cup {None}],
         plan : (SUBSET Files) \cup {None}]      \* history: what `inspect` announced
                                                 \* before; None once a file changed

IdleRun == [pc |-> "idle", force |-> FALSE, left |-> {},
            file |-> None, size |-> 0, stamp |-> 0, text |-> None,
            source_type |-> SourceType, docs |-> [f \in Files |-> None],
            plan |-> None]

TypeOK ==
  /\ disk \in [Files -> [body : Bodies \cup {None}, stamp : Nat]]
  /\ records \in [Files -> Records \cup {None}]
  /\ target \in Targets
  /\ output \in [Files -> SUBSET Bodies]
  /\ torn_line \in BOOLEAN
  /\ run \in [Procs -> Runs]
  /\ held \in [Files -> SUBSET Bodies]
  /\ spoiled \in [Files -> SUBSET Bodies]
  /\ cuts \in 0..MaxCuts

Init ==
  /\ disk = [f \in Files |-> [body |-> Initial[f], stamp |-> 0]]
  /\ records = [f \in Files |-> None]
  /\ target \in Targets
  /\ output = [f \in Files |-> {}]
  /\ torn_line = FALSE
  /\ run = [p \in Procs |-> IdleRun]
  /\ held = [f \in Files |-> {Initial[f]} \ {None}]
  /\ spoiled = [f \in Files |-> {}]
  /\ cuts = 0

-----------------------------------------------------------------------------
(* Helpers *)

At(p, state) == run[p].pc = state

First(f, S) == f \in S /\ \A g \in S : f <= g

Captured(p) == {f \in Files : run[p].docs[f] # None}

IsFile(f) == disk[f].body # None

(* Path policy and size, as run_sync judges them: neither denied, empty nor *)
(* oversized.                                                               *)
PassesPolicy(f, size) == f \notin Denied /\ size # 0 /\ size <= MaxSize

(* Content and extension: neither binary nor unsupported *)
PassesSniff(f, body) == body \notin Binary /\ f \notin Unsupported

(* Mutant: deny patterns are left to run_sync. *)
InspectClassOfAll(f, body) ==
  CASE Size[body] = 0 -> "empty"
    [] Size[body] > MaxSize -> "oversized"
    [] Size[body] \in 1..MaxSize /\ body \in Binary -> "binary"
    [] Size[body] \in 1..MaxSize /\ body \notin Binary /\ f \in Unsupported -> "unsupported"
    [] OTHER -> "supported"

(* inspect_source puts each file in the first class that fits. *)
InspectClass(f, body) ==
  CASE f \in Denied -> "denied"
    [] f \notin Denied /\ Size[body] = 0 -> "empty"
    [] f \notin Denied /\ Size[body] > MaxSize -> "oversized"
    [] PassesPolicy(f, Size[body]) /\ body \in Binary -> "binary"
    [] PassesPolicy(f, Size[body]) /\ body \notin Binary /\ f \in Unsupported -> "unsupported"
    [] OTHER -> "supported"

(* what `inspect`, or the inspect_sources node of a graph, announces *)
Announced == {f \in Files : IsFile(f) /\ InspectClass(f, disk[f].body) = "supported"}

(* the record has the size and the mtime that stat gave *)
SameStat(f, size, stamp) ==
  records[f] # None /\ records[f].size = size /\ records[f].stamp = stamp

(* the record has the checksum of what the file holds now *)
SameSum(f) == records[f] # None /\ records[f].sum = disk[f].body

(* normalize_core_source_type: the content type decides, and the source     *)
(* type only when Core knows no such type.                                  *)
CoreAlias(type) ==
  CASE type = "logs_folder" -> "logs"
    [] type = "git_local" -> "code"
    [] type \in {"deploy_history", "patch"} -> "deploy"
    [] type \in {"incident_report", "incidents"} -> "incident"
    [] type = "runbooks" -> "runbook"
    [] OTHER -> type

CoreKnown == {"logs", "code", "deploy", "incident", "runbook", "api_doc", "config",
              "unknown_text"}

FirstKnown(type, other) ==
  IF CoreAlias(type) \in CoreKnown THEN CoreAlias(type)
  ELSE IF CoreAlias(other) \in CoreKnown THEN CoreAlias(other)
  ELSE "unknown_text"

(* Mutant: the source type comes first. *)
CoreTypeBySource(f, doc) == FirstKnown(doc.source_type, Detected[f][doc.text])

CoreType(f, doc) == FirstKnown(Detected[f][doc.text], doc.source_type)

(* run_sync's finally clause, and whatever else a process leaves behind *)
Leave(p) == run' = [run EXCEPT ![p] = IdleRun]

(* the next turn of the loop over the discovered files *)
NextFile(p) ==
  run' = [run EXCEPT ![p].pc = "next", ![p].file = None, ![p].size = 0,
                     ![p].stamp = 0, ![p].text = None]

Goto(p, state) == run' = [run EXCEPT ![p].pc = state]

-----------------------------------------------------------------------------
(* A run: which files to capture *)

(* The store and the exporter are opened and the tree is listed. *)
BeginSync(p, force) ==
  /\ At(p, "idle")
  /\ run' = [run EXCEPT ![p] = [IdleRun EXCEPT !.pc = "next",
                                               !.force = force,
                                               !.left = {f \in Files : IsFile(f)},
                                               !.plan = Announced]]
  /\ UNCHANGED <<disk, records, target, output, torn_line, held, spoiled, cuts>>

(* discover_files yields the next path that is still a file, with its size  *)
(* and mtime; run_sync skips it, or goes on.                                *)
Stat(p, f) ==
  /\ At(p, "next")
  /\ First(f, run[p].left)
  /\ \/ /\ IsFile(f) /\ PassesPolicy(f, Size[disk[f].body])
        /\ run' = [run EXCEPT ![p].pc = "sniff",
                              ![p].left = @ \ {f},
                              ![p].file = f,
                              ![p].size = Size[disk[f].body],
                              ![p].stamp = disk[f].stamp]
     \/ /\ ~(IsFile(f) /\ PassesPolicy(f, Size[disk[f].body]))
        /\ run' = [run EXCEPT ![p].left = @ \ {f}]
  /\ UNCHANGED <<disk, records, target, output, torn_line, held, spoiled, cuts>>

(* is_binary_file, is_supported_extension *)
Sniff(p) ==
  /\ At(p, "sniff")
  /\ IsFile(run[p].file)
  /\ \/ /\ PassesSniff(run[p].file, disk[run[p].file].body)
        /\ Goto(p, IF run[p].force THEN "read" ELSE "decide")
     \/ /\ ~PassesSniff(run[p].file, disk[run[p].file].body)
        /\ NextFile(p)
  /\ UNCHANGED <<disk, records, target, output, torn_line, held, spoiled, cuts>>

(* should_process_item: the record says unchanged by size and mtime ... *)
SkipByStat(p) ==
  /\ At(p, "decide")
  /\ SameStat(run[p].file, run[p].size, run[p].stamp)
  /\ NextFile(p)
  /\ UNCHANGED <<disk, records, target, output, torn_line, held, spoiled, cuts>>

(* ... or else the checksum, of what the file holds now, decides. *)
DecideBySum(p) ==
  /\ At(p, "decide")
  /\ ~SameStat(run[p].file, run[p].size, run[p].stamp)
  /\ IsFile(run[p].file)
  /\ \/ SameSum(run[p].file) /\ NextFile(p)
     \/ ~SameSum(run[p].file) /\ Goto(p, "read")
  /\ UNCHANGED <<disk, records, target, output, torn_line, held, spoiled, cuts>>

-----------------------------------------------------------------------------
(* A run: capture *)

(* _read_raw_document *)
Read(p) ==
  /\ At(p, "read")
  /\ IsFile(run[p].file)
  /\ run' = [run EXCEPT ![p].pc = "hash", ![p].text = disk[run[p].file].body]
  /\ UNCHANGED <<disk, records, target, output, torn_line, held, spoiled, cuts>>

(* Mutant: size and mtime, too, are those of the file now. *)
HashRestats(p) ==
  /\ At(p, "hash")
  /\ IsFile(run[p].file)
  /\ run' = [run EXCEPT
       ![p].pc = "next", ![p].file = None, ![p].size = 0, ![p].stamp = 0, ![p].text = None,
       ![p].docs = [@ EXCEPT ![run[p].file] =
                      [size |-> Size[disk[run[p].file].body],
                       stamp |-> disk[run[p].file].stamp,
                       sum |-> run[p].text,
                       text |-> run[p].text,
                       source_type |-> run[p].source_type]],
       ![p].source_type = Detected[run[p].file][run[p].text]]
  /\ UNCHANGED <<disk, records, target, output, torn_line, held, spoiled, cuts>>

(* Mutant: a file that is gone has the checksum of nothing. *)
HashOfNothing(p) ==
  /\ At(p, "hash")
  /\ run' = [run EXCEPT
       ![p].pc = "next", ![p].file = None, ![p].size = 0, ![p].stamp = 0, ![p].text = None,
       ![p].docs = [@ EXCEPT ![run[p].file] =
                      [size |-> run[p].size,
                       stamp |-> run[p].stamp,
                       sum |-> disk[run[p].file].body,
                       text |-> run[p].text,
                       source_type |-> run[p].source_type]],
       ![p].source_type = Detected[run[p].file][run[p].text]]
  /\ UNCHANGED <<disk, records, target, output, torn_line, held, spoiled, cuts>>

(* normalize_document: the checksum is that of the file now, size and mtime *)
(* are those of discovery; then run_sync takes the type of the document for *)
(* the source type of the next one.                                         *)
Hash(p) ==
  /\ At(p, "hash")
  /\ IsFile(run[p].file)
  /\ run' = [run EXCEPT
       ![p].pc = "next", ![p].file = None, ![p].size = 0, ![p].stamp = 0, ![p].text = None,
       ![p].docs = [@ EXCEPT ![run[p].file] =
                      [size |-> run[p].size,
                       stamp |-> run[p].stamp,
                       sum |-> disk[run[p].file].body,
                       text |-> run[p].text,
                       source_type |-> run[p].source_type]],
       ![p].source_type = Detected[run[p].file][run[p].text]]
  /\ UNCHANGED <<disk, records, target, output, torn_line, held, spoiled, cuts>>

(* The file at hand is gone, or the one listed next goes between is_file    *)
(* and stat: the access raises, and the run with it.                        *)
Vanished(p) ==
  /\ \/ At(p, "next") /\ \E f \in run[p].left : First(f, run[p].left) /\ ~IsFile(f)
     \/ /\ \/ At(p, "sniff") \/ At(p, "read") \/ At(p, "hash")
           \/ At(p, "decide") /\ ~SameStat(run[p].file, run[p].size, run[p].stamp)
        /\ ~IsFile(run[p].file)
  /\ Leave(p)
  /\ UNCHANGED <<disk, records, target, output, torn_line, held, spoiled, cuts>>

(* The loop is over. *)
EndLoop(p) ==
  /\ At(p, "next")
  /\ run[p].left = {}
  /\ run' = [run EXCEPT ![p].pc = "export", ![p].left = Captured(p)]
  /\ UNCHANGED <<disk, records, target, output, torn_line, held, spoiled, cuts>>

(* --dry-run, which nothing before tells from a run: it returns here. *)
EndDryRun(p) ==
  /\ At(p, "next")
  /\ run[p].left = {}
  /\ Leave(p)
  /\ UNCHANGED <<disk, records, target, output, torn_line, held, spoiled, cuts>>

-----------------------------------------------------------------------------
(* A run: export and record *)

(* The lines of S are appended.  The first one is no line of its own when   *)
(* the file ends in half a line: no reader finds its document.              *)
AppendLines(p, S) ==
  LET glued == {f \in S : torn_line /\ First(f, S)}
      with(fun, T) == [f \in Files |->
                         IF f \in T THEN fun[f] \cup {run[p].docs[f].text} ELSE fun[f]]
  IN  /\ output' = with(output, S \ glued)
      /\ spoiled' = with(spoiled, glued)

ToRecord(p) == run' = [run EXCEPT ![p].pc = "record", ![p].left = Captured(p)]

(* Mutant: the last line is not ended. *)
AppendUnended(p) ==
  /\ At(p, "export")
  /\ target = "jsonl"
  /\ AppendLines(p, run[p].left)
  /\ torn_line' = (torn_line \/ run[p].left # {})
  /\ ToRecord(p)
  /\ UNCHANGED <<disk, records, target, held, cuts>>

(* JSONLExporter.export_documents.  The code writes through a buffer that   *)
(* is flushed whenever it is full, so that the append is one step only      *)
(* while no other process appends to the same file; with several, lines     *)
(* would mix.  What is said of the output of a JSONL file is therefore said *)
(* for one process.                                                         *)
AppendDocuments(p) ==
  /\ At(p, "export")
  /\ target = "jsonl"
  /\ AppendLines(p, run[p].left)
  /\ torn_line' = (torn_line /\ run[p].left = {})
  /\ ToRecord(p)
  /\ UNCHANGED <<disk, records, target, held, cuts>>

(* ... cut short by a kill or a full disk, with some of the documents       *)
(* written and perhaps the beginning of the next line                       *)
AppendCut(p) ==
  /\ MayCrash
  /\ cuts < MaxCuts
  /\ At(p, "export")
  /\ target = "jsonl"
  /\ \E f \in run[p].left, half \in BOOLEAN :
       LET written == {g \in run[p].left : g < f}
       IN  /\ AppendLines(p, written)
           /\ torn_line' = (half \/ (torn_line /\ written = {}))
  /\ cuts' = cuts + 1
  /\ Leave(p)
  /\ UNCHANGED <<disk, records, target, held>>

(* SQLiteExporter.export_documents: INSERT OR REPLACE, document by document *)
Replace(p, f) ==
  /\ At(p, "export")
  /\ target = "sqlite"
  /\ First(f, run[p].left)
  /\ output' = [output EXCEPT ![f] = {run[p].docs[f].text}]
  /\ run' = [run EXCEPT ![p].left = @ \ {f}]
  /\ UNCHANGED <<disk, records, target, torn_line, held, spoiled, cuts>>

EndReplace(p) ==
  /\ At(p, "export")
  /\ target = "sqlite"
  /\ run[p].left = {}
  /\ ToRecord(p)
  /\ UNCHANGED <<disk, records, target, output, torn_line, held, spoiled, cuts>>

(* Mutant: the record gets the time of the sync for the mtime of the file. *)
RecordNow(p, f) ==
  /\ At(p, "record")
  /\ First(f, run[p].left)
  /\ LET doc == run[p].docs[f]
     IN  records' = [records EXCEPT ![f] = [size |-> doc.size, stamp |-> disk[f].stamp,
                                            sum |-> doc.sum, text |-> doc.text]]
  /\ run' = [run EXCEPT ![p].left = @ \ {f}]
  /\ UNCHANGED <<disk, target, output, torn_line, held, spoiled, cuts>>

(* upsert_file_record *)
Record(p, f) ==
  /\ At(p, "record")
  /\ First(f, run[p].left)
  /\ LET doc == run[p].docs[f]
     IN  records' = [records EXCEPT ![f] = [size |-> doc.size, stamp |-> doc.stamp,
                                            sum |-> doc.sum, text |-> doc.text]]
  /\ run' = [run EXCEPT ![p].left = @ \ {f}]
  /\ UNCHANGED <<disk, target, output, torn_line, held, spoiled, cuts>>

EndRun(p) ==
  /\ At(p, "record")
  /\ run[p].left = {}
  /\ Leave(p)
  /\ UNCHANGED <<disk, records, target, output, torn_line, held, spoiled, cuts>>

(* The process is killed, or a statement on either database fails. *)
Crash(p) ==
  /\ MayCrash
  /\ ~At(p, "idle")
  /\ Leave(p)
  /\ UNCHANGED <<disk, records, target, output, torn_line, held, spoiled, cuts>>

-----------------------------------------------------------------------------
(* The environment *)

(* no plan outlives a change *)
PlansLapse == run' = [p \in Procs |-> [run[p] EXCEPT !.plan = None]]

(* A file is written, with new contents or its old ones, or put there. *)
Edit(f, b) ==
  /\ b \in Edits[f]
  /\ disk[f].stamp < MaxEdits
  /\ MayRevert \/ b = disk[f].body \/ b \notin held[f]
  /\ disk' = [disk EXCEPT ![f] = [body |-> b, stamp |-> @.stamp + 1]]
  /\ held' = [held EXCEPT ![f] = @ \cup {b}]
  /\ PlansLapse
  /\ UNCHANGED <<records, target, output, torn_line, spoiled, cuts>>

Remove(f) ==
  /\ IsFile(f)
  /\ Edits[f] # {}
  /\ disk' = [disk EXCEPT ![f].body = None]
  /\ PlansLapse
  /\ UNCHANGED <<records, target, output, torn_line, held, spoiled, cuts>>

-----------------------------------------------------------------------------
(* The specification *)

Advance(p) ==
  \/ \E f \in Files : Stat(p, f)
  \/ Sniff(p)
  \/ SkipByStat(p)
  \/ DecideBySum(p)
  \/ Read(p)
  \/ Hash(p)
  \/ Vanished(p)
  \/ EndLoop(p)
  \/ AppendDocuments(p)
  \/ \E f \in Files : Replace(p, f)
  \/ EndReplace(p)
  \/ \E f \in Files : Record(p, f)
  \/ EndRun(p)

Next ==
  \/ \E p \in Procs : \/ \E force \in BOOLEAN : BeginSync(p, force)
                      \/ Advance(p)
                      \/ EndDryRun(p)
                      \/ AppendCut(p)
                      \/ Crash(p)
  \/ \E f \in Files : Remove(f) \/ \E b \in Bodies : Edit(f, b)

Spec == Init /\ [][Next]_vars

(* The daemon begins one plain run after another, whatever became of the    *)
(* last one (daemon/service.py:92-103, 247-260), and a run that has begun   *)
(* goes on.                                                                 *)
FairSpec ==
  Spec /\ \A p \in Procs : WF_vars(BeginSync(p, FALSE)) /\ WF_vars(Advance(p))

-----------------------------------------------------------------------------
(* Properties *)

(* The body of f is known to be lost: its line was glued to half a line, or *)
(* the file was edited between read_text and the checksum, so that its      *)
(* record vouches for a body that was never read.                           *)
Glued(f) == disk[f].body \in spoiled[f]
Misread(f) == records[f] # None /\ records[f].sum = disk[f].body /\ records[f].text # records[f].sum

WouldSkip(f) ==
  IsFile(f) /\ (SameStat(f, Size[disk[f].body], disk[f].stamp) \/ SameSum(f))

(* What the next run skips as unchanged was exported as it is.  Of all the  *)
(* moments at which an edit may come between stat, the checksum of          *)
(* should_process_item, read_text and the checksum of the document, only    *)
(* the one before the last loses anything; a crash never does               *)
(* (state/checkpoints.py:24-29, processors/normalizer.py:48).  One process. *)
SkippedIsExported ==
  \A f \in Files : WouldSkip(f) => disk[f].body \in output[f] \/ Glued(f) \/ Misread(f)

Losses == {loss \in Files \X Bodies : loss[2] \in spoiled[loss[1]]}

(* A write cut short costs the output one document at most, however often   *)
(* the documents are appended again (exporters/jsonl_exporter.py:16-22).    *)
(* One process.                                                             *)
OneLossPerCut == Cardinality(Losses) <= cuts

(* What inspection announced is what a run takes: a run that began with the *)
(* plan in force and ends with it captured nothing else, and every document *)
(* of the plan is in the output, whether captured now or skipped            *)
(* (core/pipeline.py:53-88 and 206-226).                                    *)
PlanIsKept ==
  \A p \in Procs : At(p, "record") /\ run[p].left = {} /\ run[p].plan # None =>
    /\ Captured(p) \subseteq run[p].plan
    /\ \A f \in run[p].plan : disk[f].body \in output[f] \/ Glued(f) \/ Misread(f)

(* The type of one file, which run_sync takes for the source type of the    *)
(* next, never becomes the type under which Core files that next document   *)
(* (core/pipeline.py:238, core/core_payload.py:30-39).                      *)
CoreTypeIsOwn ==
  \A p \in Procs : \A f \in Captured(p) :
    LET doc == run[p].docs[f] IN CoreType(f, doc) = CoreAlias(Detected[f][doc.text])

-----------------------------------------------------------------------------
(* Liveness *)

(* the steps that stop once files, hosts and operators are at rest; a kill  *)
(* where the run leaves anyway is none                                      *)
Disturbance ==
  \/ \E f \in Files : Remove(f) \/ \E b \in Bodies : Edit(f, b)
  \/ \E p \in Procs : \/ AppendCut(p) \/ (Crash(p) /\ ~Advance(p))
                      \/ EndDryRun(p) \/ BeginSync(p, TRUE)

ComesToRest == <>[][~Disturbance]_vars

Takes(f) ==
  IsFile(f) /\ PassesPolicy(f, Size[disk[f].body]) /\ PassesSniff(f, disk[f].body)

(* Once everything is at rest every file that is to be taken is in the      *)
(* output, unless it is known to be lost.                                   *)
Converges ==
  ComesToRest =>
    \A f \in Files : <>[](Takes(f) => disk[f].body \in output[f] \/ Glued(f) \/ Misread(f))

=============================================================================
