--------------------------- MODULE SyncRecordProofs ---------------------------
(***************************************************************************)
(* What the file records of CollectorSync tell of Core between runs, when  *)
(* processes run one at a time and every run gets to its end; for any      *)
(* number of files and contents, with clears and reverted files.           *)
(***************************************************************************)
EXTENDS SyncQueueProofs

(* what the records have not been told of f yet, and r will tell them *)
Open(r, f) ==
  \/ r.docs[f] # None /\ r.pc \in Exporting
  \/ r.docs[f] # None /\ r.pc = "record" /\ f \in r.left
  \/ r.pc = "stamp" /\ r.row.file = f

Told(f) ==
  \/ files[f].content = core[f]
  \/ Queued(f)
  \/ f \in cleared
  \/ \E p \in Procs : Open(run[p], f)

(* Rows to be retried, and the row being retried, stay in the table or were *)
(* cleared, until Core holds their payload.                                 *)
TakenRun(r, rows, gone, holds) ==
  /\ \A w \in r.due : w \in rows \/ w.file \in gone
  /\ r.pc \in {"settle", "bump"} =>
       r.row.file \in gone \/ \E v \in rows : v.file = r.row.file
  /\ r.pc = "stamp" \/ (r.pc = "settle" /\ TakenAsSuccess(r.answer)) =>
       holds[r.row.file] = r.row.content

RecordInv ==
  /\ \A f \in Files : Told(f)
  /\ \A p \in Procs : TakenRun(run[p], queue, cleared, core)

(* every run that begins to upload ends by recording *)
RunsToTheEnd == ~MayCrash /\ ~TracksSyncs /\ "missing" \notin Answers

LEMMA RecordInit == Init => RecordInv
BY DEF Init, RecordInv, Told, TakenRun, IdleRun, NoRecord

LEMMA TakenStep ==
  ASSUME Sole, NEW p \in Procs, TakenRun(run'[p], queue', cleared', core')
  PROVE  \A q \in Procs : TakenRun(run[q], queue, cleared, core)'
<1>1. \A q \in Procs : q = p
  BY DEF Sole
<1> QED BY <1>1 DEF TakenRun

(* a step after which whatever was to be told of a file still is, or is told *)
LEMMA ToldStep ==
  ASSUME Sole, RecordInv, NEW p \in Procs, UNCHANGED <<files, core>>,
         \A f \in cleared : f \in cleared' \/ Queued(f)',
         \A w \in queue : \/ w.file \in cleared' \/ Open(run'[p], w.file)
                          \/ \E v \in queue' : v.file = w.file,
         \A f \in Files : Open(run[p], f) => Open(run'[p], f)
  PROVE  \A f \in Files : Told(f)'
<1>1. \A q \in Procs : q = p
  BY DEF Sole
<1> SUFFICES ASSUME NEW f \in Files
             PROVE  Told(f)'
  OBVIOUS
<1>3. Open(run'[p], f) => Told(f)'
  BY DEF Open, Told
<1>4. CASE files[f].content = core[f]
  BY <1>4 DEF Told
<1>5. CASE Queued(f)
  BY <1>3, <1>5 DEF Told, Queued
<1>6. CASE f \in cleared
  BY <1>6 DEF Told
<1>7. CASE \E q \in Procs : Open(run[q], f)
  BY <1>1, <1>3, <1>7
<1> QED BY <1>4, <1>5, <1>6, <1>7 DEF RecordInv, Told

(* a step of the run alone *)
LEMMA RunStepTold ==
  ASSUME Sole, RecordInv, NEW p \in Procs, UNCHANGED <<files, core, queue, cleared>>,
         \A f \in Files : Open(run[p], f) => Open(run'[p], f)
  PROVE  \A f \in Files : Told(f)'
<1>1. \A f \in cleared : f \in cleared' \/ Queued(f)'
  OBVIOUS
<1>2. \A w \in queue : \E v \in queue' : v.file = w.file
  OBVIOUS
<1> QED BY <1>1, <1>2, ToldStep

LEMMA RecordNext ==
  ASSUME Sole, RunsToTheEnd, "isolated" \notin Answers,
         TypeInv, RowsInv, FailInv, FreshInv, RecordInv, [Next]_vars
  PROVE  RecordInv'
<1>type. /\ queue \subseteq Rows
         /\ files \in [Files -> FileRecords]
         /\ \A w \in queue : w.ext = w.file
  BY DEF TypeInv, TypeOK, RowsInv, OneRowPerDocument
<1>run. ASSUME NEW p \in Procs
        PROVE  /\ run[p] \in Runs /\ GoodShape(run[p])
               /\ RowsRun(run[p], queue, cleared) /\ FailRun(run[p], queue, cleared)
               /\ FreshRun(run[p], core) /\ TakenRun(run[p], queue, cleared, core)
  BY DEF TypeInv, TypeOK, Shape, GoodShape, Captured, RowsInv, FailInv, FreshInv, RecordInv
<1>idle. ASSUME NEW p \in Procs, UNCHANGED <<files, core, queue, cleared>>,
                run'[p].pc \notin Retrying, run'[p].due \subseteq run[p].due \cup queue,
                \A f \in Files : Open(run[p], f) => Open(run'[p], f)
         PROVE  RecordInv'
  <2>1. TakenRun(run'[p], queue', cleared', core')
    BY <1>idle, <1>run DEF TakenRun, Retrying
  <2> QED BY <1>idle, <2>1, TakenStep, RunStepTold DEF RecordInv
<1>1. ASSUME NEW p \in Procs, BeginSync(p) \/ BeginRetry(p)
      PROVE  RecordInv'
  <2>1. run[p].pc = "idle" /\ UNCHANGED <<files, core, queue, cleared>>
    BY <1>1 DEF BeginSync, BeginRetry, At
  <2>2. \A f \in Files : ~Open(run[p], f)
    BY <2>1 DEF Open, Exporting
  <2> QED BY <1>1, <1>idle, <2>1, <2>2, BeginMove DEF Retrying
<1>2. ASSUME NEW p \in Procs, ConnectFails(p) \/ NoEndpoint(p) \/ FinishFails(p)
                                \/ EndRun(p) \/ Crash(p)
      PROVE  RecordInv'
  <2>1. ConnectFails(p) \/ EndRun(p)
    BY <1>2 DEF RunsToTheEnd, NoEndpoint, FinishFails, Crash
  <2>2. /\ run[p].pc = "scan" \/ (run[p].pc = "record" /\ run[p].left = {})
        /\ UNCHANGED <<files, core, queue, cleared>>
    BY <2>1 DEF ConnectFails, EndRun, At
  <2>3. \A f \in Files : ~Open(run[p], f)
    BY <2>2 DEF Open, Exporting
  <2>4. IdleRun.due = {} /\ IdleRun.pc \notin Retrying
    BY DEF IdleRun, Retrying
  <2> QED BY <1>2, <1>idle, <2>2, <2>3, <2>4, IdleMove
<1>3. ASSUME NEW p \in Procs, NEW f \in Files, Scan(p, f)
      PROVE  RecordInv'
  <2>1. \A g \in Files : ~Open(run[p], g)
    BY <1>3, ScanMove DEF Open, Exporting
  <2>2. UNCHANGED <<files, core, queue, cleared>>
    BY <1>3 DEF Scan
  <2> QED BY <1>3, <1>idle, <2>1, <2>2, ScanMove DEF Retrying
<1>4. ASSUME NEW p \in Procs, Connect(p)
      PROVE  RecordInv'
  <2>1. \A g \in Files : ~Open(run[p], g)
    BY <1>4, ConnectMove DEF Open, Exporting
  <2>2. UNCHANGED <<files, core, queue, cleared>>
    BY <1>4 DEF Connect
  <2> QED BY <1>4, <1>idle, <2>1, <2>2, ConnectMove DEF Retrying
<1>5. ASSUME NEW p \in Procs, NEW w \in run[p].due, Retry(p, w)
      PROVE  RecordInv'
  <2>1. /\ run[p].pc = "export" /\ run'[p].pc = "settle" /\ run'[p].row = w
        /\ run'[p].docs = run[p].docs /\ run'[p].due \subseteq run[p].due
    BY <1>5, RetryMove DEF Kept
  <2>2. UNCHANGED <<files, queue, cleared>>
    BY <1>5 DEF Retry
  <2>3. w \in Rows
    BY <1>run DEF Runs
  <2>4. w.file \in Files /\ w.content \in Contents
    BY <2>3 DEF Rows
  <2>5. w.file \in cleared \/ \E v \in queue : v.file = w.file
    BY <1>run DEF TakenRun
  <2>6. PICK a \in Answers : \E S \in Storable(a, {w.file}) :
          /\ CoreStores(S, [f \in Files |-> w.content])
          /\ run' = [run EXCEPT ![p].pc = "settle", ![p].row = w, ![p].due = @ \ {w},
                                ![p].answer = a,
                                ![p].trouble = @ \/ ~TakenAsSuccess(a)]
    BY <1>5 DEF Retry
  <2>store. PICK S \in Storable(a, {w.file}) : CoreStores(S, [f \in Files |-> w.content])
    BY <2>6
  <2>7. run'[p].answer = a
    BY <2>6, <1>run DEF TypeInv, TypeOK, Runs
  <2>8. S \subseteq {w.file} /\ (TakenAsSuccess(a) => S = {w.file})
    BY <2>store DEF Storable, TakenAsSuccess
  <2>9. \A f \in Files : core'[f] = IF f \in S THEN w.content ELSE core[f]
    BY <2>store DEF CoreStores
  <2>10. TakenRun(run'[p], queue', cleared', core')
    BY <1>run, <2>1, <2>2, <2>4, <2>5, <2>7, <2>8, <2>9 DEF TakenRun
  <2>11. ASSUME NEW f \in Files
         PROVE  Told(f)'
    <3>1. CASE f = w.file
      BY <2>2, <2>5, <3>1 DEF Told, Queued
    <3>2. CASE f # w.file
      <4>1. core'[f] = core[f]
        BY <2>8, <2>9, <3>2
      <4>2. \A q \in Procs : q = p
        BY DEF Sole
      <4>3. Open(run[p], f) => Open(run[p], f)'
        BY <2>1 DEF Open, Exporting
      <4> QED BY <2>2, <4>1, <4>2, <4>3 DEF RecordInv, Told, Queued
    <3> QED BY <3>1, <3>2
  <2> QED BY <2>10, <2>11, TakenStep DEF RecordInv
<1>6. ASSUME NEW p \in Procs, UploadBatch(p)
      PROVE  RecordInv'
  <2>1. /\ run[p].pc = "export" /\ run[p].due = {} /\ run'[p].due = {}
        /\ run'[p].docs = run[p].docs
        /\ run'[p].pc \in {"select", "export"}
    BY <1>6, UploadMove
  <2>2. UNCHANGED <<files, queue, cleared>>
    BY <1>6 DEF UploadBatch
  <2>3. PICK S \in SUBSET run[p].left : CoreStores(S, run[p].docs)
    BY <1>6, UploadMove
  <2>4. \A f \in Files : core'[f] = core[f] \/ run[p].docs[f] # None
    BY <1>run, <2>1, <2>3 DEF CoreStores, GoodShape
  <2>5. TakenRun(run'[p], queue', cleared', core')
    BY <2>1 DEF TakenRun
  <2>6. ASSUME NEW f \in Files
        PROVE  Told(f)'
    <3>1. CASE run[p].docs[f] # None
      BY <2>1, <3>1 DEF Told, Open, Exporting
    <3>2. CASE run[p].docs[f] = None
      <4>1. \A q \in Procs : q = p
        BY DEF Sole
      <4>2. ~Open(run[p], f)
        BY <2>1, <3>2 DEF Open
      <4> QED BY <2>2, <2>4, <3>2, <4>1, <4>2 DEF RecordInv, Told, Queued
    <3> QED BY <3>1, <3>2
  <2> QED BY <2>5, <2>6, TakenStep DEF RecordInv
<1>7. ASSUME NEW p \in Procs, DeleteRow(p)
      PROVE  RecordInv'
  <2>1. /\ run[p].pc = "settle" /\ run'[p].pc = "stamp" /\ run'[p].row = run[p].row
        /\ run'[p].due = run[p].due /\ run'[p].docs = run[p].docs
    BY <1>7, DeleteMove DEF Kept
  <2>2. /\ TakenAsSuccess(run[p].answer)
        /\ queue' = {v \in queue : v.id # run[p].row.id}
        /\ UNCHANGED <<files, core, cleared>>
    BY <1>7 DEF DeleteRow
  <2>3. \A w \in run[p].due : w.id # run[p].row.id
    BY <1>run, <2>1 DEF RowsRun, Retrying
  <2>4. TakenRun(run'[p], queue', cleared', core')
    BY <1>run, <2>1, <2>2, <2>3 DEF TakenRun
  <2>5. \A v \in queue : v.id = run[p].row.id => v = run[p].row
    BY <1>run, <2>1 DEF RowsRun, Untouched
  <2>6. \A w \in queue : Open(run'[p], w.file) \/ \E v \in queue' : v.file = w.file
    BY <2>1, <2>2, <2>5 DEF Open
  <2>7. \A f \in Files : Open(run[p], f) => Open(run'[p], f)
    BY <2>1 DEF Open, Exporting
  <2>8. \A f \in Files : Told(f)'
    BY <2>2, <2>6, <2>7, ToldStep
  <2> QED BY <2>4, <2>8, TakenStep DEF RecordInv
<1>8. ASSUME NEW p \in Procs, StampRetried(p)
      PROVE  RecordInv'
  <2>1. /\ run[p].pc = "stamp" /\ run'[p].pc = "export"
        /\ run'[p].due = run[p].due /\ run'[p].docs = run[p].docs
    BY <1>8, BackMove DEF StampRetried, Kept, At
  <2>2. /\ run[p].row.file \in Files
        /\ files' = [files EXCEPT ![run[p].row.file] =
                       [content |-> run[p].row.content, status |-> "synced"]]
        /\ UNCHANGED <<core, queue, cleared>>
    BY <1>8, <1>run, <2>1 DEF StampRetried, UpsertFile, GoodShape, Rows
  <2>3. core[run[p].row.file] = run[p].row.content
    BY <1>run, <2>1 DEF TakenRun
  <2>4. TakenRun(run'[p], queue', cleared', core')
    BY <1>run, <2>1, <2>2 DEF TakenRun
  <2>5. ASSUME NEW f \in Files
        PROVE  Told(f)'
    <3>1. CASE f = run[p].row.file
      BY <1>type, <2>2, <2>3, <3>1 DEF Told
    <3>2. CASE f # run[p].row.file
      <4>1. files'[f] = files[f]
        BY <1>type, <2>2, <3>2
      <4>2. \A q \in Procs : q = p
        BY DEF Sole
      <4>3. Open(run[p], f) => Open(run[p], f)'
        BY <2>1, <3>2 DEF Open, Exporting
      <4> QED BY <2>2, <4>1, <4>2, <4>3 DEF RecordInv, Told, Queued
    <3> QED BY <3>1, <3>2
  <2> QED BY <2>4, <2>5, TakenStep DEF RecordInv
<1>9. ASSUME NEW p \in Procs, ReadRetries(p)
      PROVE  RecordInv'
  <2>1. /\ run[p].pc = "settle" /\ run'[p].docs = run[p].docs /\ run'[p].due = run[p].due
        /\ \/ run'[p].pc = "export"
           \/ run'[p].pc = "bump" /\ run'[p].row = run[p].row
        /\ UNCHANGED <<files, core, queue, cleared>>
    BY <1>9, SettledMove DEF ReadRetries, Kept, At
  <2>2. TakenRun(run'[p], queue', cleared', core')
    BY <1>run, <2>1 DEF TakenRun
  <2>3. \A f \in Files : Open(run[p], f) => Open(run'[p], f)
    BY <2>1 DEF Open, Exporting
  <2> QED BY <2>1, <2>2, <2>3, TakenStep, RunStepTold DEF RecordInv
<1>10. ASSUME NEW p \in Procs, BumpRetries(p) \/ GiveUp(p)
       PROVE  RecordInv'
  <2>1. /\ run[p].pc \in {"settle", "bump"} /\ run' = BackToExport(p)
        /\ UNCHANGED <<files, core, cleared>>
    BY <1>10 DEF BumpRetries, GiveUp, At
  <2>2. run'[p].pc = "export" /\ run'[p].docs = run[p].docs /\ run'[p].due = run[p].due
    BY <2>1, BackMove DEF Kept
  <2> DEFINE n == IF run[p].pc = "bump" /\ run[p].read < RetryLimit THEN run[p].read + 1
                  ELSE RetryLimit
             d == IF run[p].pc = "bump" THEN FALSE ELSE TRUE
  <2>3. queue' = {IF w.id = run[p].row.id
                    THEN [w EXCEPT !.retries = n, !.due = d]
                    ELSE w : w \in queue}
    <3>1. CASE GiveUp(p)
      <4>1. n = RetryLimit /\ d = TRUE
        BY <3>1 DEF GiveUp, At
      <4> HIDE DEF n, d
      <4> QED BY <3>1, <4>1 DEF GiveUp
    <3>2. CASE BumpRetries(p)
      <4>1. d = FALSE /\ n = IF run[p].read < RetryLimit THEN run[p].read + 1 ELSE RetryLimit
        BY <3>2 DEF BumpRetries, At
      <4> HIDE DEF n, d
      <4> QED BY <3>2, <4>1 DEF BumpRetries
    <3> QED BY <1>10, <3>1, <3>2
  <2> HIDE DEF n, d
  <2> DEFINE U == [w \in queue |-> IF w.id = run[p].row.id
                                     THEN [w EXCEPT !.retries = n, !.due = d] ELSE w]
  <2>4. queue' = {U[w] : w \in queue}
    BY <2>3
  <2>5. \A w \in queue : U[w].file = w.file /\ (w.id # run[p].row.id => U[w] = w)
    BY <1>type DEF Rows
  <2> HIDE DEF U
  <2>6. \A w \in run[p].due : w.id # run[p].row.id
    BY <1>run, <2>1 DEF RowsRun, Retrying
  <2>7. TakenRun(run'[p], queue', cleared', core')
    BY <1>run, <2>1, <2>2, <2>4, <2>5, <2>6 DEF TakenRun
  <2>8. \A w \in queue : \E v \in queue' : v.file = w.file
    BY <2>4, <2>5
  <2>9. \A f \in Files : Open(run[p], f) => Open(run'[p], f)
    BY <2>1, <2>2 DEF Open, Exporting
  <2>10. \A f \in Files : Told(f)'
    BY <2>1, <2>8, <2>9, ToldStep
  <2> QED BY <2>7, <2>10, TakenStep DEF RecordInv
<1>11. ASSUME NEW p \in Procs, NEW f \in Files, SelectRow(p, f)
       PROVE  RecordInv'
  <2>1. UNCHANGED <<files, core, queue, cleared>>
    BY <1>11 DEF SelectRow
  <2>2. \A g \in Files : Open(run[p], g) => Open(run'[p], g)
    BY <1>11, SelectMove DEF Open, Exporting
  <2> QED BY <1>11, <1>idle, <2>1, <2>2, SelectMove DEF Retrying
<1>12. ASSUME NEW p \in Procs, NEW f \in Files, WriteRow(p, f)
       PROVE  RecordInv'
  <2> DEFINE content == run[p].docs[f]
             tries == IF IsRetryable(run[p].answer) THEN 0 ELSE RetryLimit
             updated(w) == [w EXCEPT !.file = f, !.content = content,
                                     !.retries = tries, !.due = TRUE]
             new(i) == [id |-> i, ext |-> f, file |-> f, content |-> content,
                        retries |-> tries, due |-> TRUE]
  <2>1. /\ run[p].pc = "write" /\ run'[p].pc \in {"export", "select"}
        /\ First(f, run[p].batch)
        /\ run'[p].due = run[p].due /\ run'[p].docs = run[p].docs
    BY <1>12, WriteMove
  <2>2. Found(f, run[p].read, queue, cleared) /\ run[p].due = {}
    BY <1>run, <2>1 DEF RowsRun, Retrying
  <2>3. \A w \in queue : updated(w).file = f
    BY <1>type DEF Rows
  <2>4. \A i : new(i).file = f
    OBVIOUS
  <2>5. \/ /\ run[p].read # 0
           /\ queue' = {IF w.id = run[p].read THEN updated(w) ELSE w : w \in queue}
        \/ /\ run[p].read = 0
           /\ \E top \in Ids \cup {0} : queue' = queue \cup {new(top + 1)}
    BY <1>12 DEF WriteRow
  <2>6. /\ cleared' = IF run[p].read = 0 \/ run[p].read \in Ids THEN cleared \ {f} ELSE cleared
        /\ UNCHANGED <<files, core>>
    BY <1>12 DEF WriteRow
  <2> HIDE DEF updated, new
  <2>7. (run[p].read = 0 \/ run[p].read \in Ids) => \E v \in queue' : v.file = f
    <3>1. CASE run[p].read = 0
      BY <2>4, <2>5, <3>1
    <3>2. CASE run[p].read \in Ids /\ run[p].read # 0
      <4>1. PICK w \in queue : w.id = run[p].read
        BY <3>2 DEF Ids
      <4>2. updated(w) \in queue'
        BY <2>5, <3>2, <4>1
      <4> QED BY <2>3, <4>2
    <3> QED BY <3>1, <3>2
  <2>8. \A w \in queue : \E v \in queue' : v.file = w.file
    <3>1. ASSUME NEW w \in queue, run[p].read # 0, w.id = run[p].read
          PROVE  updated(w) \in queue' /\ w.file = f
      BY <1>type, <2>2, <2>5, <3>1 DEF Found
    <3>2. ASSUME NEW w \in queue, run[p].read = 0 \/ w.id # run[p].read
          PROVE  w \in queue'
      BY <2>5, <3>2
    <3> QED BY <2>3, <3>1, <3>2
  <2>9. TakenRun(run'[p], queue', cleared', core')
    BY <2>1, <2>2 DEF TakenRun
  <2>10. \A g \in Files : Open(run[p], g) => Open(run'[p], g)
    BY <2>1 DEF Open, Exporting
  <2>11. \A g \in cleared : g \in cleared' \/ Queued(g)'
    BY <2>6, <2>7 DEF Queued
  <2>12. \A g \in Files : Told(g)'
    BY <2>6, <2>8, <2>10, <2>11, ToldStep
  <2> QED BY <2>9, <2>12, TakenStep DEF RecordInv
<1>13. ASSUME NEW p \in Procs, Finish(p)
       PROVE  RecordInv'
  <2>1. /\ run[p].pc = "export" /\ run'[p].pc = "record" /\ run'[p].due = {}
        /\ run'[p].docs = run[p].docs
    BY <1>13, FinishMove
  <2>2. run'[p].left = Captured(p) /\ UNCHANGED <<files, core, queue, cleared>>
    BY <1>13, <1>run DEF Finish, TypeInv, TypeOK, Runs
  <2>3. \A f \in Files : Open(run[p], f) => Open(run'[p], f)
    BY <2>1, <2>2 DEF Open, Captured
  <2> QED BY <1>idle, <2>1, <2>2, <2>3 DEF Retrying
<1>14. ASSUME NEW p \in Procs, NEW f \in Files, RecordSynced(p, f) \/ RecordFailed(p, f)
       PROVE  RecordInv'
  <2>1. /\ run[p].pc = "record" /\ run'[p].pc = "record" /\ f \in run[p].left
        /\ run'[p].due = run[p].due /\ run'[p].docs = run[p].docs
    BY <1>14, RecordMove
  <2>2. run'[p].left = run[p].left \ {f} /\ UNCHANGED <<core, queue, cleared>>
    BY <1>14, <1>run DEF RecordSynced, RecordFailed, TypeInv, TypeOK, Runs
  <2>3. \A g \in Files :
          files'[g].content = IF g = f THEN run[p].docs[f] ELSE files[g].content
    BY <1>14, <1>type DEF RecordSynced, RecordFailed, UpsertFile
  <2>4. run[p].docs[f] # None
    BY <1>run, <2>1 DEF GoodShape
  <2>5. \/ core[f] = run[p].docs[f]
        \/ f \in cleared
        \/ Queued(f)
    <3>1. CASE RecordSynced(p, f)
      BY <1>run, <2>1, <2>4, <3>1 DEF FreshRun, RecordSynced, First
    <3>2. CASE RecordFailed(p, f)
      BY <1>run, <2>1, <3>2 DEF GoodShape, FailRun, RecordFailed, Queued
    <3> QED BY <1>14, <3>1, <3>2
  <2>6. TakenRun(run'[p], queue', cleared', core')
    BY <1>run, <2>1, <2>2 DEF TakenRun
  <2>7. ASSUME NEW g \in Files
        PROVE  Told(g)'
    <3>1. CASE g = f
      BY <2>2, <2>3, <2>5, <3>1 DEF Told, Queued
    <3>2. CASE g # f
      <4>1. \A q \in Procs : q = p
        BY DEF Sole
      <4>2. Open(run[p], g) => Open(run[p], g)'
        BY <2>1, <2>2, <3>2 DEF Open, Exporting
      <4> QED BY <2>2, <2>3, <3>2, <4>1, <4>2 DEF RecordInv, Told, Queued
    <3> QED BY <3>1, <3>2
  <2> QED BY <2>6, <2>7, TakenStep DEF RecordInv
<1>rows. ASSUME UNCHANGED <<files, core, run>>, cleared \subseteq cleared',
                \A w \in queue : w.file \in cleared' \/ \E v \in queue' : v.file = w.file,
                \A w \in queue : w.due => w.file \in cleared' \/ w \in queue'
         PROVE  RecordInv'
  <2>1. ASSUME NEW f \in Files
        PROVE  Told(f)'
    BY <1>rows DEF RecordInv, Told, Queued, Open
  <2>2. ASSUME NEW p \in Procs
        PROVE  TakenRun(run'[p], queue', cleared', core')
    <3>1. \A w \in run[p].due : w.due
      BY <1>run DEF RowsRun, Untouched
    <3> QED BY <1>rows, <1>run, <3>1 DEF TakenRun
  <2>3. \A p \in Procs : TakenRun(run[p], queue, cleared, core)'
    BY <2>2 DEF TakenRun
  <2> QED BY <2>1, <2>3 DEF RecordInv
<1>15. ASSUME NEW z \in queue, BackoffElapses(z)
       PROVE  RecordInv'
  <2>1. /\ ~z.due /\ queue' = (queue \ {z}) \cup {[z EXCEPT !.due = TRUE]}
        /\ UNCHANGED <<files, core, run, cleared>>
    BY <1>15 DEF BackoffElapses
  <2>2. [z EXCEPT !.due = TRUE].file = z.file
    BY <1>type DEF Rows
  <2>3. \A w \in queue : \E v \in queue' : v.file = w.file
    BY <2>1, <2>2
  <2>4. \A w \in queue : w.due => w \in queue'
    BY <2>1
  <2> QED BY <1>rows, <2>1, <2>3, <2>4
<1>16. ASSUME NEW z \in queue, ClearQueue(z)
       PROVE  RecordInv'
  <2>1. /\ queue' = {q \in queue : q.id > z.id}
        /\ cleared' = cleared \cup {q.file : q \in {q \in queue : q.id <= z.id}}
        /\ UNCHANGED <<files, core, run>>
    BY <1>16 DEF ClearQueue
  <2>2. ASSUME NEW w \in queue
        PROVE  w \in queue' \/ w.file \in cleared'
    <3>1. w.id \in Nat /\ z.id \in Nat
      BY <1>type DEF Rows
    <3> QED BY <2>1, <3>1
  <2> QED BY <1>rows, <2>1, <2>2
<1>17. ASSUME NEW f \in Files, NEW c \in Contents, Edit(f, c)
       PROVE  RecordInv'
  BY <1>17, <1>rows DEF Edit
<1>18. CASE UNCHANGED vars
  BY <1>18, <1>rows DEF vars
<1> QED
  BY <1>1, <1>2, <1>3, <1>4, <1>5, <1>6, <1>7, <1>8, <1>9, <1>10, <1>11, <1>12, <1>13, <1>14,
     <1>15, <1>16, <1>17, <1>18 DEF Next, Advance

(* When processes run one at a time, each to its end, and Core refuses no   *)
(* single documents, the file records tell between runs what Core holds of  *)
(* every document that is neither queued nor cleared, so that what the next *)
(* sync skips as unchanged is in Core; files that go back included          *)
(* (core/pipeline.py:257-278, exporters/incidentops_api.py:215-224).        *)
THEOREM RecordsTellCore ==
  ASSUME Sole, RunsToTheEnd, "isolated" \notin Answers
  PROVE  Spec => []RecordMatchesCore
<1> DEFINE Inv == TypeInv /\ RowsInv /\ FailInv /\ Honest /\ FreshInv /\ RecordInv
<1>1. Init => Inv
  BY TypeInit, RowsInit, FailInit, HonestInit, FreshInit, RecordInit
<1>2. Inv /\ [Next]_vars => Inv'
  BY TypeStep, RowsNext, FailNext, HonestNext, FreshNext, RecordNext
<1>3. Inv => RecordMatchesCore
  <2>1. \A p \in Procs, f \in Files : Quiescent => ~Open(run[p], f)
    BY DEF Quiescent, At, Open, Exporting
  <2> QED BY <2>1 DEF RecordInv, Told, RecordMatchesCore
<1> QED BY <1>1, <1>2, <1>3, PTL DEF Spec

===============================================================================
