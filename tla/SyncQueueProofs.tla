--------------------------- MODULE SyncQueueProofs ---------------------------
(***************************************************************************)
(* Theorems about CollectorSync when processes run one at a time: the rows *)
(* of the queue, the order of uploads, and that nothing is forgotten; for  *)
(* any number of files and contents, with or without crashes.              *)
(***************************************************************************)
EXTENDS CollectorSyncProofs

(* Processes run one at a time. *)
Sole == \A p, q \in Procs : p = q

-----------------------------------------------------------------------------
(* The queue *)

Retrying == {"settle", "stamp", "bump"}

(* A row that was read is as it was read, unless it is gone. *)
Untouched(w, rows) ==
  /\ w.due /\ w.ext = w.file
  /\ \A v \in rows : v.id = w.id => v = w

(* i is the id of the one row of f, or was before a clear, or 0 if f has none. *)
Found(f, i, rows, gone) ==
  /\ \A w \in rows : w.ext = f <=> w.id = i
  /\ i = 0 \/ f \in gone \/ \E w \in rows : w.id = i

(* What a run took from the queue is still true of it. *)
RowsRun(r, rows, gone) ==
  /\ r.pc \notin Retrying \cup {"export"} => r.due = {}
  /\ \A w \in r.due : Untouched(w, rows)
  /\ \A v, w \in r.due : v.id = w.id => v = w
  /\ r.pc \in {"settle", "bump"} => Untouched(r.row, rows)
  /\ r.pc \in Retrying => \A w \in r.due : w.id # r.row.id
  /\ ~MayClear => r.due \subseteq rows
  /\ r.pc = "write" => \A f \in Files : First(f, r.batch) => Found(f, r.read, rows, gone)

RowsInv ==
  /\ OneRowPerDocument
  /\ \A p \in Procs : RowsRun(run[p], queue, cleared)

LEMMA FirstIsOne ==
  ASSUME NEW S \in SUBSET Files, NEW f \in Files, NEW g \in Files, First(f, S), First(g, S)
  PROVE  f = g
BY FilesAssumption DEF First

(* what a step does to the run of p, and nobody else runs *)
LEMMA RowsStep ==
  ASSUME Sole, TypeInv, NEW p \in Procs, NEW r, run' = [run EXCEPT ![p] = r],
         RowsRun(r, queue', cleared'), OneRowPerDocument'
  PROVE  RowsInv'
<1>1. \A q \in Procs : run'[q] = r
  BY DEF Sole, TypeInv, TypeOK
<1> QED BY <1>1 DEF RowsInv

LEMMA FewerRows ==
  ASSUME OneRowPerDocument, queue' \subseteq queue
  PROVE  OneRowPerDocument'
BY DEF OneRowPerDocument

(* rows change in place *)
LEMMA RowsUpdated ==
  ASSUME OneRowPerDocument, NEW U, queue' = {U[w] : w \in queue},
         \A w \in queue : U[w].id = w.id /\ U[w].ext = w.ext /\ U[w].file = w.ext
  PROVE  OneRowPerDocument'
<1>1. ASSUME NEW v \in queue', NEW w \in queue', v.id = w.id \/ v.ext = w.ext
      PROVE  v = w
  <2>1. PICK a \in queue : v = U[a]
    OBVIOUS
  <2>2. PICK b \in queue : w = U[b]
    OBVIOUS
  <2>3. a = b
    BY <1>1, <2>1, <2>2 DEF OneRowPerDocument
  <2> QED BY <2>1, <2>2, <2>3
<1>2. \A v \in queue' : v.ext = v.file
  OBVIOUS
<1> QED BY <1>1, <1>2 DEF OneRowPerDocument

(* ... but not those that were read *)
LEMMA UntouchedUpdated ==
  ASSUME NEW rows, NEW U, NEW w, Untouched(w, rows),
         \A v \in rows : U[v].id = v.id,
         \A v \in rows : v.id = w.id => U[v] = v
  PROVE  Untouched(w, {U[v] : v \in rows})
BY DEF Untouched

LEMMA RowsInit == Init => RowsInv
BY DEF Init, RowsInv, OneRowPerDocument, RowsRun, IdleRun

LEMMA RowsNext ==
  ASSUME Sole, TypeInv, RowsInv, [Next]_vars
  PROVE  RowsInv'
<1>type. queue \subseteq Rows /\ OneRowPerDocument
  BY DEF TypeInv, TypeOK, RowsInv
<1>run. ASSUME NEW p \in Procs
        PROVE  /\ run[p] \in Runs /\ GoodShape(run[p]) /\ RowsRun(run[p], queue, cleared)
               /\ run[p].due \subseteq Rows
  BY DEF TypeInv, TypeOK, Shape, GoodShape, Captured, RowsInv, Runs
<1>same. queue' = queue => OneRowPerDocument'
  BY <1>type DEF OneRowPerDocument
<1>none. ASSUME NEW p \in Procs, NEW r, run' = [run EXCEPT ![p] = r], queue' = queue,
                r.due = {}, r.pc \notin Retrying \cup {"write"}
         PROVE  RowsInv'
  <2>1. RowsRun(r, queue', cleared')
    BY <1>none DEF RowsRun, Retrying
  <2> QED BY <1>none, <1>same, <2>1, RowsStep
<1>back. ASSUME NEW p \in Procs, run' = BackToExport(p), OneRowPerDocument',
                run[p].pc \in Retrying,
                \A w \in run[p].due : Untouched(w, queue'),
                ~MayClear => run[p].due \subseteq queue'
         PROVE  RowsInv'
  <2> DEFINE r == [run[p] EXCEPT !.pc = "export", !.row = None, !.answer = "none", !.read = 0]
  <2>1. r.pc = "export" /\ r.due = run[p].due
    BY <1>run DEF Runs
  <2>2. run' = [run EXCEPT ![p] = r]
    BY <1>back DEF BackToExport
  <2> HIDE DEF r
  <2>3. RowsRun(r, queue', cleared')
    BY <1>run, <1>back, <2>1 DEF RowsRun, Retrying
  <2> QED BY <1>back, <2>2, <2>3, RowsStep
<1>1. ASSUME NEW p \in Procs, BeginSync(p) \/ BeginRetry(p)
      PROVE  RowsInv'
  <2>1. CASE BeginSync(p)
    <3>1. PICK forced \in BOOLEAN :
            run' = [run EXCEPT ![p] = [IdleRun EXCEPT !.pc = "scan", !.force = forced,
                                                      !.left = Files]]
      BY <2>1 DEF BeginSync
    <3> DEFINE r == [IdleRun EXCEPT !.pc = "scan", !.force = forced, !.left = Files]
    <3>2. r.pc = "scan" /\ r.due = {}
      BY DEF IdleRun
    <3> QED BY <2>1, <3>1, <3>2, <1>none DEF BeginSync, Retrying
  <2>2. CASE BeginRetry(p)
    <3> DEFINE r == [IdleRun EXCEPT !.pc = "scan"]
    <3>1. r.pc = "scan" /\ r.due = {}
      BY DEF IdleRun
    <3> QED BY <2>2, <3>1, <1>none DEF BeginRetry, Retrying
  <2> QED BY <1>1, <2>1, <2>2
<1>2. ASSUME NEW p \in Procs, NEW f \in Files, Scan(p, f)
      PROVE  RowsInv'
  <2> DEFINE d == IF Unchanged(f) /\ ~run[p].force
                    THEN run[p].docs ELSE [run[p].docs EXCEPT ![f] = disk[f]]
             r == [run[p] EXCEPT !.left = @ \ {f}, !.docs = d]
  <2>1. run' = [run EXCEPT ![p] = r]
    BY <1>2 DEF Scan
  <2> HIDE DEF d
  <2>2. r.pc = "scan" /\ r.due = {}
    BY <1>run, <1>2 DEF Runs, Scan, At, RowsRun, Retrying
  <2> HIDE DEF r
  <2> QED BY <1>2, <2>1, <2>2, <1>none DEF Scan, Retrying
<1>3. ASSUME NEW p \in Procs, Connect(p)
      PROVE  RowsInv'
  <2> DEFINE D == {q \in queue : IsDue(q)}
             r == [run[p] EXCEPT !.pc = "export", !.force = FALSE,
                                 !.left = Captured(p), !.due = D]
  <2>1. run' = [run EXCEPT ![p] = r]
    BY <1>3 DEF Connect
  <2>2. D \subseteq queue /\ \A w \in D : w.due
    BY DEF IsDue
  <2> HIDE DEF D
  <2>3. r.pc = "export" /\ r.due = D
    BY <1>run DEF Runs
  <2> HIDE DEF r
  <2>4. \A w \in D : Untouched(w, queue)
    BY <1>type, <2>2 DEF OneRowPerDocument, Untouched
  <2>5. \A v, w \in D : v.id = w.id => v = w
    BY <1>type, <2>2 DEF OneRowPerDocument
  <2>6. RowsRun(r, queue, cleared')
    BY <2>2, <2>3, <2>4, <2>5 DEF RowsRun, Retrying
  <2> QED BY <1>3, <1>same, <2>1, <2>6, RowsStep DEF Connect
<1>4. ASSUME NEW p \in Procs, ConnectFails(p) \/ NoEndpoint(p) \/ FinishFails(p)
                                \/ EndRun(p) \/ Crash(p)
      PROVE  RowsInv'
  <2>1. IdleRun.due = {} /\ IdleRun.pc = "idle"
    BY DEF IdleRun
  <2> QED BY <1>4, <2>1, <1>none
          DEF ConnectFails, NoEndpoint, FinishFails, Abort, EndRun, Crash, Retrying
<1>5. ASSUME NEW p \in Procs, NEW w \in run[p].due, Retry(p, w)
      PROVE  RowsInv'
  <2>1. PICK a \in Answers :
          run' = [run EXCEPT ![p].pc = "settle", ![p].row = w, ![p].due = @ \ {w},
                             ![p].answer = a, ![p].trouble = @ \/ ~TakenAsSuccess(a)]
    BY <1>5 DEF Retry
  <2> DEFINE t == run[p].trouble \/ ~TakenAsSuccess(a)
             r == [run[p] EXCEPT !.pc = "settle", !.row = w, !.due = @ \ {w},
                                 !.answer = a, !.trouble = t]
  <2>2. run' = [run EXCEPT ![p] = r]
    BY <2>1
  <2> HIDE DEF t
  <2>3. r.pc = "settle" /\ r.row = w /\ r.due = run[p].due \ {w}
    BY <1>run DEF Runs
  <2> HIDE DEF r
  <2>4. RowsRun(r, queue, cleared)
    BY <1>run, <2>3 DEF RowsRun, Retrying
  <2> QED BY <1>5, <1>same, <2>2, <2>4, RowsStep DEF Retry
<1>6. ASSUME NEW p \in Procs, DeleteRow(p)
      PROVE  RowsInv'
  <2> DEFINE r == [run[p] EXCEPT !.pc = "stamp"]
  <2>1. run' = [run EXCEPT ![p] = r] /\ run[p].pc = "settle"
    BY <1>6 DEF DeleteRow, At
  <2>2. r.pc = "stamp" /\ r.row = run[p].row /\ r.due = run[p].due
    BY <1>run DEF Runs
  <2> HIDE DEF r
  <2>3. queue' = {w \in queue : w.id # run[p].row.id}
    BY <1>6 DEF DeleteRow
  <2>4. \A w \in r.due : w.id # run[p].row.id
    BY <1>run, <2>1, <2>2 DEF RowsRun, Retrying
  <2>5. RowsRun(r, queue', cleared')
    BY <1>run, <2>1, <2>2, <2>3, <2>4 DEF RowsRun, Retrying, Untouched
  <2> QED BY <1>type, <2>1, <2>3, <2>5, FewerRows, RowsStep
<1>7. ASSUME NEW p \in Procs, StampRetried(p)
      PROVE  RowsInv'
  <2>1. run[p].pc = "stamp" /\ queue' = queue
    BY <1>7 DEF StampRetried, At
  <2>2. /\ \A w \in run[p].due : Untouched(w, queue')
        /\ ~MayClear => run[p].due \subseteq queue'
    BY <1>run, <2>1 DEF RowsRun
  <2> QED BY <1>7, <1>same, <1>back, <2>1, <2>2 DEF StampRetried, Retrying
<1>8. ASSUME NEW p \in Procs, ReadRetries(p)
      PROVE  RowsInv'
  <2>1. run[p].pc = "settle" /\ queue' = queue
    BY <1>8 DEF ReadRetries, At
  <2>2. /\ \A w \in run[p].due : Untouched(w, queue')
        /\ ~MayClear => run[p].due \subseteq queue'
    BY <1>run, <2>1 DEF RowsRun
  <2>3. CASE run' = BackToExport(p)
    BY <2>3, <1>same, <1>back, <2>1, <2>2 DEF Retrying
  <2>4. ASSUME NEW q \in queue, run' = [run EXCEPT ![p].pc = "bump", ![p].read = q.retries]
        PROVE  RowsInv'
    <3> DEFINE r == [run[p] EXCEPT !.pc = "bump", !.read = q.retries]
    <3>1. run' = [run EXCEPT ![p] = r]
      BY <2>4
    <3>2. r.pc = "bump" /\ r.row = run[p].row /\ r.due = run[p].due
      BY <1>run DEF Runs
    <3> HIDE DEF r
    <3>3. RowsRun(r, queue', cleared')
      BY <1>run, <2>1, <3>2 DEF RowsRun, Retrying
    <3> QED BY <2>1, <1>same, <3>1, <3>3, RowsStep
  <2> QED BY <1>8, <2>3, <2>4 DEF ReadRetries
<1>9. ASSUME NEW p \in Procs, BumpRetries(p) \/ GiveUp(p)
      PROVE  RowsInv'
  <2>1. run[p].pc \in {"settle", "bump"} /\ run' = BackToExport(p)
    BY <1>9 DEF BumpRetries, GiveUp, At
  <2> DEFINE n == IF run[p].pc = "bump" /\ run[p].read < RetryLimit THEN run[p].read + 1
                  ELSE RetryLimit
             d == IF run[p].pc = "bump" THEN FALSE ELSE TRUE
  <2>2. queue' = {IF w.id = run[p].row.id
                    THEN [w EXCEPT !.retries = n, !.due = d]
                    ELSE w : w \in queue}
    <3>1. CASE GiveUp(p)
      <4>1. n = RetryLimit /\ d = TRUE
        BY <3>1 DEF GiveUp, At
      <4> HIDE DEF n, d
      <4> QED BY <3>1, <4>1 DEF GiveUp
    <3>2. CASE BumpRetries(p)
      <4>1. d = FALSE /\ n = IF run[p].read < RetryLimit THEN run[p].read + 1 ELSE RetryLimit
        BY <3>2 DEF BumpRetries, At
      <4> HIDE DEF n, d
      <4> QED BY <3>2, <4>1 DEF BumpRetries
    <3> QED BY <1>9, <3>1, <3>2
  <2> HIDE DEF n, d
  <2> DEFINE U == [w \in queue |-> IF w.id = run[p].row.id
                                     THEN [w EXCEPT !.retries = n, !.due = d] ELSE w]
  <2>3. queue' = {U[w] : w \in queue}
    BY <2>2
  <2>4. \A w \in queue : U[w].id = w.id /\ U[w].ext = w.ext /\ U[w].file = w.ext
    BY <1>type DEF Rows, OneRowPerDocument
  <2>5. \A w \in queue : w.id # run[p].row.id => U[w] = w
    OBVIOUS
  <2> HIDE DEF U
  <2>6. ASSUME NEW w \in run[p].due
        PROVE  Untouched(w, queue')
    <3>1. Untouched(w, queue) /\ w.id # run[p].row.id
      BY <1>run, <2>1 DEF RowsRun, Retrying
    <3> QED BY <2>3, <2>4, <2>5, <3>1, UntouchedUpdated
  <2>7. ~MayClear => run[p].due \subseteq queue'
    BY <1>run, <2>1, <2>3, <2>5 DEF RowsRun, Retrying
  <2> QED BY <1>type, <1>back, <2>1, <2>3, <2>4, <2>6, <2>7, RowsUpdated DEF Retrying
<1>10. ASSUME NEW p \in Procs, UploadBatch(p)
       PROVE  RowsInv'
  <2> DEFINE B == NextBatch(run[p].left)
  <2>1. PICK a \in Answers :
          run' = [run EXCEPT
               ![p].left = @ \ B,
               ![p].answer = IF TakenAsSuccess(a) THEN "none" ELSE a,
               ![p].pc = IF TakenAsSuccess(a) THEN "export" ELSE "select",
               ![p].batch = IF TakenAsSuccess(a) THEN {} ELSE B,
               ![p].trouble = @ \/ ~TakenAsSuccess(a)]
    BY <1>10 DEF UploadBatch
  <2> HIDE DEF B
  <2> DEFINE won == TakenAsSuccess(a)
             t == run[p].trouble \/ ~won
             next == IF won THEN "export" ELSE "select"
             ans == IF won THEN "none" ELSE a
             bad == IF won THEN {} ELSE B
             r == [run[p] EXCEPT !.left = @ \ B, !.answer = ans, !.pc = next,
                                 !.batch = bad, !.trouble = t]
  <2>2. run' = [run EXCEPT ![p] = r]
    BY <2>1
  <2>3. next \in {"export", "select"}
    OBVIOUS
  <2> HIDE DEF t, next, ans, bad, won
  <2>4. r.pc = next /\ r.due = {}
    BY <1>run, <1>10 DEF Runs, UploadBatch
  <2> HIDE DEF r
  <2> QED BY <1>10, <1>none, <2>2, <2>3, <2>4 DEF UploadBatch, Retrying
<1>11. ASSUME NEW p \in Procs, NEW f \in Files, SelectRow(p, f)
       PROVE  RowsInv'
  <2> DEFINE mine == {w.id : w \in {q \in queue : q.ext = f}}
  <2>1. PICK i \in mine \cup {0} :
          /\ \A j \in mine : j <= i
          /\ run' = [run EXCEPT ![p].pc = "write", ![p].failed = @ \cup {f}, ![p].read = i]
    BY <1>11 DEF SelectRow
  <2> DEFINE r == [run[p] EXCEPT !.pc = "write", !.failed = @ \cup {f}, !.read = i]
  <2>2. run' = [run EXCEPT ![p] = r] /\ run[p].pc = "select" /\ First(f, run[p].batch)
    BY <1>11, <2>1 DEF SelectRow, At
  <2>3. r.pc = "write" /\ r.due = run[p].due /\ r.batch = run[p].batch /\ r.read = i
    BY <1>run DEF Runs
  <2> HIDE DEF r
  <2>4. Found(f, i, queue, cleared)
    <3>1. \A w \in queue : w.id \in Nat \ {0} /\ (w.ext = f => w.id \in mine)
      BY <1>type DEF Rows
    <3>2. CASE mine = {}
      BY <2>1, <3>1, <3>2 DEF Found
    <3>3. CASE mine # {}
      <4>1. i \in mine
        BY <2>1, <3>1, <3>3
      <4>2. PICK w \in queue : w.ext = f /\ w.id = i
        BY <4>1
      <4> QED BY <1>type, <4>2 DEF Found, OneRowPerDocument
    <3> QED BY <3>2, <3>3
  <2>5. r.batch \in SUBSET Files
    BY <1>run, <2>3 DEF Runs
  <2>6. RowsRun(r, queue, cleared)
    BY <1>run, <2>2, <2>3, <2>4, <2>5, FirstIsOne DEF RowsRun, Retrying
  <2> QED BY <1>11, <1>same, <2>2, <2>6, RowsStep DEF SelectRow
<1>12. ASSUME NEW p \in Procs, NEW f \in Files, WriteRow(p, f)
       PROVE  RowsInv'
  <2>1. /\ run[p].pc = "write" /\ run[p].due = {}
        /\ Found(f, run[p].read, queue, cleared)
    BY <1>run, <1>12 DEF WriteRow, At, RowsRun, Retrying
  <2>2. PICK r : /\ run' = [run EXCEPT ![p] = r]
                 /\ r.due = {} /\ r.pc \in {"export", "select"}
    <3>1. CASE run[p].batch = {f}
      <4> DEFINE r == [run[p] EXCEPT !.pc = "export", !.row = None, !.answer = "none",
                                     !.read = 0, !.batch = {}]
      <4>1. run' = [BackToExport(p) EXCEPT ![p].batch = {}]
        BY <1>12, <3>1 DEF WriteRow
      <4>2. BackToExport(p)[p] = [run[p] EXCEPT !.pc = "export", !.row = None,
                                                 !.answer = "none", !.read = 0]
        BY <1>run DEF BackToExport, TypeInv, TypeOK
      <4>3. run' = [run EXCEPT ![p] = r]
        BY <4>1, <4>2 DEF BackToExport
      <4>4. r.due = {} /\ r.pc = "export"
        BY <1>run, <2>1 DEF Runs
      <4> QED BY <4>3, <4>4
    <3>2. CASE run[p].batch # {f}
      <4> DEFINE r == [run[p] EXCEPT !.pc = "select", !.batch = @ \ {f}, !.read = 0]
      <4>1. run' = [run EXCEPT ![p] = r]
        BY <1>12, <3>2 DEF WriteRow
      <4>2. r.due = {} /\ r.pc = "select"
        BY <1>run, <2>1 DEF Runs
      <4> QED BY <4>1, <4>2
    <3> QED BY <3>1, <3>2
  <2>3. RowsRun(r, queue', cleared')
    BY <2>2 DEF RowsRun, Retrying
  <2> DEFINE content == run[p].docs[f]
             tries == IF IsRetryable(run[p].answer) THEN 0 ELSE RetryLimit
  <2>4.   \/ /\ run[p].read # 0
             /\ queue' = {IF w.id = run[p].read
                            THEN [w EXCEPT !.file = f, !.content = content,
                                           !.retries = tries, !.due = TRUE]
                            ELSE w : w \in queue}
          \/ /\ run[p].read = 0
             /\ \E top \in Ids \cup {0} :
                  /\ \A i \in Ids : i <= top
                  /\ queue' = queue \cup
                       {[id |-> top + 1, ext |-> f, file |-> f, content |-> content,
                         retries |-> tries, due |-> TRUE]}
    BY <1>12 DEF WriteRow
  <2> HIDE DEF content, tries
  <2>5. CASE run[p].read # 0
    <3> DEFINE U == [w \in queue |-> IF w.id = run[p].read
                       THEN [w EXCEPT !.file = f, !.content = content,
                                      !.retries = tries, !.due = TRUE] ELSE w]
    <3>1. queue' = {U[w] : w \in queue}
      BY <2>4, <2>5
    <3>2. \A w \in queue : U[w].id = w.id /\ U[w].ext = w.ext /\ U[w].file = w.ext
      BY <1>type, <2>1 DEF Rows, OneRowPerDocument, Found
    <3> HIDE DEF U
    <3> QED BY <1>type, <2>2, <2>3, <3>1, <3>2, RowsUpdated, RowsStep
  <2>6. CASE run[p].read = 0
    <3>1. PICK top \in Ids \cup {0} :
            /\ \A i \in Ids : i <= top
            /\ queue' = queue \cup
                 {[id |-> top + 1, ext |-> f, file |-> f, content |-> content,
                   retries |-> tries, due |-> TRUE]}
      BY <2>4, <2>6
    <3> DEFINE new == [id |-> top + 1, ext |-> f, file |-> f, content |-> content,
                       retries |-> tries, due |-> TRUE]
    <3>2. new.id = top + 1 /\ new.ext = f /\ new.file = f
      OBVIOUS
    <3>3. queue' = queue \cup {new}
      BY <3>1
    <3> HIDE DEF new
    <3>4. \A w \in queue : w.id # new.id /\ w.ext # f
      <4>1. \A w \in queue : w.id \in Nat \ {0} /\ w.id \in Ids
        BY <1>type DEF Rows, Ids
      <4>2. top \in Nat
        BY <4>1 DEF Ids
      <4>3. \A w \in queue : w.ext # f
        BY <2>1, <2>6, <4>1 DEF Found
      <4> QED BY <3>1, <3>2, <4>1, <4>2, <4>3
    <3>5. OneRowPerDocument'
      BY <1>type, <3>2, <3>3, <3>4 DEF OneRowPerDocument
    <3> QED BY <2>2, <2>3, <3>5, RowsStep
  <2> QED BY <2>5, <2>6
<1>13. ASSUME NEW p \in Procs, Finish(p)
       PROVE  RowsInv'
  <2> DEFINE r == [run[p] EXCEPT !.pc = "record", !.left = Captured(p)]
  <2>1. run' = [run EXCEPT ![p] = r]
    BY <1>13 DEF Finish
  <2>2. r.pc = "record" /\ r.due = {}
    BY <1>run, <1>13 DEF Runs, Finish
  <2> HIDE DEF r
  <2> QED BY <1>13, <1>none, <2>1, <2>2 DEF Finish, Retrying
<1>14. ASSUME NEW p \in Procs, NEW f \in Files, RecordSynced(p, f) \/ RecordFailed(p, f)
       PROVE  RowsInv'
  <2> DEFINE r == [run[p] EXCEPT !.left = @ \ {f}]
  <2>1. run' = [run EXCEPT ![p] = r] /\ queue' = queue /\ run[p].pc = "record"
    BY <1>14 DEF RecordSynced, RecordFailed, At
  <2>2. r.pc = "record" /\ r.due = {}
    BY <1>run, <2>1 DEF Runs, RowsRun, Retrying
  <2> HIDE DEF r
  <2> QED BY <1>none, <2>1, <2>2 DEF Retrying
<1>15. ASSUME NEW z \in queue, BackoffElapses(z)
       PROVE  RowsInv'
  <2> DEFINE U == [w \in queue |-> IF w = z THEN [w EXCEPT !.due = TRUE] ELSE w]
  <2>1. queue' = {U[w] : w \in queue} /\ run' = run /\ cleared' = cleared /\ ~z.due
    BY <1>15 DEF BackoffElapses
  <2>2. \A w \in queue : U[w].id = w.id /\ U[w].ext = w.ext /\ U[w].file = w.ext
    BY <1>type DEF Rows, OneRowPerDocument
  <2>3. \A w \in queue : w.due => U[w] = w
    BY <2>1
  <2> HIDE DEF U
  <2>4. \A w : Untouched(w, queue) => Untouched(w, queue')
    <3> SUFFICES ASSUME NEW w, Untouched(w, queue)
                 PROVE  Untouched(w, queue')
      OBVIOUS
    <3>1. \A v \in queue : v.id = w.id => U[v] = v
      BY <2>3 DEF Untouched
    <3> QED BY <2>1, <2>2, <3>1, UntouchedUpdated
  <2>5. \A f, i : Found(f, i, queue, cleared) => Found(f, i, queue', cleared)
    BY <2>1, <2>2 DEF Found
  <2>6. ASSUME NEW p \in Procs
        PROVE  RowsRun(run[p], queue', cleared)
    <3>1. ~MayClear => run[p].due \subseteq queue'
      BY <1>run, <2>1, <2>3 DEF RowsRun, Untouched
    <3> QED BY <1>run, <2>4, <2>5, <3>1 DEF RowsRun
  <2> QED BY <1>type, <2>1, <2>2, <2>6, RowsUpdated DEF RowsInv
<1>16. ASSUME NEW z \in queue, ClearQueue(z)
       PROVE  RowsInv'
  <2>1. /\ queue' = {q \in queue : q.id > z.id} /\ run' = run /\ MayClear
        /\ cleared' = cleared \cup {q.file : q \in {q \in queue : q.id <= z.id}}
    BY <1>16 DEF ClearQueue
  <2>2. \A w : Untouched(w, queue) => Untouched(w, queue')
    BY <2>1 DEF Untouched
  <2>3. ASSUME NEW f, NEW i, Found(f, i, queue, cleared)
        PROVE  Found(f, i, queue', cleared')
    <3>1. \A w \in queue : w.id \in Nat /\ w.ext = w.file
      BY <1>type DEF Rows, OneRowPerDocument
    <3>2. \A w \in queue : w \in queue' \/ w.file \in cleared'
      BY <1>type, <2>1, <3>1
    <3> QED BY <2>1, <2>3, <3>1, <3>2 DEF Found
  <2>4. \A p \in Procs : RowsRun(run[p], queue', cleared')
    BY <1>run, <2>1, <2>2, <2>3 DEF RowsRun
  <2> QED BY <1>type, <2>1, <2>4, FewerRows DEF RowsInv
<1>17. ASSUME UNCHANGED <<queue, run, cleared>>
       PROVE  RowsInv'
  BY <1>17 DEF RowsInv, OneRowPerDocument
<1> QED
  <2>1. CASE (\E f \in Files, c \in Contents : Edit(f, c)) \/ UNCHANGED vars
    BY <1>17, <2>1 DEF Edit, vars
  <2> QED
    BY <1>1, <1>2, <1>3, <1>4, <1>5, <1>6, <1>7, <1>8, <1>9, <1>10, <1>11, <1>12, <1>13,
       <1>14, <1>15, <1>16, <2>1
    DEF Next, Advance

LEMMA RowsAlways == ASSUME Sole PROVE Spec => [](TypeInv /\ RowsInv)
<1>1. TypeInv /\ RowsInv /\ [Next]_vars => TypeInv' /\ RowsInv'
  BY TypeStep, RowsNext
<1> QED BY <1>1, TypeInit, RowsInit, PTL DEF Spec

(* When processes run one at a time a document never gets a second row, and *)
(* its row carries its own payload, through crashes and queue clears        *)
(* (state/sqlite_store.py:133-162).                                         *)
THEOREM OneRowEach == ASSUME Sole PROVE Spec => []OneRowPerDocument
<1>1. RowsInv => OneRowPerDocument
  BY DEF RowsInv
<1> QED BY <1>1, RowsAlways, PTL

(* When processes run one at a time and nobody clears the queue, the rows   *)
(* still to be retried are as they were read                                *)
(* (exporters/incidentops_api.py:185-222).                                  *)
THEOREM SnapshotStaysCurrent == ASSUME Sole, ~MayClear PROVE Spec => []SnapshotIsCurrent
<1>1. RowsInv => SnapshotIsCurrent
  BY DEF RowsInv, RowsRun, SnapshotIsCurrent
<1> QED BY <1>1, RowsAlways, PTL

-----------------------------------------------------------------------------
(* What each step does to the locals of its run *)

Kept(r, s) ==
  s.docs = r.docs /\ s.left = r.left /\ s.batch = r.batch /\ s.failed = r.failed

LEMMA BeginMove ==
  ASSUME TypeInv, NEW p \in Procs, BeginSync(p) \/ BeginRetry(p)
  PROVE  /\ run'[p].pc = "scan" /\ run'[p].due = {} /\ run'[p].failed = {} /\ run'[p].batch = {}
         /\ \A f \in Files : run'[p].docs[f] = None
<1>1. \A force \in BOOLEAN : \A S :
        LET r == [IdleRun EXCEPT !.pc = "scan", !.force = force, !.left = S]
        IN  /\ r.pc = "scan" /\ r.due = {} /\ r.failed = {} /\ r.batch = {}
            /\ \A f \in Files : r.docs[f] = None
  BY DEF IdleRun
<1>2. LET r == [IdleRun EXCEPT !.pc = "scan"]
      IN  /\ r.pc = "scan" /\ r.due = {} /\ r.failed = {} /\ r.batch = {}
          /\ \A f \in Files : r.docs[f] = None
  BY DEF IdleRun
<1>3. CASE BeginSync(p)
  <2>1. PICK force \in BOOLEAN :
          run' = [run EXCEPT ![p] = [IdleRun EXCEPT !.pc = "scan", !.force = force,
                                                    !.left = Files]]
    BY <1>3 DEF BeginSync
  <2>2. run'[p] = [IdleRun EXCEPT !.pc = "scan", !.force = force, !.left = Files]
    BY <2>1 DEF TypeInv, TypeOK
  <2> QED BY <1>1, <2>2
<1>4. CASE BeginRetry(p)
  <2>1. run'[p] = [IdleRun EXCEPT !.pc = "scan"]
    BY <1>4 DEF BeginRetry, TypeInv, TypeOK
  <2> QED BY <1>2, <2>1
<1> QED BY <1>3, <1>4

LEMMA IdleMove ==
  ASSUME TypeInv, NEW p \in Procs,
         ConnectFails(p) \/ NoEndpoint(p) \/ FinishFails(p) \/ EndRun(p) \/ Crash(p)
  PROVE  run'[p] = IdleRun
BY DEF ConnectFails, NoEndpoint, FinishFails, Abort, EndRun, Crash, TypeInv, TypeOK

LEMMA ScanMove ==
  ASSUME TypeInv, NEW p \in Procs, NEW f \in Files, Scan(p, f)
  PROVE  /\ run[p].pc = "scan" /\ run'[p].pc = "scan" /\ run'[p].due = run[p].due
         /\ run'[p].failed = run[p].failed /\ run'[p].batch = run[p].batch
         /\ \A g \in Files : run'[p].docs[g] \in {run[p].docs[g], disk[g]}
<1> DEFINE d == IF Unchanged(f) /\ ~run[p].force
                  THEN run[p].docs ELSE [run[p].docs EXCEPT ![f] = disk[f]]
           r == [run[p] EXCEPT !.left = @ \ {f}, !.docs = d]
<1>1. run' = [run EXCEPT ![p] = r] /\ run[p].pc = "scan"
  BY DEF Scan, At
<1>type. run[p] \in Runs /\ run \in [Procs -> Runs]
  BY DEF TypeInv, TypeOK
<1>2. \A g \in Files : d[g] \in {run[p].docs[g], disk[g]}
  BY <1>type DEF Runs
<1> HIDE DEF d
<1>3. /\ r.pc = run[p].pc /\ r.due = run[p].due /\ r.failed = run[p].failed
      /\ r.batch = run[p].batch /\ r.docs = d
  BY <1>type DEF Runs
<1> HIDE DEF r
<1> QED BY <1>1, <1>2, <1>3, <1>type

LEMMA ConnectMove ==
  ASSUME TypeInv, NEW p \in Procs, Connect(p)
  PROVE  /\ run[p].pc = "scan" /\ run'[p].pc = "export"
         /\ run'[p].docs = run[p].docs /\ run'[p].left = Captured(p)
         /\ run'[p].failed = run[p].failed /\ run'[p].batch = run[p].batch
         /\ run'[p].due \subseteq queue
<1> DEFINE D == {q \in queue : IsDue(q)}
           r == [run[p] EXCEPT !.pc = "export", !.force = FALSE, !.left = Captured(p), !.due = D]
<1>1. run' = [run EXCEPT ![p] = r] /\ run[p].pc = "scan"
  BY DEF Connect, At
<1>type. run[p] \in Runs /\ run \in [Procs -> Runs]
  BY DEF TypeInv, TypeOK
<1>2. D \subseteq queue
  OBVIOUS
<1> HIDE DEF D
<1>3. /\ r.pc = "export" /\ r.due = D /\ r.failed = run[p].failed
      /\ r.batch = run[p].batch /\ r.docs = run[p].docs /\ r.left = Captured(p)
  BY <1>type DEF Runs
<1> HIDE DEF r
<1> QED BY <1>1, <1>2, <1>3, <1>type

LEMMA RetryMove ==
  ASSUME TypeInv, NEW p \in Procs, NEW w \in run[p].due, Retry(p, w)
  PROVE  /\ run[p].pc = "export" /\ run'[p].pc = "settle" /\ Kept(run[p], run'[p])
         /\ run'[p].due \subseteq run[p].due /\ run'[p].row = w
         /\ \E S \in SUBSET {w.file}, stored \in [Files -> {w.content}] : CoreStores(S, stored)
<1>1. PICK a \in Answers : \E S \in Storable(a, {w.file}) :
        /\ CoreStores(S, [f \in Files |-> w.content])
        /\ run' = [run EXCEPT ![p].pc = "settle", ![p].row = w, ![p].due = @ \ {w},
                              ![p].answer = a, ![p].trouble = @ \/ ~TakenAsSuccess(a)]
  BY DEF Retry
<1>2. PICK S \in Storable(a, {w.file}) :
        /\ CoreStores(S, [f \in Files |-> w.content])
        /\ run' = [run EXCEPT ![p].pc = "settle", ![p].row = w, ![p].due = @ \ {w},
                              ![p].answer = a, ![p].trouble = @ \/ ~TakenAsSuccess(a)]
  BY <1>1
<1> DEFINE t == run[p].trouble \/ ~TakenAsSuccess(a)
           r == [run[p] EXCEPT !.pc = "settle", !.row = w, !.due = @ \ {w},
                               !.answer = a, !.trouble = t]
<1>3. run' = [run EXCEPT ![p] = r]
  BY <1>2
<1> HIDE DEF t
<1>type. run[p] \in Runs /\ run \in [Procs -> Runs]
  BY DEF TypeInv, TypeOK
<1>4. r.pc = "settle" /\ Kept(run[p], r) /\ r.due \subseteq run[p].due /\ r.row = w
  BY <1>type DEF Runs, Kept
<1> HIDE DEF r
<1>5. S \subseteq {w.file}
  BY <1>2 DEF Storable
<1> DEFINE stored == [f \in Files |-> w.content]
<1>6. stored \in [Files -> {w.content}] /\ CoreStores(S, stored)
  BY <1>2
<1> HIDE DEF stored
<1> QED BY <1>3, <1>4, <1>5, <1>6, <1>type DEF Retry, At

LEMMA DeleteMove ==
  ASSUME TypeInv, NEW p \in Procs, DeleteRow(p)
  PROVE  /\ run[p].pc = "settle" /\ run'[p].pc = "stamp" /\ Kept(run[p], run'[p])
         /\ run'[p].due = run[p].due /\ run'[p].row = run[p].row
BY DEF DeleteRow, At, TypeInv, TypeOK, Runs, Kept

LEMMA BackMove ==
  ASSUME TypeInv, NEW p \in Procs, run' = BackToExport(p)
  PROVE  run'[p].pc = "export" /\ Kept(run[p], run'[p]) /\ run'[p].due = run[p].due
BY DEF BackToExport, TypeInv, TypeOK, Runs, Kept

LEMMA SettledMove ==
  ASSUME TypeInv, NEW p \in Procs,
         StampRetried(p) \/ ReadRetries(p) \/ BumpRetries(p) \/ GiveUp(p)
  PROVE  /\ run[p].pc \in Retrying /\ Kept(run[p], run'[p]) /\ run'[p].due = run[p].due
         /\ \/ run'[p].pc = "export"
            \/ run'[p].pc = "bump" /\ run'[p].row = run[p].row
<1>1. CASE run' = BackToExport(p)
  BY <1>1, BackMove DEF StampRetried, ReadRetries, BumpRetries, GiveUp, At, Retrying
<1>2. ASSUME NEW i, run' = [run EXCEPT ![p].pc = "bump", ![p].read = i], run[p].pc = "settle"
      PROVE  /\ run'[p].pc = "bump" /\ Kept(run[p], run'[p]) /\ run'[p].due = run[p].due
             /\ run'[p].row = run[p].row
  BY <1>2 DEF TypeInv, TypeOK, Runs, Kept
<1> QED BY <1>1, <1>2 DEF StampRetried, ReadRetries, BumpRetries, GiveUp, At, Retrying

LEMMA UploadMove ==
  ASSUME TypeInv, NEW p \in Procs, UploadBatch(p)
  PROVE  /\ run[p].pc = "export" /\ run[p].due = {} /\ run'[p].due = {}
         /\ run'[p].docs = run[p].docs /\ run'[p].failed = run[p].failed
         /\ \E B \in SUBSET run[p].left, S \in SUBSET run[p].left :
              /\ S \subseteq B /\ CoreStores(S, run[p].docs)
              /\ run'[p].left = run[p].left \ B
              /\ \/ run'[p].pc = "select" /\ run'[p].batch = B
                 \/ /\ run'[p].pc = "export" /\ run'[p].batch = {}
                    /\ "isolated" \notin Answers => S = B
<1> DEFINE B == NextBatch(run[p].left)
<1>1. PICK a \in Answers \ {"missing"} : \E S \in Storable(a, B) :
        /\ CoreStores(S, run[p].docs)
        /\ run' = [run EXCEPT
             ![p].left = @ \ B,
             ![p].answer = IF TakenAsSuccess(a) THEN "none" ELSE a,
             ![p].pc = IF TakenAsSuccess(a) THEN "export" ELSE "select",
             ![p].batch = IF TakenAsSuccess(a) THEN {} ELSE B,
             ![p].trouble = @ \/ ~TakenAsSuccess(a)]
  BY DEF UploadBatch
<1>2. PICK S \in Storable(a, B) :
        /\ CoreStores(S, run[p].docs)
        /\ run' = [run EXCEPT
             ![p].left = @ \ B,
             ![p].answer = IF TakenAsSuccess(a) THEN "none" ELSE a,
             ![p].pc = IF TakenAsSuccess(a) THEN "export" ELSE "select",
             ![p].batch = IF TakenAsSuccess(a) THEN {} ELSE B,
             ![p].trouble = @ \/ ~TakenAsSuccess(a)]
  BY <1>1
<1>3. B \subseteq run[p].left
  BY DEF NextBatch
<1>4. S \subseteq B
  BY <1>2 DEF Storable
<1> HIDE DEF B
<1> DEFINE won == TakenAsSuccess(a)
           t == run[p].trouble \/ ~won
           next == IF won THEN "export" ELSE "select"
           ans == IF won THEN "none" ELSE a
           bad == IF won THEN {} ELSE B
           r == [run[p] EXCEPT !.left = @ \ B, !.answer = ans, !.pc = next,
                               !.batch = bad, !.trouble = t]
<1>5. run' = [run EXCEPT ![p] = r]
  BY <1>2
<1>6. won /\ "isolated" \notin Answers => S = B
  BY <1>2 DEF Storable, TakenAsSuccess
<1>7. (next = "select" /\ bad = B) \/ (won /\ next = "export" /\ bad = {})
  OBVIOUS
<1> HIDE DEF t, next, ans, bad, won
<1>type. run[p] \in Runs /\ run \in [Procs -> Runs]
  BY DEF TypeInv, TypeOK
<1>8. /\ r.pc = next /\ r.batch = bad /\ r.left = run[p].left \ B /\ r.due = run[p].due
      /\ r.docs = run[p].docs /\ r.failed = run[p].failed
  BY <1>type DEF Runs
<1> HIDE DEF r
<1>9. run'[p] = r
  BY <1>5, <1>type
<1> QED BY <1>2, <1>3, <1>4, <1>6, <1>7, <1>8, <1>9 DEF UploadBatch, At

LEMMA SelectMove ==
  ASSUME TypeInv, NEW p \in Procs, NEW f \in Files, SelectRow(p, f)
  PROVE  /\ run[p].pc = "select" /\ run'[p].pc = "write" /\ First(f, run[p].batch)
         /\ run'[p].failed = run[p].failed \cup {f} /\ run'[p].due = run[p].due
         /\ run'[p].docs = run[p].docs /\ run'[p].left = run[p].left
         /\ run'[p].batch = run[p].batch
<1>1. PICK i : run' = [run EXCEPT ![p].pc = "write", ![p].failed = @ \cup {f}, ![p].read = i]
  BY DEF SelectRow
<1> QED BY <1>1 DEF SelectRow, At, TypeInv, TypeOK, Runs

LEMMA WriteMove ==
  ASSUME TypeInv, NEW p \in Procs, NEW f \in Files, WriteRow(p, f)
  PROVE  /\ run[p].pc = "write" /\ run'[p].pc \in {"export", "select"}
         /\ First(f, run[p].batch)
         /\ run'[p].failed = run[p].failed /\ run'[p].due = run[p].due
         /\ run'[p].docs = run[p].docs /\ run'[p].left = run[p].left
         /\ run'[p].batch = run[p].batch \ {f}
<1>type. run[p] \in Runs /\ run \in [Procs -> Runs]
  BY DEF TypeInv, TypeOK
<1>1. CASE run[p].batch = {f}
  <2>1. run' = [BackToExport(p) EXCEPT ![p].batch = {}]
    BY <1>1 DEF WriteRow
  <2>2. BackToExport(p)[p] = [run[p] EXCEPT !.pc = "export", !.row = None,
                                             !.answer = "none", !.read = 0]
    BY <1>type DEF BackToExport
  <2> DEFINE r == [run[p] EXCEPT !.pc = "export", !.row = None, !.answer = "none",
                                 !.read = 0, !.batch = {}]
  <2>3. run'[p] = r
    BY <2>1, <2>2, <1>type DEF BackToExport
  <2>4. /\ r.pc = "export" /\ r.failed = run[p].failed /\ r.due = run[p].due
        /\ r.docs = run[p].docs /\ r.left = run[p].left /\ r.batch = {}
    BY <1>type DEF Runs
  <2> HIDE DEF r
  <2> QED BY <1>1, <2>3, <2>4 DEF WriteRow, At
<1>2. CASE run[p].batch # {f}
  <2> DEFINE r == [run[p] EXCEPT !.pc = "select", !.batch = @ \ {f}, !.read = 0]
  <2>1. run'[p] = r
    BY <1>2, <1>type DEF WriteRow
  <2>2. /\ r.pc = "select" /\ r.failed = run[p].failed /\ r.due = run[p].due
        /\ r.docs = run[p].docs /\ r.left = run[p].left /\ r.batch = run[p].batch \ {f}
    BY <1>type DEF Runs
  <2> HIDE DEF r
  <2> QED BY <2>1, <2>2 DEF WriteRow, At
<1> QED BY <1>1, <1>2

LEMMA FinishMove ==
  ASSUME TypeInv, NEW p \in Procs, Finish(p)
  PROVE  /\ run[p].pc = "export" /\ run'[p].pc = "record"
         /\ run[p].due = {} /\ run[p].left = {} /\ run'[p].due = {}
         /\ run'[p].failed = run[p].failed /\ run'[p].batch = run[p].batch
         /\ run'[p].docs = run[p].docs
BY DEF Finish, At, TypeInv, TypeOK, Runs

LEMMA RecordMove ==
  ASSUME TypeInv, NEW p \in Procs, NEW f \in Files, RecordSynced(p, f) \/ RecordFailed(p, f)
  PROVE  /\ run[p].pc = "record" /\ run'[p].pc = "record" /\ f \in run[p].left
         /\ run'[p].due = run[p].due
         /\ run'[p].failed = run[p].failed /\ run'[p].batch = run[p].batch
         /\ run'[p].docs = run[p].docs
BY DEF RecordSynced, RecordFailed, First, At, TypeInv, TypeOK, Runs

-----------------------------------------------------------------------------
(* What failed is in the queue with the run's own payload, and a run that   *)
(* has failed on a document is through with the rows it read.               *)
FailRun(r, rows, gone) ==
  /\ r.failed \cup r.batch # {} => r.due = {} /\ r.pc \notin Retrying \cup {"scan"}
  /\ \A f \in r.failed \ r.batch :
       f \in gone \/ \E w \in rows : w.file = f /\ w.content = r.docs[f]

FailInv == \A p \in Procs : FailRun(run[p], queue, cleared)

LEMMA FailStep ==
  ASSUME Sole, NEW p \in Procs, FailRun(run'[p], queue', cleared')
  PROVE  FailInv'
<1>1. \A q \in Procs : q = p
  BY DEF Sole
<1> QED BY <1>1 DEF FailInv

(* the rows keep what failed *)
LEMMA FailKept ==
  ASSUME Sole, FailInv, NEW p \in Procs,
         run'[p].failed \ run'[p].batch \subseteq run[p].failed \ run[p].batch,
         run'[p].docs = run[p].docs,
         run'[p].failed \cup run'[p].batch # {} =>
           run'[p].due = {} /\ run'[p].pc \notin Retrying \cup {"scan"},
         \A w \in queue : w.file \in cleared' \/
            \E v \in queue' : v.file = w.file /\ v.content = w.content,
         cleared \subseteq cleared'
  PROVE  FailInv'
<1>1. FailRun(run[p], queue, cleared)
  BY DEF FailInv
<1>2. ASSUME NEW f \in run'[p].failed \ run'[p].batch
      PROVE  f \in cleared' \/ \E v \in queue' : v.file = f /\ v.content = run'[p].docs[f]
  <2>1. f \in cleared \/ \E w \in queue : w.file = f /\ w.content = run[p].docs[f]
    BY <1>1 DEF FailRun
  <2> QED BY <2>1
<1>3. FailRun(run'[p], queue', cleared')
  BY <1>2 DEF FailRun
<1> QED BY <1>3, FailStep

LEMMA FailInit == Init => FailInv
BY DEF Init, FailInv, FailRun, IdleRun

LEMMA FailNext ==
  ASSUME Sole, TypeInv, RowsInv, FailInv, [Next]_vars
  PROVE  FailInv'
<1>type. queue \subseteq Rows
  BY DEF TypeInv, TypeOK
<1>run. ASSUME NEW p \in Procs
        PROVE  /\ FailRun(run[p], queue, cleared) /\ RowsRun(run[p], queue, cleared)
               /\ run[p] \in Runs /\ GoodShape(run[p])
  BY DEF FailInv, TypeInv, TypeOK, Shape, GoodShape, Captured, RowsInv
<1>still. ASSUME UNCHANGED <<queue, cleared>>
          PROVE  /\ \A w \in queue : w.file \in cleared' \/
                       \E v \in queue' : v.file = w.file /\ v.content = w.content
                 /\ cleared \subseteq cleared'
  BY <1>still
<1>1. ASSUME NEW p \in Procs, run'[p].failed = {}, run'[p].batch = {}
      PROVE  FailInv'
  <2>1. FailRun(run'[p], queue', cleared')
    BY <1>1 DEF FailRun
  <2> QED BY <2>1, FailStep
<1>2. ASSUME NEW p \in Procs, BeginSync(p) \/ BeginRetry(p)
      PROVE  FailInv'
  BY <1>1, <1>2, BeginMove
<1>3. ASSUME NEW p \in Procs, ConnectFails(p) \/ NoEndpoint(p) \/ FinishFails(p)
                                \/ EndRun(p) \/ Crash(p)
      PROVE  FailInv'
  <2>1. IdleRun.failed = {} /\ IdleRun.batch = {}
    BY DEF IdleRun
  <2> QED BY <1>1, <1>3, <2>1, IdleMove
<1>4. ASSUME NEW p \in Procs, (\E f \in Files : Scan(p, f)) \/ Connect(p)
      PROVE  FailInv'
  <2>1. run[p].pc = "scan" /\ run'[p].failed = run[p].failed /\ run'[p].batch = run[p].batch
    BY <1>4, ScanMove, ConnectMove
  <2>2. run[p].failed = {} /\ run[p].batch = {}
    BY <1>run, <2>1 DEF FailRun
  <2> QED BY <1>1, <2>1, <2>2
<1>5. ASSUME NEW p \in Procs, NEW w \in run[p].due, Retry(p, w)
      PROVE  FailInv'
  <2>1. run[p].failed = {} /\ run[p].batch = {}
    BY <1>run DEF FailRun
  <2> QED BY <1>1, <1>5, <2>1, RetryMove DEF Kept
<1>6. ASSUME NEW p \in Procs, \/ DeleteRow(p) \/ StampRetried(p) \/ ReadRetries(p)
                              \/ BumpRetries(p) \/ GiveUp(p)
      PROVE  FailInv'
  <2>1. run[p].pc \in Retrying /\ Kept(run[p], run'[p])
    BY <1>6, DeleteMove, SettledMove DEF Retrying
  <2>2. run[p].failed = {} /\ run[p].batch = {}
    BY <1>run, <2>1 DEF FailRun
  <2> QED BY <1>1, <2>1, <2>2 DEF Kept
<1>7. ASSUME NEW p \in Procs, UploadBatch(p)
      PROVE  FailInv'
  <2>1. run[p].batch = {}
    BY <1>run, <1>7, UploadMove DEF GoodShape
  <2>2. UNCHANGED <<queue, cleared>>
    BY <1>7 DEF UploadBatch
  <2>3. /\ run'[p].failed \ run'[p].batch \subseteq run[p].failed \ run[p].batch
        /\ run'[p].docs = run[p].docs /\ run'[p].due = {}
        /\ run'[p].pc \notin Retrying \cup {"scan"}
    BY <1>7, <2>1, UploadMove DEF Retrying
  <2> QED BY <1>still, <2>2, <2>3, FailKept
<1>8. ASSUME NEW p \in Procs, NEW f \in Files, SelectRow(p, f)
      PROVE  FailInv'
  <2>1. UNCHANGED <<queue, cleared>>
    BY <1>8 DEF SelectRow
  <2>2. /\ run'[p].failed \ run'[p].batch \subseteq run[p].failed \ run[p].batch
        /\ run'[p].docs = run[p].docs /\ run'[p].due = {}
        /\ run'[p].pc \notin Retrying \cup {"scan"}
    BY <1>8, <1>run, SelectMove DEF Retrying, First, FailRun
  <2> QED BY <1>still, <2>1, <2>2, FailKept
<1>9. ASSUME NEW p \in Procs, NEW f \in Files, WriteRow(p, f)
      PROVE  FailInv'
  <2>1. /\ run[p].pc = "write" /\ run'[p].pc \in {"export", "select"}
        /\ f \in run[p].batch /\ First(f, run[p].batch)
        /\ run'[p].failed = run[p].failed /\ run'[p].due = run[p].due
        /\ run'[p].docs = run[p].docs /\ run'[p].batch = run[p].batch \ {f}
    BY <1>9, WriteMove DEF First
  <2>2. run'[p].due = {} /\ run'[p].pc \notin Retrying \cup {"scan"}
    BY <1>run, <2>1 DEF FailRun, Retrying
  <2>3. Found(f, run[p].read, queue, cleared)
    BY <1>run, <2>1 DEF RowsRun
  <2>4. \A w \in queue : w.ext = w.file
    BY DEF RowsInv, OneRowPerDocument
  <2> DEFINE content == run[p].docs[f]
             tries == IF IsRetryable(run[p].answer) THEN 0 ELSE RetryLimit
             updated(w) == [w EXCEPT !.file = f, !.content = content,
                                     !.retries = tries, !.due = TRUE]
             new(i) == [id |-> i, ext |-> f, file |-> f, content |-> content,
                        retries |-> tries, due |-> TRUE]
  <2>5. \A w \in queue : updated(w).file = f /\ updated(w).content = content
    BY <1>type DEF Rows
  <2>6. \A i : new(i).file = f /\ new(i).content = content
    OBVIOUS
  <2>7. \/ /\ run[p].read # 0
           /\ queue' = {IF w.id = run[p].read THEN updated(w) ELSE w : w \in queue}
        \/ /\ run[p].read = 0
           /\ \E top \in Ids \cup {0} : queue' = queue \cup {new(top + 1)}
    BY <1>9 DEF WriteRow
  <2>8. cleared' = IF run[p].read = 0 \/ run[p].read \in Ids THEN cleared \ {f} ELSE cleared
    BY <1>9 DEF WriteRow
  <2> HIDE DEF updated, new, content
  <2>9. f \in cleared' \/ \E v \in queue' : v.file = f /\ v.content = content
    <3>1. CASE run[p].read = 0
      BY <2>6, <2>7, <3>1
    <3>2. CASE run[p].read \in Ids /\ run[p].read # 0
      <4>1. PICK w \in queue : w.id = run[p].read
        BY <3>2 DEF Ids
      <4>2. updated(w) \in queue'
        BY <2>7, <3>2, <4>1
      <4> QED BY <2>5, <4>2
    <3>3. CASE run[p].read \notin Ids /\ run[p].read # 0
      BY <2>3, <2>8, <3>3 DEF Found, Ids
    <3> QED BY <3>1, <3>2, <3>3
  <2>10. ASSUME NEW g \in run'[p].failed \ run'[p].batch, g # f
         PROVE  g \in cleared' \/ \E v \in queue' : v.file = g /\ v.content = run'[p].docs[g]
    <3>1. g \in cleared \/ \E w \in queue : w.file = g /\ w.content = run[p].docs[g]
      BY <1>run, <2>1, <2>10 DEF FailRun
    <3>2. ASSUME NEW w \in queue, w.file = g
          PROVE  w \in queue'
      <4>1. run[p].read # 0 => w.id # run[p].read
        BY <2>3, <2>4, <2>10, <3>2 DEF Found
      <4> QED BY <2>7, <4>1
    <3> QED BY <2>1, <2>8, <2>10, <3>1, <3>2
  <2>11. FailRun(run'[p], queue', cleared')
    BY <2>1, <2>2, <2>9, <2>10 DEF FailRun, content
  <2> QED BY <2>11, FailStep
<1>10. ASSUME NEW p \in Procs, \/ Finish(p)
                               \/ \E f \in Files : RecordSynced(p, f) \/ RecordFailed(p, f)
       PROVE  FailInv'
  <2>1. UNCHANGED <<queue, cleared>>
    BY <1>10 DEF Finish, RecordSynced, RecordFailed
  <2>2. /\ run'[p].failed = run[p].failed /\ run'[p].batch = run[p].batch
        /\ run'[p].docs = run[p].docs /\ run'[p].due = run[p].due
        /\ run'[p].pc \notin Retrying \cup {"scan"}
    BY <1>10, FinishMove, RecordMove DEF Retrying
  <2>3. run'[p].failed \cup run'[p].batch # {} => run'[p].due = {}
    BY <1>run, <2>2 DEF FailRun
  <2> QED BY <1>still, <2>1, <2>2, <2>3, FailKept
<1>11. ASSUME run' = run, cleared \subseteq cleared',
              \A w \in queue : w.file \in cleared' \/
                 \E v \in queue' : v.file = w.file /\ v.content = w.content
       PROVE  FailInv'
  <2> SUFFICES ASSUME NEW p \in Procs
               PROVE  FailInv'
    BY DEF FailInv
  <2>1. run'[p].failed \cup run'[p].batch # {} =>
          run'[p].due = {} /\ run'[p].pc \notin Retrying \cup {"scan"}
    BY <1>run, <1>11 DEF FailRun
  <2> QED BY <1>11, <2>1, FailKept
<1>12. ASSUME NEW z \in queue, BackoffElapses(z)
       PROVE  FailInv'
  <2>1. [z EXCEPT !.due = TRUE].file = z.file /\ [z EXCEPT !.due = TRUE].content = z.content
    BY <1>type DEF Rows
  <2>2. \A w \in queue : \E v \in queue' : v.file = w.file /\ v.content = w.content
    BY <1>12, <2>1 DEF BackoffElapses
  <2> QED BY <1>11, <1>12, <2>2 DEF BackoffElapses
<1>13. ASSUME NEW z \in queue, ClearQueue(z)
       PROVE  FailInv'
  <2>1. /\ queue' = {q \in queue : q.id > z.id}
        /\ cleared' = cleared \cup {q.file : q \in {q \in queue : q.id <= z.id}}
        /\ run' = run
    BY <1>13 DEF ClearQueue
  <2>2. ASSUME NEW w \in queue
        PROVE  w \in queue' \/ w.file \in cleared'
    <3>1. w.id \in Nat /\ z.id \in Nat
      BY <1>type DEF Rows
    <3> QED BY <2>1, <3>1
  <2> QED BY <1>11, <2>1, <2>2
<1> QED
  <2>1. CASE (\E f \in Files, c \in Contents : Edit(f, c)) \/ UNCHANGED vars
    BY <1>11, <1>still, <2>1 DEF Edit, vars
  <2> QED
    BY <1>2, <1>3, <1>4, <1>5, <1>6, <1>7, <1>8, <1>9, <1>10, <1>12, <1>13, <2>1
    DEF Next, Advance

-----------------------------------------------------------------------------
(* A run retries before it uploads, and what it then uploads stays in Core. *)
FreshRun(r, holds) ==
  /\ r.due # {} \/ r.pc \in Retrying =>
       r.pc \in Retrying \cup {"export"} /\ \A f \in Files : r.docs[f] # None => f \in r.left
  /\ r.pc \in Exporting => \A f \in Files :
       r.docs[f] # None => f \in r.left \cup r.batch \cup r.failed \/ holds[f] = r.docs[f]
  /\ r.pc = "record" => \A f \in Files :
       r.docs[f] # None => f \in r.failed \/ holds[f] = r.docs[f]

FreshInv == \A p \in Procs : FreshRun(run[p], core)

LEMMA FreshStep ==
  ASSUME Sole, NEW p \in Procs, FreshRun(run'[p], core')
  PROVE  FreshInv'
<1>1. \A q \in Procs : q = p
  BY DEF Sole
<1> QED BY <1>1 DEF FreshInv

LEMMA FreshInit == Init => FreshInv
BY DEF Init, FreshInv, FreshRun, IdleRun, Retrying, Exporting

LEMMA FreshNext ==
  ASSUME Sole, TypeInv, RowsInv, FreshInv, "isolated" \notin Answers, Honest, [Next]_vars
  PROVE  FreshInv'
<1>run. ASSUME NEW p \in Procs
        PROVE  /\ FreshRun(run[p], core)
               /\ run[p] \in Runs /\ GoodShape(run[p])
               /\ HonestRun(run[p], accepted) /\ RowsRun(run[p], queue, cleared)
  BY DEF FreshInv, TypeInv, TypeOK, Shape, GoodShape, Captured, Honest, RowsInv
<1>1. ASSUME NEW p \in Procs, run'[p].pc \in {"scan", "idle"}, run'[p].due = {}
      PROVE  FreshInv'
  <2>1. FreshRun(run'[p], core')
    BY <1>1 DEF FreshRun, Retrying, Exporting
  <2> QED BY <2>1, FreshStep
<1>2. ASSUME NEW p \in Procs, BeginSync(p) \/ BeginRetry(p)
      PROVE  FreshInv'
  BY <1>1, <1>2, BeginMove
<1>3. ASSUME NEW p \in Procs, ConnectFails(p) \/ NoEndpoint(p) \/ FinishFails(p)
                                \/ EndRun(p) \/ Crash(p)
      PROVE  FreshInv'
  <2>1. IdleRun.pc = "idle" /\ IdleRun.due = {}
    BY DEF IdleRun
  <2> QED BY <1>1, <1>3, <2>1, IdleMove
<1>4. ASSUME NEW p \in Procs, NEW f \in Files, Scan(p, f)
      PROVE  FreshInv'
  <2>1. run[p].pc = "scan" /\ run'[p].pc = "scan" /\ run'[p].due = run[p].due
    BY <1>4, ScanMove
  <2>2. run[p].due = {}
    BY <1>run, <2>1 DEF RowsRun, Retrying
  <2> QED BY <1>1, <2>1, <2>2
<1>5. ASSUME NEW p \in Procs, Connect(p)
      PROVE  FreshInv'
  <2>1. /\ run'[p].pc = "export" /\ run'[p].left = Captured(p)
        /\ run'[p].docs = run[p].docs
    BY <1>5, ConnectMove
  <2>2. FreshRun(run'[p], core')
    BY <2>1 DEF FreshRun, Retrying, Exporting, Captured
  <2> QED BY <2>2, FreshStep
<1>6. ASSUME NEW p \in Procs, run[p].due # {} \/ run[p].pc \in Retrying,
             run'[p].pc \in Retrying \cup {"export"}, Kept(run[p], run'[p])
      PROVE  FreshInv'
  <2>1. \A f \in Files : run'[p].docs[f] # None => f \in run'[p].left
    BY <1>run, <1>6 DEF FreshRun, Kept
  <2>2. FreshRun(run'[p], core')
    BY <1>6, <2>1 DEF FreshRun, Retrying
  <2> QED BY <2>2, FreshStep
<1>7. ASSUME NEW p \in Procs, NEW w \in run[p].due, Retry(p, w)
      PROVE  FreshInv'
  BY <1>6, <1>7, RetryMove DEF Retrying
<1>8. ASSUME NEW p \in Procs, \/ DeleteRow(p) \/ StampRetried(p) \/ ReadRetries(p)
                              \/ BumpRetries(p) \/ GiveUp(p)
      PROVE  FreshInv'
  BY <1>6, <1>8, DeleteMove, SettledMove DEF Retrying
<1>9. ASSUME NEW p \in Procs, UploadBatch(p)
      PROVE  FreshInv'
  <2>1. PICK B \in SUBSET run[p].left, S \in SUBSET run[p].left :
          /\ S \subseteq B /\ CoreStores(S, run[p].docs)
          /\ run'[p].left = run[p].left \ B
          /\ \/ run'[p].pc = "select" /\ run'[p].batch = B
             \/ run'[p].pc = "export" /\ run'[p].batch = {} /\ S = B
    BY <1>9, UploadMove
  <2>2. /\ run[p].pc = "export" /\ run'[p].due = {}
        /\ run'[p].docs = run[p].docs /\ run'[p].failed = run[p].failed
    BY <1>9, UploadMove
  <2>3. run[p].batch = {}
    BY <1>run, <2>2 DEF GoodShape
  <2>4. ASSUME NEW f \in Files, run'[p].docs[f] # None
        PROVE  \/ f \in run'[p].left \cup run'[p].batch \cup run'[p].failed
               \/ core'[f] = run'[p].docs[f]
    <3>1. f \in run[p].left \cup run[p].failed \/ core[f] = run[p].docs[f]
      BY <1>run, <2>2, <2>3, <2>4 DEF FreshRun, Exporting
    <3>2. core'[f] = IF f \in S THEN run[p].docs[f] ELSE core[f]
      BY <2>1 DEF CoreStores
    <3> QED BY <2>1, <2>2, <3>1, <3>2
  <2>5. FreshRun(run'[p], core')
    BY <2>1, <2>2, <2>4 DEF FreshRun, Retrying
  <2> QED BY <2>5, FreshStep
<1>10. ASSUME NEW p \in Procs, NEW f \in Files, SelectRow(p, f) \/ WriteRow(p, f)
       PROVE  FreshInv'
  <2>1. /\ run[p].pc \in {"select", "write"} /\ run'[p].pc \in {"write", "select", "export"}
        /\ run'[p].docs = run[p].docs /\ run'[p].left = run[p].left
        /\ run'[p].due = run[p].due
    BY <1>10, SelectMove, WriteMove
  <2>2. run[p].batch \cup run[p].failed \subseteq run'[p].batch \cup run'[p].failed
    <3>1. CASE SelectRow(p, f)
      BY <3>1, SelectMove
    <3>2. CASE WriteRow(p, f)
      <4>1. f \in run[p].failed
        BY <1>run, <3>2, WriteMove DEF HonestRun
      <4> QED BY <3>2, <4>1, WriteMove
    <3> QED BY <1>10, <3>1, <3>2
  <2>3. run[p].due = {}
    BY <1>run, <2>1 DEF RowsRun, Retrying
  <2>4. core' = core
    BY <1>10 DEF SelectRow, WriteRow
  <2>5. FreshRun(run'[p], core')
    BY <1>run, <2>1, <2>2, <2>3, <2>4 DEF FreshRun, Retrying, Exporting
  <2> QED BY <2>5, FreshStep
<1>11. ASSUME NEW p \in Procs, Finish(p)
       PROVE  FreshInv'
  <2>1. /\ run[p].pc = "export" /\ run'[p].pc = "record" /\ run[p].left = {}
        /\ run'[p].due = {} /\ run'[p].failed = run[p].failed /\ run'[p].docs = run[p].docs
    BY <1>11, FinishMove
  <2>2. core' = core /\ run[p].batch = {}
    BY <1>run, <1>11, <2>1 DEF Finish, GoodShape
  <2>3. FreshRun(run'[p], core')
    BY <1>run, <2>1, <2>2 DEF FreshRun, Retrying, Exporting
  <2> QED BY <2>3, FreshStep
<1>12. ASSUME NEW p \in Procs, NEW f \in Files, RecordSynced(p, f) \/ RecordFailed(p, f)
       PROVE  FreshInv'
  <2>1. /\ run[p].pc = "record" /\ run'[p].pc = "record" /\ run'[p].due = run[p].due
        /\ run'[p].failed = run[p].failed /\ run'[p].docs = run[p].docs
    BY <1>12, RecordMove
  <2>2. core' = core /\ run[p].due = {}
    BY <1>run, <1>12, <2>1 DEF RecordSynced, RecordFailed, RowsRun, Retrying
  <2>3. FreshRun(run'[p], core')
    BY <1>run, <2>1, <2>2 DEF FreshRun, Retrying, Exporting
  <2> QED BY <2>3, FreshStep
<1>13. ASSUME UNCHANGED <<run, core>>
       PROVE  FreshInv'
  BY <1>13 DEF FreshInv
<1> QED
  <2>1. CASE \/ \E f \in Files, c \in Contents : Edit(f, c)
             \/ \E z \in queue : BackoffElapses(z) \/ ClearQueue(z)
             \/ UNCHANGED vars
    BY <1>13, <2>1 DEF Edit, BackoffElapses, ClearQueue, vars
  <2> QED
    BY <1>2, <1>3, <1>4, <1>5, <1>7, <1>8, <1>9, <1>10, <1>11, <1>12, <2>1
    DEF Next, Advance

(* When processes run one at a time and Core refuses no single documents,   *)
(* no old payload wins over what the same run uploads: when a run starts to *)
(* record, Core holds every captured document that did not fail             *)
(* (exporters/incidentops_api.py:94-116).                                   *)
THEOREM FreshAlwaysWins ==
  ASSUME Sole, "isolated" \notin Answers
  PROVE  Spec => []FreshWins
<1>1. /\ Init => TypeInv /\ RowsInv /\ Honest /\ FreshInv
      /\ TypeInv /\ RowsInv /\ Honest /\ FreshInv /\ [Next]_vars
           => TypeInv' /\ RowsInv' /\ Honest' /\ FreshInv'
  BY TypeInit, RowsInit, HonestInit, FreshInit, TypeStep, RowsNext, HonestNext, FreshNext
<1>2. FreshInv => FreshWins
  BY DEF FreshInv, FreshRun, FreshWins, At, Captured
<1> QED BY <1>1, <1>2, PTL DEF Spec

-----------------------------------------------------------------------------
(* Files that never go back: contents are numbers, and a later capture is a *)
(* larger one.  What is known of f in the tables and to the run that goes   *)
(* on is no newer than what that run captured, which is no newer than f.    *)
Knows(p, f, c) ==
  \/ files[f].content = c
  \/ \E w \in queue \cup run[p].due : w.file = f /\ w.content = c
  \/ run[p].pc \in Retrying /\ run[p].row.file = f /\ run[p].row.content = c

Aged ==
  \A p \in Procs, f \in Files :
    /\ run[p].docs[f] # None => run[p].docs[f] <= disk[f]
    /\ \A c \in Contents : Knows(p, f, c) =>
         /\ c <= disk[f]
         /\ run[p].docs[f] # None => c <= run[p].docs[f]

(* What a record says of f was stored, or is queued or overtaken by         *)
(* something newer in the queue, or is no longer what f holds.              *)
Carried ==
  \A f \in Files :
    \/ files[f].content = None
    \/ files[f].content \in accepted[f]
    \/ f \in cleared
    \/ disk[f] > files[f].content
    \/ \E w \in queue : w.file = f /\ w.content >= files[f].content

DiskGrows == \A f \in Files : disk[f] <= disk'[f]

LEMMA AgedStep ==
  ASSUME Sole, Contents \subseteq Nat, TypeInv, Aged, DiskGrows, NEW p \in Procs,
         disk' \in [Files -> Contents],
         \A f \in Files : run'[p].docs[f] \in {run[p].docs[f], disk[f], None},
         \A f \in Files, c \in Contents :
            Knows(p, f, c)' => Knows(p, f, c) \/ c = run[p].docs[f]
  PROVE  Aged'
<1>1. \A q \in Procs : q = p
  BY DEF Sole
<1> SUFFICES ASSUME NEW f \in Files
             PROVE  /\ run'[p].docs[f] # None => run'[p].docs[f] <= disk'[f]
                    /\ \A c \in Contents : Knows(p, f, c)' =>
                         /\ c <= disk'[f]
                         /\ run'[p].docs[f] # None => c <= run'[p].docs[f]
  BY <1>1 DEF Aged
<1>type. /\ disk[f] \in Nat /\ disk'[f] \in Nat /\ disk[f] <= disk'[f]
         /\ run[p].docs[f] # None => run[p].docs[f] \in Nat
  <2>1. /\ disk[f] \in Contents /\ disk'[f] \in Contents
        /\ run[p].docs[f] \in Contents \cup {None}
    BY DEF TypeInv, TypeOK, Runs
  <2>2. disk[f] <= disk'[f]
    BY DEF DiskGrows
  <2> QED BY <2>1, <2>2
<1>2. run[p].docs[f] # None => run[p].docs[f] <= disk[f]
  BY DEF Aged
<1>3. ASSUME NEW c \in Contents, Knows(p, f, c)'
      PROVE  c <= disk[f] /\ (run[p].docs[f] # None => c <= run[p].docs[f])
  <2>1. Knows(p, f, c) \/ c = run[p].docs[f]
    BY <1>3
  <2>2. CASE Knows(p, f, c)
    BY <2>2 DEF Aged
  <2>3. CASE c = run[p].docs[f]
    BY <1>type, <1>2, <2>3, NoneAssumption
  <2> QED BY <2>1, <2>2, <2>3
<1>4. \A c \in Contents : Knows(p, f, c)' =>
        /\ c <= disk'[f]
        /\ run'[p].docs[f] # None => c <= run'[p].docs[f]
  <2> SUFFICES ASSUME NEW c \in Contents, Knows(p, f, c)'
               PROVE  c <= disk'[f] /\ (run'[p].docs[f] # None => c <= run'[p].docs[f])
    OBVIOUS
  <2>1. c <= disk[f] /\ (run[p].docs[f] # None => c <= run[p].docs[f]) /\ c \in Nat
    BY <1>3
  <2> QED BY <1>type, <2>1
<1>5. run'[p].docs[f] # None => run'[p].docs[f] <= disk'[f]
  BY <1>type, <1>2
<1> QED BY <1>4, <1>5

(* the usual case: tables are as they were *)
LEMMA AgedRun ==
  ASSUME Sole, Contents \subseteq Nat, TypeInv, TypeInv', Aged, NEW p \in Procs,
         UNCHANGED <<disk, files, queue>>,
         \A f \in Files : run'[p].docs[f] \in {run[p].docs[f], disk[f], None},
         run'[p].due \subseteq run[p].due \cup queue,
         run'[p].pc \in Retrying =>
           \/ run'[p].row \in run[p].due
           \/ run[p].pc \in Retrying /\ run'[p].row = run[p].row
  PROVE  Aged'
<1>1. \A f \in Files, c \in Contents : Knows(p, f, c)' => Knows(p, f, c)
  BY DEF Knows
<1>2. DiskGrows
  <2>1. \A f \in Files : disk[f] \in Nat
    BY DEF TypeInv, TypeOK
  <2> QED BY <2>1 DEF DiskGrows
<1>3. disk' \in [Files -> Contents]
  BY DEF TypeInv, TypeOK
<1> QED BY <1>1, <1>2, <1>3, AgedStep

(* the usual case: no record changes, and every row keeps its payload *)
LEMMA CarriedKept ==
  ASSUME Contents \subseteq Nat, TypeInv, TypeInv', Carried, DiskGrows, AcceptedGrows,
         files' = files, cleared \subseteq cleared',
         \A w \in queue : w.file \in cleared' \/
            \E v \in queue' : v.file = w.file /\ v.content = w.content
  PROVE  Carried'
<1> SUFFICES ASSUME NEW f \in Files, files[f].content # None, f \notin cleared'
             PROVE  \/ files[f].content \in accepted'[f]
                    \/ disk'[f] > files[f].content
                    \/ \E w \in queue' : w.file = f /\ w.content >= files[f].content
  BY DEF Carried
<1>1. \/ files[f].content \in accepted[f]
      \/ disk[f] > files[f].content
      \/ \E w \in queue : w.file = f /\ w.content >= files[f].content
  BY DEF Carried
<1>2. disk[f] \in Nat /\ disk'[f] \in Nat /\ files[f].content \in Nat
  BY DEF TypeInv, TypeOK, FileRecords
<1>3. disk[f] <= disk'[f] /\ accepted[f] \subseteq accepted'[f]
  BY DEF DiskGrows, AcceptedGrows
<1> QED BY <1>1, <1>2, <1>3

ForgetInv == Aged /\ Carried

LEMMA ForgetInit == ASSUME ~MayRevert PROVE Init => ForgetInv
<1>1. Contents \subseteq Nat
  BY ContentsAssumption
<1> SUFFICES ASSUME Init
             PROVE  ForgetInv
  OBVIOUS
<1>2. /\ \A p \in Procs : /\ \A f \in Files : run[p].docs[f] = None
                          /\ run[p].due = {} /\ run[p].pc = "idle"
      /\ \A f \in Files : files[f].content = None
      /\ queue = {}
  BY DEF Init, IdleRun, NoRecord
<1>3. \A p \in Procs, f \in Files, c \in Contents : ~Knows(p, f, c)
  BY <1>2, NoneAssumption DEF Knows, Retrying
<1> QED BY <1>2, <1>3 DEF ForgetInv, Aged, Carried

LEMMA ForgetNext ==
  ASSUME Sole, ~MayRevert, "isolated" \notin Answers,
         TypeInv, RowsInv, FailInv, Honest, ForgetInv, [Next]_vars
  PROVE  ForgetInv'
<1>nat. Contents \subseteq Nat
  BY ContentsAssumption
<1>next. TypeInv' /\ RowsInv'
  BY TypeStep, RowsNext
<1>type. /\ queue \subseteq Rows /\ queue' \subseteq Rows
         /\ disk \in [Files -> Contents] /\ disk' \in [Files -> Contents]
         /\ files \in [Files -> FileRecords]
         /\ \A w \in queue : w.ext = w.file
         /\ \A v, w \in queue : v.file = w.file => v = w
         /\ Aged /\ Carried
  BY <1>next DEF TypeInv, TypeOK, RowsInv, OneRowPerDocument, ForgetInv
<1>run. ASSUME NEW p \in Procs
        PROVE  /\ run[p] \in Runs /\ GoodShape(run[p])
               /\ RowsRun(run[p], queue, cleared)
               /\ HonestRun(run[p], accepted) /\ FailRun(run[p], queue, cleared)
  BY DEF TypeInv, TypeOK, Shape, GoodShape, Captured, RowsInv, Honest, FailInv
<1>disk. ASSUME disk' = disk
         PROVE  DiskGrows
  <2>1. \A f \in Files : disk[f] \in Nat
    BY <1>nat, <1>type
  <2> QED BY <1>disk, <2>1 DEF DiskGrows
<1>accepted. ASSUME accepted' = accepted
             PROVE  AcceptedGrows
  BY <1>accepted DEF AcceptedGrows
<1>tables. ASSUME UNCHANGED <<disk, files, queue, cleared>>, AcceptedGrows
           PROVE  Carried'
  BY <1>tables, <1>type, <1>nat, <1>next, <1>disk, CarriedKept
<1>1. ASSUME NEW p \in Procs, BeginSync(p) \/ BeginRetry(p)
      PROVE  ForgetInv'
  <2>1. UNCHANGED <<disk, files, queue, cleared, accepted>>
    BY <1>1 DEF BeginSync, BeginRetry
  <2>2. Aged'
    BY <1>1, <1>type, <1>nat, <1>next, <2>1, BeginMove, AgedRun DEF Retrying
  <2> QED BY <1>tables, <1>accepted, <2>1, <2>2 DEF ForgetInv
<1>2. ASSUME NEW p \in Procs, ConnectFails(p) \/ NoEndpoint(p) \/ FinishFails(p)
                                \/ EndRun(p) \/ Crash(p)
      PROVE  ForgetInv'
  <2>1. /\ \A f \in Files : IdleRun.docs[f] = None
        /\ IdleRun.due = {} /\ IdleRun.pc \notin Retrying
    BY DEF IdleRun, Retrying
  <2>2. UNCHANGED <<disk, files, queue, cleared, accepted>>
    BY <1>2 DEF ConnectFails, NoEndpoint, FinishFails, Abort, EndRun, Crash
  <2>3. Aged'
    BY <1>2, <1>type, <1>nat, <1>next, <2>1, <2>2, IdleMove, AgedRun
  <2> QED BY <1>tables, <1>accepted, <2>2, <2>3 DEF ForgetInv
<1>3. ASSUME NEW p \in Procs, \/ \E f \in Files : Scan(p, f) \/ SelectRow(p, f)
                              \/ Connect(p) \/ ReadRetries(p) \/ Finish(p)
      PROVE  ForgetInv'
  <2>1. UNCHANGED <<disk, files, queue, cleared, accepted>>
    BY <1>3 DEF Scan, SelectRow, Connect, ReadRetries, Finish
  <2>2. /\ \A f \in Files : run'[p].docs[f] \in {run[p].docs[f], disk[f], None}
        /\ run'[p].due \subseteq run[p].due \cup queue
        /\ run'[p].pc \in Retrying => run[p].pc \in Retrying /\ run'[p].row = run[p].row
    BY <1>3, ScanMove, SelectMove, ConnectMove, SettledMove, FinishMove DEF Retrying, Kept
  <2>3. Aged'
    BY <1>type, <1>nat, <1>next, <2>1, <2>2, AgedRun
  <2> QED BY <1>tables, <1>accepted, <2>1, <2>3 DEF ForgetInv
<1>4. ASSUME NEW p \in Procs, NEW w \in run[p].due, Retry(p, w)
      PROVE  ForgetInv'
  <2>1. UNCHANGED <<disk, files, queue, cleared>>
    BY <1>4 DEF Retry
  <2>2. AcceptedGrows
    BY <1>4, RetryMove, CoreStoresGrows
  <2>3. Aged'
    BY <1>4, <1>type, <1>nat, <1>next, <2>1, RetryMove, AgedRun DEF Kept
  <2> QED BY <1>tables, <2>1, <2>2, <2>3 DEF ForgetInv
<1>5. ASSUME NEW p \in Procs, UploadBatch(p)
      PROVE  ForgetInv'
  <2>1. UNCHANGED <<disk, files, queue, cleared>>
    BY <1>5 DEF UploadBatch
  <2>2. AcceptedGrows
    BY <1>5, UploadMove, CoreStoresGrows
  <2>3. /\ run'[p].docs = run[p].docs /\ run'[p].due = {}
        /\ run'[p].pc \notin Retrying
    BY <1>5, UploadMove DEF Retrying
  <2>4. Aged'
    BY <1>type, <1>nat, <1>next, <2>1, <2>3, AgedRun
  <2> QED BY <1>tables, <2>1, <2>2, <2>4 DEF ForgetInv
<1>6. ASSUME NEW p \in Procs, DeleteRow(p)
      PROVE  ForgetInv'
  <2>1. /\ run[p].pc = "settle" /\ TakenAsSuccess(run[p].answer)
        /\ queue' = {w \in queue : w.id # run[p].row.id}
        /\ UNCHANGED <<disk, accepted, files, cleared>>
    BY <1>6 DEF DeleteRow, At
  <2>2. /\ run'[p].pc = "stamp" /\ run'[p].row = run[p].row
        /\ run'[p].due = run[p].due /\ run'[p].docs = run[p].docs
    BY <1>6, DeleteMove DEF Kept
  <2>3. \A f \in Files, c \in Contents : Knows(p, f, c)' => Knows(p, f, c)
    BY <2>1, <2>2 DEF Knows, Retrying
  <2>4. Aged'
    BY <1>type, <1>nat, <1>disk, <2>1, <2>2, <2>3, AgedStep
  <2>5. ASSUME NEW f \in Files, NEW w \in queue, w.file = f, files[f].content # None,
               w.content >= files[f].content, w \notin queue'
        PROVE  files[f].content \in accepted[f] \/ disk[f] > files[f].content
    <3>1. w = run[p].row
      BY <1>run, <2>1, <2>5 DEF RowsRun, Untouched
    <3>2. w.content \in accepted[f]
      BY <1>run, <2>1, <2>5, <3>1 DEF HonestRun
    <3>3. w.content \in Contents /\ files[f].content \in Contents /\ disk[f] \in Contents
      BY <1>type, <2>5 DEF Rows, FileRecords
    <3>4. Knows(p, f, w.content)
      BY <2>5 DEF Knows
    <3>5. w.content <= disk[f]
      BY <1>type, <3>3, <3>4 DEF Aged
    <3>6. CASE w.content = files[f].content
      BY <3>2, <3>6
    <3>7. CASE w.content # files[f].content
      <4>1. w.content \in Nat /\ files[f].content \in Nat /\ disk[f] \in Nat
        BY <1>nat, <3>3
      <4> QED BY <2>5, <3>5, <3>7, <4>1
    <3> QED BY <3>6, <3>7
  <2>6. Carried'
    BY <1>type, <2>1, <2>5 DEF Carried
  <2> QED BY <2>4, <2>6 DEF ForgetInv
<1>7. ASSUME NEW p \in Procs, StampRetried(p)
      PROVE  ForgetInv'
  <2> DEFINE w == run[p].row
  <2>1. /\ run[p].pc = "stamp" /\ w.file \in Files /\ w.content \in Contents
        /\ files' = [files EXCEPT ![w.file] = [content |-> w.content, status |-> "synced"]]
        /\ UNCHANGED <<disk, queue, accepted, cleared>>
    BY <1>7, <1>run DEF StampRetried, UpsertFile, At, GoodShape, Rows
  <2>2. run'[p].pc = "export" /\ run'[p].due = run[p].due /\ run'[p].docs = run[p].docs
    BY <1>7, BackMove DEF StampRetried, Kept
  <2>3. \A f \in Files : files'[f].content = IF f = w.file THEN w.content ELSE files[f].content
    BY <1>type, <2>1
  <2>4. \A f \in Files, c \in Contents : Knows(p, f, c)' => Knows(p, f, c)
    BY <2>1, <2>2, <2>3 DEF Knows, Retrying
  <2>5. Aged'
    BY <1>type, <1>nat, <1>disk, <2>1, <2>2, <2>4, AgedStep
  <2>6. w.content \in accepted[w.file]
    BY <1>run, <2>1 DEF HonestRun
  <2>7. Carried'
    BY <1>type, <2>1, <2>3, <2>6 DEF Carried
  <2> QED BY <2>5, <2>7 DEF ForgetInv
<1>rows. ASSUME NEW p \in Procs, NEW U, queue' = {U[w] : w \in queue},
                \A w \in queue : U[w].file = w.file /\ U[w].content = w.content,
                UNCHANGED <<disk, files, accepted, cleared>>,
                run'[p].docs = run[p].docs, run'[p].due = run[p].due,
                run'[p].pc \in Retrying => run[p].pc \in Retrying /\ run'[p].row = run[p].row
         PROVE  ForgetInv'
  <2>1. \A w \in queue' : \E v \in queue : v.file = w.file /\ v.content = w.content
    BY <1>rows
  <2>2. \A w \in queue : \E v \in queue' : v.file = w.file /\ v.content = w.content
    BY <1>rows
  <2>3. \A f \in Files, c \in Contents : Knows(p, f, c)' => Knows(p, f, c)
    BY <1>rows, <2>1 DEF Knows
  <2>4. Aged'
    BY <1>rows, <1>type, <1>nat, <1>disk, <2>3, AgedStep
  <2>5. Carried'
    BY <1>rows, <1>type, <1>nat, <1>next, <1>disk, <1>accepted, <2>2, CarriedKept
  <2> QED BY <2>4, <2>5 DEF ForgetInv
<1>8. ASSUME NEW p \in Procs, BumpRetries(p) \/ GiveUp(p)
      PROVE  ForgetInv'
  <2>1. UNCHANGED <<disk, accepted, files, cleared>>
    BY <1>8 DEF BumpRetries, GiveUp
  <2> DEFINE n == IF run[p].pc = "bump" /\ run[p].read < RetryLimit THEN run[p].read + 1
                  ELSE RetryLimit
             d == IF run[p].pc = "bump" THEN FALSE ELSE TRUE
  <2>2. queue' = {IF w.id = run[p].row.id
                    THEN [w EXCEPT !.retries = n, !.due = d]
                    ELSE w : w \in queue}
    <3>1. CASE GiveUp(p)
      <4>1. n = RetryLimit /\ d = TRUE
        BY <3>1 DEF GiveUp, At
      <4> HIDE DEF n, d
      <4> QED BY <3>1, <4>1 DEF GiveUp
    <3>2. CASE BumpRetries(p)
      <4>1. d = FALSE /\ n = IF run[p].read < RetryLimit THEN run[p].read + 1 ELSE RetryLimit
        BY <3>2 DEF BumpRetries, At
      <4> HIDE DEF n, d
      <4> QED BY <3>2, <4>1 DEF BumpRetries
    <3> QED BY <1>8, <3>1, <3>2
  <2> HIDE DEF n, d
  <2> DEFINE U == [w \in queue |-> IF w.id = run[p].row.id
                                     THEN [w EXCEPT !.retries = n, !.due = d] ELSE w]
  <2>3. queue' = {U[w] : w \in queue}
    BY <2>2
  <2>4. \A w \in queue : U[w].file = w.file /\ U[w].content = w.content
    BY <1>type DEF Rows
  <2> HIDE DEF U
  <2>5. /\ run'[p].docs = run[p].docs /\ run'[p].due = run[p].due
        /\ run'[p].pc \in Retrying => run[p].pc \in Retrying /\ run'[p].row = run[p].row
    BY <1>8, SettledMove DEF Kept, Retrying
  <2> QED BY <1>rows, <2>1, <2>3, <2>4, <2>5
<1>9. ASSUME NEW p \in Procs, NEW f \in Files, WriteRow(p, f)
      PROVE  ForgetInv'
  <2> DEFINE content == run[p].docs[f]
             tries == IF IsRetryable(run[p].answer) THEN 0 ELSE RetryLimit
             updated(w) == [w EXCEPT !.file = f, !.content = content,
                                     !.retries = tries, !.due = TRUE]
             new(i) == [id |-> i, ext |-> f, file |-> f, content |-> content,
                        retries |-> tries, due |-> TRUE]
  <2>1. /\ run[p].pc = "write" /\ run'[p].pc \in {"export", "select"}
        /\ f \in run[p].batch /\ First(f, run[p].batch)
        /\ run'[p].due = run[p].due /\ run'[p].docs = run[p].docs
    BY <1>9, WriteMove DEF First
  <2>2. Found(f, run[p].read, queue, cleared)
    BY <1>run, <2>1 DEF RowsRun
  <2>3. content \in Contents
    BY <1>run, <2>1 DEF GoodShape, Runs
  <2>4. \A w \in queue : updated(w).file = f /\ updated(w).content = content
    BY <1>type DEF Rows
  <2>5. \A i : new(i).file = f /\ new(i).content = content
    OBVIOUS
  <2>6. \/ /\ run[p].read # 0
           /\ queue' = {IF w.id = run[p].read THEN updated(w) ELSE w : w \in queue}
        \/ /\ run[p].read = 0
           /\ \E top \in Ids \cup {0} : queue' = queue \cup {new(top + 1)}
    BY <1>9 DEF WriteRow
  <2>7. /\ cleared' = IF run[p].read = 0 \/ run[p].read \in Ids THEN cleared \ {f} ELSE cleared
        /\ UNCHANGED <<disk, files, accepted>>
    BY <1>9 DEF WriteRow
  <2> HIDE DEF updated, new
  <2>8. f \in cleared' \/ \E v \in queue' : v.file = f /\ v.content = content
    <3>1. CASE run[p].read = 0
      BY <2>5, <2>6, <3>1
    <3>2. CASE run[p].read \in Ids /\ run[p].read # 0
      <4>1. PICK w \in queue : w.id = run[p].read
        BY <3>2 DEF Ids
      <4>2. updated(w) \in queue'
        BY <2>6, <3>2, <4>1
      <4> QED BY <2>4, <4>2
    <3>3. CASE run[p].read \notin Ids /\ run[p].read # 0
      BY <2>2, <2>7, <3>3 DEF Found, Ids
    <3> QED BY <3>1, <3>2, <3>3
  <2>9. \A w \in queue' : w \in queue \/ (w.file = f /\ w.content = content)
    BY <2>4, <2>5, <2>6
  <2>10. \A w \in queue : w.file # f => w \in queue'
    <3>1. \A w \in queue : w.file # f => run[p].read = 0 \/ w.id # run[p].read
      BY <1>type, <2>2 DEF Found
    <3> QED BY <2>6, <3>1
  <2>11. \A g \in Files, c \in Contents :
           Knows(p, g, c)' => Knows(p, g, c) \/ c = run[p].docs[g]
    BY <2>1, <2>7, <2>9 DEF Knows, Retrying
  <2>12. Aged'
    BY <1>type, <1>nat, <1>disk, <2>1, <2>7, <2>11, AgedStep
  <2>13. ASSUME NEW g \in Files
         PROVE  \/ files'[g].content = None
                \/ files'[g].content \in accepted'[g]
                \/ g \in cleared'
                \/ disk'[g] > files'[g].content
                \/ \E w \in queue' : w.file = g /\ w.content >= files'[g].content
    <3>1. CASE g # f
      <4>1. g \in cleared => g \in cleared'
        BY <2>7, <3>1
      <4> QED BY <1>type, <2>7, <2>10, <3>1, <4>1 DEF Carried
    <3>2. CASE g = f /\ files[f].content # None
      <4>1. files[f].content \in Contents
        BY <1>type, <3>2 DEF FileRecords
      <4>2. files[f].content <= content
        BY <1>type, <2>3, <4>1, NoneAssumption DEF Aged, Knows
      <4>3. content >= files[f].content
        BY <1>nat, <2>3, <4>1, <4>2
      <4> HIDE DEF content
      <4> QED BY <2>7, <2>8, <3>2, <4>3
    <3> QED BY <2>7, <3>1, <3>2
  <2> QED BY <2>12, <2>13 DEF ForgetInv, Carried
<1>10. ASSUME NEW p \in Procs, NEW f \in Files, RecordSynced(p, f) \/ RecordFailed(p, f)
       PROVE  ForgetInv'
  <2>1. /\ run[p].pc = "record" /\ run'[p].pc = "record" /\ f \in run[p].left
        /\ run'[p].due = run[p].due /\ run'[p].docs = run[p].docs
    BY <1>10, RecordMove
  <2>2. UNCHANGED <<disk, queue, accepted, cleared>>
    BY <1>10 DEF RecordSynced, RecordFailed
  <2>3. \A g \in Files :
          files'[g].content = IF g = f THEN run[p].docs[f] ELSE files[g].content
    BY <1>10, <1>type DEF RecordSynced, RecordFailed, UpsertFile
  <2>4. run[p].docs[f] \in Contents
    BY <1>run, <2>1 DEF GoodShape, Runs
  <2>5. \A g \in Files, c \in Contents :
          Knows(p, g, c)' => Knows(p, g, c) \/ c = run[p].docs[g]
    BY <2>1, <2>2, <2>3 DEF Knows, Retrying
  <2>6. Aged'
    BY <1>type, <1>nat, <1>disk, <2>1, <2>2, <2>5, AgedStep
  <2>7. \/ run[p].docs[f] \in accepted[f]
        \/ f \in cleared
        \/ \E w \in queue : w.file = f /\ w.content = run[p].docs[f]
    <3>1. CASE RecordSynced(p, f)
      BY <1>run, <2>1, <2>4, <3>1, NoneAssumption DEF HonestRun, RecordSynced, First
    <3>2. CASE RecordFailed(p, f)
      BY <1>run, <2>1, <3>2 DEF GoodShape, FailRun, RecordFailed
    <3> QED BY <1>10, <3>1, <3>2
  <2>8. run[p].docs[f] >= run[p].docs[f]
    <3>1. run[p].docs[f] \in Nat
      BY <1>nat, <2>4
    <3> QED BY <3>1
  <2>9. ASSUME NEW g \in Files
        PROVE  \/ files'[g].content = None
               \/ files'[g].content \in accepted'[g]
               \/ g \in cleared'
               \/ disk'[g] > files'[g].content
               \/ \E w \in queue' : w.file = g /\ w.content >= files'[g].content
    <3>1. CASE g = f
      BY <2>2, <2>3, <2>7, <2>8, <3>1
    <3>2. CASE g # f
      BY <1>type, <2>2, <2>3, <3>2 DEF Carried
    <3> QED BY <3>1, <3>2
  <2> QED BY <2>6, <2>9 DEF ForgetInv, Carried
<1>11. ASSUME NEW z \in queue, BackoffElapses(z)
       PROVE  ForgetInv'
  <2> SUFFICES ASSUME NEW p \in Procs
               PROVE  ForgetInv'
    <3>1. CASE Procs = {}
      <4>1. Aged'
        BY <3>1 DEF Aged
      <4> DEFINE U == [w \in queue |-> IF w = z THEN [w EXCEPT !.due = TRUE] ELSE w]
      <4>2. queue' = {U[w] : w \in queue}
            /\ UNCHANGED <<disk, files, accepted, cleared, run>>
        BY <1>11 DEF BackoffElapses
      <4>3. \A w \in queue : U[w].file = w.file /\ U[w].content = w.content
        BY <1>type DEF Rows
      <4> HIDE DEF U
      <4>4. \A w \in queue : \E v \in queue' : v.file = w.file /\ v.content = w.content
        BY <4>2, <4>3
      <4>5. Carried'
        BY <1>type, <1>nat, <1>next, <1>disk, <1>accepted, <4>2, <4>4, CarriedKept
      <4> QED BY <4>1, <4>5 DEF ForgetInv
    <3> QED BY <3>1
  <2> DEFINE U == [w \in queue |-> IF w = z THEN [w EXCEPT !.due = TRUE] ELSE w]
  <2>1. queue' = {U[w] : w \in queue} /\ UNCHANGED <<disk, files, accepted, cleared, run>>
    BY <1>11 DEF BackoffElapses
  <2>2. \A w \in queue : U[w].file = w.file /\ U[w].content = w.content
    BY <1>type DEF Rows
  <2> HIDE DEF U
  <2> QED BY <1>rows, <2>1, <2>2
<1>12. ASSUME NEW z \in queue, ClearQueue(z)
       PROVE  ForgetInv'
  <2>1. /\ queue' = {q \in queue : q.id > z.id}
        /\ cleared' = cleared \cup {q.file : q \in {q \in queue : q.id <= z.id}}
        /\ UNCHANGED <<disk, files, run, accepted>>
    BY <1>12 DEF ClearQueue
  <2>2. ASSUME NEW w \in queue
        PROVE  w \in queue' \/ w.file \in cleared'
    <3>1. w.id \in Nat /\ z.id \in Nat
      BY <1>type DEF Rows
    <3> QED BY <2>1, <3>1
  <2>3. Carried'
    BY <1>type, <1>nat, <1>next, <1>disk, <1>accepted, <2>1, <2>2, CarriedKept
  <2>4. \A p \in Procs, f \in Files, c \in Contents : Knows(p, f, c)' => Knows(p, f, c)
    BY <2>1 DEF Knows
  <2>5. Aged'
    BY <1>type, <2>1, <2>4 DEF Aged
  <2> QED BY <2>3, <2>5 DEF ForgetInv
<1>13. ASSUME NEW f \in Files, NEW c \in Contents, Edit(f, c)
       PROVE  ForgetInv'
  <2>1. /\ disk' = [disk EXCEPT ![f] = c] /\ c > disk[f]
        /\ UNCHANGED <<files, queue, run, accepted, cleared>>
    BY <1>13 DEF Edit
  <2>2. DiskGrows
    <3>1. disk[f] \in Nat /\ c \in Nat
      BY <1>nat, <1>type
    <3> QED BY <1>nat, <1>type, <2>1, <3>1 DEF DiskGrows
  <2>3. Carried'
    BY <1>type, <1>nat, <1>next, <1>accepted, <2>1, <2>2, CarriedKept
  <2>4. \A p \in Procs, g \in Files, d \in Contents : Knows(p, g, d)' => Knows(p, g, d)
    BY <2>1 DEF Knows
  <2>5. ASSUME NEW p \in Procs
        PROVE  Aged'
    BY <1>type, <1>nat, <2>1, <2>2, <2>4, AgedStep
  <2>6. Aged'
    <3>1. CASE Procs = {}
      BY <3>1 DEF Aged
    <3> QED BY <2>5, <3>1
  <2> QED BY <2>3, <2>6 DEF ForgetInv
<1>14. CASE UNCHANGED vars
  BY <1>14, <1>type DEF vars, ForgetInv, Aged, Carried, Knows
<1> QED
  BY <1>1, <1>2, <1>3, <1>4, <1>5, <1>6, <1>7, <1>8, <1>9, <1>10, <1>11, <1>12, <1>13, <1>14
  DEF Next, Advance

(* Nothing is forgotten: when processes run one at a time, files do not go  *)
(* back and Core refuses no single documents, a file that the next sync     *)
(* skips as unchanged was stored by Core, or is queued, or its entry was    *)
(* cleared, whatever crashed and whichever runs failed                      *)
(* (core/pipeline.py:257-278, state/checkpoints.py:24-29).                  *)
THEOREM NothingIsForgotten ==
  ASSUME Sole, ~MayRevert, "isolated" \notin Answers
  PROVE  Spec => []NothingForgotten
<1> DEFINE Inv == TypeInv /\ RowsInv /\ FailInv /\ Honest /\ ForgetInv
<1>1. Init => Inv
  BY TypeInit, RowsInit, FailInit, HonestInit, ForgetInit
<1>2. Inv /\ [Next]_vars => Inv'
  BY TypeStep, RowsNext, FailNext, HonestNext, ForgetNext
<1>3. Inv => NothingForgotten
  <2> SUFFICES ASSUME Inv, NEW f \in Files, files[f].content = disk[f]
               PROVE  disk[f] \in accepted[f] \/ Queued(f) \/ f \in cleared
    BY DEF NothingForgotten, Unchanged
  <2>1. disk[f] \in Contents /\ disk[f] \in Nat
    BY ContentsAssumption DEF TypeInv, TypeOK
  <2> QED BY <2>1, NoneAssumption DEF ForgetInv, Carried, Queued
<1> QED BY <1>1, <1>2, <1>3, PTL DEF Spec

-----------------------------------------------------------------------------
(* How a row leaves the table *)

LEMMA RowsRemainStep ==
  ASSUME Sole, "isolated" \notin Answers, TypeInv, RowsInv, Honest, [Next]_vars
  PROVE  RowsRemain
<1>type. queue \subseteq Rows
  BY DEF TypeInv, TypeOK
<1>stay. ASSUME Ids \subseteq Ids'
         PROVE  RowsRemain
  BY <1>stay DEF RowsRemain, Ids
<1>same. queue' = queue => RowsRemain
  BY DEF RowsRemain, Ids
<1>1. ASSUME NEW p \in Procs, DeleteRow(p)
      PROVE  RowsRemain
  <2> SUFFICES ASSUME NEW w \in queue, w.id \notin Ids'
               PROVE  w.content \in accepted[w.file]
    BY DEF RowsRemain
  <2>1. /\ run[p].pc = "settle" /\ TakenAsSuccess(run[p].answer)
        /\ queue' = {v \in queue : v.id # run[p].row.id}
    BY <1>1 DEF DeleteRow, At
  <2>2. w.id = run[p].row.id
    BY <2>1 DEF Ids
  <2>3. w = run[p].row
    BY <2>1, <2>2 DEF RowsInv, RowsRun, Untouched, Retrying
  <2> QED BY <2>1, <2>3 DEF Honest, HonestRun
<1>2. ASSUME NEW p \in Procs, BumpRetries(p) \/ GiveUp(p)
      PROVE  RowsRemain
  <2> DEFINE n == IF BumpRetries(p) /\ run[p].read < RetryLimit THEN run[p].read + 1
                  ELSE RetryLimit
             d == IF BumpRetries(p) THEN FALSE ELSE TRUE
  <2>1. queue' = {IF w.id = run[p].row.id
                    THEN [w EXCEPT !.retries = n, !.due = d]
                    ELSE w : w \in queue}
    <3>1. CASE GiveUp(p)
      <4>1. n = RetryLimit /\ d = TRUE
        BY <3>1 DEF GiveUp, BumpRetries, At
      <4> HIDE DEF n, d
      <4> QED BY <3>1, <4>1 DEF GiveUp
    <3>2. CASE BumpRetries(p)
      <4>1. d = FALSE /\ n = IF run[p].read < RetryLimit THEN run[p].read + 1 ELSE RetryLimit
        BY <3>2
      <4> HIDE DEF n, d
      <4> QED BY <3>2, <4>1 DEF BumpRetries
    <3> QED BY <1>2, <3>1, <3>2
  <2> HIDE DEF n, d
  <2> DEFINE U == [w \in queue |-> IF w.id = run[p].row.id
                                     THEN [w EXCEPT !.retries = n, !.due = d] ELSE w]
  <2>2. queue' = {U[w] : w \in queue}
    BY <2>1
  <2>3. \A w \in queue : U[w].id = w.id
    BY <1>type DEF Rows
  <2> HIDE DEF U
  <2> QED BY <1>stay, <2>2, <2>3 DEF Ids
<1>3. ASSUME NEW p \in Procs, NEW f \in Files, WriteRow(p, f)
      PROVE  RowsRemain
  <2> DEFINE content == run[p].docs[f]
             tries == IF IsRetryable(run[p].answer) THEN 0 ELSE RetryLimit
  <2>1. \/ queue' = {IF w.id = run[p].read
                       THEN [w EXCEPT !.file = f, !.content = content,
                                      !.retries = tries, !.due = TRUE]
                       ELSE w : w \in queue}
        \/ queue \subseteq queue'
    BY <1>3 DEF WriteRow
  <2> HIDE DEF content, tries
  <2>2. ASSUME queue' = {IF w.id = run[p].read
                           THEN [w EXCEPT !.file = f, !.content = content,
                                          !.retries = tries, !.due = TRUE]
                           ELSE w : w \in queue}
        PROVE  RowsRemain
    <3> DEFINE U == [w \in queue |-> IF w.id = run[p].read
                       THEN [w EXCEPT !.file = f, !.content = content,
                                      !.retries = tries, !.due = TRUE] ELSE w]
    <3>1. queue' = {U[w] : w \in queue}
      BY <2>2
    <3>2. \A w \in queue : U[w].id = w.id
      BY <1>type DEF Rows
    <3> HIDE DEF U
    <3> QED BY <1>stay, <3>1, <3>2 DEF Ids
  <2> QED BY <1>stay, <2>1, <2>2 DEF Ids
<1>4. ASSUME NEW z \in queue, BackoffElapses(z)
      PROVE  RowsRemain
  <2>1. [z EXCEPT !.due = TRUE].id = z.id
    BY <1>type DEF Rows
  <2>2. queue' = (queue \ {z}) \cup {[z EXCEPT !.due = TRUE]}
    BY <1>4 DEF BackoffElapses
  <2>3. \A w \in queue : \E v \in queue' : v.id = w.id
    BY <2>1, <2>2
  <2> QED BY <1>stay, <2>3 DEF Ids
<1>5. ASSUME NEW z \in queue, ClearQueue(z)
      PROVE  RowsRemain
  <2> SUFFICES ASSUME NEW w \in queue, w.id \notin Ids'
               PROVE  w.file \in cleared'
    BY DEF RowsRemain
  <2>1. ~(w.id > z.id)
    BY <1>5 DEF ClearQueue, Ids
  <2>2. w.id \in Nat /\ z.id \in Nat
    BY <1>type DEF Rows
  <2>3. w.id <= z.id
    BY <2>1, <2>2
  <2> QED BY <1>5, <2>3 DEF ClearQueue
<1>6. ASSUME NEW p \in Procs, Advance(p), ~DeleteRow(p), ~BumpRetries(p), ~GiveUp(p),
             \A f \in Files : ~WriteRow(p, f)
      PROVE  queue' = queue
  <2>1. /\ \A f \in Files : Scan(p, f) \/ SelectRow(p, f) => queue' = queue
        /\ \A f \in Files : RecordSynced(p, f) \/ RecordFailed(p, f) => queue' = queue
        /\ \A w \in run[p].due : Retry(p, w) => queue' = queue
    BY DEF Scan, SelectRow, RecordSynced, RecordFailed, Retry
  <2>2. Connect(p) \/ ConnectFails(p) \/ StampRetried(p) \/ ReadRetries(p) => queue' = queue
    BY DEF Connect, ConnectFails, StampRetried, ReadRetries
  <2>3. UploadBatch(p) => queue' = queue
    BY DEF UploadBatch
  <2>4. NoEndpoint(p) \/ Finish(p) \/ FinishFails(p) \/ EndRun(p) => queue' = queue
    BY DEF NoEndpoint, Finish, FinishFails, Abort, EndRun
  <2> QED BY <1>6, <2>1, <2>2, <2>3, <2>4 DEF Advance
<1>7. CASE UNCHANGED vars
  BY <1>7, <1>same DEF vars
<1> QED
  BY <1>1, <1>2, <1>3, <1>4, <1>5, <1>6, <1>7, <1>same
  DEF Next, BeginSync, BeginRetry, Crash, Edit

(* When processes run one at a time and Core refuses no single documents, a *)
(* failed upload leaves the table only when Core has stored it or on        *)
(* `queue clear`, whatever is killed on the way                             *)
(* (exporters/incidentops_api.py:185-222, docs/aws-deployment.md:192).      *)
THEOREM FailedUploadsStay ==
  ASSUME Sole, "isolated" \notin Answers
  PROVE  Spec => FailedUploadsRemain
<1> DEFINE Inv == TypeInv /\ RowsInv /\ Honest
<1>1. Init => Inv
  BY TypeInit, RowsInit, HonestInit
<1>2. Inv /\ [Next]_vars => Inv'
  BY TypeStep, RowsNext, HonestNext
<1>3. Inv /\ [Next]_vars => [RowsRemain]_vars
  BY RowsRemainStep
<1> QED BY <1>1, <1>2, <1>3, PTL DEF Spec, FailedUploadsRemain

=============================================================================
