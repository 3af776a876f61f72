------------------------ MODULE CollectorSyncProofs ------------------------
(***************************************************************************)
(* Theorems about CollectorSync for any number of files, processes and     *)
(* contents, any batch size and retry limit, with or without crashes and   *)
(* queue clears.                                                           *)
(***************************************************************************)
EXTENDS CollectorSync, TLAPS

(* What TypeOK needs to be inductive: the row being retried is a row, a     *)
(* batch is being queued in "select" and "write" alone, and what a loop     *)
(* still has to visit after the scan was captured.                          *)
Shape ==
  \A p \in Procs :
    /\ run[p].pc \in {"settle", "stamp", "bump"} => run[p].row \in Rows
    /\ run[p].pc \notin {"select", "write"} => run[p].batch = {}
    /\ run[p].batch \subseteq Captured(p)
    /\ run[p].pc # "scan" => run[p].left \subseteq Captured(p)

TypeInv == TypeOK /\ Shape

-----------------------------------------------------------------------------

LEMMA IdleRunType == IdleRun \in Runs
BY DEF IdleRun, Runs, RunStates

(* A step of p that leaves the other processes alone preserves TypeInv when *)
(* it leaves p in good shape.                                               *)
GoodShape(r) ==
  /\ r.pc \in {"settle", "stamp", "bump"} => r.row \in Rows
  /\ r.pc \notin {"select", "write"} => r.batch = {}
  /\ r.batch \subseteq {f \in Files : r.docs[f] # None}
  /\ r.pc # "scan" => r.left \subseteq {f \in Files : r.docs[f] # None}

LEMMA RunStep ==
  ASSUME TypeInv, NEW p \in Procs, NEW r \in Runs, GoodShape(r),
         run' = [run EXCEPT ![p] = r]
  PROVE  run' \in [Procs -> Runs] /\ Shape'
BY DEF TypeInv, TypeOK, Shape, GoodShape, Captured

LEMMA TypeInit == Init => TypeInv
BY IdleRunType DEF Init, TypeInv, TypeOK, Shape, IdleRun, FileRecords, NoRecord, SyncStatuses, Captured

LEMMA TypeStep == TypeInv /\ [Next]_vars => TypeInv'
<1> SUFFICES ASSUME TypeInv, [Next]_vars
             PROVE  TypeInv'
  OBVIOUS
<1>type. /\ disk \in [Files -> Contents]
         /\ files \in [Files -> FileRecords]
         /\ queue \subseteq Rows
         /\ core \in [Files -> Contents \cup {None}]
         /\ remote \in [Procs -> SyncStatuses]
         /\ accepted \in [Files -> SUBSET Contents]
         /\ cleared \subseteq Files
  BY DEF TypeInv, TypeOK
<1>run. ASSUME NEW p \in Procs
        PROVE  run[p] \in Runs /\ GoodShape(run[p])
  BY DEF TypeInv, TypeOK, Shape, GoodShape, Captured
<1>captured. ASSUME NEW p \in Procs
             PROVE  /\ Captured(p) \in SUBSET Files
                    /\ \A f \in Captured(p) : run[p].docs[f] \in Contents
  BY <1>run DEF Captured, Runs
<1>idle. ASSUME NEW p \in Procs, run' = [run EXCEPT ![p] = IdleRun]
         PROVE  run' \in [Procs -> Runs] /\ Shape'
  <2>1. GoodShape(IdleRun)
    BY DEF GoodShape, IdleRun
  <2> QED  BY <1>idle, <2>1, IdleRunType, RunStep
<1>back. ASSUME NEW p \in Procs, run' = BackToExport(p), run[p].batch = {}, ~At(p, "scan")
         PROVE  run' \in [Procs -> Runs] /\ Shape'
  <2> DEFINE r == [run[p] EXCEPT !.pc = "export", !.row = None, !.answer = "none", !.read = 0]
  <2>1. r \in Runs
    BY <1>run DEF Runs, RunStates
  <2>2. GoodShape(r)
    BY <1>run, <1>back DEF GoodShape, Runs, At
  <2>3. run' = [run EXCEPT ![p] = r]
    BY <1>back DEF BackToExport
  <2> QED  BY <2>1, <2>2, <2>3, RunStep
<1>1. ASSUME NEW p \in Procs, BeginSync(p)
      PROVE  TypeInv'
  <2>1. PICK forced \in BOOLEAN :
          run' = [run EXCEPT ![p] = [IdleRun EXCEPT !.pc = "scan",
                                                    !.force = forced,
                                                    !.left = Files]]
    BY <1>1 DEF BeginSync
  <2> DEFINE r == [IdleRun EXCEPT !.pc = "scan", !.force = forced, !.left = Files]
  <2>2. r \in Runs /\ GoodShape(r)
    BY IdleRunType DEF Runs, RunStates, IdleRun, GoodShape
  <2>3. run' \in [Procs -> Runs] /\ Shape'
    BY <2>1, <2>2, RunStep
  <2> QED  BY <1>1, <1>type, <2>3 DEF BeginSync, TypeInv, TypeOK, SyncStatuses
<1>2. ASSUME NEW p \in Procs, BeginRetry(p)
      PROVE  TypeInv'
  <2> DEFINE r == [IdleRun EXCEPT !.pc = "scan"]
  <2>1. r \in Runs /\ GoodShape(r)
    BY IdleRunType DEF Runs, RunStates, IdleRun, GoodShape
  <2>2. run' \in [Procs -> Runs] /\ Shape'
    BY <1>2, <2>1, RunStep DEF BeginRetry
  <2> QED  BY <1>2, <1>type, <2>2 DEF BeginRetry, TypeInv, TypeOK, SyncStatuses
<1>3. ASSUME NEW p \in Procs, NEW f \in Files, Scan(p, f)
      PROVE  TypeInv'
  <2> DEFINE d == IF Unchanged(f) /\ ~run[p].force
                    THEN run[p].docs ELSE [run[p].docs EXCEPT ![f] = disk[f]]
             r == [run[p] EXCEPT !.left = @ \ {f}, !.docs = d]
  <2>1. d \in [Files -> Contents \cup {None}]
    BY <1>type, <1>run DEF Runs
  <2> HIDE DEF d
  <2>2. r \in Runs
    BY <1>run, <2>1 DEF Runs
  <2>3. GoodShape(r)
    BY <1>run, <1>3 DEF Scan, At, Runs, GoodShape
  <2>4. run' = [run EXCEPT ![p] = r]
    BY <1>3 DEF Scan, d
  <2>5. run' \in [Procs -> Runs] /\ Shape'
    BY <2>2, <2>3, <2>4, RunStep
  <2> QED  BY <1>3, <1>type, <2>5 DEF Scan, TypeInv, TypeOK
<1>4. ASSUME NEW p \in Procs, Connect(p)
      PROVE  TypeInv'
  <2> DEFINE D == {q \in queue : IsDue(q)}
             r == [run[p] EXCEPT !.pc = "export", !.force = FALSE,
                                 !.left = Captured(p), !.due = D]
  <2>1. D \in SUBSET Rows
    BY <1>type
  <2> HIDE DEF D
  <2>2. r \in Runs
    BY <1>run, <1>captured, <2>1 DEF Runs, RunStates
  <2>3a. run[p].pc = "scan" /\ run[p].batch = {}
    BY <1>run, <1>4 DEF Connect, At, GoodShape
  <2>3b. /\ r.pc = "export" /\ r.batch = {} /\ r.docs = run[p].docs
         /\ r.left = Captured(p)
    BY <1>run, <2>3a DEF Runs
  <2>3. GoodShape(r)
    BY <2>3b DEF GoodShape, Captured
  <2>4. run' = [run EXCEPT ![p] = r]
    BY <1>4 DEF Connect, D
  <2>5. run' \in [Procs -> Runs] /\ Shape'
    BY <2>2, <2>3, <2>4, RunStep
  <2> QED  BY <1>4, <1>type, <2>5 DEF Connect, TypeInv, TypeOK, SyncStatuses
<1>5. ASSUME NEW p \in Procs, ConnectFails(p)
      PROVE  TypeInv'
  BY <1>5, <1>type, <1>idle DEF ConnectFails, TypeInv, TypeOK, SyncStatuses
<1>6. ASSUME NEW p \in Procs, NEW w \in run[p].due, Retry(p, w)
      PROVE  TypeInv'
  <2>0. PICK a \in Answers : \E S \in Storable(a, {w.file}) :
          /\ CoreStores(S, [f \in Files |-> w.content])
          /\ run' = [run EXCEPT ![p].pc = "settle",
                                ![p].row = w,
                                ![p].due = @ \ {w},
                                ![p].answer = a,
                                ![p].trouble = @ \/ ~TakenAsSuccess(a)]
    BY <1>6 DEF Retry
  <2>1. PICK S \in Storable(a, {w.file}) :
          /\ CoreStores(S, [f \in Files |-> w.content])
          /\ run' = [run EXCEPT ![p].pc = "settle",
                                ![p].row = w,
                                ![p].due = @ \ {w},
                                ![p].answer = a,
                                ![p].trouble = @ \/ ~TakenAsSuccess(a)]
    BY <2>0
  <2> DEFINE t == run[p].trouble \/ ~TakenAsSuccess(a)
             r == [run[p] EXCEPT !.pc = "settle", !.row = w, !.due = @ \ {w},
                                 !.answer = a, !.trouble = t]
  <2>2. w \in Rows
    BY <1>run DEF Runs
  <2>3. t \in BOOLEAN
    BY <1>run DEF Runs, TakenAsSuccess
  <2> HIDE DEF t
  <2>4. r \in Runs
    BY <1>run, <2>2, <2>3 DEF Runs, RunStates
  <2>5. GoodShape(r)
    BY <1>run, <1>6, <2>2 DEF Retry, At, Runs, GoodShape
  <2>6. run' = [run EXCEPT ![p] = r]
    BY <2>1 DEF t
  <2>7. run' \in [Procs -> Runs] /\ Shape'
    BY <2>4, <2>5, <2>6, RunStep
  <2>8. /\ core' \in [Files -> Contents \cup {None}]
        /\ accepted' \in [Files -> SUBSET Contents]
    BY <1>type, <2>1, <2>2 DEF CoreStores, Rows
  <2> QED  BY <1>6, <1>type, <2>7, <2>8 DEF Retry, TypeInv, TypeOK
<1>7. ASSUME NEW p \in Procs, DeleteRow(p)
      PROVE  TypeInv'
  <2> DEFINE r == [run[p] EXCEPT !.pc = "stamp"]
  <2>1. r \in Runs
    BY <1>run DEF Runs, RunStates
  <2>2. GoodShape(r)
    BY <1>run, <1>7 DEF DeleteRow, At, Runs, GoodShape
  <2>3. run' \in [Procs -> Runs] /\ Shape'
    BY <1>7, <2>1, <2>2, RunStep DEF DeleteRow
  <2> QED  BY <1>7, <1>type, <2>3 DEF DeleteRow, TypeInv, TypeOK
<1>8. ASSUME NEW p \in Procs, StampRetried(p)
      PROVE  TypeInv'
  <2>1. run[p].row \in Rows /\ run[p].batch = {}
    BY <1>run, <1>8 DEF StampRetried, At, GoodShape
  <2>2. run' \in [Procs -> Runs] /\ Shape'
    BY <1>8, <1>back, <2>1 DEF StampRetried, At
  <2>3. files' \in [Files -> FileRecords]
    BY <1>8, <1>type, <2>1 DEF StampRetried, UpsertFile, Rows, FileRecords
  <2> QED  BY <1>8, <1>type, <2>2, <2>3 DEF StampRetried, TypeInv, TypeOK
<1>9. ASSUME NEW p \in Procs, ReadRetries(p)
      PROVE  TypeInv'
  <2>1. run[p].row \in Rows /\ run[p].batch = {}
    BY <1>run, <1>9 DEF ReadRetries, At, GoodShape
  <2>2. CASE run' = BackToExport(p)
    BY <1>9, <1>type, <1>back, <2>1, <2>2 DEF ReadRetries, At, TypeInv, TypeOK
  <2>3. ASSUME NEW q \in queue, run' = [run EXCEPT ![p].pc = "bump", ![p].read = q.retries]
        PROVE  TypeInv'
    <3> DEFINE r == [run[p] EXCEPT !.pc = "bump", !.read = q.retries]
    <3>1. q.retries \in Nat
      BY <1>type, LimitsAssumption DEF Rows
    <3>2. r \in Runs
      BY <1>run, <3>1 DEF Runs, RunStates
    <3>3. GoodShape(r)
      BY <1>run, <1>9, <2>1 DEF ReadRetries, At, Runs, GoodShape
    <3>4. run' \in [Procs -> Runs] /\ Shape'
      BY <2>3, <3>2, <3>3, RunStep
    <3> QED  BY <1>9, <1>type, <3>4 DEF ReadRetries, TypeInv, TypeOK
  <2> QED  BY <1>9, <2>2, <2>3 DEF ReadRetries
<1>10. ASSUME NEW p \in Procs, BumpRetries(p)
       PROVE  TypeInv'
  <2>1. run[p].row \in Rows /\ run[p].batch = {} /\ run[p].read \in Nat
    BY <1>run, <1>10 DEF BumpRetries, At, GoodShape, Runs
  <2>2. run' \in [Procs -> Runs] /\ Shape'
    BY <1>10, <1>back, <2>1 DEF BumpRetries, At
  <2> DEFINE n == IF run[p].read < RetryLimit THEN run[p].read + 1 ELSE RetryLimit
  <2>3. n \in 0..RetryLimit
    BY <2>1, LimitsAssumption
  <2> HIDE DEF n
  <2>4. \A q \in Rows : [q EXCEPT !.retries = n, !.due = FALSE] \in Rows
    BY <2>3 DEF Rows
  <2>5. queue' = {IF q.id = run[p].row.id
                    THEN [q EXCEPT !.retries = n, !.due = FALSE] ELSE q : q \in queue}
    BY <1>10 DEF BumpRetries, n
  <2>6. queue' \subseteq Rows
    BY <1>type, <2>4, <2>5
  <2> QED  BY <1>10, <1>type, <2>2, <2>6 DEF BumpRetries, TypeInv, TypeOK
<1>11. ASSUME NEW p \in Procs, GiveUp(p)
       PROVE  TypeInv'
  <2>1. run[p].row \in Rows /\ run[p].batch = {}
    BY <1>run, <1>11 DEF GiveUp, At, GoodShape
  <2>2. run' \in [Procs -> Runs] /\ Shape'
    BY <1>11, <1>back, <2>1 DEF GiveUp, At
  <2>a. RetryLimit \in 0..RetryLimit
    BY LimitsAssumption
  <2>3. ASSUME NEW q \in Rows
        PROVE  [q EXCEPT !.retries = RetryLimit, !.due = TRUE] \in Rows
    BY <2>a DEF Rows
  <2>4. queue' \subseteq Rows
    BY <1>11, <1>type, <2>3 DEF GiveUp
  <2> QED  BY <1>11, <1>type, <2>2, <2>4 DEF GiveUp, TypeInv, TypeOK
<1>12. ASSUME NEW p \in Procs, UploadBatch(p)
       PROVE  TypeInv'
  <2> DEFINE B == NextBatch(run[p].left)
  <2>1. PICK a \in Answers \ {"missing"} : \E S \in Storable(a, B) :
          /\ CoreStores(S, run[p].docs)
          /\ run' = [run EXCEPT
               ![p].left = @ \ B,
               ![p].answer = IF TakenAsSuccess(a) THEN "none" ELSE a,
               ![p].pc = IF TakenAsSuccess(a) THEN "export" ELSE "select",
               ![p].batch = IF TakenAsSuccess(a) THEN {} ELSE B,
               ![p].trouble = @ \/ ~TakenAsSuccess(a)]
    BY <1>12 DEF UploadBatch
  <2>2. PICK S \in Storable(a, B) :
          /\ CoreStores(S, run[p].docs)
          /\ run' = [run EXCEPT
               ![p].left = @ \ B,
               ![p].answer = IF TakenAsSuccess(a) THEN "none" ELSE a,
               ![p].pc = IF TakenAsSuccess(a) THEN "export" ELSE "select",
               ![p].batch = IF TakenAsSuccess(a) THEN {} ELSE B,
               ![p].trouble = @ \/ ~TakenAsSuccess(a)]
    BY <2>1
  <2>3. run[p].pc = "export" /\ run[p].left \subseteq Captured(p)
    BY <1>run, <1>12 DEF UploadBatch, At, GoodShape, Captured
  <2>4. B \subseteq Captured(p)
    BY <2>3 DEF NextBatch
  <2>5. S \subseteq B
    BY <2>2 DEF Storable
  <2> HIDE DEF B
  <2> DEFINE won == TakenAsSuccess(a)
             t == run[p].trouble \/ ~won
             next == IF won THEN "export" ELSE "select"
             ans == IF won THEN "none" ELSE a
             bad == IF won THEN {} ELSE B
             r == [run[p] EXCEPT !.left = @ \ B, !.answer = ans, !.pc = next,
                                 !.batch = bad, !.trouble = t]
  <2>6. t \in BOOLEAN
    BY <1>run DEF Runs, TakenAsSuccess
  <2>7. /\ next \in {"export", "select"}
        /\ ans \in Answers \cup {"none"}
        /\ bad \subseteq Captured(p)
        /\ next = "export" => bad = {}
    BY <2>4
  <2>8. run' = [run EXCEPT ![p] = r]
    BY <2>2
  <2> HIDE DEF t, next, ans, bad
  <2>9. r \in Runs
    BY <1>run, <1>captured, <2>6, <2>7 DEF Runs, RunStates
  <2>10. /\ r.pc = next /\ r.batch = bad /\ r.docs = run[p].docs
         /\ r.left \subseteq Captured(p)
    BY <1>run, <2>3 DEF Runs
  <2>11. GoodShape(r)
    BY <2>7, <2>10 DEF GoodShape, Captured
  <2>12. run' \in [Procs -> Runs] /\ Shape'
    BY <2>8, <2>9, <2>11, RunStep
  <2>13. /\ core' \in [Files -> Contents \cup {None}]
         /\ accepted' \in [Files -> SUBSET Contents]
    <3>1. \A f \in S : run[p].docs[f] \in Contents
      BY <1>captured, <2>4, <2>5
    <3> QED  BY <1>type, <2>2, <3>1 DEF CoreStores
  <2> QED  BY <1>12, <1>type, <2>12, <2>13 DEF UploadBatch, TypeInv, TypeOK
<1>abort. ASSUME NEW p \in Procs, Abort(p)
          PROVE  TypeInv'
  BY <1>abort, <1>type, <1>idle DEF Abort, TypeInv, TypeOK, SyncStatuses
<1>13. ASSUME NEW p \in Procs, NoEndpoint(p) \/ FinishFails(p)
       PROVE  TypeInv'
  <2>1. CASE NoEndpoint(p)
    BY <2>1, <1>abort DEF NoEndpoint
  <2>2. CASE FinishFails(p)
    BY <2>2, <1>type, <1>idle DEF FinishFails, FinishStatus, TypeInv, TypeOK, SyncStatuses
  <2> QED  BY <1>13, <2>1, <2>2
<1>14. ASSUME NEW p \in Procs, NEW f \in Files, SelectRow(p, f)
       PROVE  TypeInv'
  <2> DEFINE mine == {q.id : q \in {q \in queue : q.ext = f}}
  <2>1. PICK i \in mine \cup {0} :
          run' = [run EXCEPT ![p].pc = "write", ![p].failed = @ \cup {f}, ![p].read = i]
    BY <1>14 DEF SelectRow
  <2>2. i \in Nat
    BY <1>type DEF Rows
  <2> HIDE DEF mine
  <2> DEFINE r == [run[p] EXCEPT !.pc = "write", !.failed = @ \cup {f}, !.read = i]
  <2>3. r \in Runs
    BY <1>run, <2>2 DEF Runs, RunStates
  <2>4. GoodShape(r)
    BY <1>run, <1>14 DEF SelectRow, At, Runs, GoodShape
  <2>5. run' \in [Procs -> Runs] /\ Shape'
    BY <2>1, <2>3, <2>4, RunStep
  <2> QED  BY <1>14, <1>type, <2>5 DEF SelectRow, TypeInv, TypeOK
<1>15. ASSUME NEW p \in Procs, NEW f \in Files, WriteRow(p, f)
       PROVE  TypeInv'
  <2> DEFINE content == run[p].docs[f]
             tries == IF IsRetryable(run[p].answer) THEN 0 ELSE RetryLimit
  <2>1. /\ f \in run[p].batch
        /\ run[p].pc = "write"
        /\ content \in Contents
    BY <1>run, <1>captured, <1>15 DEF WriteRow, At, First, GoodShape, Captured
  <2>2. tries \in 0..RetryLimit
    BY LimitsAssumption
  <2>3. \/ queue' = {IF q.id = run[p].read
                       THEN [q EXCEPT !.file = f, !.content = content,
                                      !.retries = tries, !.due = TRUE]
                       ELSE q : q \in queue}
        \/ \E top \in Ids \cup {0} :
             queue' = queue \cup {[id |-> top + 1, ext |-> f, file |-> f, content |-> content,
                                   retries |-> tries, due |-> TRUE]}
    BY <1>15 DEF WriteRow
  <2>4. \A i \in Ids \cup {0} : i + 1 \in Nat \ {0}
    BY <1>type DEF Ids, Rows
  <2> HIDE DEF content, tries
  <2>5. \A q \in Rows : [q EXCEPT !.file = f, !.content = content,
                                  !.retries = tries, !.due = TRUE] \in Rows
    BY <2>1, <2>2 DEF Rows
  <2>6. \A i \in Nat \ {0} : [id |-> i, ext |-> f, file |-> f, content |-> content,
                              retries |-> tries, due |-> TRUE] \in Rows
    BY <2>1, <2>2 DEF Rows
  <2>7a. ASSUME NEW top \in Ids \cup {0},
                queue' = queue \cup {[id |-> top + 1, ext |-> f, file |-> f, content |-> content,
                                      retries |-> tries, due |-> TRUE]}
         PROVE  queue' \subseteq Rows
    BY <1>type, <2>4, <2>6, <2>7a
  <2>7b. ASSUME queue' = {IF q.id = run[p].read
                            THEN [q EXCEPT !.file = f, !.content = content,
                                           !.retries = tries, !.due = TRUE]
                            ELSE q : q \in queue}
         PROVE  queue' \subseteq Rows
    BY <1>type, <2>5, <2>7b
  <2>7. queue' \subseteq Rows
    BY <2>3, <2>7a, <2>7b
  <2>8. cleared' \subseteq Files
    BY <1>15, <1>type DEF WriteRow
  <2> DEFINE done == [run[p] EXCEPT !.pc = "export", !.row = None, !.answer = "none",
                                    !.read = 0, !.batch = {}]
             more == [run[p] EXCEPT !.pc = "select", !.batch = @ \ {f}, !.read = 0]
  <2>9. \/ run' = [run EXCEPT ![p] = done]
        \/ run' = [run EXCEPT ![p] = more]
    <3>1. CASE run[p].batch = {f}
      <4>1. run' = [BackToExport(p) EXCEPT ![p].batch = {}]
        BY <1>15, <3>1 DEF WriteRow
      <4>2. BackToExport(p)[p] = [run[p] EXCEPT !.pc = "export", !.row = None,
                                                 !.answer = "none", !.read = 0]
        BY <1>run DEF BackToExport, TypeInv, TypeOK
      <4> QED  BY <4>1, <4>2 DEF BackToExport
    <3>2. CASE run[p].batch # {f}
      BY <1>15, <3>2 DEF WriteRow
    <3> QED  BY <3>1, <3>2
  <2>10. done \in Runs /\ more \in Runs
    BY <1>run DEF Runs, RunStates
  <2>11. GoodShape(done)
    BY <1>run, <2>1 DEF Runs, GoodShape
  <2>12. GoodShape(more)
    BY <1>run, <2>1 DEF Runs, GoodShape
  <2> HIDE DEF done, more
  <2>13. run' \in [Procs -> Runs] /\ Shape'
    BY <2>9, <2>10, <2>11, <2>12, RunStep
  <2> QED  BY <1>15, <1>type, <2>7, <2>8, <2>13 DEF WriteRow, TypeInv, TypeOK
<1>16. ASSUME NEW p \in Procs, Finish(p)
       PROVE  TypeInv'
  <2> DEFINE r == [run[p] EXCEPT !.pc = "record", !.left = Captured(p)]
  <2>1. r \in Runs
    BY <1>run, <1>captured DEF Runs, RunStates
  <2>2. run[p].batch = {}
    BY <1>run, <1>16 DEF Finish, At, GoodShape
  <2>3. /\ r.pc = "record" /\ r.batch = {} /\ r.docs = run[p].docs
        /\ r.left = Captured(p)
    BY <1>run, <2>2 DEF Runs
  <2>4. GoodShape(r)
    BY <2>3 DEF GoodShape, Captured
  <2>5. run' = [run EXCEPT ![p] = r]
    BY <1>16 DEF Finish
  <2>6. run' \in [Procs -> Runs] /\ Shape'
    BY <2>1, <2>4, <2>5, RunStep
  <2> QED  BY <1>16, <1>type, <2>6 DEF Finish, FinishStatus, TypeInv, TypeOK, SyncStatuses
<1>17. ASSUME NEW p \in Procs, NEW f \in Files, RecordSynced(p, f) \/ RecordFailed(p, f)
       PROVE  TypeInv'
  <2> DEFINE r == [run[p] EXCEPT !.left = @ \ {f}]
  <2>1. /\ run[p].pc = "record"
        /\ f \in run[p].left
        /\ UpsertFile(f, run[p].docs[f], "synced") \/ UpsertFile(f, run[p].docs[f], "failed")
        /\ run' = [run EXCEPT ![p] = r]
        /\ UNCHANGED <<disk, queue, core, remote, accepted, cleared>>
    BY <1>17 DEF RecordSynced, RecordFailed, At, First
  <2>2. r \in Runs
    BY <1>run DEF Runs
  <2>3. GoodShape(r)
    BY <1>run, <2>1 DEF Runs, GoodShape
  <2>4. run' \in [Procs -> Runs] /\ Shape'
    BY <2>1, <2>2, <2>3, RunStep
  <2>5. run[p].docs[f] \in Contents
    BY <1>run, <1>captured, <2>1 DEF GoodShape, Captured
  <2>6. files' \in [Files -> FileRecords]
    BY <1>type, <2>1, <2>5 DEF UpsertFile, FileRecords
  <2> QED  BY <1>type, <2>1, <2>4, <2>6 DEF TypeInv, TypeOK
<1>18. ASSUME NEW p \in Procs, EndRun(p) \/ Crash(p)
       PROVE  TypeInv'
  BY <1>18, <1>type, <1>idle DEF EndRun, Crash, TypeInv, TypeOK
<1>shape. ASSUME run' = run
          PROVE  run' \in [Procs -> Runs] /\ Shape'
  BY <1>shape DEF TypeInv, TypeOK, Shape, Captured
<1>19. ASSUME NEW f \in Files, NEW c \in Contents, Edit(f, c)
       PROVE  TypeInv'
  BY <1>19, <1>type, <1>shape DEF Edit, TypeInv, TypeOK
<1>20. ASSUME NEW w \in queue, BackoffElapses(w)
       PROVE  TypeInv'
  <2>1. w \in Rows
    BY <1>type
  <2>2. [w EXCEPT !.due = TRUE] \in Rows
    BY <2>1 DEF Rows
  <2> QED  BY <1>20, <1>type, <1>shape, <2>2 DEF BackoffElapses, TypeInv, TypeOK
<1>21. ASSUME NEW w \in queue, ClearQueue(w)
       PROVE  TypeInv'
  <2>1. \A q \in queue : q.file \in Files
    BY <1>type DEF Rows
  <2>2. cleared' \subseteq Files /\ queue' \subseteq Rows
    BY <1>21, <1>type, <2>1 DEF ClearQueue
  <2> QED  BY <1>21, <1>type, <1>shape, <2>2 DEF ClearQueue, TypeInv, TypeOK
<1>22. ASSUME UNCHANGED vars
       PROVE  TypeInv'
  BY <1>22, <1>type, <1>shape DEF vars, TypeInv, TypeOK
<1> QED
  BY <1>1, <1>2, <1>3, <1>4, <1>5, <1>6, <1>7, <1>8, <1>9, <1>10, <1>11, <1>12, <1>13,
     <1>14, <1>15, <1>16, <1>17, <1>18, <1>19, <1>20, <1>21, <1>22
  DEF Next, Advance

(* Every state of every run is of the right type: no row, record or local   *)
(* variable ever holds anything else, whatever Core answers and however     *)
(* processes interleave.                                                    *)
THEOREM TypeCorrect == Spec => []TypeOK
<1>1. TypeInv => TypeOK
  BY DEF TypeInv
<1> QED  BY <1>1, TypeInit, TypeStep, PTL DEF Spec

-----------------------------------------------------------------------------

(* What a run claims of its documents is true.  A payload about to be       *)
(* stamped as synced was stored; a captured document is still to be         *)
(* uploaded, is being queued, has failed, or was stored; a document being   *)
(* queued has failed before it leaves the batch; and a run without trouble  *)
(* has failed on nothing.                                                   *)
Exporting == {"export", "settle", "stamp", "bump", "select", "write"}

HonestRun(r, stored) ==
  /\ r.pc = "stamp" \/ (r.pc = "settle" /\ TakenAsSuccess(r.answer))
       => r.row.content \in stored[r.row.file]
  /\ r.pc \in Exporting => \A f \in Files :
       r.docs[f] # None =>
         f \in r.left \cup r.batch \cup r.failed \/ r.docs[f] \in stored[f]
  /\ r.pc = "record" => \A f \in Files :
       r.docs[f] # None => f \in r.failed \/ r.docs[f] \in stored[f]
  /\ r.pc = "write" => \A f \in Files : First(f, r.batch) => f \in r.failed
  /\ ~r.trouble => r.failed = {} /\ r.batch = {}

(* ... and what Core has been told of the run agrees with it. *)
HonestStatus(r, status) ==
  /\ r.pc = "record" /\ status = "success" => ~r.trouble
  /\ r.pc \notin {"record", "idle"} => status # "success"

Honest ==
  /\ SyncedIsAccepted
  /\ \A p \in Procs : HonestRun(run[p], accepted) /\ HonestStatus(run[p], remote[p])

(* What Core has stored once stays stored, so claims stay true. *)
AcceptedGrows == \A f \in Files : accepted[f] \subseteq accepted'[f]

LEMMA ClaimsStayTrue ==
  ASSUME NEW r \in Runs, GoodShape(r), HonestRun(r, accepted), AcceptedGrows
  PROVE  HonestRun(r, accepted')
<1>1. r.pc \in {"settle", "stamp"} => r.row.file \in Files
  BY DEF GoodShape, Rows
<1> QED  BY <1>1 DEF HonestRun, AcceptedGrows

LEMMA CoreStoresGrows ==
  ASSUME NEW S, NEW content, CoreStores(S, content)
  PROVE  /\ AcceptedGrows
         /\ \A f \in Files \cap S : content[f] \in accepted'[f]
BY DEF CoreStores, AcceptedGrows

(* A step of p preserves Honest when it leaves p honest and keeps the file  *)
(* records honest.                                                          *)
LEMMA HonestStep ==
  ASSUME TypeInv, Honest, NEW p \in Procs, NEW r, NEW status,
         AcceptedGrows, SyncedIsAccepted',
         run' = [run EXCEPT ![p] = r], remote' = [remote EXCEPT ![p] = status],
         HonestRun(r, accepted'), HonestStatus(r, status)
  PROVE  Honest'
<1>1. ASSUME NEW q \in Procs \ {p}
      PROVE  HonestRun(run[q], accepted') /\ HonestStatus(run[q], remote[q])
  <2>1. run[q] \in Runs /\ GoodShape(run[q])
    BY DEF TypeInv, TypeOK, Shape, GoodShape, Captured
  <2> QED  BY <2>1, ClaimsStayTrue DEF Honest
<1>2. \A q \in Procs \ {p} : run'[q] = run[q] /\ remote'[q] = remote[q]
  BY DEF TypeInv, TypeOK
<1>3. run'[p] = r /\ remote'[p] = status
  BY DEF TypeInv, TypeOK
<1>4. \A q \in Procs : HonestRun(run'[q], accepted') /\ HonestStatus(run'[q], remote'[q])
  BY <1>1, <1>2, <1>3
<1> QED  BY <1>4 DEF Honest

LEMMA HonestInit == Init => Honest
BY DEF Init, Honest, SyncedIsAccepted, HonestRun, HonestStatus, IdleRun, NoRecord, Exporting, At

LEMMA HonestNext ==
  ASSUME "isolated" \notin Answers, TypeInv, Honest, [Next]_vars
  PROVE  Honest'
<1>type. /\ files \in [Files -> FileRecords]
         /\ queue \subseteq Rows
         /\ remote \in [Procs -> SyncStatuses]
         /\ accepted \in [Files -> SUBSET Contents]
  BY DEF TypeInv, TypeOK
<1>run. ASSUME NEW p \in Procs
        PROVE  /\ run[p] \in Runs /\ GoodShape(run[p])
               /\ HonestRun(run[p], accepted) /\ HonestStatus(run[p], remote[p])
  BY DEF TypeInv, TypeOK, Shape, GoodShape, Captured, Honest
<1>files. ASSUME files' = files, AcceptedGrows
          PROVE  SyncedIsAccepted'
  BY <1>files DEF Honest, SyncedIsAccepted, AcceptedGrows
<1>ok. \A a \in Answers : TakenAsSuccess(a) => a = "ok"
  BY DEF TakenAsSuccess
<1>same. ASSUME accepted' = accepted
         PROVE  AcceptedGrows
  BY <1>same DEF AcceptedGrows
<1>still. \A p \in Procs : remote = [remote EXCEPT ![p] = remote[p]]
  BY <1>type
<1>idle. ASSUME NEW p \in Procs, NEW status, run' = [run EXCEPT ![p] = IdleRun],
                remote' = [remote EXCEPT ![p] = status], accepted' = accepted, files' = files
         PROVE  Honest'
  <2>1. HonestRun(IdleRun, accepted') /\ HonestStatus(IdleRun, status)
    BY DEF HonestRun, HonestStatus, IdleRun, Exporting
  <2> QED  BY <1>idle, <1>same, <1>files, <2>1, HonestStep
<1>begin. ASSUME NEW p \in Procs, NEW r, run' = [run EXCEPT ![p] = r], r.pc = "scan",
                 r.failed = {}, r.batch = {}, accepted' = accepted, files' = files,
                 remote' = [remote EXCEPT ![p] = "none"]
          PROVE  Honest'
  <2>1. HonestRun(r, accepted') /\ HonestStatus(r, "none")
    BY <1>begin DEF HonestRun, HonestStatus, Exporting
  <2> QED  BY <1>begin, <1>same, <1>files, <2>1, HonestStep
<1>back. ASSUME NEW p \in Procs, run' = BackToExport(p), run[p].pc \in Exporting,
                accepted' = accepted, remote' = remote, SyncedIsAccepted'
         PROVE  Honest'
  <2> DEFINE r == [run[p] EXCEPT !.pc = "export", !.row = None, !.answer = "none", !.read = 0]
  <2>1. /\ r.pc = "export" /\ r.docs = run[p].docs /\ r.left = run[p].left
        /\ r.batch = run[p].batch /\ r.failed = run[p].failed
        /\ r.trouble = run[p].trouble
    BY <1>run DEF Runs
  <2>2. run' = [run EXCEPT ![p] = r]
    BY <1>back DEF BackToExport
  <2> HIDE DEF r
  <2>3. HonestRun(r, accepted')
    BY <1>run, <1>back, <2>1 DEF HonestRun, Exporting
  <2>4. HonestStatus(r, remote[p])
    BY <1>run, <1>back, <2>1 DEF HonestStatus, Exporting
  <2> QED  BY <1>back, <1>same, <1>still, <2>2, <2>3, <2>4, HonestStep
<1>1. ASSUME NEW p \in Procs, BeginSync(p) \/ BeginRetry(p)
      PROVE  Honest'
  <2>1. CASE BeginSync(p)
    <3>1. PICK forced \in BOOLEAN :
            run' = [run EXCEPT ![p] = [IdleRun EXCEPT !.pc = "scan",
                                                      !.force = forced,
                                                      !.left = Files]]
      BY <2>1 DEF BeginSync
    <3> DEFINE r == [IdleRun EXCEPT !.pc = "scan", !.force = forced, !.left = Files]
    <3>2. r.pc = "scan" /\ r.failed = {} /\ r.batch = {}
      BY DEF IdleRun
    <3> QED  BY <2>1, <1>begin, <3>1, <3>2 DEF BeginSync
  <2>2. CASE BeginRetry(p)
    <3> DEFINE r == [IdleRun EXCEPT !.pc = "scan"]
    <3>1. r.pc = "scan" /\ r.failed = {} /\ r.batch = {}
      BY DEF IdleRun
    <3> QED  BY <2>2, <1>begin, <3>1 DEF BeginRetry
  <2> QED  BY <1>1, <2>1, <2>2
<1>2. ASSUME NEW p \in Procs, NEW f \in Files, Scan(p, f)
      PROVE  Honest'
  <2> DEFINE d == IF Unchanged(f) /\ ~run[p].force
                    THEN run[p].docs ELSE [run[p].docs EXCEPT ![f] = disk[f]]
             r == [run[p] EXCEPT !.left = @ \ {f}, !.docs = d]
  <2>1. run' = [run EXCEPT ![p] = r]
    BY <1>2 DEF Scan
  <2> HIDE DEF d
  <2>2. /\ r.pc = "scan" /\ r.batch = run[p].batch /\ r.failed = run[p].failed
        /\ r.trouble = run[p].trouble /\ run[p].pc = "scan"
    BY <1>run, <1>2 DEF Runs, Scan, At
  <2> HIDE DEF r
  <2>3. HonestRun(r, accepted') /\ HonestStatus(r, remote[p])
    BY <1>run, <2>2 DEF HonestRun, HonestStatus, Exporting
  <2> QED  BY <1>2, <1>same, <1>files, <1>still, <2>1, <2>3, HonestStep DEF Scan
<1>3. ASSUME NEW p \in Procs, Connect(p)
      PROVE  Honest'
  <2> DEFINE D == {q \in queue : IsDue(q)}
             r == [run[p] EXCEPT !.pc = "export", !.force = FALSE,
                                 !.left = Captured(p), !.due = D]
             status == IF TracksSyncs THEN "started" ELSE remote[p]
  <2>1. /\ run' = [run EXCEPT ![p] = r] /\ remote' = [remote EXCEPT ![p] = status]
        /\ run[p].pc = "scan"
    BY <1>3 DEF Connect, At
  <2> HIDE DEF D
  <2>2. /\ r.pc = "export" /\ r.docs = run[p].docs /\ r.left = Captured(p)
        /\ r.batch = run[p].batch /\ r.failed = run[p].failed
        /\ r.trouble = run[p].trouble
    BY <1>run DEF Runs
  <2> HIDE DEF r
  <2>3. HonestRun(r, accepted')
    BY <1>run, <2>2 DEF HonestRun, Captured
  <2>4. HonestStatus(r, status)
    BY <1>run, <2>1, <2>2 DEF HonestStatus
  <2> QED  BY <1>3, <1>same, <1>files, <2>1, <2>3, <2>4, HonestStep DEF Connect
<1>4. ASSUME NEW p \in Procs, ConnectFails(p) \/ NoEndpoint(p) \/ FinishFails(p)
                                \/ EndRun(p) \/ Crash(p)
      PROVE  Honest'
  <2>1. \E status : remote' = [remote EXCEPT ![p] = status]
    BY <1>4, <1>still DEF ConnectFails, NoEndpoint, FinishFails, Abort, EndRun, Crash
  <2> QED
    BY <1>4, <1>idle, <2>1 DEF ConnectFails, NoEndpoint, FinishFails, Abort, EndRun, Crash
<1>5. ASSUME NEW p \in Procs, NEW w \in run[p].due, Retry(p, w)
      PROVE  Honest'
  <2>1. PICK a \in Answers : \E S \in Storable(a, {w.file}) :
          /\ CoreStores(S, [f \in Files |-> w.content])
          /\ run' = [run EXCEPT ![p].pc = "settle",
                                ![p].row = w,
                                ![p].due = @ \ {w},
                                ![p].answer = a,
                                ![p].trouble = @ \/ ~TakenAsSuccess(a)]
    BY <1>5 DEF Retry
  <2>2. PICK S \in Storable(a, {w.file}) :
          /\ CoreStores(S, [f \in Files |-> w.content])
          /\ run' = [run EXCEPT ![p].pc = "settle",
                                ![p].row = w,
                                ![p].due = @ \ {w},
                                ![p].answer = a,
                                ![p].trouble = @ \/ ~TakenAsSuccess(a)]
    BY <2>1
  <2> DEFINE t == run[p].trouble \/ ~TakenAsSuccess(a)
             r == [run[p] EXCEPT !.pc = "settle", !.row = w, !.due = @ \ {w},
                                 !.answer = a, !.trouble = t]
  <2>3. run' = [run EXCEPT ![p] = r]
    BY <2>2
  <2>4. t = FALSE => run[p].trouble = FALSE
    OBVIOUS
  <2> HIDE DEF t
  <2>5. /\ r.pc = "settle" /\ r.row = w /\ r.answer = a /\ r.trouble = t
        /\ r.docs = run[p].docs /\ r.left = run[p].left
        /\ r.batch = run[p].batch /\ r.failed = run[p].failed
        /\ run[p].pc = "export"
    BY <1>run, <1>5 DEF Runs, Retry, At
  <2> HIDE DEF r
  <2>6. w.file \in Files
    BY <1>run DEF Runs, Rows
  <2>7. AcceptedGrows /\ \A f \in Files \cap S : w.content \in accepted'[f]
    BY <2>2, CoreStoresGrows
  <2>8. TakenAsSuccess(a) => w.content \in accepted'[w.file]
    BY <1>ok, <2>6, <2>7 DEF Storable
  <2>9. HonestRun(run[p], accepted')
    BY <1>run, <2>7, ClaimsStayTrue
  <2>10. HonestRun(r, accepted')
    BY <2>4, <2>5, <2>8, <2>9 DEF HonestRun, Exporting
  <2>11. HonestStatus(r, remote[p])
    BY <1>run, <2>5 DEF HonestStatus
  <2> QED  BY <1>5, <1>files, <1>still, <2>3, <2>7, <2>10, <2>11, HonestStep DEF Retry
<1>6. ASSUME NEW p \in Procs, DeleteRow(p)
      PROVE  Honest'
  <2> DEFINE r == [run[p] EXCEPT !.pc = "stamp"]
  <2>1. /\ r.pc = "stamp" /\ r.row = run[p].row /\ r.trouble = run[p].trouble
        /\ r.docs = run[p].docs /\ r.left = run[p].left
        /\ r.batch = run[p].batch /\ r.failed = run[p].failed
        /\ run[p].pc = "settle" /\ TakenAsSuccess(run[p].answer)
    BY <1>run, <1>6 DEF Runs, DeleteRow, At
  <2>2. run' = [run EXCEPT ![p] = r]
    BY <1>6 DEF DeleteRow
  <2> HIDE DEF r
  <2>3. HonestRun(r, accepted) /\ HonestStatus(r, remote[p])
    BY <1>run, <2>1 DEF HonestRun, HonestStatus, Exporting
  <2> QED  BY <1>6, <1>same, <1>files, <1>still, <2>2, <2>3, HonestStep DEF DeleteRow
<1>7. ASSUME NEW p \in Procs, StampRetried(p)
      PROVE  Honest'
  <2>1. run[p].pc = "stamp" /\ run[p].row.content \in accepted[run[p].row.file]
    BY <1>run, <1>7 DEF StampRetried, At, HonestRun
  <2>2. SyncedIsAccepted'
    BY <1>7, <1>type, <2>1 DEF StampRetried, UpsertFile, Honest, SyncedIsAccepted
  <2> QED  BY <1>7, <1>back, <2>1, <2>2 DEF StampRetried, Exporting
<1>8. ASSUME NEW p \in Procs, BumpRetries(p) \/ GiveUp(p)
      PROVE  Honest'
  <2>1. SyncedIsAccepted'
    BY <1>8, <1>files, <1>same DEF BumpRetries, GiveUp
  <2> QED  BY <1>8, <1>back, <2>1 DEF BumpRetries, GiveUp, At, Exporting
<1>9. ASSUME NEW p \in Procs, ReadRetries(p)
      PROVE  Honest'
  <2>1. SyncedIsAccepted'
    BY <1>9, <1>files, <1>same DEF ReadRetries
  <2>2. CASE run' = BackToExport(p)
    BY <1>9, <1>back, <2>1, <2>2 DEF ReadRetries, At, Exporting
  <2>3. ASSUME NEW q \in queue, run' = [run EXCEPT ![p].pc = "bump", ![p].read = q.retries]
        PROVE  Honest'
    <3> DEFINE r == [run[p] EXCEPT !.pc = "bump", !.read = q.retries]
    <3>1. /\ r.pc = "bump" /\ r.trouble = run[p].trouble
          /\ r.docs = run[p].docs /\ r.left = run[p].left
          /\ r.batch = run[p].batch /\ r.failed = run[p].failed
          /\ run[p].pc = "settle"
      BY <1>run, <1>9 DEF Runs, ReadRetries, At
    <3> HIDE DEF r
    <3>2. HonestRun(r, accepted) /\ HonestStatus(r, remote[p])
      BY <1>run, <3>1 DEF HonestRun, HonestStatus, Exporting
    <3>3. run' = [run EXCEPT ![p] = r]
      BY <2>3 DEF r
    <3> QED  BY <1>9, <1>same, <1>still, <2>1, <3>2, <3>3, HonestStep DEF ReadRetries
  <2> QED  BY <1>9, <2>2, <2>3 DEF ReadRetries
<1>10. ASSUME NEW p \in Procs, UploadBatch(p)
       PROVE  Honest'
  <2> DEFINE B == NextBatch(run[p].left)
  <2>1. PICK a \in Answers \ {"missing"} : \E S \in Storable(a, B) :
          /\ CoreStores(S, run[p].docs)
          /\ run' = [run EXCEPT
               ![p].left = @ \ B,
               ![p].answer = IF TakenAsSuccess(a) THEN "none" ELSE a,
               ![p].pc = IF TakenAsSuccess(a) THEN "export" ELSE "select",
               ![p].batch = IF TakenAsSuccess(a) THEN {} ELSE B,
               ![p].trouble = @ \/ ~TakenAsSuccess(a)]
    BY <1>10 DEF UploadBatch
  <2>2. PICK S \in Storable(a, B) :
          /\ CoreStores(S, run[p].docs)
          /\ run' = [run EXCEPT
               ![p].left = @ \ B,
               ![p].answer = IF TakenAsSuccess(a) THEN "none" ELSE a,
               ![p].pc = IF TakenAsSuccess(a) THEN "export" ELSE "select",
               ![p].batch = IF TakenAsSuccess(a) THEN {} ELSE B,
               ![p].trouble = @ \/ ~TakenAsSuccess(a)]
    BY <2>1
  <2> HIDE DEF B
  <2> DEFINE won == TakenAsSuccess(a)
             t == run[p].trouble \/ ~won
             next == IF won THEN "export" ELSE "select"
             ans == IF won THEN "none" ELSE a
             bad == IF won THEN {} ELSE B
             r == [run[p] EXCEPT !.left = @ \ B, !.answer = ans, !.pc = next,
                                 !.batch = bad, !.trouble = t]
  <2>3. run' = [run EXCEPT ![p] = r]
    BY <2>2
  <2>4. AcceptedGrows /\ \A f \in Files \cap S : run[p].docs[f] \in accepted'[f]
    BY <2>2, CoreStoresGrows
  <2>5. won => S = B
    BY <1>ok, <2>2 DEF Storable
  <2>6. t = FALSE => run[p].trouble = FALSE /\ won
    BY DEF TakenAsSuccess
  <2>7. /\ won => next = "export" /\ bad = {}
        /\ ~won => next = "select" /\ bad = B
    OBVIOUS
  <2> HIDE DEF t, next, ans, bad, won
  <2>8. /\ r.pc = next /\ r.trouble = t /\ r.docs = run[p].docs
        /\ r.left = run[p].left \ B /\ r.batch = bad /\ r.failed = run[p].failed
        /\ run[p].pc = "export" /\ run[p].batch = {}
    BY <1>run, <1>10 DEF Runs, UploadBatch, At, GoodShape
  <2> HIDE DEF r
  <2>9. HonestRun(run[p], accepted')
    BY <1>run, <2>4, ClaimsStayTrue
  <2>10. \A f \in Files : r.docs[f] # None =>
           f \in r.left \cup r.batch \cup r.failed \/ r.docs[f] \in accepted'[f]
    BY <2>4, <2>5, <2>7, <2>8, <2>9 DEF HonestRun, Exporting
  <2>11. ~r.trouble => r.failed = {} /\ r.batch = {}
    BY <2>6, <2>7, <2>8, <2>9, <1>run DEF HonestRun, Runs
  <2>12. HonestRun(r, accepted')
    BY <2>7, <2>8, <2>10, <2>11 DEF HonestRun
  <2>13. HonestStatus(r, remote[p])
    BY <1>run, <2>7, <2>8 DEF HonestStatus
  <2> QED  BY <1>10, <1>files, <1>still, <2>3, <2>4, <2>12, <2>13, HonestStep DEF UploadBatch
<1>11. ASSUME NEW p \in Procs, NEW f \in Files, SelectRow(p, f)
       PROVE  Honest'
  <2>1. PICK i : run' = [run EXCEPT ![p].pc = "write", ![p].failed = @ \cup {f}, ![p].read = i]
    BY <1>11 DEF SelectRow
  <2> DEFINE r == [run[p] EXCEPT !.pc = "write", !.failed = @ \cup {f}, !.read = i]
  <2>2. /\ r.pc = "write" /\ r.trouble = run[p].trouble
        /\ r.docs = run[p].docs /\ r.left = run[p].left
        /\ r.batch = run[p].batch /\ r.failed = run[p].failed \cup {f}
        /\ run[p].pc = "select" /\ First(f, run[p].batch)
    BY <1>run, <1>11 DEF Runs, SelectRow, At
  <2>3. run' = [run EXCEPT ![p] = r]
    BY <2>1
  <2> HIDE DEF r
  <2>4. \A g \in Files : First(g, r.batch) => g \in r.failed
    BY <2>2, FilesAssumption DEF First
  <2>5. r.trouble
    BY <1>run, <2>2 DEF HonestRun, First
  <2>6. HonestRun(r, accepted')
    BY <1>run, <1>11, <2>2, <2>4, <2>5 DEF HonestRun, Exporting, SelectRow
  <2>7. HonestStatus(r, remote[p])
    BY <1>run, <2>2 DEF HonestStatus
  <2> QED  BY <1>11, <1>same, <1>files, <1>still, <2>3, <2>6, <2>7, HonestStep DEF SelectRow
<1>12. ASSUME NEW p \in Procs, NEW f \in Files, WriteRow(p, f)
       PROVE  Honest'
  <2> DEFINE done == [run[p] EXCEPT !.pc = "export", !.row = None, !.answer = "none",
                                    !.read = 0, !.batch = {}]
             more == [run[p] EXCEPT !.pc = "select", !.batch = @ \ {f}, !.read = 0]
  <2>1. run[p].pc = "write" /\ f \in run[p].failed /\ f \in run[p].batch
    BY <1>run, <1>12 DEF WriteRow, At, First, HonestRun
  <2>2. PICK r \in {done, more} :
          /\ run' = [run EXCEPT ![p] = r]
          /\ r.batch = run[p].batch \ {f}
    <3>1. CASE run[p].batch = {f}
      <4>1. run' = [BackToExport(p) EXCEPT ![p].batch = {}]
        BY <1>12, <3>1 DEF WriteRow
      <4>2. BackToExport(p)[p] = [run[p] EXCEPT !.pc = "export", !.row = None,
                                                 !.answer = "none", !.read = 0]
        BY <1>run DEF BackToExport, TypeInv, TypeOK
      <4>3. run' = [run EXCEPT ![p] = done]
        BY <4>1, <4>2 DEF BackToExport
      <4>4. done.batch = {}
        BY <1>run DEF Runs
      <4> QED  BY <3>1, <4>3, <4>4
    <3>2. CASE run[p].batch # {f}
      <4>1. run' = [run EXCEPT ![p] = more]
        BY <1>12, <3>2 DEF WriteRow
      <4>2. more.batch = run[p].batch \ {f}
        BY <1>run DEF Runs
      <4> QED  BY <4>1, <4>2
    <3> QED  BY <3>1, <3>2
  <2>3. /\ r.pc \in {"export", "select"} /\ r.trouble = run[p].trouble
        /\ r.docs = run[p].docs /\ r.left = run[p].left /\ r.failed = run[p].failed
    BY <1>run, <2>2 DEF Runs
  <2> HIDE DEF done, more
  <2>4. HonestRun(r, accepted')
    BY <1>run, <1>12, <2>1, <2>2, <2>3 DEF HonestRun, Exporting, WriteRow
  <2>5. HonestStatus(r, remote[p])
    BY <1>run, <2>1, <2>3 DEF HonestStatus
  <2> QED  BY <1>12, <1>same, <1>files, <1>still, <2>2, <2>4, <2>5, HonestStep DEF WriteRow
<1>13. ASSUME NEW p \in Procs, Finish(p)
       PROVE  Honest'
  <2> DEFINE r == [run[p] EXCEPT !.pc = "record", !.left = Captured(p)]
             status == IF TracksSyncs THEN FinishStatus(p) ELSE remote[p]
  <2>1. run' = [run EXCEPT ![p] = r] /\ remote' = [remote EXCEPT ![p] = status]
    BY <1>13 DEF Finish
  <2>2. /\ r.pc = "record" /\ r.trouble = run[p].trouble /\ r.docs = run[p].docs
        /\ r.batch = run[p].batch /\ r.failed = run[p].failed
        /\ run[p].pc = "export" /\ run[p].left = {} /\ run[p].batch = {}
    BY <1>run, <1>13 DEF Runs, Finish, At, GoodShape
  <2> HIDE DEF r
  <2>3. HonestRun(r, accepted)
    BY <1>run, <2>2 DEF HonestRun, Exporting
  <2>4. HonestStatus(r, status)
    BY <1>run, <2>2 DEF HonestStatus, FinishStatus
  <2> QED  BY <1>13, <1>same, <1>files, <2>1, <2>3, <2>4, HonestStep DEF Finish
<1>14. ASSUME NEW p \in Procs, NEW f \in Files, RecordSynced(p, f) \/ RecordFailed(p, f)
       PROVE  Honest'
  <2> DEFINE r == [run[p] EXCEPT !.left = @ \ {f}]
  <2>1. /\ run' = [run EXCEPT ![p] = r] /\ run[p].pc = "record"
        /\ f \in run[p].left
        /\ UNCHANGED <<accepted, remote>>
    BY <1>14 DEF RecordSynced, RecordFailed, At, First
  <2>2. /\ r.pc = "record" /\ r.trouble = run[p].trouble /\ r.docs = run[p].docs
        /\ r.batch = run[p].batch /\ r.failed = run[p].failed
    BY <1>run, <2>1 DEF Runs
  <2> HIDE DEF r
  <2>3. HonestRun(r, accepted) /\ HonestStatus(r, remote[p])
    BY <1>run, <2>1, <2>2 DEF HonestRun, HonestStatus, Exporting
  <2>4. run[p].docs[f] # None
    BY <1>run, <2>1 DEF GoodShape
  <2>5. CASE RecordSynced(p, f)
    <3>1. run[p].docs[f] \in accepted[f]
      BY <1>run, <2>1, <2>4, <2>5 DEF HonestRun, RecordSynced, First
    <3> QED  BY <1>type, <2>1, <2>5, <3>1, <1>same, <1>still, <2>3, HonestStep
             DEF RecordSynced, UpsertFile, Honest, SyncedIsAccepted
  <2>6. CASE RecordFailed(p, f)
    <3>1. SyncedIsAccepted'
      BY <1>type, <2>1, <2>6 DEF RecordFailed, UpsertFile, Honest, SyncedIsAccepted
    <3> QED  BY <2>1, <3>1, <1>same, <1>still, <2>3, HonestStep
  <2> QED  BY <1>14, <2>5, <2>6
<1>15. ASSUME UNCHANGED <<files, run, remote, accepted>>
       PROVE  Honest'
  BY <1>15 DEF Honest, SyncedIsAccepted
<1> QED
  <2>1. CASE \/ \E f \in Files, c \in Contents : Edit(f, c)
             \/ \E w \in queue : BackoffElapses(w) \/ ClearQueue(w)
             \/ UNCHANGED vars
    BY <1>15, <2>1 DEF Edit, BackoffElapses, ClearQueue, vars
  <2> QED
    BY <1>1, <1>2, <1>3, <1>4, <1>5, <1>6, <1>7, <1>8, <1>9, <1>10, <1>11, <1>12, <1>13,
       <1>14, <2>1
    DEF Next, Advance

(* No fake success: when Core never answers a batch with 2xx while refusing *)
(* some of its documents, every content recorded as synced was stored by    *)
(* Core, with any number of processes, crashes, queue clears and lost       *)
(* replies (core/pipeline.py:257-266, exporters/incidentops_api.py:215-224).*)
THEOREM NoFakeSuccess ==
  ASSUME "isolated" \notin Answers
  PROVE  Spec => []SyncedIsAccepted
<1>1. TypeInv /\ Honest /\ [Next]_vars => TypeInv' /\ Honest'
  BY TypeStep, HonestNext
<1>2. Init => TypeInv /\ Honest
  BY TypeInit, HonestInit
<1>3. Honest => SyncedIsAccepted
  BY DEF Honest
<1> QED  BY <1>1, <1>2, <1>3, PTL DEF Spec

(* Under the same assumption a sync that Core was told is a success failed  *)
(* on no document, and Core stored every document it captured               *)
(* (_core_finish_status, exporters/incidentops_api.py:119-135).             *)
THEOREM SuccessMeansAll ==
  ASSUME "isolated" \notin Answers
  PROVE  Spec => []SuccessIsTotal
<1>1. TypeInv /\ Honest /\ [Next]_vars => TypeInv' /\ Honest'
  BY TypeStep, HonestNext
<1>2. Init => TypeInv /\ Honest
  BY TypeInit, HonestInit
<1>3. TypeInv /\ Honest => SuccessIsTotal
  BY DEF TypeInv, TypeOK, Honest, SuccessIsTotal, HonestRun, HonestStatus, At, Captured
<1> QED  BY <1>1, <1>2, <1>3, PTL DEF Spec

=============================================================================
