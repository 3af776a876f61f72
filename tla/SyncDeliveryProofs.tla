------------------------- MODULE SyncDeliveryProofs -------------------------
(***************************************************************************)
(* CollectorSync implements Delivery when processes run one at a time and  *)
(* Core refuses no single documents; for any number of files and contents, *)
(* any batch size and retry limit, with or without crashes and clears.     *)
(***************************************************************************)
EXTENDS SyncDelivery, SyncQueueProofs

(* what is pending for f in a table with these rows *)
Payload(f, rows) ==
  IF \E r \in rows : r.file = f
    THEN CHOOSE c \in Contents : \E r \in rows : r.file = f /\ r.content = c
    ELSE None

OneRow(rows) == \A v, w \in rows : v.file = w.file => v = w

LEMMA PayloadOfRow ==
  ASSUME NEW rows \in SUBSET Rows, OneRow(rows), NEW w \in rows
  PROVE  Payload(w.file, rows) = w.content
<1>1. w.content \in Contents
  BY DEF Rows
<1>2. \A c \in Contents : (\E r \in rows : r.file = w.file /\ r.content = c) <=> c = w.content
  BY <1>1 DEF OneRow
<1> QED BY <1>1, <1>2 DEF Payload

LEMMA PayloadOfNone ==
  ASSUME NEW rows, NEW f, \A r \in rows : r.file # f
  PROVE  Payload(f, rows) = None
BY DEF Payload

(* the payload of f stays when no row of f comes, goes or changes payload *)
LEMMA PayloadSame ==
  ASSUME NEW before \in SUBSET Rows, OneRow(before), NEW after \in SUBSET Rows, OneRow(after),
         NEW f,
         \A w \in before : w.file = f => \E v \in after : v.file = f /\ v.content = w.content,
         \A w \in after : w.file = f => \E v \in before : v.file = f
  PROVE  Payload(f, after) = Payload(f, before)
<1>1. CASE \E w \in before : w.file = f
  <2>1. PICK w \in before : w.file = f
    BY <1>1
  <2>2. PICK v \in after : v.file = f /\ v.content = w.content
    BY <2>1
  <2> QED BY <2>1, <2>2, PayloadOfRow
<1>2. CASE \A w \in before : w.file # f
  BY <1>2, PayloadOfNone
<1> QED BY <1>1, <1>2

(* A step of p after which it carries no more than before lets go. *)
LEMMA LetsGo ==
  ASSUME Sole, NEW p \in Procs,
         \A f \in Files : run'[p].docs[f] \in {run[p].docs[f], None},
         run'[p].due \subseteq run[p].due,
         run'[p].pc \in Retrying =>
           run'[p].row \in run[p].due \/ (run[p].pc \in Retrying /\ run'[p].row = run[p].row)
  PROVE  \A f \in Files : Held(f)' \subseteq Held(f)
<1>1. \A q \in Procs : q = p
  BY DEF Sole
<1>2. SUFFICES ASSUME NEW f \in Files, NEW c \in Held(f)'
               PROVE  c \in Held(f)
  OBVIOUS
<1>3. /\ c \in Contents
      /\ \/ run'[p].docs[f] = c
         \/ \E r \in run'[p].due : r.file = f /\ r.content = c
         \/ run'[p].pc \in Retrying /\ run'[p].row.file = f /\ run'[p].row.content = c
  BY <1>1 DEF Held, Retrying
<1>4. \/ run[p].docs[f] = c
      \/ \E r \in run[p].due : r.file = f /\ r.content = c
      \/ run[p].pc \in Retrying /\ run[p].row.file = f /\ run[p].row.content = c
  BY <1>3, NoneAssumption
<1> QED BY <1>3, <1>4 DEF Held, Retrying

LEMMA InitMaps == Init => Promise!Init
<1> SUFFICES ASSUME Init
             PROVE  Promise!Init
  OBVIOUS
<1>1. \A p \in Procs : /\ \A f \in Files : run[p].docs[f] = None
                       /\ run[p].due = {} /\ run[p].pc = "idle"
  BY DEF Init, IdleRun
<1>2. \A f \in Files : Held(f) = {}
  BY <1>1, NoneAssumption DEF Held
<1>3. \A f \in Files : Pending(f) = None
  BY DEF Init, Pending
<1> QED BY <1>2, <1>3 DEF Init, Promise!Init, NoRecord

(* what the steps need of the state *)
DeliveryInv == TypeInv /\ RowsInv /\ FailInv /\ Honest

LEMMA DeliveryStep ==
  ASSUME Sole, "isolated" \notin Answers, DeliveryInv, [Next]_vars
  PROVE  DeliveryInv'
BY TypeStep, RowsNext, FailNext, HonestNext DEF DeliveryInv

LEMMA StepMaps ==
  ASSUME Sole, "isolated" \notin Answers, DeliveryInv, [Next]_vars
  PROVE  [Promise!Next]_(Promise!vars)
<1>type. /\ queue \subseteq Rows /\ cleared \subseteq Files
         /\ disk \in [Files -> Contents] /\ files \in [Files -> FileRecords]
         /\ accepted \in [Files -> SUBSET Contents]
         /\ core' \in [Files -> Contents \cup {None}] /\ queue' \subseteq Rows
         /\ OneRow(queue) /\ OneRow(queue')
         /\ \A w \in queue : w.ext = w.file
  BY DeliveryStep DEF DeliveryInv, TypeInv, TypeOK, RowsInv, OneRowPerDocument, OneRow
<1>run. ASSUME NEW p \in Procs
        PROVE  /\ TypeInv /\ run[p] \in Runs /\ GoodShape(run[p])
               /\ RowsRun(run[p], queue, cleared)
               /\ HonestRun(run[p], accepted) /\ FailRun(run[p], queue, cleared)
  BY DEF DeliveryInv, TypeInv, TypeOK, Shape, GoodShape, Captured, RowsInv, Honest, FailInv
<1>payload. \A f \in Files : Pending(f) = Payload(f, queue) /\ Pending(f)' = Payload(f, queue')
  BY DEF Pending, Payload
<1>held. \A p \in Procs, f \in Files, c \in Contents : run[p].docs[f] = c => c \in Held(f)
  BY DEF Held
<1>still. ASSUME queue' = queue
          PROVE  \A f \in Files : Pending(f)' = Pending(f)
  BY <1>still DEF Pending
<1>hold. ASSUME UNCHANGED <<disk, core, accepted, files, cleared>>,
                \A f \in Files : Pending(f)' = Pending(f),
                \A f \in Files : Held(f)' \subseteq Held(f) \cup {disk[f], Pending(f)}
         PROVE  Promise!Hold
  BY <1>hold DEF Promise!Hold
<1>1. ASSUME NEW p \in Procs, BeginSync(p) \/ BeginRetry(p)
      PROVE  Promise!Hold
  <2>1. \A f \in Files : Held(f)' \subseteq Held(f)
    BY <1>1, <1>run, BeginMove, LetsGo DEF Retrying
  <2> QED BY <1>1, <1>still, <1>hold, <2>1 DEF BeginSync, BeginRetry
<1>2. ASSUME NEW p \in Procs, ConnectFails(p) \/ NoEndpoint(p) \/ FinishFails(p)
                                \/ EndRun(p) \/ Crash(p)
      PROVE  Promise!Hold
  <2>1. /\ \A f \in Files : IdleRun.docs[f] = None
        /\ IdleRun.due = {} /\ IdleRun.pc \notin Retrying
    BY DEF IdleRun, Retrying
  <2>2. \A f \in Files : Held(f)' \subseteq Held(f)
    BY <1>2, <1>run, <2>1, IdleMove, LetsGo
  <2>3. UNCHANGED <<disk, core, accepted, files, cleared, queue>>
    BY <1>2 DEF ConnectFails, NoEndpoint, FinishFails, Abort, EndRun, Crash
  <2> QED BY <1>still, <1>hold, <2>2, <2>3
<1>3. ASSUME NEW p \in Procs, NEW f \in Files, Scan(p, f)
      PROVE  Promise!Hold
  <2>1. /\ \A g \in Files : run'[p].docs[g] \in {run[p].docs[g], disk[g]}
        /\ run'[p].pc = "scan" /\ run'[p].due = run[p].due
    BY <1>3, <1>run, ScanMove
  <2>2. \A q \in Procs : q = p
    BY DEF Sole
  <2>3. \A g \in Files : Held(g)' \subseteq Held(g) \cup {disk[g]}
    BY <2>1, <2>2 DEF Held
  <2> QED BY <1>3, <1>still, <1>hold, <2>3 DEF Scan
<1>4. ASSUME NEW p \in Procs, Connect(p)
      PROVE  Promise!Hold
  <2>1. /\ run'[p].docs = run[p].docs
        /\ run'[p].pc = "export" /\ run'[p].due \subseteq queue
    BY <1>4, <1>run, ConnectMove
  <2>2. \A q \in Procs : q = p
    BY DEF Sole
  <2>3. \A w \in queue : Pending(w.file) = w.content
    BY <1>type, <1>payload, PayloadOfRow DEF Rows
  <2>4. \A g \in Files : Held(g)' \subseteq Held(g) \cup {Pending(g)}
    BY <2>1, <2>2, <2>3 DEF Held
  <2> QED BY <1>4, <1>still, <1>hold, <2>4 DEF Connect
<1>5. ASSUME NEW p \in Procs, NEW w \in run[p].due, Retry(p, w)
      PROVE  \E S \in SUBSET Files : Promise!Store(S)
  <2>1. PICK S \in SUBSET {w.file}, sent \in [Files -> {w.content}] : CoreStores(S, sent)
    BY <1>5, <1>run, RetryMove
  <2>2. \A f \in Files : Held(f)' \subseteq Held(f)
    BY <1>5, <1>run, RetryMove, LetsGo DEF Kept
  <2>3. w.file \in Files /\ w.content \in Contents
    BY <1>run DEF Runs, Rows
  <2>4. w.content \in Held(w.file)
    BY <2>3 DEF Held
  <2>5. \A f \in S : f = w.file /\ sent[f] = w.content
    BY <2>3
  <2>6. /\ \A f \in S : core'[f] \in Held(f)
        /\ \A f \in Files \ S : core'[f] = core[f]
        /\ accepted' = [f \in Files |->
             IF f \in S THEN accepted[f] \cup {core'[f]} ELSE accepted[f]]
    BY <2>1, <2>3, <2>4, <2>5 DEF CoreStores
  <2>7. Promise!Store(S)
    BY <1>5, <1>type, <1>still, <2>2, <2>3, <2>5, <2>6
    DEF Retry, Promise!Store, Promise!LetGo
  <2> QED BY <2>3, <2>5, <2>7
<1>6. ASSUME NEW p \in Procs, UploadBatch(p)
      PROVE  \E S \in SUBSET Files : Promise!Store(S)
  <2>1. PICK S \in SUBSET run[p].left : CoreStores(S, run[p].docs)
    BY <1>6, <1>run, UploadMove
  <2>2. /\ run[p].pc = "export" /\ run'[p].pc \in {"export", "select"}
        /\ run'[p].docs = run[p].docs /\ run'[p].due = run[p].due
    BY <1>6, <1>run, UploadMove
  <2>3. \A f \in Files : Held(f)' \subseteq Held(f)
    BY <2>2, LetsGo DEF Retrying
  <2>4. \A f \in S : f \in Files /\ run[p].docs[f] \in Contents
    BY <1>run, <2>2 DEF GoodShape, Runs
  <2>5. \A f \in S : core'[f] = run[p].docs[f] /\ core'[f] \in Held(f)
    BY <1>held, <2>1, <2>4 DEF CoreStores
  <2>6. Promise!Store(S)
    BY <1>6, <1>type, <1>still, <2>1, <2>3, <2>4, <2>5
    DEF UploadBatch, CoreStores, Promise!Store, Promise!LetGo
  <2> QED BY <2>4, <2>6
<1>7. ASSUME NEW p \in Procs, DeleteRow(p)
      PROVE  Promise!Hold \/ \E f \in Files : Promise!Delivered(f)
  <2>1. \A f \in Files : Held(f)' \subseteq Held(f)
    BY <1>7, <1>run, DeleteMove, LetsGo DEF Retrying, Kept
  <2>2. /\ run[p].pc = "settle" /\ TakenAsSuccess(run[p].answer)
        /\ queue' = {w \in queue : w.id # run[p].row.id}
        /\ UNCHANGED <<disk, core, accepted, files, cleared>>
    BY <1>7 DEF DeleteRow, At
  <2>3. CASE \E v \in queue : v.id = run[p].row.id
    <3>1. PICK w \in queue : w = run[p].row /\ \A v \in queue : v.id = w.id => v = w
      BY <1>run, <2>2, <2>3 DEF RowsRun, Untouched
    <3>2. w.file \in Files
      BY <1>type, <3>1 DEF Rows
    <3>3. Pending(w.file) = w.content
      BY <1>type, <1>payload, <3>1, <3>2, PayloadOfRow
    <3>4. w.content \in accepted[w.file]
      BY <1>run, <2>2, <3>1 DEF HonestRun
    <3>5. queue' = queue \ {w}
      BY <2>2, <3>1
    <3>6. Pending(w.file)' = None
      BY <1>type, <1>payload, <3>1, <3>2, <3>5, PayloadOfNone DEF OneRow
    <3>7. ASSUME NEW f \in Files, f # w.file
          PROVE  Pending(f)' = Pending(f)
      <4>1. Payload(f, queue') = Payload(f, queue)
        BY <1>type, <3>5, <3>7, PayloadSame
      <4> QED BY <1>payload, <4>1
    <3>8. Promise!Delivered(w.file)
      BY <2>1, <2>2, <3>2, <3>3, <3>4, <3>6, <3>7
      DEF Promise!Delivered, Promise!LetGo
    <3> QED BY <3>2, <3>8
  <2>4. CASE ~ \E v \in queue : v.id = run[p].row.id
    <3>1. queue' = queue
      BY <2>2, <2>4
    <3> QED BY <1>still, <1>hold, <2>1, <2>2, <3>1
  <2> QED BY <2>3, <2>4
<1>8. ASSUME NEW p \in Procs, StampRetried(p)
      PROVE  \E f \in Files, c \in Contents : Promise!NoteSynced(f, c)
  <2>1. \A f \in Files : Held(f)' \subseteq Held(f)
    BY <1>8, <1>run, SettledMove, LetsGo DEF Kept, Retrying
  <2> DEFINE w == run[p].row
  <2>2. run[p].pc = "stamp" /\ w.file \in Files /\ w.content \in Contents
    BY <1>8, <1>run DEF StampRetried, At, GoodShape, Rows
  <2>3. w.content \in accepted[w.file]
    BY <1>run, <2>2 DEF HonestRun
  <2>4. Promise!NoteSynced(w.file, w.content)
    BY <1>8, <1>still, <2>1, <2>2, <2>3
    DEF StampRetried, UpsertFile, Promise!NoteSynced, Promise!LetGo
  <2> QED BY <2>2, <2>4
<1>9. ASSUME NEW p \in Procs, \/ ReadRetries(p) \/ Finish(p)
                              \/ \E f \in Files : SelectRow(p, f)
      PROVE  Promise!Hold
  <2>1. \A f \in Files : Held(f)' \subseteq Held(f)
    BY <1>9, <1>run, SettledMove, FinishMove, SelectMove, LetsGo DEF Kept, Retrying
  <2>2. UNCHANGED <<disk, core, accepted, files, cleared, queue>>
    BY <1>9 DEF ReadRetries, Finish, SelectRow
  <2> QED BY <1>still, <1>hold, <2>1, <2>2
<1>rows. ASSUME NEW U, queue' = {U[w] : w \in queue},
                \A w \in queue : U[w].file = w.file /\ U[w].content = w.content
         PROVE  \A f \in Files : Pending(f)' = Pending(f)
  <2> SUFFICES ASSUME NEW f \in Files
               PROVE  Payload(f, queue') = Payload(f, queue)
    BY <1>payload
  <2>1. \A w \in queue : \E v \in queue' : v.file = w.file /\ v.content = w.content
    BY <1>rows
  <2>2. \A w \in queue' : \E v \in queue : v.file = w.file
    BY <1>rows
  <2> QED BY <1>type, <2>1, <2>2, PayloadSame
<1>10. ASSUME NEW p \in Procs, BumpRetries(p) \/ GiveUp(p)
       PROVE  Promise!Hold
  <2>1. \A f \in Files : Held(f)' \subseteq Held(f)
    BY <1>10, <1>run, SettledMove, LetsGo DEF Kept, Retrying
  <2>2. UNCHANGED <<disk, core, accepted, files, cleared>>
    BY <1>10 DEF BumpRetries, GiveUp
  <2> DEFINE n == IF run[p].pc = "bump" /\ run[p].read < RetryLimit THEN run[p].read + 1
                  ELSE RetryLimit
             d == IF run[p].pc = "bump" THEN FALSE ELSE TRUE
  <2>3. queue' = {IF w.id = run[p].row.id
                    THEN [w EXCEPT !.retries = n, !.due = d]
                    ELSE w : w \in queue}
    <3>1. CASE GiveUp(p)
      <4>1. n = RetryLimit /\ d = TRUE
        BY <3>1 DEF GiveUp, At
      <4> HIDE DEF n, d
      <4> QED BY <3>1, <4>1 DEF GiveUp
    <3>2. CASE BumpRetries(p)
      <4>1. d = FALSE /\ n = IF run[p].read < RetryLimit THEN run[p].read + 1 ELSE RetryLimit
        BY <3>2 DEF BumpRetries, At
      <4> HIDE DEF n, d
      <4> QED BY <3>2, <4>1 DEF BumpRetries
    <3> QED BY <1>10, <3>1, <3>2
  <2> HIDE DEF n, d
  <2> DEFINE U == [w \in queue |-> IF w.id = run[p].row.id
                                     THEN [w EXCEPT !.retries = n, !.due = d] ELSE w]
  <2>5. queue' = {U[w] : w \in queue}
    BY <2>3
  <2>6. \A w \in queue : U[w].file = w.file /\ U[w].content = w.content
    BY <1>type DEF Rows
  <2> HIDE DEF U
  <2>7. \A f \in Files : Pending(f)' = Pending(f)
    BY <1>rows, <2>5, <2>6
  <2> QED BY <1>hold, <2>1, <2>2, <2>7
<1>11. ASSUME NEW z \in queue, BackoffElapses(z)
       PROVE  Promise!Hold
  <2> DEFINE U == [w \in queue |-> IF w = z THEN [w EXCEPT !.due = TRUE] ELSE w]
  <2>1. queue' = {U[w] : w \in queue} /\ UNCHANGED <<disk, core, accepted, files, cleared, run>>
    BY <1>11 DEF BackoffElapses
  <2>2. \A w \in queue : U[w].file = w.file /\ U[w].content = w.content
    BY <1>type DEF Rows
  <2> HIDE DEF U
  <2>3. \A f \in Files : Pending(f)' = Pending(f)
    BY <1>rows, <2>1, <2>2
  <2>4. \A f \in Files : Held(f)' = Held(f)
    BY <2>1 DEF Held
  <2> QED BY <1>hold, <2>1, <2>3, <2>4
<1>12. ASSUME NEW p \in Procs, NEW f \in Files, WriteRow(p, f)
       PROVE  Promise!Hold \/ \E c \in Contents : Promise!Keep(f, c)
  <2> DEFINE content == run[p].docs[f]
             tries == IF IsRetryable(run[p].answer) THEN 0 ELSE RetryLimit
             updated(w) == [w EXCEPT !.file = f, !.content = content,
                                     !.retries = tries, !.due = TRUE]
             new(i) == [id |-> i, ext |-> f, file |-> f, content |-> content,
                        retries |-> tries, due |-> TRUE]
  <2>1. /\ run[p].pc = "write" /\ run'[p].pc \in {"export", "select"}
        /\ f \in run[p].batch /\ First(f, run[p].batch)
        /\ run'[p].due = run[p].due /\ run'[p].docs = run[p].docs
    BY <1>12, <1>run, WriteMove DEF First
  <2>2. \A g \in Files : Held(g)' \subseteq Held(g)
    BY <2>1, LetsGo DEF Retrying
  <2>3. Found(f, run[p].read, queue, cleared)
    BY <1>run, <2>1 DEF RowsRun
  <2>4. content \in Contents
    BY <1>run, <2>1 DEF GoodShape, Runs
  <2>5. \A w \in queue : updated(w).file = f /\ updated(w).content = content
    BY <1>type DEF Rows
  <2>6. \A i : new(i).file = f /\ new(i).content = content
    OBVIOUS
  <2>7. \/ /\ run[p].read # 0
           /\ queue' = {IF w.id = run[p].read THEN updated(w) ELSE w : w \in queue}
        \/ /\ run[p].read = 0
           /\ \E top \in Ids \cup {0} : queue' = queue \cup {new(top + 1)}
    BY <1>12 DEF WriteRow
  <2>8. /\ cleared' = IF run[p].read = 0 \/ run[p].read \in Ids THEN cleared \ {f} ELSE cleared
        /\ UNCHANGED <<disk, files, core, accepted>>
    BY <1>12 DEF WriteRow
  <2> HIDE DEF updated, new
  <2>9. CASE run[p].read = 0 \/ run[p].read \in Ids
    <3>1. \E v \in queue' : v.file = f /\ v.content = content
      <4>1. CASE run[p].read = 0
        BY <2>6, <2>7, <4>1
      <4>2. CASE run[p].read \in Ids /\ run[p].read # 0
        <5>1. PICK w \in queue : w.id = run[p].read
          BY <4>2 DEF Ids
        <5>2. updated(w) \in queue'
          BY <2>7, <4>2, <5>1
        <5> QED BY <2>5, <5>2
      <4> QED BY <2>9, <4>1, <4>2
    <3>2. Pending(f)' = content
      BY <1>type, <1>payload, <3>1, PayloadOfRow
    <3>3. ASSUME NEW g \in Files, g # f
          PROVE  Pending(g)' = Pending(g)
      <4>1. \A w \in queue : w.file = g => w \in queue'
        <5>1. \A w \in queue : w.file = g => run[p].read = 0 \/ w.id # run[p].read
          BY <1>type, <2>3, <3>3 DEF Found
        <5> QED BY <2>7, <5>1
      <4>2. \A w \in queue' : w.file = g => w \in queue
        BY <2>5, <2>6, <2>7, <3>3
      <4>3. Payload(g, queue') = Payload(g, queue)
        BY <1>type, <4>1, <4>2, PayloadSame
      <4> QED BY <1>payload, <4>3
    <3>4. content \in Held(f)
      BY <1>held, <2>4
    <3> HIDE DEF content
    <3>5. Promise!Keep(f, content)
      BY <2>2, <2>8, <2>9, <3>2, <3>3, <3>4 DEF Promise!Keep, Promise!LetGo
    <3> QED BY <2>4, <3>5
  <2>10. CASE run[p].read # 0 /\ run[p].read \notin Ids
    <3>1. queue' = queue
      BY <2>7, <2>10 DEF Ids
    <3> QED BY <1>still, <1>hold, <2>2, <2>8, <2>10, <3>1
  <2> QED BY <2>9, <2>10
<1>13. ASSUME NEW p \in Procs, NEW f \in Files, RecordSynced(p, f)
       PROVE  \E c \in Contents : Promise!NoteSynced(f, c)
  <2>1. /\ run[p].pc = "record" /\ run'[p].pc = "record" /\ f \in run[p].left
        /\ run'[p].due = run[p].due /\ run'[p].docs = run[p].docs
    BY <1>13, <1>run, RecordMove
  <2>2. \A g \in Files : Held(g)' \subseteq Held(g)
    BY <2>1, LetsGo DEF Retrying
  <2>3. run[p].docs[f] \in Contents
    BY <1>run, <2>1 DEF GoodShape, Runs
  <2>4. run[p].docs[f] \in accepted[f]
    BY <1>13, <1>run, <2>1, <2>3, NoneAssumption DEF HonestRun, RecordSynced, First
  <2>5. Promise!NoteSynced(f, run[p].docs[f])
    BY <1>13, <1>still, <2>2, <2>4
    DEF RecordSynced, UpsertFile, Promise!NoteSynced, Promise!LetGo
  <2> QED BY <2>3, <2>5
<1>14. ASSUME NEW p \in Procs, NEW f \in Files, RecordFailed(p, f)
       PROVE  \E c \in Contents : Promise!NoteFailed(f, c)
  <2>1. /\ run[p].pc = "record" /\ run'[p].pc = "record" /\ f \in run[p].left
        /\ run'[p].due = run[p].due /\ run'[p].docs = run[p].docs
    BY <1>14, <1>run, RecordMove
  <2>2. \A g \in Files : Held(g)' \subseteq Held(g)
    BY <2>1, LetsGo DEF Retrying
  <2>3. run[p].docs[f] \in Contents
    BY <1>run, <2>1 DEF GoodShape, Runs
  <2>4. f \in cleared \/ \E w \in queue : w.file = f /\ w.content = run[p].docs[f]
    BY <1>14, <1>run, <2>1 DEF GoodShape, FailRun, RecordFailed
  <2>5. f \in cleared \/ Pending(f) = run[p].docs[f]
    BY <1>type, <1>payload, <2>4, PayloadOfRow
  <2>6. Promise!NoteFailed(f, run[p].docs[f])
    BY <1>14, <1>still, <2>2, <2>5
    DEF RecordFailed, UpsertFile, Promise!NoteFailed, Promise!LetGo
  <2> QED BY <2>3, <2>6
<1>15. ASSUME NEW f \in Files, NEW c \in Contents, Edit(f, c)
       PROVE  Promise!Change(f, c)
  <2>1. \A g \in Files : Held(g)' = Held(g)
    BY <1>15 DEF Edit, Held
  <2> QED BY <1>15, <1>still, <2>1 DEF Edit, Promise!Change
<1>16. ASSUME NEW z \in queue, ClearQueue(z)
       PROVE  \E S \in SUBSET Files : Promise!Drop(S)
  <2> DEFINE S == {q.file : q \in {q \in queue : q.id <= z.id}}
  <2>1. /\ queue' = {q \in queue : q.id > z.id} /\ cleared' = cleared \cup S
        /\ UNCHANGED <<disk, files, run, core, accepted>>
    BY <1>16 DEF ClearQueue
  <2>2. S \in SUBSET Files
    BY <1>type DEF Rows
  <2>3. \A w \in queue : w.id \in Nat
    BY <1>type DEF Rows
  <2>4. ASSUME NEW f \in S
        PROVE  Pending(f)' = None
    <3>1. PICK w \in queue : w.file = f /\ w.id <= z.id
      OBVIOUS
    <3>2. \A v \in queue' : v.file # f
      BY <1>type, <2>1, <2>3, <3>1 DEF OneRow
    <3> QED BY <1>payload, <2>2, <3>2, PayloadOfNone
  <2>5. ASSUME NEW f \in Files \ S
        PROVE  Pending(f)' = Pending(f)
    <3>1. \A w \in queue : w.file = f => w \in queue'
      BY <2>1, <2>3
    <3>2. Payload(f, queue') = Payload(f, queue)
      BY <1>type, <2>1, <3>1, PayloadSame
    <3> QED BY <1>payload, <3>2
  <2>6. \A f \in Files : Held(f)' = Held(f)
    BY <2>1 DEF Held
  <2> HIDE DEF S
  <2>7. Promise!Drop(S)
    BY <2>1, <2>2, <2>4, <2>5, <2>6 DEF Promise!Drop
  <2> QED BY <2>2, <2>7
<1>17. CASE UNCHANGED vars
  <2>1. \A f \in Files : Held(f)' = Held(f) /\ Pending(f)' = Pending(f)
    BY <1>17 DEF vars, Held, Pending
  <2> QED BY <1>17, <2>1 DEF vars, Promise!vars
<1>18. CASE Next
  <2>1. Promise!Next
    BY <1>1, <1>2, <1>3, <1>4, <1>5, <1>6, <1>7, <1>8, <1>9, <1>10, <1>11, <1>12, <1>13,
       <1>14, <1>15, <1>16, <1>18
    DEF Next, Advance, Promise!Next
  <2> QED BY <2>1
<1> QED BY <1>17, <1>18

(* A sync keeps the promise of Delivery when processes run one at a time    *)
(* and Core refuses no single documents: every step of a run, of an         *)
(* operator or of the environment is one of Delivery's or changes nothing   *)
(* there (exporters/incidentops_api.py, core/pipeline.py:249-278).          *)
THEOREM KeepsThePromise ==
  ASSUME Sole, "isolated" \notin Answers
  PROVE  Spec => ImplementsDelivery
<1>1. Init => DeliveryInv /\ Promise!Init
  BY TypeInit, RowsInit, FailInit, HonestInit, InitMaps DEF DeliveryInv
<1>2. DeliveryInv /\ [Next]_vars => DeliveryInv' /\ [Promise!Next]_(Promise!vars)
  BY DeliveryStep, StepMaps
<1> QED BY <1>1, <1>2, PTL DEF Spec, ImplementsDelivery, Promise!Spec

=============================================================================
