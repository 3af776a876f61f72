------------------------- MODULE SyncProgressProofs -------------------------
(***************************************************************************)
(* Theorems about CollectorSync: every step of a run brings it closer to   *)
(* its end, in an order without infinite descents, while processes         *)
(* interleave and crash as they like; and the retries of a failed upload   *)
(* run out.                                                                *)
(***************************************************************************)
EXTENDS SyncQueueProofs, FiniteSetTheorems

-----------------------------------------------------------------------------
(* A batch is never empty *)

(* A non-empty set of files has a first one: the subsets {0..n : n in S}    *)
(* are finite, so one of them is the smallest.                              *)
LEMMA SomeFirst ==
  ASSUME NEW S \in SUBSET Files, S # {}
  PROVE  \E f \in S : First(f, S)
<1> DEFINE T == {0..f : f \in S}
<1>nat. S \subseteq Nat
  BY FilesAssumption
<1>1. T \subseteq FiniteSubsetsOf(Nat) /\ T # {}
  <2>1. \A f \in S : 0..f \in SUBSET Nat
    BY <1>nat
  <2>2. \A f \in S : IsFiniteSet(0..f)
    BY <1>nat, FS_Interval
  <2> QED BY <2>1, <2>2 DEF FiniteSubsetsOf
<1>2. IsWellFoundedOn(StrictSubsetOrdering(Nat), FiniteSubsetsOf(Nat))
  BY FS_StrictSubsetOrderingWellFounded
<1> HIDE DEF T
<1>3. PICK x \in T : \A y \in T : <<y, x>> \notin StrictSubsetOrdering(Nat)
  BY <1>1, <1>2, WFMin
<1>4. PICK f \in S : x = 0..f
  BY <1>3 DEF T
<1>5. ASSUME NEW g \in S, g < f
      PROVE  FALSE
  <2>1. f \in Nat /\ g \in Nat
    BY <1>nat
  <2>2. 0..g \subseteq 0..f /\ 0..g # 0..f
    <3>1. f \in 0..f /\ f \notin 0..g
      BY <1>5, <2>1
    <3>2. \A i \in 0..g : i \in 0..f
      BY <1>5, <2>1
    <3> QED BY <3>1, <3>2
  <2>3. 0..g \in T /\ 0..g \in SUBSET Nat /\ x \in SUBSET Nat
    BY <1>4, <2>1 DEF T
  <2>4. <<0..g, x>> \in StrictSubsetOrdering(Nat)
    BY <1>4, <2>2, <2>3 DEF StrictSubsetOrdering
  <2> QED BY <1>3, <2>3, <2>4
<1> QED BY <1>nat, <1>5 DEF First

LEMMA BatchNotEmpty ==
  ASSUME NEW S \in SUBSET Files, S # {}
  PROVE  NextBatch(S) # {}
<1>1. PICK f \in S : First(f, S)
  BY SomeFirst
<1>2. {g \in S : g < f} = {}
  <2>1. \A g \in S : f \in Nat /\ g \in Nat /\ f <= g
    BY <1>1, FilesAssumption DEF First
  <2>2. \A g \in S : ~(g < f)
    BY <2>1
  <2> QED BY <2>2
<1>3. Cardinality({g \in S : g < f}) < BatchSize
  BY <1>2, FS_EmptySet, LimitsAssumption
<1> QED BY <1>3 DEF NextBatch

-----------------------------------------------------------------------------
(* The order is well founded *)

(* the local states of runs whose lists are finite *)
FiniteRuns ==
  {r \in Runs : IsFiniteSet(r.due) /\ IsFiniteSet(r.left) /\ IsFiniteSet(r.batch)}

CloserOrder == {step \in FiniteRuns \X FiniteRuns : Closer(step[1], step[2])}

(* a family of finite sets has a smallest member *)
LEMMA SomeSmallest ==
  ASSUME NEW U, NEW T \in SUBSET FiniteSubsetsOf(U), T # {}
  PROVE  \E x \in T : \A y \in T : ~Smaller(y, x)
<1>1. IsWellFoundedOn(StrictSubsetOrdering(U), FiniteSubsetsOf(U))
  BY FS_StrictSubsetOrderingWellFounded
<1>2. PICK x \in T : \A y \in T : <<y, x>> \notin StrictSubsetOrdering(U)
  BY <1>1, WFMin
<1>3. \A y \in T : y \in SUBSET U
  BY DEF FiniteSubsetsOf
<1> QED BY <1>2, <1>3 DEF StrictSubsetOrdering, Smaller

(* a member of T that no other is above, by a measure of 1 to 4 *)
LEMMA SomeHighest ==
  ASSUME NEW T, T # {}, NEW m, \A r \in T : m[r] \in 1..4
  PROVE  \E x \in T : \A y \in T : m[y] <= m[x]
<1>1. CASE \E x \in T : m[x] = 4
  BY <1>1
<1>2. CASE (\E x \in T : m[x] = 3) /\ \A x \in T : m[x] # 4
  <2>1. \A x \in T : m[x] \in 1..3
    BY <1>2
  <2> QED BY <1>2, <2>1
<1>3. CASE (\E x \in T : m[x] = 2) /\ \A x \in T : m[x] \notin {3, 4}
  <2>1. \A x \in T : m[x] \in 1..2
    BY <1>3
  <2> QED BY <1>3, <2>1
<1>4. CASE \A x \in T : m[x] \notin {2, 3, 4}
  <2>1. \A x \in T : m[x] = 1
    BY <1>4
  <2> QED BY <2>1
<1> QED BY <1>1, <1>2, <1>3, <1>4

(* No run goes on for ever: an infinite sequence of local states each       *)
(* closer to the end than the one before does not exist                     *)
(* (exporters/incidentops_api.py:94-119, 185-229).                          *)
THEOREM CloserIsWellFounded == IsWellFoundedOn(CloserOrder, FiniteRuns)
<1> SUFFICES ASSUME NEW T \in SUBSET FiniteRuns, T # {}
             PROVE  \E x \in T : \A y \in T : <<y, x>> \notin CloserOrder
  BY MinWF
<1>type. ASSUME NEW r \in T
         PROVE  /\ r.due \in FiniteSubsetsOf(Rows)
                /\ r.left \in FiniteSubsetsOf(Files)
                /\ r.batch \in FiniteSubsetsOf(Files)
                /\ r.pc \in RunStates
  BY DEF FiniteRuns, Runs, FiniteSubsetsOf
<1>1. PICK a \in T : \A y \in T : Loop(y.pc) <= Loop(a.pc)
  <2> DEFINE m == [r \in T |-> Loop(r.pc)]
  <2>1. \A r \in T : m[r] \in 1..4
    BY DEF Loop
  <2>2. PICK x \in T : \A y \in T : m[y] <= m[x]
    <3> HIDE DEF m
    <3> QED BY <2>1, SomeHighest
  <2> QED BY <2>2
<1> DEFINE T1 == {r \in T : Loop(r.pc) = Loop(a.pc)}
<1>2. PICK b \in T1 : \A y \in T1 : ~Smaller(y.due, b.due)
  <2> DEFINE D == {r.due : r \in T1}
  <2>1. D \in SUBSET FiniteSubsetsOf(Rows) /\ D # {}
    BY <1>type
  <2>2. PICK x \in D : \A y \in D : ~Smaller(y, x)
    <3> HIDE DEF D
    <3> QED BY <2>1, SomeSmallest
  <2> QED BY <2>2
<1> DEFINE T2 == {r \in T1 : r.due = b.due}
<1>3. PICK c \in T2 : \A y \in T2 : ~Smaller(y.left, c.left)
  <2> DEFINE D == {r.left : r \in T2}
  <2>1. D \in SUBSET FiniteSubsetsOf(Files) /\ D # {}
    BY <1>type
  <2>2. PICK x \in D : \A y \in D : ~Smaller(y, x)
    <3> HIDE DEF D
    <3> QED BY <2>1, SomeSmallest
  <2> QED BY <2>2
<1> DEFINE T3 == {r \in T2 : r.left = c.left}
<1>4. PICK d \in T3 : \A y \in T3 : ~Smaller(y.batch, d.batch)
  <2> DEFINE D == {r.batch : r \in T3}
  <2>1. D \in SUBSET FiniteSubsetsOf(Files) /\ D # {}
    BY <1>type
  <2>2. PICK x \in D : \A y \in D : ~Smaller(y, x)
    <3> HIDE DEF D
    <3> QED BY <2>1, SomeSmallest
  <2> QED BY <2>2
<1> DEFINE T4 == {r \in T3 : r.batch = d.batch}
<1>5. PICK e \in T4 : \A y \in T4 : Place(y.pc) <= Place(e.pc)
  <2> DEFINE m == [r \in T4 |-> Place(r.pc)]
  <2>1. \A r \in T4 : m[r] \in 1..4
    BY DEF Place
  <2>2. T4 # {}
    OBVIOUS
  <2>3. PICK x \in T4 : \A y \in T4 : m[y] <= m[x]
    <3> HIDE DEF m, T4
    <3> QED BY <2>1, <2>2, SomeHighest
  <2> QED BY <2>3
<1>6. ASSUME NEW y \in T, Closer(y, e)
      PROVE  FALSE
  <2>1. \A pc : Loop(pc) \in 1..4 /\ Place(pc) \in 1..3
    BY DEF Loop, Place
  <2>2. e \in T /\ Loop(e.pc) = Loop(a.pc) /\ e.due = b.due /\ e.left = c.left
        /\ e.batch = d.batch
    OBVIOUS
  <2>3. Loop(y.pc) = Loop(e.pc)
    BY <1>1, <1>6, <2>1, <2>2 DEF Closer
  <2>4. y \in T1 /\ ~Smaller(y.due, e.due) /\ ~(Loop(y.pc) > Loop(e.pc))
    BY <1>2, <2>1, <2>2, <2>3
  <2>5. y.due = e.due
    BY <1>6, <2>4 DEF Closer
  <2>6. y \in T2 /\ ~Smaller(y.left, e.left)
    BY <1>3, <2>2, <2>4, <2>5
  <2>7. y.left = e.left
    BY <1>6, <2>4, <2>6 DEF Closer
  <2>8. y \in T3 /\ ~Smaller(y.batch, e.batch)
    BY <1>4, <2>2, <2>6, <2>7
  <2>9. y.batch = e.batch /\ Place(y.pc) > Place(e.pc)
    <3>1. ~Smaller(y.due, e.due) /\ ~Smaller(y.left, e.left) /\ ~Smaller(y.batch, e.batch)
      BY <2>4, <2>6, <2>8
    <3> QED BY <1>6, <2>4, <3>1 DEF Closer
  <2>10. y \in T4
    BY <2>2, <2>8, <2>9
  <2>11. Place(y.pc) <= Place(e.pc)
    BY <1>5, <2>10
  <2> QED BY <2>1, <2>9, <2>11
<1>7. e \in T
  OBVIOUS
<1> QED BY <1>6, <1>7 DEF CloserOrder

-----------------------------------------------------------------------------
(* Every step of a run goes down that order *)

LEMMA ScanComesCloser ==
  ASSUME TypeInv, NEW p \in Procs, NEW f \in Files, Scan(p, f)
  PROVE  Closer(run'[p], run[p])
<1> DEFINE d == IF Unchanged(f) /\ ~run[p].force
                  THEN run[p].docs ELSE [run[p].docs EXCEPT ![f] = disk[f]]
           r == [run[p] EXCEPT !.left = @ \ {f}, !.docs = d]
<1>1. run' = [run EXCEPT ![p] = r] /\ f \in run[p].left
  BY DEF Scan, First
<1>type. run[p] \in Runs /\ run \in [Procs -> Runs]
  BY DEF TypeInv, TypeOK
<1> HIDE DEF d
<1>2. r.pc = run[p].pc /\ r.due = run[p].due /\ r.left = run[p].left \ {f}
  BY <1>type DEF Runs
<1> HIDE DEF r
<1>3. Smaller(run'[p].left, run[p].left)
  BY <1>1, <1>2, <1>type DEF Smaller
<1> QED BY <1>1, <1>2, <1>3, <1>type DEF Closer

LEMMA RetryComesCloser ==
  ASSUME TypeInv, NEW p \in Procs, NEW w \in run[p].due, Retry(p, w)
  PROVE  Closer(run'[p], run[p])
<1>1. PICK t, a : run' = [run EXCEPT ![p].pc = "settle", ![p].row = w, ![p].due = @ \ {w},
                                     ![p].answer = a, ![p].trouble = t]
  BY DEF Retry
<1> DEFINE r == [run[p] EXCEPT !.pc = "settle", !.row = w, !.due = @ \ {w},
                               !.answer = a, !.trouble = t]
<1>type. run[p] \in Runs /\ run \in [Procs -> Runs]
  BY DEF TypeInv, TypeOK
<1>2. r.pc = "settle" /\ r.due = run[p].due \ {w}
  BY <1>type DEF Runs
<1>3. run'[p] = r
  BY <1>1, <1>type
<1> HIDE DEF r
<1>4. Smaller(run'[p].due, run[p].due)
  BY <1>2, <1>3 DEF Smaller
<1>5. run[p].pc = "export"
  BY DEF Retry, At
<1> QED BY <1>2, <1>3, <1>4, <1>5 DEF Closer, Loop

LEMMA UploadComesCloser ==
  ASSUME TypeInv, NEW p \in Procs, UploadBatch(p)
  PROVE  Closer(run'[p], run[p])
<1> DEFINE B == NextBatch(run[p].left)
<1>type. run[p] \in Runs /\ run \in [Procs -> Runs]
  BY DEF TypeInv, TypeOK
<1>1. PICK next \in {"export", "select"} : \E a, t, bad :
        run' = [run EXCEPT ![p].left = @ \ B, ![p].answer = a, ![p].pc = next,
                           ![p].batch = bad, ![p].trouble = t]
  <2>1. PICK a \in Answers :
          run' = [run EXCEPT
            ![p].left = @ \ B,
            ![p].answer = IF TakenAsSuccess(a) THEN "none" ELSE a,
            ![p].pc = IF TakenAsSuccess(a) THEN "export" ELSE "select",
            ![p].batch = IF TakenAsSuccess(a) THEN {} ELSE B,
            ![p].trouble = @ \/ ~TakenAsSuccess(a)]
    BY DEF UploadBatch
  <2>2. (IF TakenAsSuccess(a) THEN "export" ELSE "select") \in {"export", "select"}
    OBVIOUS
  <2> HIDE DEF B
  <2> QED BY <2>1, <2>2
<1>a. PICK a, t, bad :
        run' = [run EXCEPT ![p].left = @ \ B, ![p].answer = a, ![p].pc = next,
                           ![p].batch = bad, ![p].trouble = t]
  BY <1>1
<1>2. B # {} /\ B \subseteq run[p].left
  <2>1. run[p].left # {} /\ run[p].left \in SUBSET Files
    BY <1>type DEF UploadBatch, Runs
  <2> QED BY <2>1, BatchNotEmpty DEF NextBatch
<1> HIDE DEF B
<1> DEFINE r == [run[p] EXCEPT !.left = @ \ B, !.answer = a, !.pc = next,
                               !.batch = bad, !.trouble = t]
<1>3. r.pc = next /\ r.left = run[p].left \ B /\ r.due = run[p].due
  BY <1>type DEF Runs
<1>4. run'[p] = r
  BY <1>a, <1>type
<1> HIDE DEF r
<1>5. Smaller(run'[p].left, run[p].left)
  BY <1>2, <1>3, <1>4 DEF Smaller
<1>6. run[p].pc = "export"
  BY DEF UploadBatch, At
<1> QED BY <1>3, <1>4, <1>5, <1>6 DEF Closer, Loop

LEMMA SettleComesCloser ==
  ASSUME TypeInv, NEW p \in Procs,
         DeleteRow(p) \/ StampRetried(p) \/ ReadRetries(p) \/ BumpRetries(p) \/ GiveUp(p)
  PROVE  Closer(run'[p], run[p])
<1>1. CASE run' = BackToExport(p)
  <2>1. run'[p].pc = "export" /\ Kept(run[p], run'[p]) /\ run'[p].due = run[p].due
    BY <1>1, BackMove
  <2>2. run[p].pc \in {"settle", "stamp", "bump"}
    BY DEF DeleteRow, StampRetried, ReadRetries, BumpRetries, GiveUp, At
  <2> QED BY <2>1, <2>2 DEF Closer, Kept, Loop, Place
<1>2. ASSUME NEW i, run' = [run EXCEPT ![p].pc = "bump", ![p].read = i], run[p].pc = "settle"
      PROVE  Closer(run'[p], run[p])
  <2>1. /\ run'[p].pc = "bump" /\ Kept(run[p], run'[p]) /\ run'[p].due = run[p].due
    BY <1>2 DEF TypeInv, TypeOK, Runs, Kept
  <2> QED BY <1>2, <2>1 DEF Closer, Kept, Loop, Place
<1>3. CASE DeleteRow(p)
  BY <1>3, DeleteMove DEF Closer, Kept, Loop, Place
<1> QED BY <1>1, <1>2, <1>3 DEF StampRetried, ReadRetries, BumpRetries, GiveUp, At

LEMMA QueueingComesCloser ==
  ASSUME TypeInv, NEW p \in Procs, NEW f \in Files, SelectRow(p, f) \/ WriteRow(p, f)
  PROVE  Closer(run'[p], run[p])
<1>1. CASE SelectRow(p, f)
  BY <1>1, SelectMove DEF Closer, Loop, Place
<1>2. CASE WriteRow(p, f)
  <2>1. /\ run[p].pc = "write" /\ run'[p].pc \in {"export", "select"}
        /\ run'[p].due = run[p].due /\ run'[p].left = run[p].left
        /\ run'[p].batch = run[p].batch \ {f} /\ f \in run[p].batch
    BY <1>2, WriteMove DEF First
  <2>2. Smaller(run'[p].batch, run[p].batch)
    BY <2>1 DEF Smaller
  <2> QED BY <2>1, <2>2 DEF Closer, Loop
<1> QED BY <1>1, <1>2

LEMMA RecordComesCloser ==
  ASSUME TypeInv, NEW p \in Procs, NEW f \in Files, RecordSynced(p, f) \/ RecordFailed(p, f)
  PROVE  Closer(run'[p], run[p])
<1>1. /\ run'[p].left = run[p].left \ {f} /\ run'[p].due = run[p].due
      /\ run'[p].pc = run[p].pc
  BY DEF RecordSynced, RecordFailed, TypeInv, TypeOK, Runs
<1>2. f \in run[p].left
  BY DEF RecordSynced, RecordFailed, First
<1> QED BY <1>1, <1>2 DEF Closer, Smaller

LEMMA AdvanceComesCloser ==
  ASSUME TypeInv, NEW p \in Procs, Advance(p) \/ Crash(p), ~At(p, "idle")
  PROVE  Closer(run'[p], run[p])
<1>1. CASE ConnectFails(p) \/ NoEndpoint(p) \/ FinishFails(p) \/ EndRun(p) \/ Crash(p)
  <2>1. run'[p].pc = "idle"
    BY <1>1, IdleMove DEF IdleRun
  <2> QED BY <2>1 DEF At, Closer, Loop
<1>2. CASE Connect(p)
  BY <1>2, ConnectMove DEF Closer, Loop
<1>3. CASE Finish(p)
  BY <1>3, FinishMove DEF Closer, Loop
<1> QED
  BY <1>1, <1>2, <1>3, ScanComesCloser, RetryComesCloser, UploadComesCloser,
     SettleComesCloser, QueueingComesCloser, RecordComesCloser
  DEF Advance

(* A step of one process leaves the others as they are. *)
LEMMA OthersStay ==
  ASSUME TypeInv, NEW q \in Procs, NEW p \in Procs, p # q,
         BeginSync(q) \/ BeginRetry(q) \/ Advance(q) \/ Crash(q)
  PROVE  run'[p] = run[p]
<1>type. run \in [Procs -> Runs]
  BY DEF TypeInv, TypeOK
<1>1. CASE BeginSync(q) \/ BeginRetry(q) \/ Crash(q)
  BY <1>1, <1>type DEF BeginSync, BeginRetry, Crash
<1>2. CASE Connect(q) \/ ConnectFails(q) \/ NoEndpoint(q) \/ Finish(q) \/ FinishFails(q)
           \/ EndRun(q)
  BY <1>2, <1>type DEF Connect, ConnectFails, NoEndpoint, Finish, FinishFails, Abort, EndRun
<1>3. CASE DeleteRow(q) \/ StampRetried(q) \/ ReadRetries(q) \/ BumpRetries(q) \/ GiveUp(q)
  BY <1>3, <1>type DEF DeleteRow, StampRetried, ReadRetries, BumpRetries, GiveUp, BackToExport
<1>4. ASSUME NEW w \in run[q].due, Retry(q, w)
      PROVE  run'[p] = run[p]
  BY <1>4, <1>type DEF Retry
<1>5. CASE UploadBatch(q)
  BY <1>5, <1>type DEF UploadBatch
<1>6. ASSUME NEW f \in Files, Scan(q, f) \/ SelectRow(q, f) \/ RecordSynced(q, f)
                                \/ RecordFailed(q, f)
      PROVE  run'[p] = run[p]
  BY <1>6, <1>type DEF Scan, SelectRow, RecordSynced, RecordFailed
<1>7. ASSUME NEW f \in Files, WriteRow(q, f)
      PROVE  run'[p] = run[p]
  BY <1>7, <1>type DEF WriteRow, BackToExport
<1> QED BY <1>1, <1>2, <1>3, <1>4, <1>5, <1>6, <1>7 DEF Advance

(* Every step of a run brings it closer to its end, whatever Core answers,  *)
(* whatever other processes do between its steps and wherever they crash    *)
(* (exporters/incidentops_api.py:94-119, 185-229).                          *)
THEOREM RunsAlwaysComeCloser == Spec => RunsComeCloser
<1> DEFINE Step == \A p \in Procs :
                     ~At(p, "idle") /\ run'[p] # run[p] => Closer(run'[p], run[p])
<1>1. TypeInv /\ [Next]_vars => [Step]_vars
  <2> SUFFICES ASSUME TypeInv, Next, NEW p \in Procs, ~At(p, "idle"), run'[p] # run[p]
               PROVE  Closer(run'[p], run[p])
    OBVIOUS
  <2>1. PICK q \in Procs : BeginSync(q) \/ BeginRetry(q) \/ Advance(q) \/ Crash(q)
    BY DEF Next, Edit, BackoffElapses, ClearQueue
  <2>2. q = p
    BY <2>1, OthersStay
  <2> QED BY <2>1, <2>2, AdvanceComesCloser DEF BeginSync, BeginRetry
<1> QED BY <1>1, TypeInit, TypeStep, PTL DEF Spec, RunsComeCloser

-----------------------------------------------------------------------------
(* The lists a run walks are finite *)

LEMMA ImageIsFinite ==
  ASSUME NEW S, IsFiniteSet(S), NEW U, U = [w \in S |-> U[w]]
  PROVE  IsFiniteSet({U[w] : w \in S})
<1> DEFINE T == {U[w] : w \in S}
<1>1. U \in Surjection(S, T)
  BY DEF Surjection
<1> HIDE DEF T
<1>2. IsFiniteSet(T)
  BY <1>1, FS_Surjection
<1> QED BY <1>2 DEF T

LEMMA QueueUnwritten ==
  ASSUME NEW p \in Procs, Advance(p), ~BumpRetries(p), ~GiveUp(p),
         \A f \in Files : ~WriteRow(p, f)
  PROVE  queue' \subseteq queue
<1>1. /\ \A f \in Files : Scan(p, f) \/ SelectRow(p, f) => queue' = queue
      /\ \A f \in Files : RecordSynced(p, f) \/ RecordFailed(p, f) => queue' = queue
      /\ \A w \in run[p].due : Retry(p, w) => queue' = queue
  BY DEF Scan, SelectRow, RecordSynced, RecordFailed, Retry
<1>2. Connect(p) \/ ConnectFails(p) \/ StampRetried(p) \/ ReadRetries(p) => queue' = queue
  BY DEF Connect, ConnectFails, StampRetried, ReadRetries
<1>3. UploadBatch(p) => queue' = queue
  BY DEF UploadBatch
<1>4. NoEndpoint(p) \/ Finish(p) \/ FinishFails(p) \/ EndRun(p) => queue' = queue
  BY DEF NoEndpoint, Finish, FinishFails, Abort, EndRun
<1>5. DeleteRow(p) => queue' \subseteq queue
  BY DEF DeleteRow
<1> QED BY <1>1, <1>2, <1>3, <1>4, <1>5 DEF Advance

LEMMA QueueStaysFinite ==
  ASSUME IsFiniteSet(queue), [Next]_vars
  PROVE  IsFiniteSet(queue')
<1>same. queue' = queue => IsFiniteSet(queue')
  OBVIOUS
<1>fewer. queue' \subseteq queue => IsFiniteSet(queue')
  BY FS_Subset
<1>1. ASSUME NEW p \in Procs, BumpRetries(p)
      PROVE  IsFiniteSet(queue')
  <2> DEFINE n == IF run[p].read < RetryLimit THEN run[p].read + 1 ELSE RetryLimit
             U == [w \in queue |-> IF w.id = run[p].row.id
                                      THEN [w EXCEPT !.retries = n, !.due = FALSE] ELSE w]
  <2>1. queue' = {U[w] : w \in queue}
    BY <1>1 DEF BumpRetries
  <2>2. U = [w \in queue |-> U[w]]
    OBVIOUS
  <2> HIDE DEF U
  <2> QED BY <2>1, <2>2, ImageIsFinite
<1>2. ASSUME NEW p \in Procs, GiveUp(p)
      PROVE  IsFiniteSet(queue')
  <2> DEFINE U == [w \in queue |-> IF w.id = run[p].row.id
                                      THEN [w EXCEPT !.retries = RetryLimit, !.due = TRUE] ELSE w]
  <2>1. queue' = {U[w] : w \in queue}
    BY <1>2 DEF GiveUp
  <2>2. U = [w \in queue |-> U[w]]
    OBVIOUS
  <2> HIDE DEF U
  <2> QED BY <2>1, <2>2, ImageIsFinite
<1>3. ASSUME NEW p \in Procs, NEW f \in Files, WriteRow(p, f)
      PROVE  IsFiniteSet(queue')
  <2> DEFINE content == run[p].docs[f]
             tries == IF IsRetryable(run[p].answer) THEN 0 ELSE RetryLimit
             U == [w \in queue |-> IF w.id = run[p].read
                                      THEN [w EXCEPT !.file = f, !.content = content,
                                                     !.retries = tries, !.due = TRUE]
                                      ELSE w]
  <2>1. \/ queue' = {U[w] : w \in queue}
        \/ \E new : queue' = queue \cup {new}
    BY <1>3 DEF WriteRow
  <2>2. U = [w \in queue |-> U[w]]
    OBVIOUS
  <2> HIDE DEF U
  <2> QED BY <2>1, <2>2, ImageIsFinite, FS_AddElement
<1>4. ASSUME NEW z \in queue, BackoffElapses(z)
      PROVE  IsFiniteSet(queue')
  <2>1. queue' = (queue \ {z}) \cup {[z EXCEPT !.due = TRUE]}
    BY <1>4 DEF BackoffElapses
  <2> QED BY <2>1, FS_RemoveElement, FS_AddElement
<1>5. ASSUME NEW p \in Procs, Advance(p), ~BumpRetries(p), ~GiveUp(p),
             \A f \in Files : ~WriteRow(p, f)
      PROVE  queue' \subseteq queue
  BY <1>5, QueueUnwritten
<1>6. ASSUME NEW z \in queue, ClearQueue(z)
      PROVE  queue' \subseteq queue
  BY <1>6 DEF ClearQueue
<1>7. CASE UNCHANGED vars
  BY <1>7 DEF vars
<1> QED
  BY <1>1, <1>2, <1>3, <1>4, <1>5, <1>6, <1>7, <1>same, <1>fewer
  DEF Next, BeginSync, BeginRetry, Crash, Edit

(* A run reads its rows once and only drops them from its list. *)
LEMMA DueNeverGrows ==
  ASSUME TypeInv, NEW p \in Procs,
         BeginSync(p) \/ BeginRetry(p) \/ Advance(p) \/ Crash(p)
  PROVE  run'[p].due \subseteq run[p].due \/ run'[p].due \subseteq queue
<1>1. CASE BeginSync(p) \/ BeginRetry(p)
  BY <1>1, BeginMove
<1>2. CASE ConnectFails(p) \/ NoEndpoint(p) \/ FinishFails(p) \/ EndRun(p) \/ Crash(p)
  BY <1>2, IdleMove DEF IdleRun
<1>3. CASE DeleteRow(p) \/ StampRetried(p) \/ ReadRetries(p) \/ BumpRetries(p) \/ GiveUp(p)
  BY <1>3, DeleteMove, SettledMove
<1>4. CASE Connect(p) \/ UploadBatch(p) \/ Finish(p)
  BY <1>4, ConnectMove, UploadMove, FinishMove
<1>5. ASSUME NEW f \in Files, \/ Scan(p, f) \/ SelectRow(p, f) \/ WriteRow(p, f)
                               \/ RecordSynced(p, f) \/ RecordFailed(p, f)
      PROVE  run'[p].due \subseteq run[p].due
  BY <1>5, ScanMove, SelectMove, WriteMove, RecordMove
<1>6. ASSUME NEW w \in run[p].due, Retry(p, w)
      PROVE  run'[p].due \subseteq run[p].due
  BY <1>6, RetryMove
<1> QED BY <1>1, <1>2, <1>3, <1>4, <1>5, <1>6 DEF Advance

(* The local states of runs stay in the domain of that order: with a finite *)
(* number of files the queue is finite, and so is every list a run walks    *)
(* (exporters/incidentops_api.py:185, state/sqlite_store.py:165-180).       *)
THEOREM RunsStayFinite ==
  ASSUME IsFiniteSet(Files)
  PROVE  Spec => [](\A p \in Procs : run[p] \in FiniteRuns)
<1> DEFINE Lists == \A p \in Procs : IsFiniteSet(run[p].due)
           Inv == TypeInv /\ IsFiniteSet(queue) /\ Lists
<1>1. Init => Inv
  <2>1. Init => IsFiniteSet(queue) /\ Lists
    <3>1. IdleRun.due = {}
      BY DEF IdleRun
    <3>2. Init => queue = {} /\ \A p \in Procs : run[p].due = {}
      BY <3>1 DEF Init
    <3> QED BY <3>2, FS_EmptySet
  <2> QED BY <2>1, TypeInit
<1>2. Inv /\ [Next]_vars => Inv'
  <2> SUFFICES ASSUME Inv, [Next]_vars
               PROVE  Inv'
    OBVIOUS
  <2>1. TypeInv' /\ IsFiniteSet(queue')
    BY TypeStep, QueueStaysFinite
  <2>2. ASSUME NEW p \in Procs
        PROVE  \/ run'[p].due \subseteq run[p].due
               \/ run'[p].due \subseteq queue
    <3>1. ASSUME NEW q \in Procs, BeginSync(q) \/ BeginRetry(q) \/ Advance(q) \/ Crash(q)
          PROVE  \/ run'[p].due \subseteq run[p].due
                 \/ run'[p].due \subseteq queue
      <4>1. CASE q = p
        BY <3>1, <4>1, DueNeverGrows
      <4>2. CASE q # p
        BY <3>1, <4>2, OthersStay
      <4> QED BY <4>1, <4>2
    <3> QED BY <3>1 DEF Next, Edit, BackoffElapses, ClearQueue, vars
  <2>3. Lists'
    BY <2>2, FS_Subset
  <2> QED BY <2>1, <2>3
<1>3. Inv => \A p \in Procs : run[p] \in FiniteRuns
  <2> SUFFICES ASSUME Inv, NEW p \in Procs
               PROVE  run[p] \in FiniteRuns
    OBVIOUS
  <2>1. run[p] \in Runs
    BY DEF TypeInv, TypeOK
  <2>2. run[p].left \in SUBSET Files /\ run[p].batch \in SUBSET Files
    BY <2>1 DEF Runs
  <2>3. IsFiniteSet(run[p].left) /\ IsFiniteSet(run[p].batch)
    BY <2>2, FS_Subset
  <2> QED BY <2>1, <2>3 DEF FiniteRuns
<1> QED BY <1>1, <1>2, <1>3, PTL DEF Spec

-----------------------------------------------------------------------------
(* Retries run out *)

(* The rows a run retries had retries left, and the count it is about to    *)
(* write back is one more than the row's.                                   *)
RetryRun(r) ==
  /\ \A w \in r.due : w.retries < RetryLimit
  /\ r.pc \in {"settle", "bump"} => r.row.retries < RetryLimit
  /\ r.pc = "bump" => r.read = r.row.retries

RetryInv == \A p \in Procs : RetryRun(run[p])

LEMMA RetryInit == Init => RetryInv
<1>1. RetryRun(IdleRun)
  BY DEF RetryRun, IdleRun
<1> QED BY <1>1 DEF Init, RetryInv

(* The steps that neither read a row nor settle one keep it. *)
LEMMA RetryKept ==
  ASSUME NEW r, NEW s, RetryRun(r), s.due \subseteq r.due, s.pc \notin {"settle", "bump"}
  PROVE  RetryRun(s)
BY DEF RetryRun

LEMMA RetryAdvance ==
  ASSUME TypeInv, RowsInv, RetryInv, NEW p \in Procs,
         BeginSync(p) \/ BeginRetry(p) \/ Advance(p) \/ Crash(p)
  PROVE  RetryRun(run'[p])
<1>inv. RetryRun(run[p])
  BY DEF RetryInv
<1>type. run[p] \in Runs /\ run \in [Procs -> Runs]
  BY DEF TypeInv, TypeOK
<1>1. CASE BeginSync(p) \/ BeginRetry(p)
  BY <1>1, <1>inv, BeginMove, RetryKept
<1>2. CASE ConnectFails(p) \/ NoEndpoint(p) \/ FinishFails(p) \/ EndRun(p) \/ Crash(p)
  <2>1. run'[p] = IdleRun
    BY <1>2, IdleMove
  <2> QED BY <2>1 DEF RetryRun, IdleRun
<1>3. CASE Connect(p)
  <2>1. run'[p].pc = "export"
    BY <1>3, ConnectMove
  <2>2. \A w \in run'[p].due : IsDue(w)
    <3> DEFINE D == {q \in queue : IsDue(q)}
    <3>1. run'[p] = [run[p] EXCEPT !.pc = "export", !.force = FALSE,
                                   !.left = Captured(p), !.due = D]
      BY <1>3, <1>type DEF Connect
    <3> HIDE DEF D
    <3>2. run'[p].due = D
      BY <3>1, <1>type DEF Runs
    <3> QED BY <3>2 DEF D
  <2> QED BY <2>1, <2>2 DEF RetryRun, IsDue
<1>4. ASSUME NEW w \in run[p].due, Retry(p, w)
      PROVE  RetryRun(run'[p])
  BY <1>4, <1>inv, RetryMove DEF RetryRun
<1>5. CASE DeleteRow(p)
  BY <1>5, <1>inv, DeleteMove, RetryKept
<1>6. ASSUME run' = BackToExport(p)
      PROVE  RetryRun(run'[p])
  BY <1>6, <1>inv, BackMove, RetryKept
<1>7. ASSUME ReadRetries(p), NEW q \in queue, q.id = run[p].row.id,
             run' = [run EXCEPT ![p].pc = "bump", ![p].read = q.retries]
      PROVE  RetryRun(run'[p])
  <2>1. /\ run'[p].pc = "bump" /\ run'[p].read = q.retries
        /\ run'[p].row = run[p].row /\ run'[p].due = run[p].due
    BY <1>7, <1>type DEF Runs
  <2>2. run[p].pc = "settle"
    BY <1>7 DEF ReadRetries, At
  <2>3. q = run[p].row
    BY <1>7, <2>2 DEF RowsInv, RowsRun, Untouched
  <2> QED BY <1>inv, <2>1, <2>2, <2>3 DEF RetryRun
<1>8. CASE StampRetried(p) \/ ReadRetries(p) \/ BumpRetries(p) \/ GiveUp(p)
  BY <1>6, <1>7, <1>8 DEF StampRetried, ReadRetries, BumpRetries, GiveUp
<1>9. CASE UploadBatch(p) \/ Finish(p)
  <2>1. run'[p].due = {} /\ run'[p].pc \in {"export", "select", "record"}
    BY <1>9, UploadMove, FinishMove
  <2> QED BY <2>1 DEF RetryRun
<1>10. ASSUME NEW f \in Files, \/ Scan(p, f) \/ SelectRow(p, f) \/ WriteRow(p, f)
                                \/ RecordSynced(p, f) \/ RecordFailed(p, f)
       PROVE  RetryRun(run'[p])
  <2>1. run'[p].due = run[p].due /\ run'[p].pc \in {"scan", "write", "export", "select", "record"}
    BY <1>10, ScanMove, SelectMove, WriteMove, RecordMove
  <2> QED BY <1>inv, <2>1, RetryKept
<1> QED BY <1>1, <1>2, <1>3, <1>4, <1>5, <1>8, <1>9, <1>10 DEF Advance

LEMMA RetryNext == TypeInv /\ RowsInv /\ RetryInv /\ [Next]_vars => RetryInv'
<1> SUFFICES ASSUME TypeInv, RowsInv, RetryInv, [Next]_vars, NEW p \in Procs
             PROVE  RetryRun(run'[p])
  BY DEF RetryInv
<1>1. RetryRun(run[p])
  BY DEF RetryInv
<1>2. ASSUME NEW q \in Procs, BeginSync(q) \/ BeginRetry(q) \/ Advance(q) \/ Crash(q)
      PROVE  RetryRun(run'[p])
  BY <1>1, <1>2, RetryAdvance, OthersStay
<1> QED BY <1>1, <1>2 DEF Next, Edit, BackoffElapses, ClearQueue, vars

(* What becomes of each row in one step *)
LEMMA RowSpentStep ==
  ASSUME TypeInv, RowsInv, RetryInv, [Next]_vars,
         NEW r \in queue, NEW s \in queue', r.id = s.id
  PROVE  RowSpent(r, s)
<1>type. queue \subseteq Rows /\ r \in Rows /\ r.id \in Nat \ {0}
  BY DEF TypeInv, TypeOK, Rows
<1>one. \A w \in queue : w.id = r.id => w = r
  BY DEF RowsInv, OneRowPerDocument
<1>fewer. queue' \subseteq queue => s = r
  BY <1>one
<1>retried. ASSUME NEW p \in Procs, run[p].pc \in {"settle", "bump"}, r.id = run[p].row.id
            PROVE  r = run[p].row /\ r.retries < RetryLimit
  BY <1>retried DEF RowsInv, RowsRun, Untouched, RetryInv, RetryRun
<1>1. ASSUME NEW p \in Procs, BumpRetries(p)
      PROVE  RowSpent(r, s)
  <2> DEFINE n == IF run[p].read < RetryLimit THEN run[p].read + 1 ELSE RetryLimit
  <2>1. run[p].pc = "bump"
    BY <1>1 DEF BumpRetries, At
  <2>2. PICK w \in queue : s = IF w.id = run[p].row.id
                                 THEN [w EXCEPT !.retries = n, !.due = FALSE] ELSE w
    BY <1>1 DEF BumpRetries
  <2>3. w = r
    <3>1. [w EXCEPT !.retries = n, !.due = FALSE].id = w.id
      BY <1>type DEF Rows
    <3> HIDE DEF n
    <3> QED BY <1>one, <2>2, <3>1
  <2>4. CASE r.id = run[p].row.id
    <3>1. r = run[p].row /\ r.retries < RetryLimit /\ run[p].read = r.retries
      BY <1>retried, <2>1, <2>4 DEF RetryInv, RetryRun
    <3>2. n = r.retries + 1 /\ r.retries \in Nat
      BY <1>type, <3>1, LimitsAssumption DEF Rows
    <3>3. s.retries = n
      <4> HIDE DEF n
      <4> QED BY <1>type, <2>2, <2>3, <2>4 DEF Rows
    <3> QED BY <3>2, <3>3 DEF RowSpent
  <2>5. CASE r.id # run[p].row.id
    BY <2>2, <2>3, <2>5 DEF RowSpent
  <2> QED BY <2>4, <2>5
<1>2. ASSUME NEW p \in Procs, GiveUp(p)
      PROVE  RowSpent(r, s)
  <2>1. run[p].pc = "settle"
    BY <1>2 DEF GiveUp, At
  <2>2. PICK w \in queue : s = IF w.id = run[p].row.id
                                 THEN [w EXCEPT !.retries = RetryLimit, !.due = TRUE] ELSE w
    BY <1>2 DEF GiveUp
  <2>3. w = r
    <3>1. [w EXCEPT !.retries = RetryLimit, !.due = TRUE].id = w.id
      BY <1>type DEF Rows
    <3> QED BY <1>one, <2>2, <3>1
  <2>4. CASE r.id = run[p].row.id
    <3>1. r.retries < RetryLimit
      BY <1>retried, <2>1, <2>4
    <3>2. s.retries = RetryLimit
      BY <1>type, <2>2, <2>3, <2>4 DEF Rows
    <3> QED BY <1>type, <3>1, <3>2, LimitsAssumption DEF RowSpent, Rows
  <2>5. CASE r.id # run[p].row.id
    BY <2>2, <2>3, <2>5 DEF RowSpent
  <2> QED BY <2>4, <2>5
<1>3. ASSUME NEW p \in Procs, NEW f \in Files, WriteRow(p, f)
      PROVE  RowSpent(r, s)
  <2> DEFINE content == run[p].docs[f]
             tries == IF IsRetryable(run[p].answer) THEN 0 ELSE RetryLimit
             updated(w) == [w EXCEPT !.file = f, !.content = content,
                                     !.retries = tries, !.due = TRUE]
             new(i) == [id |-> i, ext |-> f, file |-> f, content |-> content,
                        retries |-> tries, due |-> TRUE]
  <2>1. run[p].pc = "write" /\ First(f, run[p].batch)
    BY <1>3 DEF WriteRow, At
  <2>2. \/ /\ run[p].read # 0
           /\ queue' = {IF w.id = run[p].read THEN updated(w) ELSE w : w \in queue}
        \/ /\ run[p].read = 0
           /\ \E top \in Ids \cup {0} :
                /\ \A i \in Ids : i <= top
                /\ queue' = queue \cup {new(top + 1)}
    BY <1>3 DEF WriteRow
  <2>3. \A w \in queue : /\ updated(w).id = w.id /\ updated(w).due
                         /\ updated(w).content = content
    BY <1>type DEF Rows
  <2>4. \A i : new(i).id = i
    OBVIOUS
  <2>5. CASE run[p].read # 0
    <3>1. PICK w \in queue : s = IF w.id = run[p].read THEN updated(w) ELSE w
      BY <2>2, <2>5
    <3> HIDE DEF updated
    <3>2. w = r
      BY <1>one, <2>3, <3>1
    <3>3. CASE r.id = run[p].read
      <4>1. r.ext = f
        BY <2>1, <3>3 DEF RowsInv, RowsRun, Found
      <4>2. r.file = f
        BY <4>1 DEF RowsInv, OneRowPerDocument
      <4> QED BY <2>1, <2>3, <3>1, <3>2, <3>3, <4>2 DEF RowSpent, At
    <3> QED BY <3>1, <3>2, <3>3 DEF RowSpent
  <2>6. CASE run[p].read = 0
    <3> HIDE DEF new
    <3>1. PICK top \in Ids \cup {0} :
            (\A i \in Ids : i <= top) /\ queue' = queue \cup {new(top + 1)}
      BY <2>2, <2>6
    <3>2. r.id <= top /\ top \in Nat
      BY <1>type, <3>1 DEF Ids, Rows
    <3>3. s # new(top + 1)
      BY <1>type, <2>4, <3>2
    <3> QED BY <1>one, <3>1, <3>3 DEF RowSpent
  <2> QED BY <2>5, <2>6
<1>4. ASSUME NEW z \in queue, BackoffElapses(z)
      PROVE  RowSpent(r, s)
  <2>1. s \in queue \/ s = [z EXCEPT !.due = TRUE]
    BY <1>4 DEF BackoffElapses
  <2>2. [z EXCEPT !.due = TRUE].id = z.id
    BY <1>type DEF Rows
  <2>3. s = r \/ (z = r /\ s = [z EXCEPT !.due = TRUE])
    BY <1>one, <2>1, <2>2
  <2> QED BY <1>4, <2>3 DEF RowSpent, BackoffElapses
<1>5. ASSUME NEW p \in Procs, Advance(p), ~BumpRetries(p), ~GiveUp(p),
             \A f \in Files : ~WriteRow(p, f)
      PROVE  queue' \subseteq queue
  BY <1>5, QueueUnwritten
<1>6. ASSUME NEW z \in queue, ClearQueue(z)
      PROVE  queue' \subseteq queue
  BY <1>6 DEF ClearQueue
<1>7. CASE UNCHANGED vars
  BY <1>7, <1>fewer DEF vars, RowSpent
<1>8. s = r => RowSpent(r, s)
  BY DEF RowSpent
<1> QED
  BY <1>1, <1>2, <1>3, <1>4, <1>5, <1>6, <1>7, <1>8, <1>fewer
  DEF Next, BeginSync, BeginRetry, Crash, Edit

(* When processes run one at a time, a failed upload uses up its retries:   *)
(* its count only grows until its document fails afresh, whatever Core      *)
(* answers, whatever is killed on the way, and although an operator clears  *)
(* rows between the SELECT of the count and its UPDATE                      *)
(* (state/sqlite_store.py:202-234).                                         *)
THEOREM RetriesAlwaysRunOut == ASSUME Sole PROVE Spec => RetriesRunOut
<1> DEFINE Inv == TypeInv /\ RowsInv /\ RetryInv
           Step == \A r \in queue : \A s \in queue' : r.id = s.id => RowSpent(r, s)
<1>1. Init => Inv
  BY TypeInit, RowsInit, RetryInit
<1>2. Inv /\ [Next]_vars => Inv'
  BY TypeStep, RowsNext, RetryNext
<1>3. Inv /\ [Next]_vars => [Step]_vars
  BY RowSpentStep
<1> QED BY <1>1, <1>2, <1>3, PTL DEF Spec, RetriesRunOut

=============================================================================
