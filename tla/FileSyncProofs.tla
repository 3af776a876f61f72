--------------------------- MODULE FileSyncProofs ---------------------------
(***************************************************************************)
(* Theorems about FileSync for any files, bodies, filters and types, any    *)
(* number of edits, removals and torn writes, with or without crashes.      *)
(***************************************************************************)
EXTENDS FileSync, FiniteSetTheorems, TLAPS

(* the states of a process that has a file at hand *)
Busy == {"sniff", "decide", "read", "hash"}

(* What TypeOK needs to be inductive: the file at hand is one, its text was *)
(* read before it is hashed, and only documents are exported and recorded.  *)
GoodShape(r) ==
  /\ r.pc \in Busy => r.file \in Files
  /\ r.pc = "hash" => r.text \in Bodies
  /\ r.pc \in {"export", "record"} => r.left \subseteq {f \in Files : r.docs[f] # None}

Shape == \A p \in Procs : GoodShape(run[p])

TypeInv == TypeOK /\ Shape

(* the states of a process *)
-----------------------------------------------------------------------------
(* Type correctness *)

LEMMA IdleRunType == IdleRun \in Runs /\ GoodShape(IdleRun)
BY DEF IdleRun, Runs, SourceTypes, GoodShape, Busy

LEMMA RunStep ==
  ASSUME TypeInv, NEW p \in Procs, NEW r \in Runs, GoodShape(r),
         run' = [run EXCEPT ![p] = r]
  PROVE  run' \in [Procs -> Runs] /\ Shape'
BY DEF TypeInv, TypeOK, Shape, GoodShape

LEMMA LeaveStep ==
  ASSUME TypeInv, NEW p \in Procs, Leave(p)
  PROVE  run' \in [Procs -> Runs] /\ Shape'
BY IdleRunType, RunStep DEF Leave

LEMMA NextFileStep ==
  ASSUME TypeInv, NEW p \in Procs, NextFile(p)
  PROVE  run' \in [Procs -> Runs] /\ Shape'
<1> DEFINE r == [run[p] EXCEPT !.pc = "next", !.file = None, !.size = 0,
                               !.stamp = 0, !.text = None]
<1>run. run[p] \in Runs
  BY DEF TypeInv, TypeOK
<1>1. r \in Runs
  BY <1>run DEF Runs
<1>2. GoodShape(r)
  BY <1>run DEF Runs, GoodShape, Busy
<1>3. run' = [run EXCEPT ![p] = r]
  BY DEF NextFile
<1> QED  BY <1>1, <1>2, <1>3, RunStep

LEMMA GotoStep ==
  ASSUME TypeInv, NEW p \in Procs, NEW state \in {"decide", "read"}, run[p].pc \in Busy,
         Goto(p, state)
  PROVE  run' \in [Procs -> Runs] /\ Shape'
<1> DEFINE r == [run[p] EXCEPT !.pc = state]
<1>run. run[p] \in Runs
  BY DEF TypeInv, TypeOK
<1>1. r \in Runs
  BY <1>run DEF Runs
<1>2. GoodShape(r)
  BY <1>run DEF TypeInv, Shape, Runs, GoodShape, Busy
<1>3. run' = [run EXCEPT ![p] = r]
  BY DEF Goto
<1> QED  BY <1>1, <1>2, <1>3, RunStep

LEMMA ToRecordStep ==
  ASSUME TypeInv, NEW p \in Procs, ToRecord(p)
  PROVE  run' \in [Procs -> Runs] /\ Shape'
<1> DEFINE r == [run[p] EXCEPT !.pc = "record", !.left = Captured(p)]
<1>run. run[p] \in Runs
  BY DEF TypeInv, TypeOK
<1>1. r \in Runs
  BY <1>run DEF Runs, Captured
<1>2. GoodShape(r)
  BY <1>run DEF Runs, GoodShape, Captured, Busy
<1>3. run' = [run EXCEPT ![p] = r]
  BY DEF ToRecord
<1> QED  BY <1>1, <1>2, <1>3, RunStep

(* one document of the loop is done with *)
LEMMA DoneStep ==
  ASSUME TypeInv, NEW p \in Procs, NEW f, run' = [run EXCEPT ![p].left = @ \ {f}]
  PROVE  run' \in [Procs -> Runs] /\ Shape'
<1> DEFINE r == [run[p] EXCEPT !.left = @ \ {f}]
<1>run. run[p] \in Runs
  BY DEF TypeInv, TypeOK
<1>1. r \in Runs
  BY <1>run DEF Runs
<1>2. GoodShape(r)
  BY <1>run DEF TypeInv, Shape, Runs, GoodShape
<1> QED  BY <1>1, <1>2, RunStep

LEMMA AppendLinesType ==
  ASSUME TypeInv, NEW p \in Procs, NEW S \in SUBSET Captured(p), AppendLines(p, S)
  PROVE  output' \in [Files -> SUBSET Bodies] /\ spoiled' \in [Files -> SUBSET Bodies]
<1>1. \A f \in S : run[p].docs[f].text \in Bodies
  BY DEF TypeInv, TypeOK, Runs, Documents, Captured
<1> QED  BY <1>1 DEF AppendLines, TypeInv, TypeOK

LEMMA TypeInit == Init => TypeInv
<1> SUFFICES ASSUME Init
             PROVE  TypeInv
  OBVIOUS
<1>1. run \in [Procs -> Runs] /\ Shape
  BY IdleRunType DEF Init, Shape
<1>2. disk \in [Files -> [body : Bodies \cup {None}, stamp : Nat]]
  BY BodiesAssumption DEF Init
<1>3. held \in [Files -> SUBSET Bodies]
  BY BodiesAssumption DEF Init
<1>4. cuts \in 0..MaxCuts
  BY BoundsAssumption DEF Init
<1> QED  BY <1>1, <1>2, <1>3, <1>4 DEF Init, TypeInv, TypeOK

LEMMA TypeStep == TypeInv /\ [Next]_vars => TypeInv'
<1> SUFFICES ASSUME TypeInv, [Next]_vars
             PROVE  TypeInv'
  OBVIOUS
<1>type. /\ disk \in [Files -> [body : Bodies \cup {None}, stamp : Nat]]
         /\ records \in [Files -> Records \cup {None}]
         /\ target \in Targets
         /\ output \in [Files -> SUBSET Bodies]
         /\ torn_line \in BOOLEAN
         /\ run \in [Procs -> Runs]
         /\ held \in [Files -> SUBSET Bodies]
         /\ spoiled \in [Files -> SUBSET Bodies]
         /\ cuts \in 0..MaxCuts
  BY DEF TypeInv, TypeOK
<1>run. ASSUME NEW p \in Procs
        PROVE  run[p] \in Runs /\ GoodShape(run[p])
  BY DEF TypeInv, TypeOK, Shape
<1>captured. ASSUME NEW p \in Procs
             PROVE  /\ Captured(p) \in SUBSET Files
                    /\ \A f \in Captured(p) : run[p].docs[f] \in Documents
  BY <1>run DEF Captured, Runs
<1>1. ASSUME NEW p \in Procs, NEW force \in BOOLEAN, BeginSync(p, force)
      PROVE  TypeInv'
  <2> DEFINE r == [IdleRun EXCEPT !.pc = "next", !.force = force,
                                  !.left = {f \in Files : IsFile(f)},
                                  !.plan = Announced]
  <2>1. Announced \subseteq Files
    BY DEF Announced
  <2>2. r \in Runs /\ GoodShape(r)
    BY <2>1, IdleRunType DEF Runs, IdleRun, GoodShape, Busy
  <2>3. run' \in [Procs -> Runs] /\ Shape'
    BY <1>1, <2>2, RunStep DEF BeginSync
  <2> QED  BY <1>1, <1>type, <2>3 DEF BeginSync, TypeInv, TypeOK
<1>2. ASSUME NEW p \in Procs, NEW f \in Files, Stat(p, f)
      PROVE  TypeInv'
  <2>1. CASE IsFile(f) /\ PassesPolicy(f, Size[disk[f].body])
    <3> DEFINE r == [run[p] EXCEPT !.pc = "sniff", !.left = @ \ {f}, !.file = f,
                                   !.size = Size[disk[f].body], !.stamp = disk[f].stamp]
    <3>1. Size[disk[f].body] \in Nat /\ disk[f].stamp \in Nat
      BY <1>type, <2>1, BodiesAssumption DEF IsFile
    <3>2. r \in Runs
      BY <1>run, <3>1 DEF Runs
    <3>3. GoodShape(r)
      BY <1>run DEF Runs, GoodShape, Busy
    <3>4. run' = [run EXCEPT ![p] = r]
      BY <1>2, <2>1 DEF Stat
    <3>5. run' \in [Procs -> Runs] /\ Shape'
      BY <3>2, <3>3, <3>4, RunStep
    <3> QED  BY <1>2, <1>type, <3>5 DEF Stat, TypeInv, TypeOK
  <2>2. CASE run' = [run EXCEPT ![p].left = @ \ {f}]
    BY <1>2, <1>type, <2>2, DoneStep DEF Stat, TypeInv, TypeOK
  <2> QED  BY <1>2, <2>1, <2>2 DEF Stat
<1>3. ASSUME NEW p \in Procs, Sniff(p)
      PROVE  TypeInv'
  <2>1. run[p].pc \in Busy
    BY <1>3 DEF Sniff, At, Busy
  <2>2. NextFile(p) \/ Goto(p, "read") \/ Goto(p, "decide")
    BY <1>3 DEF Sniff
  <2>3. run' \in [Procs -> Runs] /\ Shape'
    BY <2>1, <2>2, NextFileStep, GotoStep
  <2> QED  BY <1>3, <1>type, <2>3 DEF Sniff, TypeInv, TypeOK
<1>4. ASSUME NEW p \in Procs, SkipByStat(p)
      PROVE  TypeInv'
  BY <1>4, <1>type, NextFileStep DEF SkipByStat, TypeInv, TypeOK
<1>5. ASSUME NEW p \in Procs, DecideBySum(p)
      PROVE  TypeInv'
  <2>1. run[p].pc \in Busy /\ (NextFile(p) \/ Goto(p, "read"))
    BY <1>5 DEF DecideBySum, At, Busy
  <2>2. run' \in [Procs -> Runs] /\ Shape'
    BY <2>1, NextFileStep, GotoStep
  <2> QED  BY <1>5, <1>type, <2>2 DEF DecideBySum, TypeInv, TypeOK
<1>6. ASSUME NEW p \in Procs, Read(p)
      PROVE  TypeInv'
  <2> DEFINE b == disk[run[p].file].body
             r == [run[p] EXCEPT !.pc = "hash", !.text = b]
  <2>1. run[p].file \in Files
    BY <1>run, <1>6 DEF Read, At, GoodShape, Busy
  <2>2. b \in Bodies
    BY <1>6, <1>type, <2>1 DEF Read, IsFile
  <2>3. r \in Runs
    BY <1>run, <2>2 DEF Runs
  <2>4. GoodShape(r)
    BY <1>run, <2>1, <2>2 DEF Runs, GoodShape
  <2>5. run' \in [Procs -> Runs] /\ Shape'
    BY <1>6, <2>3, <2>4, RunStep DEF Read
  <2> QED  BY <1>6, <1>type, <2>5 DEF Read, TypeInv, TypeOK
<1>7. ASSUME NEW p \in Procs, Hash(p)
      PROVE  TypeInv'
  <2> DEFINE f == run[p].file
             doc == [size |-> run[p].size, stamp |-> run[p].stamp,
                     sum |-> disk[f].body, text |-> run[p].text,
                     source_type |-> run[p].source_type]
             d == [run[p].docs EXCEPT ![f] = doc]
             t == Detected[f][run[p].text]
             r == [run[p] EXCEPT !.pc = "next", !.file = None, !.size = 0, !.stamp = 0,
                                 !.text = None, !.docs = d, !.source_type = t]
  <2>1. f \in Files /\ run[p].text \in Bodies
    BY <1>run, <1>7 DEF Hash, At, GoodShape, Busy
  <2>2. disk[f].body \in Bodies
    BY <1>7, <1>type, <2>1 DEF Hash, IsFile
  <2>3. doc \in Documents
    BY <1>run, <2>1, <2>2 DEF Runs, Documents
  <2>4. t \in SourceTypes
    BY <2>1, BodiesAssumption DEF SourceTypes
  <2>5. d \in [Files -> Documents \cup {None}]
    BY <1>run, <2>1, <2>3 DEF Runs
  <2>6. run' = [run EXCEPT ![p] = r]
    BY <1>7 DEF Hash
  <2> HIDE DEF d, t
  <2>7. r \in Runs
    BY <1>run, <2>4, <2>5 DEF Runs
  <2>8. GoodShape(r)
    BY <1>run DEF Runs, GoodShape, Busy
  <2>9. run' \in [Procs -> Runs] /\ Shape'
    BY <2>6, <2>7, <2>8, RunStep
  <2> QED  BY <1>7, <1>type, <2>9 DEF Hash, TypeInv, TypeOK
<1>8. ASSUME NEW p \in Procs, Vanished(p) \/ EndDryRun(p) \/ EndRun(p) \/ Crash(p)
      PROVE  TypeInv'
  BY <1>8, <1>type, LeaveStep DEF Vanished, EndDryRun, EndRun, Crash, TypeInv, TypeOK
<1>9. ASSUME NEW p \in Procs, EndLoop(p)
      PROVE  TypeInv'
  <2> DEFINE r == [run[p] EXCEPT !.pc = "export", !.left = Captured(p)]
  <2>1. r \in Runs
    BY <1>run, <1>captured DEF Runs
  <2>2. GoodShape(r)
    BY <1>run DEF Runs, GoodShape, Captured, Busy
  <2>3. run' \in [Procs -> Runs] /\ Shape'
    BY <1>9, <2>1, <2>2, RunStep DEF EndLoop
  <2> QED  BY <1>9, <1>type, <2>3 DEF EndLoop, TypeInv, TypeOK
<1>10. ASSUME NEW p \in Procs, AppendDocuments(p)
       PROVE  TypeInv'
  <2>1. run[p].left \in SUBSET Captured(p)
    BY <1>run, <1>10 DEF AppendDocuments, At, GoodShape, Captured
  <2>2. /\ output' \in [Files -> SUBSET Bodies]
        /\ spoiled' \in [Files -> SUBSET Bodies]
    BY <1>10, <2>1, AppendLinesType DEF AppendDocuments
  <2>3. run' \in [Procs -> Runs] /\ Shape'
    BY <1>10, ToRecordStep DEF AppendDocuments
  <2> QED  BY <1>10, <1>type, <2>2, <2>3 DEF AppendDocuments, TypeInv, TypeOK
<1>11. ASSUME NEW p \in Procs, AppendCut(p)
       PROVE  TypeInv'
  <2>1. PICK f \in run[p].left, half \in BOOLEAN :
          LET written == {g \in run[p].left : g < f}
          IN  /\ AppendLines(p, written)
              /\ torn_line' = (half \/ (torn_line /\ written = {}))
    BY <1>11 DEF AppendCut
  <2>2. {g \in run[p].left : g < f} \in SUBSET Captured(p)
    BY <1>run, <1>11 DEF AppendCut, At, GoodShape, Captured
  <2>3. /\ output' \in [Files -> SUBSET Bodies]
        /\ spoiled' \in [Files -> SUBSET Bodies]
    BY <2>1, <2>2, AppendLinesType
  <2>4. run' \in [Procs -> Runs] /\ Shape'
    BY <1>11, LeaveStep DEF AppendCut
  <2>5. cuts' \in 0..MaxCuts
    BY <1>11, <1>type, BoundsAssumption DEF AppendCut
  <2> QED  BY <1>11, <1>type, <2>1, <2>3, <2>4, <2>5 DEF AppendCut, TypeInv, TypeOK
<1>12. ASSUME NEW p \in Procs, NEW f \in Files, Replace(p, f)
       PROVE  TypeInv'
  <2>1. run[p].docs[f] \in Documents
    BY <1>run, <1>captured, <1>12 DEF Replace, At, First, GoodShape, Captured
  <2>2. output' \in [Files -> SUBSET Bodies]
    BY <1>12, <1>type, <2>1 DEF Replace, Documents
  <2> QED  BY <1>12, <1>type, <2>2, DoneStep DEF Replace, TypeInv, TypeOK
<1>13. ASSUME NEW p \in Procs, EndReplace(p)
       PROVE  TypeInv'
  BY <1>13, <1>type, ToRecordStep DEF EndReplace, TypeInv, TypeOK
<1>14. ASSUME NEW p \in Procs, NEW f \in Files, Record(p, f)
       PROVE  TypeInv'
  <2>1. run[p].docs[f] \in Documents
    BY <1>run, <1>captured, <1>14 DEF Record, At, First, GoodShape, Captured
  <2>2. records' \in [Files -> Records \cup {None}]
    BY <1>14, <1>type, <2>1 DEF Record, Documents, Records
  <2> QED  BY <1>14, <1>type, <2>2, DoneStep DEF Record, TypeInv, TypeOK
<1>15. ASSUME NEW f \in Files, Remove(f) \/ \E b \in Bodies : Edit(f, b)
       PROVE  TypeInv'
  <2>1. run' = [p \in Procs |-> [run[p] EXCEPT !.plan = None]]
    BY <1>15 DEF Remove, Edit, PlansLapse
  <2>2. run' \in [Procs -> Runs] /\ Shape'
    <3>1. ASSUME NEW p \in Procs
          PROVE  run'[p] \in Runs /\ GoodShape(run'[p])
      BY <1>run, <2>1 DEF Runs, GoodShape
    <3> QED  BY <2>1, <3>1 DEF Shape, GoodShape
  <2>3. disk' \in [Files -> [body : Bodies \cup {None}, stamp : Nat]]
    BY <1>15, <1>type DEF Remove, Edit
  <2>4. held' \in [Files -> SUBSET Bodies]
    BY <1>15, <1>type DEF Remove, Edit
  <2> QED  BY <1>15, <1>type, <2>2, <2>3, <2>4 DEF Remove, Edit, TypeInv, TypeOK
<1>16. CASE UNCHANGED vars
  BY <1>16 DEF vars, TypeInv, TypeOK, Shape, GoodShape
<1> QED
  BY <1>1, <1>2, <1>3, <1>4, <1>5, <1>6, <1>7, <1>8, <1>9, <1>10, <1>11, <1>12, <1>13,
     <1>14, <1>15, <1>16 DEF Next, Advance

(* Every variable keeps its type, whatever is edited or removed between any *)
(* two accesses (core/pipeline.py:155-314): above all, no document without  *)
(* a text or a checksum is ever exported or recorded.                       *)
THEOREM FileTypeCorrect == Spec => []TypeOK
<1>1. TypeInv => TypeOK
  BY DEF TypeInv
<1> QED  BY TypeInit, TypeStep, <1>1, PTL DEF Spec

-----------------------------------------------------------------------------
(* The type of a document *)

LEMMA KnownTypes == \A t \in DetectedTypes : CoreAlias(t) \in CoreKnown
BY DEF DetectedTypes, CoreAlias, CoreKnown

(* Core files a document under its own type, whatever files precede it and  *)
(* whatever the type configured for the source (core/core_payload.py:30-39, *)
(* core/pipeline.py:238).                                                   *)
THEOREM CoreTypesAreOwn == Spec => []CoreTypeIsOwn
<1>1. ASSUME TypeInv
      PROVE  CoreTypeIsOwn
  <2> SUFFICES ASSUME NEW p \in Procs, NEW f \in Captured(p)
               PROVE  CoreType(f, run[p].docs[f])
                        = CoreAlias(Detected[f][run[p].docs[f].text])
    BY DEF CoreTypeIsOwn
  <2>1. f \in Files /\ run[p].docs[f] \in Documents
    BY <1>1 DEF Captured, TypeInv, TypeOK, Runs
  <2>2. Detected[f][run[p].docs[f].text] \in DetectedTypes
    BY <2>1, BodiesAssumption DEF Documents
  <2> QED  BY <2>2, KnownTypes DEF CoreType, FirstKnown
<1> QED  BY TypeInit, TypeStep, <1>1, PTL DEF Spec

-----------------------------------------------------------------------------
(* What size and mtime tell *)

(* A record, or a document, with the mtime that the file has stands for     *)
(* what the file holds.                                                     *)
Tells(doc, f) ==
  /\ doc.stamp <= disk[f].stamp
  /\ IsFile(f) /\ doc.stamp = disk[f].stamp =>
       doc.sum = disk[f].body /\ doc.text = disk[f].body

TellsRun(r) ==
  /\ \A f \in Files : r.docs[f] # None => Tells(r.docs[f], f)
  /\ r.pc \in Busy => r.stamp <= disk[r.file].stamp
  /\ r.pc = "hash" /\ IsFile(r.file) /\ r.stamp = disk[r.file].stamp =>
       r.text = disk[r.file].body

StampsTell ==
  /\ \A f \in Files : records[f] # None => Tells(records[f], f)
  /\ \A p \in Procs : TellsRun(run[p])

LEMMA TellsStep ==
  ASSUME TypeInv, StampsTell, NEW p \in Procs, NEW r, TellsRun(r),
         run' = [run EXCEPT ![p] = r], UNCHANGED <<disk, records>>
  PROVE  StampsTell'
<1>1. \A f \in Files : records'[f] # None => Tells(records[f], f)'
  BY DEF StampsTell, Tells, IsFile
<1>2. ASSUME NEW q \in Procs
      PROVE  TellsRun(run[q])'
  <2>1. run'[q] = IF q = p THEN r ELSE run[q]
    BY DEF TypeInv, TypeOK
  <2>2. TellsRun(run'[q])
    BY <2>1 DEF StampsTell
  <2> QED  BY <2>2 DEF TellsRun, Tells, IsFile
<1> QED  BY <1>1, <1>2 DEF StampsTell

(* a step of p after which it has the same documents, or none, and no file  *)
(* at hand                                                                  *)
LEMMA QuietTells ==
  ASSUME TypeInv, StampsTell, NEW p \in Procs, NEW r,
         \A f \in Files : r.docs[f] = run[p].docs[f] \/ r.docs[f] = None,
         r.pc \notin Busy,
         run' = [run EXCEPT ![p] = r], UNCHANGED <<disk, records>>
  PROVE  StampsTell'
<1>1. TellsRun(r)
  BY DEF StampsTell, TellsRun, Busy
<1> QED  BY <1>1, TellsStep

LEMMA LeaveTells ==
  ASSUME TypeInv, StampsTell, NEW p \in Procs, Leave(p), UNCHANGED <<disk, records>>
  PROVE  StampsTell'
<1>1. \A f \in Files : IdleRun.docs[f] = run[p].docs[f] \/ IdleRun.docs[f] = None
  BY DEF IdleRun
<1>2. IdleRun.pc \notin Busy
  BY DEF IdleRun, Busy
<1>3. run' = [run EXCEPT ![p] = IdleRun]
  BY DEF Leave
<1> QED  BY <1>1, <1>2, <1>3, QuietTells

LEMMA NextFileTells ==
  ASSUME TypeInv, StampsTell, NEW p \in Procs, NextFile(p), UNCHANGED <<disk, records>>
  PROVE  StampsTell'
<1> DEFINE r == [run[p] EXCEPT !.pc = "next", !.file = None, !.size = 0,
                               !.stamp = 0, !.text = None]
<1>run. run[p] \in Runs
  BY DEF TypeInv, TypeOK
<1>1. r.docs = run[p].docs /\ r.pc = "next"
  BY <1>run DEF Runs
<1>2. run' = [run EXCEPT ![p] = r]
  BY DEF NextFile
<1> HIDE DEF r
<1> QED  BY <1>1, <1>2, QuietTells DEF Busy

LEMMA GotoTells ==
  ASSUME TypeInv, StampsTell, NEW p \in Procs, NEW state \in {"decide", "read"},
         run[p].pc \in Busy, Goto(p, state), UNCHANGED <<disk, records>>
  PROVE  StampsTell'
<1> DEFINE r == [run[p] EXCEPT !.pc = state]
<1>run. run[p] \in Runs /\ TellsRun(run[p])
  BY DEF TypeInv, TypeOK, StampsTell
<1>1. /\ r.docs = run[p].docs /\ r.pc = state
      /\ r.file = run[p].file /\ r.stamp = run[p].stamp
  BY <1>run DEF Runs
<1>2. run' = [run EXCEPT ![p] = r]
  BY DEF Goto
<1> HIDE DEF r
<1>3. TellsRun(r)
  BY <1>run, <1>1 DEF TellsRun, Busy
<1> QED  BY <1>2, <1>3, TellsStep

(* another loop, or less of the same one *)
LEMMA LoopTells ==
  ASSUME TypeInv, StampsTell, NEW p \in Procs, NEW state, NEW S,
         state \notin Busy,
         run' = [run EXCEPT ![p].pc = state, ![p].left = S],
         UNCHANGED <<disk, records>>
  PROVE  StampsTell'
<1> DEFINE r == [run[p] EXCEPT !.pc = state, !.left = S]
<1>run. run[p] \in Runs
  BY DEF TypeInv, TypeOK
<1>1. r.docs = run[p].docs /\ r.pc = state
  BY <1>run DEF Runs
<1>2. run' = [run EXCEPT ![p] = r]
  OBVIOUS
<1> HIDE DEF r
<1> QED  BY <1>1, <1>2, QuietTells

LEMMA StampsTellInit == Init => StampsTell
BY DEF Init, StampsTell, TellsRun, IdleRun, Busy

LEMMA DoneTells ==
  ASSUME TypeInv, StampsTell, NEW p \in Procs, NEW f, run[p].pc \notin Busy,
         run' = [run EXCEPT ![p].left = @ \ {f}], UNCHANGED <<disk, records>>
  PROVE  StampsTell'
<1> DEFINE r == [run[p] EXCEPT !.left = @ \ {f}]
<1>run. run[p] \in Runs
  BY DEF TypeInv, TypeOK
<1>1. r.docs = run[p].docs /\ r.pc = run[p].pc
  BY <1>run DEF Runs
<1>2. run' = [run EXCEPT ![p] = r]
  OBVIOUS
<1> HIDE DEF r
<1> QED  BY <1>1, <1>2, QuietTells

LEMMA StampsTellNext == TypeInv /\ StampsTell /\ [Next]_vars => StampsTell'
<1> SUFFICES ASSUME TypeInv, StampsTell, [Next]_vars
             PROVE  StampsTell'
  OBVIOUS
<1>type. /\ disk \in [Files -> [body : Bodies \cup {None}, stamp : Nat]]
         /\ records \in [Files -> Records \cup {None}]
         /\ run \in [Procs -> Runs]
  BY DEF TypeInv, TypeOK
<1>run. ASSUME NEW p \in Procs
        PROVE  run[p] \in Runs /\ GoodShape(run[p]) /\ TellsRun(run[p])
  BY DEF TypeInv, TypeOK, Shape, StampsTell
<1>1. ASSUME NEW p \in Procs, NEW force \in BOOLEAN, BeginSync(p, force)
      PROVE  StampsTell'
  <2> DEFINE r == [IdleRun EXCEPT !.pc = "next", !.force = force,
                                  !.left = {f \in Files : IsFile(f)},
                                  !.plan = Announced]
  <2>1. r.pc = "next" /\ \A f \in Files : r.docs[f] = None
    BY DEF IdleRun
  <2>2. run' = [run EXCEPT ![p] = r] /\ UNCHANGED <<disk, records>>
    BY <1>1 DEF BeginSync
  <2> HIDE DEF r
  <2>3. r.pc \notin Busy
    BY <2>1 DEF Busy
  <2>4. \A f \in Files : r.docs[f] = run[p].docs[f] \/ r.docs[f] = None
    BY <2>1
  <2> QED  BY <2>2, <2>3, <2>4, QuietTells
<1>2. ASSUME NEW p \in Procs, NEW f \in Files, Stat(p, f)
      PROVE  StampsTell'
  <2>1. CASE IsFile(f) /\ PassesPolicy(f, Size[disk[f].body])
    <3> DEFINE r == [run[p] EXCEPT !.pc = "sniff", !.left = @ \ {f}, !.file = f,
                                   !.size = Size[disk[f].body], !.stamp = disk[f].stamp]
    <3>1. /\ r.docs = run[p].docs /\ r.pc = "sniff"
          /\ r.file = f /\ r.stamp = disk[f].stamp
      BY <1>run DEF Runs
    <3>2. run' = [run EXCEPT ![p] = r] /\ UNCHANGED <<disk, records>>
      BY <1>2, <2>1 DEF Stat
    <3> HIDE DEF r
    <3>3. TellsRun(r)
      BY <1>type, <1>run, <3>1 DEF TellsRun
    <3> QED  BY <3>2, <3>3, TellsStep
  <2>2. CASE run' = [run EXCEPT ![p].left = @ \ {f}]
    BY <1>2, <2>2, DoneTells DEF Stat, At, Busy
  <2> QED  BY <1>2, <2>1, <2>2 DEF Stat
<1>3. ASSUME NEW p \in Procs, Sniff(p)
      PROVE  StampsTell'
  <2>1. /\ run[p].pc \in Busy /\ UNCHANGED <<disk, records>>
        /\ NextFile(p) \/ Goto(p, "read") \/ Goto(p, "decide")
    BY <1>3 DEF Sniff, At, Busy
  <2> QED  BY <2>1, NextFileTells, GotoTells
<1>4. ASSUME NEW p \in Procs, SkipByStat(p)
      PROVE  StampsTell'
  BY <1>4, NextFileTells DEF SkipByStat
<1>5. ASSUME NEW p \in Procs, DecideBySum(p)
      PROVE  StampsTell'
  <2>1. /\ run[p].pc \in Busy /\ UNCHANGED <<disk, records>>
        /\ NextFile(p) \/ Goto(p, "read")
    BY <1>5 DEF DecideBySum, At, Busy
  <2> QED  BY <2>1, NextFileTells, GotoTells
<1>6. ASSUME NEW p \in Procs, Read(p)
      PROVE  StampsTell'
  <2> DEFINE r == [run[p] EXCEPT !.pc = "hash", !.text = disk[run[p].file].body]
  <2>1. /\ r.docs = run[p].docs /\ r.pc = "hash" /\ r.file = run[p].file
        /\ r.stamp = run[p].stamp /\ r.text = disk[run[p].file].body
    BY <1>run DEF Runs
  <2>2. run' = [run EXCEPT ![p] = r] /\ UNCHANGED <<disk, records>>
    BY <1>6 DEF Read
  <2>3. run[p].stamp <= disk[run[p].file].stamp
    BY <1>run, <1>6 DEF Read, At, TellsRun, Busy
  <2> HIDE DEF r
  <2>4. TellsRun(r)
    BY <1>run, <2>1, <2>3 DEF TellsRun
  <2> QED  BY <2>2, <2>4, TellsStep
<1>7. ASSUME NEW p \in Procs, Hash(p)
      PROVE  StampsTell'
  <2> DEFINE f == run[p].file
             doc == [size |-> run[p].size, stamp |-> run[p].stamp,
                     sum |-> disk[f].body, text |-> run[p].text,
                     source_type |-> run[p].source_type]
             d == [run[p].docs EXCEPT ![f] = doc]
             t == Detected[f][run[p].text]
             r == [run[p] EXCEPT !.pc = "next", !.file = None, !.size = 0, !.stamp = 0,
                                 !.text = None, !.docs = d, !.source_type = t]
  <2>1. f \in Files
    BY <1>run, <1>7 DEF Hash, At, GoodShape, Busy
  <2>2. Tells(doc, f)
    BY <1>run, <1>7 DEF Hash, At, TellsRun, Tells, Busy
  <2>3. run' = [run EXCEPT ![p] = r] /\ UNCHANGED <<disk, records>>
    BY <1>7 DEF Hash
  <2>4. \A g \in Files : d[g] = IF g = f THEN doc ELSE run[p].docs[g]
    BY <1>run, <2>1 DEF Runs
  <2> HIDE DEF doc, d, t
  <2>5. r.pc = "next" /\ r.docs = d
    BY <1>run DEF Runs
  <2> HIDE DEF r
  <2>6. TellsRun(r)
    BY <1>run, <2>2, <2>4, <2>5 DEF TellsRun, Busy
  <2> QED  BY <2>3, <2>6, TellsStep
<1>8. ASSUME NEW p \in Procs,
             Vanished(p) \/ EndDryRun(p) \/ EndRun(p) \/ Crash(p) \/ AppendCut(p)
      PROVE  StampsTell'
  BY <1>8, LeaveTells DEF Vanished, EndDryRun, EndRun, Crash, AppendCut
<1>9. ASSUME NEW p \in Procs, EndLoop(p) \/ AppendDocuments(p) \/ EndReplace(p)
      PROVE  StampsTell'
  <2>1. PICK state \in {"export", "record"} :
          run' = [run EXCEPT ![p].pc = state, ![p].left = Captured(p)]
    BY <1>9 DEF EndLoop, AppendDocuments, EndReplace, ToRecord
  <2>2. UNCHANGED <<disk, records>>
    BY <1>9 DEF EndLoop, AppendDocuments, EndReplace
  <2> QED  BY <2>1, <2>2, LoopTells DEF Busy
<1>10. ASSUME NEW p \in Procs, NEW f \in Files, Replace(p, f)
       PROVE  StampsTell'
  BY <1>10, DoneTells DEF Replace, At, Busy
<1>11. ASSUME NEW p \in Procs, NEW f \in Files, Record(p, f)
       PROVE  StampsTell'
  <2> DEFINE doc == run[p].docs[f]
             rec == [size |-> doc.size, stamp |-> doc.stamp, sum |-> doc.sum,
                     text |-> doc.text]
  <2>1. doc # None
    BY <1>run, <1>11 DEF Record, At, First, GoodShape
  <2>2. Tells(rec, f)
    BY <1>run, <2>1 DEF TellsRun, Tells
  <2>3. /\ records' = [records EXCEPT ![f] = rec]
        /\ run' = [run EXCEPT ![p].left = @ \ {f}]
        /\ disk' = disk
    BY <1>11 DEF Record
  <2>4. ASSUME NEW g \in Files, records'[g] # None
        PROVE  Tells(records[g], g)'
    <3>1. Tells(records'[g], g)
      BY <1>type, <2>2, <2>3, <2>4 DEF StampsTell
    <3> QED  BY <2>3, <3>1 DEF Tells, IsFile
  <2>5. ASSUME NEW q \in Procs
        PROVE  TellsRun(run[q])'
    <3>1. run[p].pc = "record"
      BY <1>11 DEF Record, At
    <3>2. run'[q].pc = run[q].pc /\ run'[q].docs = run[q].docs
      BY <1>type, <1>run, <2>3 DEF Runs
    <3>3. run[q].pc \in Busy => run'[q] = run[q]
      BY <1>type, <2>3, <3>1 DEF Busy
    <3> QED  BY <1>run, <2>3, <3>2, <3>3 DEF TellsRun, Tells, IsFile, Busy
  <2> QED  BY <2>4, <2>5 DEF StampsTell
<1>12. ASSUME NEW f \in Files, Remove(f) \/ \E b \in Bodies : Edit(f, b)
       PROVE  StampsTell'
  <2>1. run' = [p \in Procs |-> [run[p] EXCEPT !.plan = None]] /\ records' = records
    BY <1>12 DEF Remove, Edit, PlansLapse
  <2>2. ASSUME NEW g \in Files
        PROVE  \/ disk'[g] = disk[g]
               \/ disk'[g].stamp = disk[g].stamp /\ disk'[g].body = None
               \/ disk'[g].stamp = disk[g].stamp + 1
    BY <1>12, <1>type DEF Remove, Edit
  <2>3. ASSUME NEW g \in Files, NEW doc, doc.stamp \in Nat, Tells(doc, g)
        PROVE  Tells(doc, g)'
    BY <1>type, <2>2, <2>3 DEF Tells, IsFile
  <2>4. ASSUME NEW g \in Files, records'[g] # None
        PROVE  Tells(records[g], g)'
    <3>1. Tells(records[g], g) /\ records[g].stamp \in Nat
      BY <1>type, <2>1, <2>4 DEF StampsTell, Records
    <3>2. Tells(records[g], g)'
      BY <2>1, <2>3, <3>1
    <3> QED  BY <3>2
  <2>5. ASSUME NEW p \in Procs
        PROVE  TellsRun(run[p])'
    <3>1. /\ run'[p].pc = run[p].pc /\ run'[p].docs = run[p].docs
          /\ run'[p].file = run[p].file /\ run'[p].stamp = run[p].stamp
          /\ run'[p].text = run[p].text
      BY <1>run, <2>1 DEF Runs
    <3>2. ASSUME NEW g \in Files, run[p].docs[g] # None
          PROVE  Tells(run[p].docs[g], g)'
      <4>1. run[p].docs[g].stamp \in Nat /\ Tells(run[p].docs[g], g)
        BY <1>run, <3>2 DEF Runs, Documents, TellsRun
      <4>2. Tells(run[p].docs[g], g)'
        <5> DEFINE doc == run[p].docs[g]
        <5>1. Tells(doc, g) /\ doc.stamp \in Nat
          BY <4>1
        <5>2. run'[p].docs[g] = doc
          BY <3>1
        <5> HIDE DEF doc
        <5> QED  BY <1>type, <2>2, <5>1, <5>2 DEF Tells, IsFile
      <4> QED  BY <4>2
    <3>3. run[p].pc \in Busy => run[p].file \in Files /\ run[p].stamp \in Nat
      BY <1>run DEF GoodShape, Runs
    <3>4. run'[p].pc \in Busy => run'[p].stamp <= disk'[run'[p].file].stamp
      BY <1>type, <1>run, <2>2, <3>1, <3>3 DEF TellsRun
    <3>5. ASSUME run'[p].pc = "hash", IsFile(run[p].file)',
                 run'[p].stamp = disk'[run'[p].file].stamp
          PROVE  run'[p].text = disk'[run'[p].file].body
      <4>1. run[p].pc = "hash" /\ run[p].pc \in Busy
        BY <3>1, <3>5 DEF Busy
      <4>2. /\ run[p].file \in Files /\ run[p].stamp \in Nat
            /\ run[p].stamp <= disk[run[p].file].stamp
        BY <1>run, <3>3, <4>1 DEF TellsRun
      <4>3. disk'[run[p].file].body # None
        BY <3>1, <3>5 DEF IsFile
      <4>4. disk'[run[p].file] = disk[run[p].file]
        BY <1>type, <2>2, <3>1, <3>5, <4>2, <4>3
      <4> QED  BY <1>run, <3>1, <3>5, <4>1, <4>3, <4>4 DEF TellsRun, IsFile
    <3> QED  BY <3>1, <3>2, <3>4, <3>5 DEF TellsRun
  <2> QED  BY <2>4, <2>5 DEF StampsTell
<1>13. CASE UNCHANGED vars
  BY <1>13 DEF vars, StampsTell, TellsRun, Tells, IsFile
<1> QED
  BY <1>1, <1>2, <1>3, <1>4, <1>5, <1>6, <1>7, <1>8, <1>9, <1>10, <1>11, <1>12, <1>13
  DEF Next, Advance

-----------------------------------------------------------------------------
(* A JSONL file is only appended to *)

Exported(f, b) == b \in output[f] \/ b \in spoiled[f]

(* All that a run captured is still to be exported, or all of it is.        *)
Appended(r) ==
  /\ r.pc = "export" => \A f \in Files : r.docs[f] # None => f \in r.left
  /\ r.pc = "record" => \A f \in Files : r.docs[f] # None => Exported(f, r.docs[f].text)

JsonlInv ==
  target = "jsonl" =>
    /\ \A f \in Files : records[f] # None => Exported(f, records[f].text)
    /\ \A p \in Procs : Appended(run[p])

LEMMA OutputGrows ==
  ASSUME [Next]_vars, target = "jsonl"
  PROVE  \A f \in Files : output[f] \subseteq output'[f] /\ spoiled[f] \subseteq spoiled'[f]
<1>1. ASSUME NEW p \in Procs, NEW S, AppendLines(p, S), NEW f \in Files
      PROVE  output[f] \subseteq output'[f] /\ spoiled[f] \subseteq spoiled'[f]
  BY <1>1 DEF AppendLines
<1>2. ASSUME NEW p \in Procs, AppendDocuments(p) \/ AppendCut(p), NEW f \in Files
      PROVE  output[f] \subseteq output'[f] /\ spoiled[f] \subseteq spoiled'[f]
  BY <1>1, <1>2 DEF AppendDocuments, AppendCut
<1>3. ASSUME NEW p \in Procs,
             \/ \E force \in BOOLEAN : BeginSync(p, force)
             \/ \E f \in Files : Stat(p, f) \/ Record(p, f)
             \/ Sniff(p) \/ SkipByStat(p) \/ DecideBySum(p) \/ Read(p) \/ Hash(p)
             \/ Vanished(p) \/ EndLoop(p) \/ EndDryRun(p) \/ EndReplace(p) \/ EndRun(p)
             \/ Crash(p)
      PROVE  UNCHANGED <<output, spoiled>>
  BY <1>3 DEF BeginSync, Stat, Record, Sniff, SkipByStat, DecideBySum, Read, Hash, Vanished,
              EndLoop, EndDryRun, EndReplace, EndRun, Crash
<1>4. ASSUME NEW p \in Procs, NEW f \in Files
      PROVE  ~Replace(p, f)
  BY DEF Replace
<1>5. ASSUME NEW f \in Files, Remove(f) \/ \E b \in Bodies : Edit(f, b)
      PROVE  UNCHANGED <<output, spoiled>>
  BY <1>5 DEF Remove, Edit
<1>6. CASE UNCHANGED vars
  BY <1>6 DEF vars
<1> QED  BY <1>2, <1>3, <1>4, <1>5, <1>6 DEF Next, Advance

LEMMA AppendedStep ==
  ASSUME TypeInv, JsonlInv, [Next]_vars, target = "jsonl",
         NEW p \in Procs, NEW r, Appended(r),
         run' = [run EXCEPT ![p] = r], records' = records
  PROVE  JsonlInv'
<1>1. ASSUME NEW f \in Files, records'[f] # None
      PROVE  Exported(f, records[f].text)'
  BY <1>1, OutputGrows DEF JsonlInv, Exported
<1>2. ASSUME NEW q \in Procs
      PROVE  Appended(run[q])'
  <2>1. Appended(run'[q])
    BY DEF JsonlInv, TypeInv, TypeOK
  <2> QED  BY <2>1, OutputGrows DEF Appended, Exported
<1> QED  BY <1>1, <1>2 DEF JsonlInv

(* a step of p after which it is neither exporting nor recording *)
LEMMA AppendedElsewhere ==
  ASSUME TypeInv, JsonlInv, [Next]_vars, target = "jsonl",
         NEW p \in Procs, NEW r, r.pc \notin {"export", "record"},
         run' = [run EXCEPT ![p] = r], records' = records
  PROVE  JsonlInv'
<1>1. Appended(r)
  BY DEF Appended
<1> QED  BY <1>1, AppendedStep

LEMMA JsonlInit == Init => JsonlInv
BY DEF Init, JsonlInv, Appended, IdleRun

LEMMA TargetStays == [Next]_vars => target' = target
<1> SUFFICES ASSUME [Next]_vars
             PROVE  target' = target
  OBVIOUS
<1>1. ASSUME NEW p \in Procs,
             \/ \E force \in BOOLEAN : BeginSync(p, force)
             \/ \E f \in Files : Stat(p, f) \/ Record(p, f) \/ Replace(p, f)
             \/ Sniff(p) \/ SkipByStat(p) \/ DecideBySum(p) \/ Read(p) \/ Hash(p)
             \/ Vanished(p) \/ EndLoop(p) \/ EndDryRun(p) \/ EndReplace(p) \/ EndRun(p)
             \/ Crash(p) \/ AppendDocuments(p) \/ AppendCut(p)
      PROVE  target' = target
  BY <1>1 DEF BeginSync, Stat, Record, Replace, Sniff, SkipByStat, DecideBySum, Read, Hash,
              Vanished, EndLoop, EndDryRun, EndReplace, EndRun, Crash, AppendDocuments, AppendCut
<1>2. ASSUME NEW f \in Files, Remove(f) \/ \E b \in Bodies : Edit(f, b)
      PROVE  target' = target
  BY <1>2 DEF Remove, Edit
<1>3. CASE UNCHANGED vars
  BY <1>3 DEF vars
<1> QED  BY <1>1, <1>2, <1>3 DEF Next, Advance

LEMMA JsonlStep == TypeInv /\ JsonlInv /\ [Next]_vars => JsonlInv'
<1> SUFFICES ASSUME TypeInv, JsonlInv, [Next]_vars, target = "jsonl"
             PROVE  JsonlInv'
  BY TargetStays DEF JsonlInv
<1>run. ASSUME NEW p \in Procs
        PROVE  run[p] \in Runs /\ GoodShape(run[p]) /\ Appended(run[p])
  BY DEF TypeInv, TypeOK, Shape, JsonlInv
<1>leave. ASSUME NEW p \in Procs, Leave(p), records' = records
          PROVE  JsonlInv'
  <2>1. IdleRun.pc \notin {"export", "record"}
    BY DEF IdleRun
  <2> QED  BY <1>leave, <2>1, AppendedElsewhere DEF Leave
<1>next. ASSUME NEW p \in Procs, NextFile(p), records' = records
         PROVE  JsonlInv'
  <2> DEFINE r == [run[p] EXCEPT !.pc = "next", !.file = None, !.size = 0,
                                 !.stamp = 0, !.text = None]
  <2>1. r.pc = "next"
    BY <1>run DEF Runs
  <2>2. run' = [run EXCEPT ![p] = r]
    BY <1>next DEF NextFile
  <2> HIDE DEF r
  <2> QED  BY <1>next, <2>1, <2>2, AppendedElsewhere
<1>goto. ASSUME NEW p \in Procs, NEW state \in {"decide", "read"}, Goto(p, state),
                records' = records
         PROVE  JsonlInv'
  <2> DEFINE r == [run[p] EXCEPT !.pc = state]
  <2>1. r.pc \notin {"export", "record"}
    BY <1>run DEF Runs
  <2>2. run' = [run EXCEPT ![p] = r]
    BY <1>goto DEF Goto
  <2> HIDE DEF r
  <2> QED  BY <1>goto, <2>1, <2>2, AppendedElsewhere
<1>1. ASSUME NEW p \in Procs, NEW force \in BOOLEAN, BeginSync(p, force)
      PROVE  JsonlInv'
  <2> DEFINE r == [IdleRun EXCEPT !.pc = "next", !.force = force,
                                  !.left = {f \in Files : IsFile(f)},
                                  !.plan = Announced]
  <2>1. r.pc = "next"
    BY DEF IdleRun
  <2>2. run' = [run EXCEPT ![p] = r] /\ records' = records
    BY <1>1 DEF BeginSync
  <2> HIDE DEF r
  <2> QED  BY <2>1, <2>2, AppendedElsewhere
<1>2. ASSUME NEW p \in Procs, NEW f \in Files, Stat(p, f)
      PROVE  JsonlInv'
  <2> DEFINE r1 == [run[p] EXCEPT !.pc = "sniff", !.left = @ \ {f}, !.file = f,
                                  !.size = Size[disk[f].body], !.stamp = disk[f].stamp]
             r2 == [run[p] EXCEPT !.left = @ \ {f}]
  <2>1. r1.pc = "sniff" /\ r2.pc = "next"
    BY <1>run, <1>2 DEF Runs, Stat, At
  <2>2. /\ run' = [run EXCEPT ![p] = r1] \/ run' = [run EXCEPT ![p] = r2]
        /\ records' = records
    BY <1>2 DEF Stat
  <2> HIDE DEF r1, r2
  <2> QED  BY <2>1, <2>2, AppendedElsewhere
<1>3. ASSUME NEW p \in Procs, Sniff(p) \/ SkipByStat(p) \/ DecideBySum(p)
      PROVE  JsonlInv'
  <2>1. /\ records' = records
        /\ NextFile(p) \/ Goto(p, "read") \/ Goto(p, "decide")
    BY <1>3 DEF Sniff, SkipByStat, DecideBySum
  <2> QED  BY <2>1, <1>next, <1>goto
<1>4. ASSUME NEW p \in Procs, Read(p)
      PROVE  JsonlInv'
  <2> DEFINE r == [run[p] EXCEPT !.pc = "hash", !.text = disk[run[p].file].body]
  <2>1. r.pc = "hash"
    BY <1>run DEF Runs
  <2>2. run' = [run EXCEPT ![p] = r] /\ records' = records
    BY <1>4 DEF Read
  <2> HIDE DEF r
  <2> QED  BY <2>1, <2>2, AppendedElsewhere
<1>5. ASSUME NEW p \in Procs, Hash(p)
      PROVE  JsonlInv'
  <2> DEFINE f == run[p].file
             doc == [size |-> run[p].size, stamp |-> run[p].stamp,
                     sum |-> disk[f].body, text |-> run[p].text,
                     source_type |-> run[p].source_type]
             d == [run[p].docs EXCEPT ![f] = doc]
             t == Detected[f][run[p].text]
             r == [run[p] EXCEPT !.pc = "next", !.file = None, !.size = 0, !.stamp = 0,
                                 !.text = None, !.docs = d, !.source_type = t]
  <2>1. run' = [run EXCEPT ![p] = r] /\ records' = records
    BY <1>5 DEF Hash
  <2> HIDE DEF d, t
  <2>2. r.pc = "next"
    BY <1>run DEF Runs
  <2> HIDE DEF r
  <2> QED  BY <2>1, <2>2, AppendedElsewhere
<1>6. ASSUME NEW p \in Procs,
             Vanished(p) \/ EndDryRun(p) \/ EndRun(p) \/ Crash(p) \/ AppendCut(p)
      PROVE  JsonlInv'
  BY <1>6, <1>leave DEF Vanished, EndDryRun, EndRun, Crash, AppendCut
<1>7. ASSUME NEW p \in Procs, EndLoop(p)
      PROVE  JsonlInv'
  <2> DEFINE r == [run[p] EXCEPT !.pc = "export", !.left = Captured(p)]
  <2>1. r.pc = "export" /\ r.left = Captured(p) /\ r.docs = run[p].docs
    BY <1>run DEF Runs
  <2>2. run' = [run EXCEPT ![p] = r] /\ records' = records
    BY <1>7 DEF EndLoop
  <2> HIDE DEF r
  <2>3. Appended(r)
    BY <2>1 DEF Appended, Captured
  <2> QED  BY <2>2, <2>3, AppendedStep
<1>8. ASSUME NEW p \in Procs, AppendDocuments(p)
      PROVE  JsonlInv'
  <2>1. /\ records' = records
        /\ AppendLines(p, run[p].left) /\ ToRecord(p)
    BY <1>8 DEF AppendDocuments
  <2>2. \A f \in Files : run[p].docs[f] # None => f \in run[p].left
    BY <1>run, <1>8 DEF AppendDocuments, At, Appended
  <2>3. ASSUME NEW f \in Files, run[p].docs[f] # None
        PROVE  run[p].docs[f].text \in output'[f] \/ run[p].docs[f].text \in spoiled'[f]
    BY <2>1, <2>2, <2>3 DEF AppendLines
  <2>4. ASSUME NEW f \in Files, records'[f] # None
        PROVE  Exported(f, records[f].text)'
    BY <2>1, <2>4, OutputGrows DEF JsonlInv, Exported
  <2>5. /\ run'[p].pc = "record" /\ run'[p].docs = run[p].docs
        /\ \A q \in Procs \ {p} : run'[q] = run[q]
    BY <1>run, <2>1 DEF ToRecord, Runs, TypeInv, TypeOK
  <2>6. ASSUME NEW q \in Procs
        PROVE  Appended(run[q])'
    BY <1>run, <2>3, <2>5, OutputGrows DEF Appended, Exported
  <2> QED  BY <2>4, <2>6 DEF JsonlInv
<1>9. ASSUME NEW p \in Procs, EndReplace(p) \/ \E f \in Files : Replace(p, f)
      PROVE  JsonlInv'
  BY <1>9 DEF Replace, EndReplace
<1>10. ASSUME NEW p \in Procs, NEW f \in Files, Record(p, f)
       PROVE  JsonlInv'
  <2> DEFINE doc == run[p].docs[f]
             rec == [size |-> doc.size, stamp |-> doc.stamp, sum |-> doc.sum,
                     text |-> doc.text]
  <2>1. /\ records' = [records EXCEPT ![f] = rec]
        /\ run' = [run EXCEPT ![p].left = @ \ {f}]
        /\ output' = output /\ spoiled' = spoiled
    BY <1>10 DEF Record
  <2>2. run[p].pc = "record" /\ doc # None
    BY <1>run, <1>10 DEF Record, At, First, GoodShape
  <2>3. Exported(f, rec.text)
    BY <1>run, <2>2 DEF Appended
  <2>4. ASSUME NEW g \in Files, records'[g] # None
        PROVE  Exported(g, records[g].text)'
    <3>1. records'[g] = IF g = f THEN rec ELSE records[g]
      BY <2>1 DEF TypeInv, TypeOK
    <3> HIDE DEF rec
    <3>2. Exported(g, records'[g].text)
      BY <2>3, <2>4, <3>1 DEF JsonlInv
    <3> QED  BY <2>1, <3>2 DEF Exported
  <2>5. ASSUME NEW q \in Procs
        PROVE  Appended(run[q])'
    <3>1. run'[q].pc = run[q].pc /\ run'[q].docs = run[q].docs
      BY <1>run, <2>1 DEF Runs, TypeInv, TypeOK
    <3>2. run[q].pc # "record" => run'[q] = run[q]
      BY <2>1, <2>2 DEF TypeInv, TypeOK
    <3> QED  BY <1>run, <2>1, <3>1, <3>2 DEF Appended, Exported
  <2> QED  BY <2>4, <2>5 DEF JsonlInv
<1>11. ASSUME NEW f \in Files, Remove(f) \/ \E b \in Bodies : Edit(f, b)
       PROVE  JsonlInv'
  <2>1. /\ run' = [p \in Procs |-> [run[p] EXCEPT !.plan = None]]
        /\ UNCHANGED <<records, output, spoiled>>
    BY <1>11 DEF Remove, Edit, PlansLapse
  <2>2. ASSUME NEW p \in Procs
        PROVE  Appended(run[p])'
    <3>1. /\ run'[p].pc = run[p].pc /\ run'[p].docs = run[p].docs
          /\ run'[p].left = run[p].left
      BY <1>run, <2>1 DEF Runs
    <3> QED  BY <1>run, <2>1, <3>1 DEF Appended, Exported
  <2> QED  BY <2>1, <2>2 DEF JsonlInv, Exported
<1>12. CASE UNCHANGED vars
  BY <1>12 DEF vars, JsonlInv, Appended, Exported
<1> QED
  BY <1>1, <1>2, <1>3, <1>4, <1>5, <1>6, <1>7, <1>8, <1>9, <1>10, <1>11, <1>12
  DEF Next, Advance

-----------------------------------------------------------------------------
(* A row of a SQLite database is replaced *)

Sole == \A p, q \in Procs : p = q

RecordCurrent(f) == records[f] # None /\ records[f].text = disk[f].body

(* While the record stands for what the file holds, nothing else has been   *)
(* read from the file, so nothing else can replace its row: the file would  *)
(* have to go back to what it held before.                                  *)
Replaced(r) ==
  /\ \A f \in Files : r.docs[f] # None =>
       /\ r.docs[f].text \in held[f]
       /\ RecordCurrent(f) => r.docs[f].text = disk[f].body
  /\ r.pc = "hash" =>
       /\ r.text \in held[r.file]
       /\ RecordCurrent(r.file) => r.text = disk[r.file].body
  /\ r.pc = "export" =>
       \A f \in Files : r.docs[f] # None /\ f \notin r.left => r.docs[f].text \in output[f]
  /\ r.pc = "record" =>
       \A f \in Files : r.docs[f] # None => r.docs[f].text \in output[f]

RowKept(f) ==
  /\ IsFile(f) => disk[f].body \in held[f]
  /\ records[f] # None => records[f].text \in held[f]
  /\ RecordCurrent(f) => disk[f].body \in output[f]

SqliteInv ==
  target = "sqlite" =>
    /\ \A f \in Files : RowKept(f)
    /\ \A p \in Procs : Replaced(run[p])

LEMMA ReplacedStep ==
  ASSUME TypeInv, SqliteInv, Sole, target = "sqlite", NEW p \in Procs, NEW r, Replaced(r),
         run' = [run EXCEPT ![p] = r], UNCHANGED <<disk, records, output, held>>
  PROVE  SqliteInv'
<1>1. ASSUME NEW q \in Procs
      PROVE  Replaced(run[q])'
  <2>1. Replaced(run'[q])
    BY DEF SqliteInv, TypeInv, TypeOK, Sole
  <2> QED  BY <2>1 DEF Replaced, RecordCurrent
<1>2. ASSUME NEW f \in Files
      PROVE  RowKept(f)'
  <2>1. RowKept(f)
    BY DEF SqliteInv
  <2> QED  BY <2>1 DEF RowKept, IsFile, RecordCurrent
<1> QED  BY <1>1, <1>2 DEF SqliteInv

(* a step of p after which it has the same documents, or none, and is in    *)
(* its loop                                                                 *)
LEMMA ReplacedElsewhere ==
  ASSUME TypeInv, SqliteInv, Sole, target = "sqlite", NEW p \in Procs, NEW r,
         \A f \in Files : r.docs[f] = run[p].docs[f] \/ r.docs[f] = None,
         r.pc \notin {"hash", "export", "record"},
         run' = [run EXCEPT ![p] = r], UNCHANGED <<disk, records, output, held>>
  PROVE  SqliteInv'
<1>1. Replaced(r)
  BY DEF SqliteInv, Replaced
<1> QED  BY <1>1, ReplacedStep

LEMMA SqliteInit == Init => SqliteInv
<1> SUFFICES ASSUME Init
             PROVE  SqliteInv
  OBVIOUS
<1>1. \A f \in Files : IsFile(f) => disk[f].body \in held[f]
  BY DEF Init, IsFile
<1>2. \A f \in Files : records[f] = None
  BY DEF Init
<1>3. \A p \in Procs : Replaced(run[p])
  BY DEF Init, Replaced, IdleRun
<1> QED  BY <1>1, <1>2, <1>3 DEF SqliteInv, RowKept, RecordCurrent

LEMMA SqliteStep == ASSUME Sole, ~MayRevert
                    PROVE  TypeInv /\ SqliteInv /\ [Next]_vars => SqliteInv'
<1> SUFFICES ASSUME TypeInv, SqliteInv, [Next]_vars, target = "sqlite"
             PROVE  SqliteInv'
  BY TargetStays DEF SqliteInv
<1>run. ASSUME NEW p \in Procs
        PROVE  run[p] \in Runs /\ GoodShape(run[p]) /\ Replaced(run[p])
  BY DEF TypeInv, TypeOK, Shape, SqliteInv
<1>kept. \A f \in Files : RowKept(f)
  BY DEF SqliteInv
<1>leave. ASSUME NEW p \in Procs, Leave(p), UNCHANGED <<disk, records, output, held>>
          PROVE  SqliteInv'
  <2>1. /\ IdleRun.pc \notin {"hash", "export", "record"}
        /\ \A f \in Files : IdleRun.docs[f] = run[p].docs[f] \/ IdleRun.docs[f] = None
    BY DEF IdleRun
  <2> QED  BY <1>leave, <2>1, ReplacedElsewhere DEF Leave
<1>next. ASSUME NEW p \in Procs, NextFile(p), UNCHANGED <<disk, records, output, held>>
         PROVE  SqliteInv'
  <2> DEFINE r == [run[p] EXCEPT !.pc = "next", !.file = None, !.size = 0,
                                 !.stamp = 0, !.text = None]
  <2>1. r.pc \notin {"hash", "export", "record"} /\ r.docs = run[p].docs
    BY <1>run DEF Runs
  <2>2. run' = [run EXCEPT ![p] = r]
    BY <1>next DEF NextFile
  <2> HIDE DEF r
  <2> QED  BY <1>next, <2>1, <2>2, ReplacedElsewhere
<1>goto. ASSUME NEW p \in Procs, NEW state \in {"decide", "read"}, Goto(p, state),
                UNCHANGED <<disk, records, output, held>>
         PROVE  SqliteInv'
  <2> DEFINE r == [run[p] EXCEPT !.pc = state]
  <2>1. r.pc \notin {"hash", "export", "record"} /\ r.docs = run[p].docs
    BY <1>run DEF Runs
  <2>2. run' = [run EXCEPT ![p] = r]
    BY <1>goto DEF Goto
  <2> HIDE DEF r
  <2> QED  BY <1>goto, <2>1, <2>2, ReplacedElsewhere
<1>1. ASSUME NEW p \in Procs, NEW force \in BOOLEAN, BeginSync(p, force)
      PROVE  SqliteInv'
  <2> DEFINE r == [IdleRun EXCEPT !.pc = "next", !.force = force,
                                  !.left = {f \in Files : IsFile(f)},
                                  !.plan = Announced]
  <2>1. r.pc \notin {"hash", "export", "record"}
    BY DEF IdleRun
  <2>2. \A f \in Files : r.docs[f] = run[p].docs[f] \/ r.docs[f] = None
    BY DEF IdleRun
  <2>3. run' = [run EXCEPT ![p] = r] /\ UNCHANGED <<disk, records, output, held>>
    BY <1>1 DEF BeginSync
  <2> HIDE DEF r
  <2> QED  BY <2>1, <2>2, <2>3, ReplacedElsewhere
<1>2. ASSUME NEW p \in Procs, NEW f \in Files, Stat(p, f)
      PROVE  SqliteInv'
  <2> DEFINE r1 == [run[p] EXCEPT !.pc = "sniff", !.left = @ \ {f}, !.file = f,
                                  !.size = Size[disk[f].body], !.stamp = disk[f].stamp]
             r2 == [run[p] EXCEPT !.left = @ \ {f}]
  <2>1. /\ r1.pc = "sniff" /\ r1.docs = run[p].docs
        /\ r2.pc = "next" /\ r2.docs = run[p].docs
    BY <1>run, <1>2 DEF Runs, Stat, At
  <2>2. /\ run' = [run EXCEPT ![p] = r1] \/ run' = [run EXCEPT ![p] = r2]
        /\ UNCHANGED <<disk, records, output, held>>
    BY <1>2 DEF Stat
  <2> HIDE DEF r1, r2
  <2> QED  BY <2>1, <2>2, ReplacedElsewhere
<1>3. ASSUME NEW p \in Procs, Sniff(p) \/ SkipByStat(p) \/ DecideBySum(p)
      PROVE  SqliteInv'
  <2>1. /\ UNCHANGED <<disk, records, output, held>>
        /\ NextFile(p) \/ Goto(p, "read") \/ Goto(p, "decide")
    BY <1>3 DEF Sniff, SkipByStat, DecideBySum
  <2> QED  BY <2>1, <1>next, <1>goto
<1>4. ASSUME NEW p \in Procs, Read(p)
      PROVE  SqliteInv'
  <2> DEFINE r == [run[p] EXCEPT !.pc = "hash", !.text = disk[run[p].file].body]
  <2>1. /\ r.pc = "hash" /\ r.docs = run[p].docs /\ r.file = run[p].file
        /\ r.text = disk[run[p].file].body
    BY <1>run DEF Runs
  <2>2. run' = [run EXCEPT ![p] = r] /\ UNCHANGED <<disk, records, output, held>>
    BY <1>4 DEF Read
  <2> HIDE DEF r
  <2>3. disk[run[p].file].body \in held[run[p].file]
    BY <1>run, <1>kept, <1>4 DEF Read, At, GoodShape, Busy, RowKept
  <2>4. Replaced(r)
    BY <1>run, <2>1, <2>3 DEF Replaced
  <2> QED  BY <2>2, <2>4, ReplacedStep
<1>5. ASSUME NEW p \in Procs, Hash(p)
      PROVE  SqliteInv'
  <2> DEFINE f == run[p].file
             doc == [size |-> run[p].size, stamp |-> run[p].stamp,
                     sum |-> disk[f].body, text |-> run[p].text,
                     source_type |-> run[p].source_type]
             d == [run[p].docs EXCEPT ![f] = doc]
             t == Detected[f][run[p].text]
             r == [run[p] EXCEPT !.pc = "next", !.file = None, !.size = 0, !.stamp = 0,
                                 !.text = None, !.docs = d, !.source_type = t]
  <2>1. f \in Files
    BY <1>run, <1>5 DEF Hash, At, GoodShape, Busy
  <2>2. run' = [run EXCEPT ![p] = r] /\ UNCHANGED <<disk, records, output, held>>
    BY <1>5 DEF Hash
  <2>3. \A g \in Files : d[g] = IF g = f THEN doc ELSE run[p].docs[g]
    BY <1>run, <2>1 DEF Runs
  <2>4. doc.text \in held[f] /\ (RecordCurrent(f) => doc.text = disk[f].body)
    BY <1>run, <1>5 DEF Hash, At, Replaced
  <2> HIDE DEF doc, d, t
  <2>5. r.pc = "next" /\ r.docs = d
    BY <1>run DEF Runs
  <2> HIDE DEF r
  <2>6. Replaced(r)
    BY <1>run, <2>3, <2>4, <2>5 DEF Replaced
  <2> QED  BY <2>2, <2>6, ReplacedStep
<1>6. ASSUME NEW p \in Procs, Vanished(p) \/ EndDryRun(p) \/ EndRun(p) \/ Crash(p)
      PROVE  SqliteInv'
  BY <1>6, <1>leave DEF Vanished, EndDryRun, EndRun, Crash
<1>7. ASSUME NEW p \in Procs, EndLoop(p) \/ EndReplace(p)
      PROVE  SqliteInv'
  <2>1. PICK state \in {"export", "record"} :
          /\ run' = [run EXCEPT ![p].pc = state, ![p].left = Captured(p)]
          /\ state = "record" => run[p].pc = "export" /\ run[p].left = {}
    BY <1>7 DEF EndLoop, EndReplace, ToRecord, At
  <2> DEFINE r == [run[p] EXCEPT !.pc = state, !.left = Captured(p)]
  <2>2. r.pc = state /\ r.left = Captured(p) /\ r.docs = run[p].docs
    BY <1>run DEF Runs
  <2>3. run' = [run EXCEPT ![p] = r] /\ UNCHANGED <<disk, records, output, held>>
    BY <1>7, <2>1 DEF EndLoop, EndReplace
  <2> HIDE DEF r
  <2>4. Replaced(r)
    BY <1>run, <2>1, <2>2 DEF Replaced, Captured
  <2> QED  BY <2>3, <2>4, ReplacedStep
<1>8. ASSUME NEW p \in Procs, AppendDocuments(p) \/ AppendCut(p)
      PROVE  SqliteInv'
  BY <1>8 DEF AppendDocuments, AppendCut
<1>9. ASSUME NEW p \in Procs, NEW f \in Files, Replace(p, f)
      PROVE  SqliteInv'
  <2>1. /\ output' = [output EXCEPT ![f] = {run[p].docs[f].text}]
        /\ run' = [run EXCEPT ![p].left = @ \ {f}]
        /\ UNCHANGED <<disk, records, held>>
    BY <1>9 DEF Replace
  <2>2. run[p].pc = "export" /\ run[p].docs[f] # None
    BY <1>run, <1>9 DEF Replace, At, First, GoodShape
  <2>3. /\ run'[p].pc = run[p].pc /\ run'[p].docs = run[p].docs
        /\ run'[p].left = run[p].left \ {f}
    BY <1>run, <2>1 DEF Runs, TypeInv, TypeOK
  <2>4. \A g \in Files : output'[g] = IF g = f THEN {run[p].docs[f].text} ELSE output[g]
    BY <2>1 DEF TypeInv, TypeOK
  <2>5. Replaced(run[p])'
    BY <1>run, <2>1, <2>2, <2>3, <2>4 DEF Replaced, RecordCurrent
  <2>6. \A q \in Procs : Replaced(run[q])'
    BY <2>5 DEF Sole
  <2>7. ASSUME NEW g \in Files
        PROVE  RowKept(g)'
    BY <1>run, <1>kept, <2>1, <2>2, <2>4 DEF RowKept, Replaced, IsFile, RecordCurrent
  <2> QED  BY <2>6, <2>7 DEF SqliteInv
<1>10. ASSUME NEW p \in Procs, NEW f \in Files, Record(p, f)
       PROVE  SqliteInv'
  <2> DEFINE doc == run[p].docs[f]
             rec == [size |-> doc.size, stamp |-> doc.stamp, sum |-> doc.sum,
                     text |-> doc.text]
  <2>1. /\ records' = [records EXCEPT ![f] = rec]
        /\ run' = [run EXCEPT ![p].left = @ \ {f}]
        /\ UNCHANGED <<disk, output, held>>
    BY <1>10 DEF Record
  <2>2. run[p].pc = "record" /\ doc # None
    BY <1>run, <1>10 DEF Record, At, First, GoodShape
  <2>3. rec.text = doc.text /\ doc.text \in held[f] /\ doc.text \in output[f]
    BY <1>run, <2>2 DEF Replaced
  <2>4. \A g \in Files : records'[g] = IF g = f THEN rec ELSE records[g]
    BY <2>1 DEF TypeInv, TypeOK
  <2>5. run'[p].pc = run[p].pc /\ run'[p].docs = run[p].docs
    BY <1>run, <2>1 DEF Runs, TypeInv, TypeOK
  <2> HIDE DEF rec
  <2>6. Replaced(run[p])'
    BY <1>run, <2>1, <2>2, <2>3, <2>4, <2>5 DEF Replaced, RecordCurrent
  <2>7. \A q \in Procs : Replaced(run[q])'
    BY <2>6 DEF Sole
  <2>8. ASSUME NEW g \in Files
        PROVE  RowKept(g)'
    BY <1>kept, <2>1, <2>3, <2>4 DEF RowKept, IsFile, RecordCurrent
  <2> QED  BY <2>7, <2>8 DEF SqliteInv
<1>11. ASSUME NEW f \in Files, Remove(f) \/ \E b \in Bodies : Edit(f, b)
       PROVE  SqliteInv'
  <2>1. /\ run' = [p \in Procs |-> [run[p] EXCEPT !.plan = None]]
        /\ UNCHANGED <<records, output>>
    BY <1>11 DEF Remove, Edit, PlansLapse
  <2>2. ASSUME NEW g \in Files
        PROVE  /\ held[g] \subseteq held'[g]
               /\ \/ disk'[g].body = disk[g].body
                  \/ disk'[g].body = None
                  \/ disk'[g].body \in held'[g] /\ disk'[g].body \notin held[g]
    BY <1>11 DEF Remove, Edit, TypeInv, TypeOK
  <2>3. ASSUME NEW g \in Files, RecordCurrent(g)'
        PROVE  RecordCurrent(g) /\ disk'[g].body = disk[g].body
    <3>1. /\ records[g] # None /\ records[g].text = disk'[g].body
          /\ records[g].text \in held[g]
      BY <1>kept, <2>1, <2>3 DEF RecordCurrent, RowKept
    <3>2. records[g].text # None
      BY <3>1, BodiesAssumption DEF TypeInv, TypeOK, Records
    <3> QED  BY <2>2, <3>1, <3>2 DEF RecordCurrent
  <2>4. ASSUME NEW p \in Procs
        PROVE  Replaced(run[p])'
    <3>1. /\ run'[p].pc = run[p].pc /\ run'[p].docs = run[p].docs
          /\ run'[p].left = run[p].left /\ run'[p].file = run[p].file
          /\ run'[p].text = run[p].text
      BY <1>run, <2>1 DEF Runs
    <3>2. run[p].pc = "hash" => run[p].file \in Files
      BY <1>run DEF GoodShape, Busy
    <3> QED  BY <1>run, <2>1, <2>2, <2>3, <3>1, <3>2 DEF Replaced
  <2>5. ASSUME NEW g \in Files
        PROVE  RowKept(g)'
    BY <1>kept, <2>1, <2>2, <2>3 DEF RowKept, RecordCurrent, IsFile
  <2> QED  BY <2>4, <2>5 DEF SqliteInv
<1>12. CASE UNCHANGED vars
  BY <1>12 DEF vars, SqliteInv, RowKept, Replaced, RecordCurrent, IsFile
<1> QED
  BY <1>1, <1>2, <1>3, <1>4, <1>5, <1>6, <1>7, <1>8, <1>9, <1>10, <1>11, <1>12
  DEF Next, Advance

-----------------------------------------------------------------------------

(* what makes it safe to skip a file *)
SafeInv ==
  /\ TypeInv
  /\ StampsTell
  /\ JsonlInv
  /\ Targets = {"jsonl"} \/ SqliteInv

LEMMA SafeInit == Init => SafeInv
BY TypeInit, StampsTellInit, JsonlInit, SqliteInit DEF SafeInv

LEMMA SafeStep ==
  ASSUME Targets = {"jsonl"} \/ (Sole /\ ~MayRevert)
  PROVE  SafeInv /\ [Next]_vars => SafeInv'
BY TypeStep, StampsTellNext, JsonlStep, SqliteStep DEF SafeInv

LEMMA SafeSkips == SafeInv => SkippedIsExported
<1> SUFFICES ASSUME SafeInv, NEW f \in Files, WouldSkip(f)
             PROVE  disk[f].body \in output[f] \/ Glued(f) \/ Misread(f)
  BY DEF SkippedIsExported
<1>1. records[f] # None /\ records[f].sum = disk[f].body
  <2>1. CASE SameStat(f, Size[disk[f].body], disk[f].stamp)
    BY <2>1 DEF SafeInv, WouldSkip, SameStat, StampsTell, Tells
  <2>2. CASE SameSum(f)
    BY <2>2 DEF SameSum
  <2> QED  BY <2>1, <2>2 DEF WouldSkip
<1>2. records[f].text = disk[f].body \/ Misread(f)
  BY <1>1 DEF Misread
<1>3. ASSUME records[f].text = disk[f].body
      PROVE  disk[f].body \in output[f] \/ Glued(f)
  <2>1. target = "jsonl" \/ target = "sqlite"
    BY TargetsAssumption DEF SafeInv, TypeInv, TypeOK
  <2>2. CASE target = "jsonl"
    BY <1>1, <1>3, <2>2 DEF SafeInv, JsonlInv, Exported, Glued
  <2>3. CASE target = "sqlite"
    <3>1. SqliteInv
      BY <2>3 DEF SafeInv, TypeInv, TypeOK
    <3> QED  BY <1>1, <1>3, <2>3, <3>1 DEF SqliteInv, RowKept, RecordCurrent
  <2> QED  BY <2>1, <2>2, <2>3
<1> QED  BY <1>2, <1>3

(* What the next run skips as unchanged was exported as it is, but for the  *)
(* two known losses, for one process at a time: for a JSONL file whatever   *)
(* the edits, for a SQLite database if no file goes back to what it held    *)
(* before (state/checkpoints.py:24-29).                                     *)
THEOREM SkipsAreSafe ==
  ASSUME Sole, Targets = {"jsonl"} \/ ~MayRevert
  PROVE  Spec => []SkippedIsExported
BY SafeInit, SafeStep, SafeSkips, PTL DEF Spec

-----------------------------------------------------------------------------
(* A run keeps to the plan *)

Lost(f) == Glued(f) \/ Misread(f)

(* While nothing changed since the run began, what it has at hand and what  *)
(* it captured is on the plan and as the disk has it, and every file of the *)
(* plan is to come, at hand, captured or in the output.                     *)
OnPlan(r) == r.plan # None =>
  /\ r.plan = Announced
  /\ r.pc \in Busy =>
       /\ IsFile(r.file) /\ r.size = Size[disk[r.file].body] /\ r.stamp = disk[r.file].stamp
       /\ PassesPolicy(r.file, r.size)
  /\ r.pc \in {"decide", "read", "hash"} => PassesSniff(r.file, disk[r.file].body)
  /\ r.pc = "hash" => r.text = disk[r.file].body
  /\ \A f \in Files : r.docs[f] # None =>
       f \in Announced /\ r.docs[f].sum = disk[f].body /\ r.docs[f].text = disk[f].body
  /\ \A f \in Announced :
       \/ r.pc \in Busy \cup {"next"} /\ f \in r.left
       \/ r.pc \in Busy /\ f = r.file
       \/ r.docs[f] # None
       \/ disk[f].body \in output[f] \/ Lost(f)

PlanInv == \A p \in Procs : OnPlan(run[p])

(* Inspection and sync agree on a file. *)
LEMMA SupportedPasses ==
  ASSUME NEW f \in Files, NEW b \in Bodies
  PROVE  InspectClass(f, b) = "supported" <=> PassesPolicy(f, Size[b]) /\ PassesSniff(f, b)
<1>1. Size[b] \in Nat /\ MaxSize \in Nat
  BY BodiesAssumption, BoundsAssumption
<1> QED BY <1>1 DEF InspectClass, PassesPolicy, PassesSniff

LEMMA AnnouncedPasses ==
  ASSUME TypeInv, NEW f \in Files
  PROVE  f \in Announced <=>
           /\ IsFile(f)
           /\ PassesPolicy(f, Size[disk[f].body])
           /\ PassesSniff(f, disk[f].body)
BY SupportedPasses DEF Announced, IsFile, TypeInv, TypeOK

(* a step of p, and nobody else runs, that leaves the tables alone *)
LEMMA OnPlanStep ==
  ASSUME Sole, TypeInv, PlanInv, NEW p \in Procs, NEW r, run' = [run EXCEPT ![p] = r],
         UNCHANGED <<disk, records, output, spoiled>>, OnPlan(r)
  PROVE  PlanInv'
<1>1. \A q \in Procs : run'[q] = r
  BY DEF Sole, TypeInv, TypeOK
<1>2. OnPlan(r)'  <=> OnPlan(r)
  BY DEF OnPlan, Announced, IsFile, Lost, Glued, Misread
<1> QED BY <1>1, <1>2 DEF PlanInv, OnPlan, Announced, IsFile, Lost, Glued, Misread

(* a step after which p has no plan *)
LEMMA NoPlanStep ==
  ASSUME Sole, TypeInv, NEW p \in Procs, NEW r, run' = [run EXCEPT ![p] = r], r.plan = None
  PROVE  PlanInv'
<1>1. \A q \in Procs : run'[q] = r
  BY DEF Sole, TypeInv, TypeOK
<1> QED BY <1>1 DEF PlanInv, OnPlan

LEMMA PlanInit == Init => PlanInv
BY DEF Init, PlanInv, OnPlan, IdleRun

(* a step of an export or of the recording: what the run did not capture is *)
(* as it was                                                                *)
LEMMA OnPlanKept ==
  ASSUME Sole, TypeInv, PlanInv, NEW p \in Procs, NEW r, run' = [run EXCEPT ![p] = r],
         disk' = disk, r.plan = run[p].plan, r.docs = run[p].docs,
         r.pc \notin Busy \cup {"next"}, run[p].pc \notin Busy \cup {"next"},
         \A f \in Files :
           run[p].docs[f] = None /\ (disk[f].body \in output[f] \/ Lost(f)) =>
             disk[f].body \in output'[f] \/ Lost(f)'
  PROVE  PlanInv'
<1>1. \A q \in Procs : run'[q] = r
  BY DEF Sole, TypeInv, TypeOK
<1>2. Announced' = Announced
  BY DEF Announced, IsFile
<1>3. OnPlan(run[p])
  BY DEF PlanInv
<1>4. Announced \subseteq Files
  BY DEF Announced
<1>5. ASSUME r.plan # None
      PROVE  /\ r.plan = Announced
             /\ \A f \in Files : r.docs[f] # None =>
                  f \in Announced /\ r.docs[f].sum = disk[f].body /\ r.docs[f].text = disk[f].body
             /\ \A f \in Announced :
                  r.docs[f] # None \/ disk[f].body \in output'[f] \/ Lost(f)'
  BY <1>3, <1>4, <1>5 DEF OnPlan
<1>6. r.pc \notin {"decide", "read", "hash"}
  BY DEF Busy
<1> QED BY <1>1, <1>2, <1>5, <1>6 DEF PlanInv, OnPlan

LEMMA PlanNext ==
  ASSUME Sole, TypeInv, SkippedIsExported, PlanInv, [Next]_vars
  PROVE  PlanInv'
<1>run. ASSUME NEW p \in Procs
        PROVE  run[p] \in Runs /\ GoodShape(run[p]) /\ OnPlan(run[p])
  BY DEF TypeInv, TypeOK, Shape, PlanInv
<1>files. Announced \subseteq Files
  BY DEF Announced
<1>leave. ASSUME NEW p \in Procs, Leave(p)
          PROVE  PlanInv'
  <2>1. IdleRun.plan = None
    BY DEF IdleRun
  <2> QED BY <1>leave, <2>1, NoPlanStep DEF Leave
<1>next. ASSUME NEW p \in Procs, NextFile(p), run[p].pc \in Busy,
                UNCHANGED <<disk, records, output, spoiled>>,
                run[p].plan # None /\ run[p].file \in Announced =>
                  disk[run[p].file].body \in output[run[p].file] \/ Lost(run[p].file)
         PROVE  PlanInv'
  <2> DEFINE r == [run[p] EXCEPT !.pc = "next", !.file = None, !.size = 0,
                                 !.stamp = 0, !.text = None]
  <2>1. /\ r.pc = "next" /\ r.docs = run[p].docs /\ r.left = run[p].left
        /\ r.plan = run[p].plan
    BY <1>run DEF Runs
  <2>2. run' = [run EXCEPT ![p] = r]
    BY <1>next DEF NextFile
  <2> HIDE DEF r
  <2>3. OnPlan(r)
    BY <1>run, <1>next, <2>1 DEF OnPlan, Busy
  <2> QED BY <1>next, <2>2, <2>3, OnPlanStep
<1>goto. ASSUME NEW p \in Procs, NEW state \in {"decide", "read"}, Goto(p, state),
                run[p].pc \in {"sniff", "decide"},
                run[p].plan # None => PassesSniff(run[p].file, disk[run[p].file].body),
                UNCHANGED <<disk, records, output, spoiled>>
         PROVE  PlanInv'
  <2> DEFINE r == [run[p] EXCEPT !.pc = state]
  <2>1. /\ r.pc = state /\ r.docs = run[p].docs /\ r.left = run[p].left
        /\ r.plan = run[p].plan /\ r.file = run[p].file /\ r.size = run[p].size
        /\ r.stamp = run[p].stamp
    BY <1>run DEF Runs
  <2>2. run' = [run EXCEPT ![p] = r]
    BY <1>goto DEF Goto
  <2> HIDE DEF r
  <2>3. OnPlan(r)
    BY <1>run, <1>goto, <2>1 DEF OnPlan, Busy
  <2> QED BY <1>goto, <2>2, <2>3, OnPlanStep
<1>1. ASSUME NEW p \in Procs, NEW force \in BOOLEAN, BeginSync(p, force)
      PROVE  PlanInv'
  <2> DEFINE r == [IdleRun EXCEPT !.pc = "next", !.force = force,
                                  !.left = {f \in Files : IsFile(f)},
                                  !.plan = Announced]
  <2>1. /\ r.pc = "next" /\ r.left = {f \in Files : IsFile(f)} /\ r.plan = Announced
        /\ \A f \in Files : r.docs[f] = None
    BY DEF IdleRun
  <2>2. run' = [run EXCEPT ![p] = r] /\ UNCHANGED <<disk, records, output, spoiled>>
    BY <1>1 DEF BeginSync
  <2> HIDE DEF r
  <2>3. \A f \in Announced : f \in r.left
    BY <2>1 DEF Announced
  <2>4. OnPlan(r)
    BY <2>1, <2>3 DEF OnPlan, Busy
  <2> QED BY <2>2, <2>4, OnPlanStep
<1>2. ASSUME NEW p \in Procs, NEW f \in Files, Stat(p, f)
      PROVE  PlanInv'
  <2> DEFINE r1 == [run[p] EXCEPT !.pc = "sniff", !.left = @ \ {f}, !.file = f,
                                  !.size = Size[disk[f].body], !.stamp = disk[f].stamp]
             r2 == [run[p] EXCEPT !.left = @ \ {f}]
  <2>1. /\ r1.pc = "sniff" /\ r1.docs = run[p].docs /\ r1.plan = run[p].plan
        /\ r1.left = run[p].left \ {f} /\ r1.file = f
        /\ r1.size = Size[disk[f].body] /\ r1.stamp = disk[f].stamp
        /\ r2.pc = "next" /\ r2.docs = run[p].docs /\ r2.plan = run[p].plan
        /\ r2.left = run[p].left \ {f}
    BY <1>run, <1>2 DEF Runs, Stat, At
  <2>2. /\ \/ run' = [run EXCEPT ![p] = r1]
              /\ IsFile(f) /\ PassesPolicy(f, Size[disk[f].body])
           \/ run' = [run EXCEPT ![p] = r2]
              /\ ~(IsFile(f) /\ PassesPolicy(f, Size[disk[f].body]))
        /\ UNCHANGED <<disk, records, output, spoiled>>
        /\ run[p].pc = "next"
    BY <1>2 DEF Stat, At
  <2> HIDE DEF r1, r2
  <2>3. ASSUME IsFile(f), PassesPolicy(f, Size[disk[f].body])
        PROVE  OnPlan(r1)
    BY <1>run, <2>1, <2>2, <2>3 DEF OnPlan, Busy
  <2>4. ASSUME ~(IsFile(f) /\ PassesPolicy(f, Size[disk[f].body]))
        PROVE  OnPlan(r2)
    <3>1. f \notin Announced
      BY <2>4, AnnouncedPasses
    <3> QED BY <1>run, <2>1, <2>2, <3>1 DEF OnPlan, Busy
  <2> QED BY <2>2, <2>3, <2>4, OnPlanStep
<1>3. ASSUME NEW p \in Procs, Sniff(p)
      PROVE  PlanInv'
  <2>1. /\ run[p].pc = "sniff" /\ run[p].file \in Files
        /\ UNCHANGED <<disk, records, output, spoiled>>
    BY <1>run, <1>3 DEF Sniff, At, GoodShape, Busy
  <2>2. CASE PassesSniff(run[p].file, disk[run[p].file].body)
    BY <1>3, <1>goto, <2>1, <2>2 DEF Sniff
  <2>3. CASE ~PassesSniff(run[p].file, disk[run[p].file].body)
    <3>1. run[p].file \notin Announced
      BY <2>1, <2>3, AnnouncedPasses
    <3> QED BY <1>3, <1>next, <2>1, <2>3, <3>1 DEF Sniff, Busy
  <2> QED BY <2>2, <2>3
<1>4. ASSUME NEW p \in Procs, SkipByStat(p) \/ DecideBySum(p)
      PROVE  PlanInv'
  <2>1. /\ run[p].pc = "decide" /\ run[p].file \in Files
        /\ UNCHANGED <<disk, records, output, spoiled>>
        /\ \/ NextFile(p) /\ SameStat(run[p].file, run[p].size, run[p].stamp)
           \/ NextFile(p) /\ SameSum(run[p].file)
           \/ Goto(p, "read")
    BY <1>run, <1>4 DEF SkipByStat, DecideBySum, At, GoodShape, Busy
  <2>2. CASE Goto(p, "read")
    BY <1>run, <1>goto, <2>1, <2>2 DEF OnPlan
  <2>3. CASE NextFile(p) /\ (SameStat(run[p].file, run[p].size, run[p].stamp)
                                \/ SameSum(run[p].file))
    <3>1. ASSUME run[p].plan # None
          PROVE  WouldSkip(run[p].file)
      BY <1>run, <2>1, <2>3, <3>1 DEF OnPlan, Busy, WouldSkip
    <3> QED BY <1>next, <2>1, <2>3, <3>1 DEF SkippedIsExported, Busy, Lost
  <2> QED BY <2>1, <2>2, <2>3
<1>5. ASSUME NEW p \in Procs, Read(p)
      PROVE  PlanInv'
  <2> DEFINE r == [run[p] EXCEPT !.pc = "hash", !.text = disk[run[p].file].body]
  <2>1. /\ r.pc = "hash" /\ r.docs = run[p].docs /\ r.file = run[p].file
        /\ r.text = disk[run[p].file].body /\ r.left = run[p].left
        /\ r.plan = run[p].plan /\ r.size = run[p].size /\ r.stamp = run[p].stamp
    BY <1>run DEF Runs
  <2>2. /\ run' = [run EXCEPT ![p] = r] /\ UNCHANGED <<disk, records, output, spoiled>>
        /\ run[p].pc = "read"
    BY <1>5 DEF Read, At
  <2> HIDE DEF r
  <2>3. OnPlan(r)
    BY <1>run, <2>1, <2>2 DEF OnPlan, Busy
  <2> QED BY <2>2, <2>3, OnPlanStep
<1>6. ASSUME NEW p \in Procs, Hash(p)
      PROVE  PlanInv'
  <2> DEFINE f == run[p].file
             doc == [size |-> run[p].size, stamp |-> run[p].stamp,
                     sum |-> disk[f].body, text |-> run[p].text,
                     source_type |-> run[p].source_type]
             d == [run[p].docs EXCEPT ![f] = doc]
             t == Detected[f][run[p].text]
             r == [run[p] EXCEPT !.pc = "next", !.file = None, !.size = 0, !.stamp = 0,
                                 !.text = None, !.docs = d, !.source_type = t]
  <2>1. f \in Files /\ run[p].pc = "hash"
    BY <1>run, <1>6 DEF Hash, At, GoodShape, Busy
  <2>2. run' = [run EXCEPT ![p] = r] /\ UNCHANGED <<disk, records, output, spoiled>>
    BY <1>6 DEF Hash
  <2>3. \A g \in Files : d[g] = IF g = f THEN doc ELSE run[p].docs[g]
    BY <1>run, <2>1 DEF Runs
  <2>4. doc.sum = disk[f].body /\ doc.text = run[p].text
    OBVIOUS
  <2>5. ASSUME run[p].plan # None
        PROVE  f \in Announced /\ run[p].text = disk[f].body
    BY <1>run, <2>1, <2>5, AnnouncedPasses DEF OnPlan, Busy
  <2>6. doc # None
    <3>1. run[p].text \in Bodies /\ disk[f].body \in Bodies
      BY <1>run, <1>6, <2>1 DEF Hash, GoodShape, IsFile, TypeInv, TypeOK
    <3>2. doc \in Documents
      BY <1>run, <3>1 DEF Runs, Documents
    <3> QED BY <3>2, NoneAssumption
  <2> HIDE DEF doc, d, t
  <2>7. /\ r.pc = "next" /\ r.docs = d /\ r.left = run[p].left /\ r.plan = run[p].plan
    BY <1>run DEF Runs
  <2> HIDE DEF r
  <2>8. OnPlan(r)
    BY <1>run, <1>files, <2>1, <2>3, <2>4, <2>5, <2>6, <2>7 DEF OnPlan, Busy
  <2> QED BY <2>2, <2>8, OnPlanStep
<1>7. ASSUME NEW p \in Procs, \/ Vanished(p) \/ EndDryRun(p) \/ EndRun(p)
                              \/ Crash(p) \/ AppendCut(p)
      PROVE  PlanInv'
  BY <1>7, <1>leave DEF Vanished, EndDryRun, EndRun, Crash, AppendCut
<1>8. ASSUME NEW p \in Procs, EndLoop(p)
      PROVE  PlanInv'
  <2> DEFINE r == [run[p] EXCEPT !.pc = "export", !.left = Captured(p)]
  <2>1. r.pc = "export" /\ r.docs = run[p].docs /\ r.plan = run[p].plan
    BY <1>run DEF Runs
  <2>2. /\ run' = [run EXCEPT ![p] = r] /\ UNCHANGED <<disk, records, output, spoiled>>
        /\ run[p].pc = "next" /\ run[p].left = {}
    BY <1>8 DEF EndLoop, At
  <2> HIDE DEF r
  <2>3. OnPlan(r)
    BY <1>run, <2>1, <2>2 DEF OnPlan, Busy
  <2> QED BY <2>2, <2>3, OnPlanStep
<1>9. ASSUME NEW p \in Procs, AppendDocuments(p) \/ EndReplace(p)
      PROVE  PlanInv'
  <2> DEFINE r == [run[p] EXCEPT !.pc = "record", !.left = Captured(p)]
  <2>1. r.pc = "record" /\ r.docs = run[p].docs /\ r.plan = run[p].plan
    BY <1>run DEF Runs
  <2>2. /\ run' = [run EXCEPT ![p] = r] /\ UNCHANGED <<disk, records>>
        /\ run[p].pc = "export"
    BY <1>9 DEF AppendDocuments, EndReplace, ToRecord, At
  <2> HIDE DEF r
  <2>3. \A f \in Files : output[f] \subseteq output'[f] /\ spoiled[f] \subseteq spoiled'[f]
    BY <1>9, OutputGrows DEF AppendDocuments, EndReplace
  <2>4. \A f \in Files : disk[f].body \in output[f] \/ Lost(f) =>
          disk[f].body \in output'[f] \/ Lost(f)'
    BY <2>2, <2>3 DEF Lost, Glued, Misread
  <2> QED BY <2>1, <2>2, <2>4, OnPlanKept DEF Busy
<1>10. ASSUME NEW p \in Procs, NEW f \in Files, Replace(p, f) \/ Record(p, f)
       PROVE  PlanInv'
  <2> DEFINE r == [run[p] EXCEPT !.left = @ \ {f}]
  <2>1. /\ r.pc = run[p].pc /\ r.docs = run[p].docs /\ r.plan = run[p].plan
    BY <1>run DEF Runs
  <2>2. /\ run' = [run EXCEPT ![p] = r] /\ UNCHANGED <<disk, spoiled>>
        /\ run[p].pc \in {"export", "record"} /\ f \in run[p].left
    BY <1>10 DEF Replace, Record, First, At
  <2> HIDE DEF r
  <2>3. run[p].docs[f] # None
    BY <1>run, <2>2 DEF GoodShape
  <2>4. \A g \in Files : g # f => output'[g] = output[g] /\ records'[g] = records[g]
    BY <1>10 DEF Replace, Record, TypeInv, TypeOK
  <2>5. \A g \in Files :
          run[p].docs[g] = None /\ (disk[g].body \in output[g] \/ Lost(g)) =>
            disk[g].body \in output'[g] \/ Lost(g)'
    BY <2>2, <2>3, <2>4 DEF Lost, Glued, Misread
  <2> QED BY <2>1, <2>2, <2>5, OnPlanKept DEF Busy
<1>11. ASSUME NEW f \in Files, Remove(f) \/ \E b \in Bodies : Edit(f, b)
       PROVE  PlanInv'
  <2>1. run' = [p \in Procs |-> [run[p] EXCEPT !.plan = None]]
    BY <1>11 DEF Remove, Edit, PlansLapse
  <2>2. ASSUME NEW p \in Procs
        PROVE  run'[p].plan = None
    BY <1>run, <2>1 DEF Runs
  <2> QED BY <2>2 DEF PlanInv, OnPlan
<1>12. CASE UNCHANGED vars
  BY <1>12 DEF vars, PlanInv, OnPlan, Announced, IsFile, Lost, Glued, Misread
<1> QED
  BY <1>1, <1>2, <1>3, <1>4, <1>5, <1>6, <1>7, <1>8, <1>9, <1>10, <1>11, <1>12
  DEF Next, Advance

(* A run takes what inspection announced, if nothing changed in between, and *)
(* what it takes or skips is in the output, but for the two known losses:    *)
(* for one process, and with SQLite if no file goes back                     *)
(* (core/pipeline.py:53-88 and 206-226).                                     *)
THEOREM PlansAreKept ==
  ASSUME Sole, Targets = {"jsonl"} \/ ~MayRevert
  PROVE  Spec => []PlanIsKept
<1> DEFINE Inv == SafeInv /\ PlanInv
<1>1. Init => Inv
  BY SafeInit, PlanInit
<1>2. Inv /\ [Next]_vars => Inv'
  BY SafeStep, SafeSkips, PlanNext DEF SafeInv
<1>3. Inv => PlanIsKept
  <2> SUFFICES ASSUME Inv, NEW p \in Procs, At(p, "record"), run[p].left = {},
                      run[p].plan # None
               PROVE  /\ Captured(p) \subseteq run[p].plan
                      /\ \A f \in run[p].plan :
                           disk[f].body \in output[f] \/ Glued(f) \/ Misread(f)
    BY DEF PlanIsKept
  <2>1. OnPlan(run[p]) /\ run[p].pc = "record" /\ Announced \subseteq Files
    BY DEF PlanInv, At, Announced
  <2>2. Captured(p) \subseteq run[p].plan
    BY <2>1 DEF OnPlan, Captured
  <2>3. ASSUME NEW f \in Files, run[p].docs[f] # None
        PROVE  disk[f].body \in output[f] \/ Glued(f)
    <3>1. run[p].docs[f].text = disk[f].body
      BY <2>1, <2>3 DEF OnPlan
    <3>2. target = "jsonl" \/ target = "sqlite"
      BY TargetsAssumption DEF SafeInv, TypeInv, TypeOK
    <3>3. CASE target = "jsonl"
      BY <2>1, <2>3, <3>1, <3>3 DEF SafeInv, JsonlInv, Appended, Exported, Glued
    <3>4. CASE target = "sqlite"
      <4>1. SqliteInv
        BY <3>4 DEF SafeInv, TypeInv, TypeOK
      <4> QED BY <2>1, <2>3, <3>1, <3>4, <4>1 DEF SqliteInv, Replaced
    <3> QED BY <3>2, <3>3, <3>4
  <2>4. ASSUME NEW f \in run[p].plan
        PROVE  disk[f].body \in output[f] \/ Glued(f) \/ Misread(f)
    BY <2>1, <2>3 DEF OnPlan, Busy, Lost
  <2> QED BY <2>2, <2>4
<1> QED BY <1>1, <1>2, <1>3, PTL DEF Spec

-----------------------------------------------------------------------------
(* What torn lines cost *)

(* a torn line is a loss to come *)
Debt == IF torn_line THEN 1 ELSE 0

LossInv == Cardinality(Losses) + Debt <= cuts

LEMMA LossesFinite ==
  TypeInv => IsFiniteSet(Losses) /\ Cardinality(Losses) \in Nat /\ cuts \in Nat
<1> SUFFICES ASSUME TypeInv
             PROVE  IsFiniteSet(Losses) /\ Cardinality(Losses) \in Nat /\ cuts \in Nat
  OBVIOUS
<1>1. IsFiniteSet(Files \X Bodies)
  BY FS_Product, FilesAssumption
<1>2. IsFiniteSet(Losses)
  BY <1>1, FS_Subset DEF Losses
<1> QED  BY <1>2, FS_CardinalityType DEF TypeInv, TypeOK

LEMMA LossesOnly ==
  ASSUME TypeInv, NEW p \in Procs, NEW S \in SUBSET Files, AppendLines(p, S), ~torn_line \/ S = {}
  PROVE  Losses' = Losses
<1>1. \A f \in Files : spoiled'[f] = spoiled[f]
  BY DEF AppendLines
<1> QED  BY <1>1 DEF Losses

LEMMA OneLoss ==
  ASSUME TypeInv, TypeInv', NEW p \in Procs, NEW S \in SUBSET Files, AppendLines(p, S)
  PROVE  Cardinality(Losses') <= Cardinality(Losses) + 1
<1>1. PICK x : Losses' \subseteq Losses \cup {x}
  <2>1. CASE \E f \in S : First(f, S)
    <3>1. PICK f \in S : First(f, S)
      BY <2>1
    <3>2. \A g \in S : First(g, S) => g = f
      BY <3>1, FilesAssumption DEF First
    <3>3. \A g \in Files : g # f => spoiled'[g] = spoiled[g]
      BY <3>2 DEF AppendLines
    <3>4. spoiled'[f] \subseteq spoiled[f] \cup {run[p].docs[f].text}
      BY <3>1 DEF AppendLines
    <3>5. ASSUME NEW loss \in Losses'
          PROVE  loss \in Losses \cup {<<f, run[p].docs[f].text>>}
      BY <3>3, <3>4 DEF Losses
    <3> QED  BY <3>5
  <2>2. CASE \A f \in S : ~First(f, S)
    <3>1. \A g \in Files : spoiled'[g] = spoiled[g]
      BY <2>2 DEF AppendLines
    <3> QED  BY <3>1 DEF Losses
  <2> QED  BY <2>1, <2>2
<1>2. IsFiniteSet(Losses)
  BY LossesFinite
<1>3. IsFiniteSet(Losses \cup {x}) /\ Cardinality(Losses \cup {x}) <= Cardinality(Losses) + 1
  BY <1>2, FS_AddElement, FS_CardinalityType
<1>4. Cardinality(Losses') <= Cardinality(Losses \cup {x})
  BY <1>1, <1>3, FS_Subset
<1>5. /\ Cardinality(Losses) \in Nat /\ Cardinality(Losses') \in Nat
      /\ Cardinality(Losses \cup {x}) \in Nat
  BY <1>1, <1>2, <1>3, FS_CardinalityType, FS_Subset
<1> QED  BY <1>3, <1>4, <1>5

LEMMA LossInit == Init => LossInv
<1> SUFFICES ASSUME Init
             PROVE  LossInv
  OBVIOUS
<1>1. Losses = {}
  BY DEF Init, Losses
<1> QED  BY <1>1, FS_EmptySet DEF Init, LossInv, Debt

LEMMA LossStep == TypeInv /\ LossInv /\ [Next]_vars => LossInv'
<1> SUFFICES ASSUME TypeInv, LossInv, [Next]_vars
             PROVE  LossInv'
  OBVIOUS
<1>type. TypeInv'
  BY TypeStep
<1>finite. Cardinality(Losses) \in Nat /\ Cardinality(Losses') \in Nat /\ cuts \in Nat
  <2>1. IsFiniteSet(Files \X Bodies)
    BY FS_Product, FilesAssumption
  <2>2. IsFiniteSet(Losses')
    BY <2>1, FS_Subset DEF Losses
  <2> QED  BY <2>2, FS_CardinalityType, LossesFinite
<1>same. ASSUME UNCHANGED <<spoiled, torn_line, cuts>>
         PROVE  LossInv'
  BY <1>same DEF LossInv, Losses, Debt
<1>1. ASSUME NEW p \in Procs, AppendDocuments(p)
      PROVE  LossInv'
  <2>1. /\ run[p].left \in SUBSET Files
        /\ AppendLines(p, run[p].left)
        /\ torn_line' = (torn_line /\ run[p].left = {})
        /\ cuts' = cuts
    BY <1>1 DEF AppendDocuments, TypeInv, TypeOK, Runs
  <2>2. CASE ~torn_line \/ run[p].left = {}
    <3>1. Losses' = Losses
      BY <2>1, <2>2, LossesOnly
    <3>2. Debt' = Debt
      BY <2>1, <2>2 DEF Debt, TypeInv, TypeOK
    <3> QED  BY <2>1, <3>1, <3>2 DEF LossInv
  <2>3. CASE torn_line /\ run[p].left # {}
    <3>1. Cardinality(Losses') <= Cardinality(Losses) + 1
      BY <1>type, <2>1, OneLoss
    <3>2. Debt = 1 /\ Debt' = 0
      BY <2>1, <2>3 DEF Debt
    <3> QED  BY <1>finite, <2>1, <3>1, <3>2 DEF LossInv
  <2> QED  BY <2>2, <2>3 DEF TypeInv, TypeOK
<1>2. ASSUME NEW p \in Procs, AppendCut(p)
      PROVE  LossInv'
  <2>1. PICK f \in run[p].left, half \in BOOLEAN :
          LET written == {g \in run[p].left : g < f}
          IN  /\ AppendLines(p, written)
              /\ torn_line' = (half \/ (torn_line /\ written = {}))
    BY <1>2 DEF AppendCut
  <2> DEFINE written == {g \in run[p].left : g < f}
  <2>2. /\ written \in SUBSET Files
        /\ AppendLines(p, written)
        /\ torn_line' = (half \/ (torn_line /\ written = {}))
        /\ cuts' = cuts + 1
    BY <1>2, <2>1 DEF AppendCut, TypeInv, TypeOK, Runs
  <2> HIDE DEF written
  <2>3. Debt \in {0, 1} /\ Debt' \in {0, 1}
    BY DEF Debt
  <2>4. CASE ~torn_line \/ written = {}
    <3>1. Losses' = Losses
      BY <2>2, <2>4, LossesOnly
    <3>2. Debt' <= Debt + 1
      BY <2>3
    <3> QED  BY <1>finite, <2>2, <2>3, <3>1, <3>2 DEF LossInv
  <2>5. CASE torn_line /\ written # {}
    <3>1. Cardinality(Losses') <= Cardinality(Losses) + 1
      BY <1>type, <2>2, OneLoss
    <3>2. Debt = 1
      BY <2>5 DEF Debt
    <3> QED  BY <1>finite, <2>2, <2>3, <3>1, <3>2 DEF LossInv
  <2> QED  BY <2>4, <2>5 DEF TypeInv, TypeOK
<1>3. ASSUME NEW p \in Procs,
             \/ \E force \in BOOLEAN : BeginSync(p, force)
             \/ \E f \in Files : Stat(p, f) \/ Record(p, f) \/ Replace(p, f)
             \/ Sniff(p) \/ SkipByStat(p) \/ DecideBySum(p) \/ Read(p) \/ Hash(p)
             \/ Vanished(p) \/ EndLoop(p) \/ EndDryRun(p) \/ EndReplace(p) \/ EndRun(p)
             \/ Crash(p)
      PROVE  UNCHANGED <<spoiled, torn_line, cuts>>
  BY <1>3 DEF BeginSync, Stat, Record, Replace, Sniff, SkipByStat, DecideBySum, Read, Hash,
              Vanished, EndLoop, EndDryRun, EndReplace, EndRun, Crash
<1>4. ASSUME NEW f \in Files, Remove(f) \/ \E b \in Bodies : Edit(f, b)
      PROVE  UNCHANGED <<spoiled, torn_line, cuts>>
  BY <1>4 DEF Remove, Edit
<1>5. CASE UNCHANGED vars
  BY <1>same, <1>5 DEF vars
<1> QED  BY <1>same, <1>1, <1>2, <1>3, <1>4, <1>5 DEF Next, Advance

(* A write cut short costs the output one document at most, whatever is     *)
(* appended afterwards, if processes run one at a time                      *)
(* (exporters/jsonl_exporter.py:16-22).                                     *)
THEOREM TornLinesCostOne == ASSUME Sole PROVE Spec => []OneLossPerCut
<1>1. Init => TypeInv /\ LossInv
  BY TypeInit, LossInit
<1>2. TypeInv /\ LossInv /\ [Next]_vars => TypeInv' /\ LossInv'
  BY TypeStep, LossStep
<1>3. TypeInv /\ LossInv => OneLossPerCut
  BY LossesFinite DEF LossInv, Debt, OneLossPerCut
<1> QED  BY <1>1, <1>2, <1>3, PTL DEF Spec

=============================================================================
