-------------------------- MODULE TimetableProofs --------------------------
(***************************************************************************)
(* Proofs about Timetable, for any files, runs, kinds of runs and faults.  *)
(***************************************************************************)
EXTENDS Timetable, TLAPS

USE TimetableAssumption

Guarded(r) == Working(r) /\ kind[r] # "bundle"
Syncing(r) == Working(r) /\ kind[r] = "sync"
HasFile(r) == Syncing(r) /\ at[r] \in {"export", "load"}

\* A sync that imports a file has one.
FileInHand == \A r \in Runs : kind[r] = "sync" /\ at[r] \in {"export", "load"} =>
                file[r] \in Files

\* A guarded run at work holds the lock, and only such a run does.
Exclusive ==
  /\ \A r \in Runs : Guarded(r) => lock = r
  /\ \A r \in Runs : at[r] # "idle" => kind[r] \in Kinds
  /\ \A r \in Runs : kind[r] = "bundle" => at[r] \notin {"guard", "list", "import", "export"}
  /\ \A r \in Runs : kind[r] # "sync" \/ at[r] \in {"idle", "guard"} => left[r] = {} /\ at[r] # "list"

\* Every copy of a timetable on its way to the engine was loaded before.
OnTheWay ==
  /\ {data, engine} \subseteq Published
  /\ volume \in Published \union {Mixed}
  /\ partial \in Published \union {None, Mixed}
  /\ \A r \in Runs : sidecar[r].at # "none" => sidecar[r].loading \in Published \union {Mixed}
  /\ \A r \in Runs : at[r] = "upload" => Carried(r) \in Published

\* The rows of imported files.
RowsOfFiles ==
  \A i \in DOMAIN etlRun : etlRun[i].mtime # 0 =>
    /\ etlRun[i].ok /\ etlRun[i].version \in remote
    /\ etlRun[i].mtime = MTime[etlRun[i].version]

\* A file still to import comes after every row, and a current one first.
AfterRows(f) == \A i \in DOMAIN etlRun : etlRun[i].mtime # 0 =>
                  etlRun[i].mtime <= MTime[f] /\ etlRun[i].version # f
QueueOf(r) ==
  /\ left[r] \subseteq remote
  /\ \A f \in left[r] : AfterRows(f)
  /\ HasFile(r) =>
       /\ file[r] \in remote /\ AfterRows(file[r])
       /\ file[r] \notin left[r]
       /\ \A g \in left[r] : MTime[file[r]] <= MTime[g]
       /\ at[r] = "export" => scratch = file[r]
       /\ at[r] = "load" => zip = file[r]
QueueInOrder == \A r \in Runs : Syncing(r) => QueueOf(r)

IInv == TypeOK /\ FileInHand /\ Exclusive /\ OnTheWay /\ RowsOfFiles /\ QueueInOrder /\ FilesInOrder

\* When no two files have the same source time and they arrive in its order.
DistinctTimes == \A f, g \in Files : f < g => MTime[f] < MTime[g]
InDeliveryOrder == \A f \in remote : \A g \in Files : g < f => g \in remote
NothingMissed ==
  \A r \in Runs : Syncing(r) /\ at[r] # "list" => \A g \in remote :
    \/ Imported(g) \/ g \in left[r] \/ (HasFile(r) /\ g = file[r])
    \/ /\ \A f \in left[r] : MTime[f] < MTime[g]
       /\ HasFile(r) => MTime[file[r]] < MTime[g]

-----------------------------------------------------------------------------
\* A row goes to the end of the table, and an ok one publishes its version.
LEMMA RowAppended ==
  ASSUME etlRun \in Seq(Row), NEW ok \in BOOLEAN, NEW v \in Versions \union {None},
         NEW t \in Nat, RecordRow(ok, v, t)
  PROVE  /\ etlRun' \in Seq(Row)
         /\ DOMAIN etlRun = 1..Len(etlRun) /\ Len(etlRun) \in Nat
         /\ DOMAIN etlRun' = 1..(Len(etlRun) + 1)
         /\ \A i \in DOMAIN etlRun : i \in DOMAIN etlRun' /\ etlRun'[i] = etlRun[i]
         /\ \A i \in DOMAIN etlRun' : i \in DOMAIN etlRun \/ i = Len(etlRun) + 1
         /\ etlRun'[Len(etlRun) + 1] = [ok |-> ok, version |-> v, mtime |-> t]
         /\ Published \subseteq Published'
         /\ Published' = IF ok THEN Published \union {v} ELSE Published
  <1>0. [ok |-> ok, version |-> v, mtime |-> t] \in Row
    BY DEF Row
  <1>1. /\ etlRun' \in Seq(Row)
        /\ DOMAIN etlRun = 1..Len(etlRun) /\ Len(etlRun) \in Nat
        /\ DOMAIN etlRun' = 1..(Len(etlRun) + 1)
        /\ \A i \in 1..Len(etlRun) : etlRun'[i] = etlRun[i]
        /\ etlRun'[Len(etlRun) + 1] = [ok |-> ok, version |-> v, mtime |-> t]
    BY <1>0 DEF RecordRow
  <1>2. \A i \in DOMAIN etlRun' : i \in DOMAIN etlRun \/ i = Len(etlRun) + 1
    BY <1>1
  <1>3. \A i \in DOMAIN etlRun : i \in DOMAIN etlRun' /\ etlRun'[i] = etlRun[i]
    BY <1>1
  <1>4. Published \subseteq Published'
    BY <1>3 DEF Published
  <1>5. Len(etlRun) + 1 \in DOMAIN etlRun'
    BY <1>1
  <1>6. CASE ok
    BY <1>1, <1>2, <1>3, <1>4, <1>5, <1>6 DEF Published
  <1>7. CASE ~ok
    BY <1>1, <1>2, <1>3, <1>4, <1>5, <1>7 DEF Published
  <1> QED BY <1>1, <1>2, <1>3, <1>4, <1>6, <1>7

LEMMA InitIInv == Init => IInv
  <1> SUFFICES ASSUME Init PROVE IInv
    OBVIOUS
  <1>1. NoRequest \in Request /\ 0 \in Versions
    BY DEF NoRequest, Versions, Request
  <1>2. faults \in 0..MaxFaults
    BY DEF Init
  <1>3. etlRun \in Seq(Row)
    BY DEF Init
  <1>4. unseen \in BOOLEAN
    BY DEF Init
  <1>5. kind \in [Runs -> Kinds \union {None}] /\ at \in [Runs -> Stages]
        /\ file \in [Runs -> Files \union {None}] /\ left \in [Runs -> SUBSET Files]
    BY DEF Init, Stages
  <1>6. sidecar \in [Runs -> Request]
    BY <1>1 DEF Init
  <1>7. TypeOK
    BY <1>1, <1>2, <1>5, <1>3, <1>4, <1>6 DEF Init, TypeOK
  <1>8. Exclusive /\ OnTheWay
    BY DEF Init, Exclusive, OnTheWay, Guarded, Working, NoRequest, Published
  <1>9. RowsOfFiles /\ FilesInOrder
    BY DEF Init, RowsOfFiles, FilesInOrder
  <1>10. QueueInOrder
    BY DEF Init, QueueInOrder, Syncing, Working
  <1>11. FileInHand
    BY DEF Init, FileInHand
  <1> QED BY <1>7, <1>8, <1>9, <1>10, <1>11 DEF IInv

-----------------------------------------------------------------------------
\* The parts of the type invariant the steps of a run and the sidecar touch.
RunType == /\ kind \in [Runs -> Kinds \union {None}] /\ at \in [Runs -> Stages]
           /\ file \in [Runs -> Files \union {None}] /\ left \in [Runs -> SUBSET Files]

LEMMA TypeRun == TypeOK => RunType
  BY DEF TypeOK, RunType

\* The steps of a run keep its record and the lock well typed.
LEMMA MoveType ==
  ASSUME TypeOK, NEW r \in Runs, NEW stage \in Stages, MoveTo(r, stage)
  PROVE  RunType'
  BY TypeRun DEF MoveTo, RunType

LEMMA FinishType ==
  ASSUME TypeOK, NEW r \in Runs, Finish(r)
  PROVE  RunType' /\ lock' \in Runs \union {None}
  <1>1. RunType'
    BY TypeRun DEF Finish, Ends, RunType, Stages
  <1> QED BY <1>1 DEF TypeOK, Finish

LEMMA NextFileType ==
  ASSUME TypeOK, NEW r \in Runs, NextFile(r)
  PROVE  RunType' /\ lock' \in Runs \union {None}
  <1>1. CASE left[r] # {}
    <2>1. RunType'
      BY <1>1, MoveType DEF NextFile, Stages
    <2> QED BY <1>1, <2>1 DEF NextFile, TypeOK
  <1>2. CASE left[r] = {}
    BY <1>2, FinishType DEF NextFile
  <1> QED BY <1>1, <1>2

LEMMA CarriedType ==
  ASSUME TypeOK, NEW r \in Runs
  PROVE  Carried(r) \in Versions
  BY DEF TypeOK, Carried, Versions

LEMMA RowsType ==
  ASSUME TypeOK
  PROVE  etlRun \in Seq(Row)
  BY DEF TypeOK

LEMMA SourceTimeType ==
  ASSUME TypeOK, NEW r \in Runs, kind[r] = "sync" => file[r] \in Files
  PROVE  SourceTime(r) \in Nat
  BY DEF SourceTime

\* The ok row a load adds.
LEMMA LoadedRow ==
  ASSUME TypeOK, NEW r \in Runs, RecordRow(TRUE, Carried(r), SourceTime(r)),
         kind[r] = "sync" => file[r] \in Files
  PROVE  etlRun' \in Seq(Row)
  BY RowAppended, RowsType, CarriedType, SourceTimeType

\* What RecordFailure does to the table.
LEMMA FailureType ==
  ASSUME TypeOK, NEW r \in Runs, RecordFailure(r)
  PROVE  /\ etlRun' \in Seq(Row) /\ unseen' \in BOOLEAN
         /\ RecordRow(FALSE, None, 0) \/ UNCHANGED etlRun
  <1>1. CASE RecordRow(FALSE, None, 0) /\ UNCHANGED unseen
    <2>1. etlRun' \in Seq(Row)
      BY <1>1, RowAppended, RowsType
    <2>2. unseen' \in BOOLEAN
      BY <1>1 DEF TypeOK
    <2> QED BY <1>1, <2>1, <2>2
  <1>2. CASE UNCHANGED etlRun /\ unseen' = TRUE
    BY <1>2 DEF TypeOK
  <1> QED BY <1>1, <1>2 DEF RecordFailure

LEMMA TypeStep == TypeOK /\ FileInHand /\ [Next]_vars => TypeOK'
  <1> SUFFICES ASSUME TypeOK, FileInHand, [Next]_vars PROVE TypeOK'
    OBVIOUS
  <1> USE DEF etl, pg, motis, run, RunType
  <1>1. ASSUME NEW f \in Files, Deliver(f) PROVE TypeOK'
    BY <1>1 DEF TypeOK, Deliver
  <1>2. ASSUME NEW r \in Runs, NEW k \in Kinds, Trigger(r, k) PROVE TypeOK'
    <2>1. RunType'
      BY <1>2 DEF Trigger, TypeOK, Stages
    <2>2. incoming' \in Versions
      BY <1>2 DEF Trigger, TypeOK, Versions
    <2> QED BY <1>2, <2>1, <2>2 DEF Trigger, TypeOK
  <1>3. ASSUME NEW r \in Runs, Enter(r) PROVE TypeOK'
    <2>1. RunType'
      BY <1>3, MoveType DEF Enter, FirstStage, Stages
    <2> QED BY <1>3, <2>1 DEF Enter, TypeOK
  <1>4. ASSUME NEW r \in Runs, Refuse(r) PROVE TypeOK'
    <2>1. RunType'
      BY <1>4, MoveType DEF Refuse, Stages
    <2>2. etlRun' \in Seq(Row)
      BY <1>4, RowAppended, RowsType DEF Refuse
    <2> QED BY <1>4, <2>1, <2>2 DEF Refuse, TypeOK
  <1>5. ASSUME NEW r \in Runs, ListFiles(r) PROVE TypeOK'
    <2>1. CASE Pending = {}
      <3>1. RunType' /\ lock' \in Runs \union {None}
        BY <1>5, <2>1, FinishType DEF ListFiles
      <3> QED BY <1>5, <3>1 DEF ListFiles, TypeOK
    <2>2. CASE Pending # {}
      <3>1. Pending \in SUBSET Files
        BY DEF Pending, TypeOK
      <3>2. RunType'
        <4>1. at' \in [Runs -> Stages]
          BY <1>5, <2>2 DEF ListFiles, TypeOK, Stages
        <4>2. left' \in [Runs -> SUBSET Files]
          BY <1>5, <2>2, <3>1 DEF ListFiles, TypeOK
        <4> QED BY <1>5, <2>2, <4>1, <4>2 DEF ListFiles, TypeOK
      <3> QED BY <1>5, <2>2, <3>2 DEF ListFiles, TypeOK
    <2> QED BY <2>1, <2>2
  <1>6. ASSUME NEW r \in Runs, ImportZip(r) PROVE TypeOK'
    <2>1. RunType'
      <3>1. CASE kind[r] = "sync"
        <4>1. PICK f \in left[r] : /\ at' = [at EXCEPT ![r] = "export"]
                                   /\ file' = [file EXCEPT ![r] = f]
                                   /\ left' = [left EXCEPT ![r] = @ \ {f}]
                                   /\ UNCHANGED kind
          BY <1>6, <3>1 DEF ImportZip
        <4>2. left[r] \in SUBSET Files
          BY DEF TypeOK
        <4>3. at' \in [Runs -> Stages] /\ file' \in [Runs -> Files \union {None}]
          BY <4>1, <4>2 DEF TypeOK, Stages
        <4>4. left' \in [Runs -> SUBSET Files]
          BY <4>1, <4>2 DEF TypeOK
        <4> QED BY <4>1, <4>3, <4>4 DEF TypeOK
      <3>2. CASE kind[r] # "sync"
        BY <1>6, <3>2, MoveType DEF ImportZip, Stages
      <3> QED BY <3>1, <3>2
    <2>2. scratch' \in Versions
      <3>1. CASE kind[r] = "sync"
        <4>1. left[r] \subseteq Files
          BY DEF TypeOK
        <4> QED BY <1>6, <3>1, <4>1 DEF ImportZip, Versions
      <3>2. CASE kind[r] # "sync"
        BY <1>6, <3>2 DEF ImportZip, TypeOK, Versions
      <3> QED BY <3>1, <3>2
    <2> QED BY <1>6, <2>1, <2>2 DEF ImportZip, TypeOK
  <1>7. ASSUME NEW r \in Runs, Export(r) PROVE TypeOK'
    <2>1. RunType' /\ lock' \in Runs \union {None}
      <3>1. CASE kind[r] = "package"
        BY <1>7, <3>1, FinishType DEF Export
      <3>2. CASE kind[r] # "package"
        <4>1. RunType'
          BY <1>7, <3>2, MoveType DEF Export, AfterExport, Stages
        <4> QED BY <1>7, <3>2, <4>1 DEF Export, TypeOK
      <3> QED BY <3>1, <3>2
    <2> QED BY <1>7, <2>1 DEF Export, TypeOK
  <1>8. ASSUME NEW r \in Runs, LoadIntoPostgres(r) PROVE TypeOK'
    <2>1. RunType' /\ lock' \in Runs \union {None}
      <3>1. CASE kind[r] = "postprocess"
        BY <1>8, <3>1, FinishType DEF LoadIntoPostgres
      <3>2. CASE kind[r] # "postprocess"
        <4>1. RunType'
          BY <1>8, <3>2, MoveType DEF LoadIntoPostgres, Stages
        <4> QED BY <1>8, <3>2, <4>1 DEF LoadIntoPostgres, TypeOK
      <3> QED BY <3>1, <3>2
    <2>2. etlRun' \in Seq(Row) /\ db' \in Versions
      BY <1>8, CarriedType, LoadedRow DEF LoadIntoPostgres, FileInHand
    <2>3. unseen' \in BOOLEAN
      BY <1>8 DEF LoadIntoPostgres
    <2> QED BY <1>8, <2>1, <2>2, <2>3 DEF LoadIntoPostgres, TypeOK
  <1>9. ASSUME NEW r \in Runs, UploadBegin(r) PROVE TypeOK'
    <2>1. RunType'
      BY <1>9, MoveType DEF UploadBegin, Stages
    <2> QED BY <1>9, <2>1, CarriedType DEF UploadBegin, TypeOK
  <1>10. ASSUME NEW r \in Runs, UploadEnd(r) PROVE TypeOK'
    <2>1. RunType'
      BY <1>10, MoveType DEF UploadEnd, Stages
    <2> QED BY <1>10, <2>1 DEF UploadEnd, TypeOK
  <1>11. ASSUME NEW r \in Runs, Reimport(r) PROVE TypeOK'
    <2>1. RunType'
      BY <1>11, MoveType DEF Reimport, Stages
    <2>2. sidecar' \in [Runs -> Request]
      BY <1>11 DEF Reimport, TypeOK, Request
    <2>3. unseen' \in BOOLEAN
      BY <1>11 DEF Reimport
    <2> QED BY <1>11, <2>1, <2>2, <2>3 DEF Reimport, TypeOK
  <1>12. ASSUME NEW r \in Runs, MotisImport(r) PROVE TypeOK'
    <2>1. sidecar' \in [Runs -> Request] /\ data' \in Versions
      BY <1>12 DEF MotisImport, TypeOK, Request
    <2> QED BY <1>12, <2>1 DEF MotisImport, TypeOK
  <1>13. ASSUME NEW r \in Runs, Restart(r) PROVE TypeOK'
    <2>1. RunType' /\ lock' \in Runs \union {None}
      <3>1. CASE at[r] = "waiting"
        BY <1>13, <3>1, NextFileType DEF Restart
      <3>2. CASE at[r] # "waiting"
        BY <1>13, <3>2 DEF Restart, TypeOK
      <3> QED BY <3>1, <3>2
    <2>2. sidecar' \in [Runs -> Request]
      BY <1>13 DEF Restart, TypeOK, Request, NoRequest, Versions
    <2> QED BY <1>13, <2>1, <2>2 DEF Restart, TypeOK
  <1>14. ASSUME NEW r \in Runs, Fail(r) PROVE TypeOK'
    <2>1. RunType' /\ lock' \in Runs \union {None}
      BY <1>14, FinishType DEF Fail
    <2>2. sidecar' \in [Runs -> Request]
      <3>1. sidecar' = [sidecar EXCEPT ![r] = NoRequest] \/ UNCHANGED sidecar
        BY <1>14 DEF Fail
      <3>2. NoRequest \in Request
        BY DEF NoRequest, Request, Versions
      <3> QED BY <3>1, <3>2 DEF TypeOK
    <2>3. faults' \in 0..MaxFaults
      BY <1>14 DEF Fail, TypeOK
    <2>4. etlRun' \in Seq(Row) /\ unseen' \in BOOLEAN
      BY <1>14, FailureType DEF Fail
    <2> QED BY <1>14, <2>1, <2>2, <2>3, <2>4 DEF Fail, TypeOK
  <1>15. ASSUME NEW r \in Runs, Die(r) PROVE TypeOK'
    <2>1. RunType' /\ lock' \in Runs \union {None}
      BY <1>15, FinishType DEF Die
    <2>2. faults' \in 0..MaxFaults
      BY <1>15 DEF Die, TypeOK
    <2> QED BY <1>15, <2>1, <2>2 DEF Die, TypeOK
  <1>16. ASSUME NEW r \in Runs, OrphanFails(r) PROVE TypeOK'
    <2>1. sidecar' \in [Runs -> Request]
      BY <1>16 DEF OrphanFails, TypeOK, Request, NoRequest, Versions
    <2>2. faults' \in 0..MaxFaults
      BY <1>16 DEF OrphanFails, TypeOK
    <2> QED BY <1>16, <2>1, <2>2 DEF OrphanFails, TypeOK
  <1>17. CASE UNCHANGED vars
    BY <1>17 DEF vars, TypeOK
  <1> QED BY <1>1, <1>2, <1>3, <1>4, <1>5, <1>6, <1>7, <1>8, <1>9, <1>10, <1>11, <1>12,
             <1>13, <1>14, <1>15, <1>16, <1>17 DEF Next, Stage

\* A step is a delivery, a stutter, or a step of one run, and leaves the
\* records of the other runs alone.
RunStep(r) == (\E k \in Kinds : Trigger(r, k)) \/ Stage(r) \/ Die(r)

LEMMA OthersStay ==
  ASSUME TypeOK, NEW r \in Runs, RunStep(r), NEW o \in Runs, o # r
  PROVE  kind'[o] = kind[o] /\ at'[o] = at[o] /\ file'[o] = file[o] /\ left'[o] = left[o]
  <1> USE DEF TypeOK, MoveTo, Finish, Ends, run
  <1>1. CASE (\E k \in Kinds : Trigger(r, k)) \/ Enter(r) \/ Refuse(r) \/ Die(r) \/ Fail(r)
    BY <1>1 DEF Trigger, Enter, Refuse, Die, Fail
  <1>2. CASE ListFiles(r) \/ ImportZip(r) \/ Export(r) \/ LoadIntoPostgres(r)
    BY <1>2 DEF ListFiles, ImportZip, Export, LoadIntoPostgres
  <1>3. CASE UploadBegin(r) \/ UploadEnd(r) \/ Reimport(r)
    BY <1>3 DEF UploadBegin, UploadEnd, Reimport
  <1>4. CASE MotisImport(r) \/ OrphanFails(r)
    BY <1>4 DEF MotisImport, OrphanFails
  <1>5. CASE Restart(r)
    BY <1>5 DEF Restart, NextFile
  <1> QED BY <1>1, <1>2, <1>3, <1>4, <1>5 DEF RunStep, Stage

LEMMA FileStep == TypeOK /\ FileInHand /\ [Next]_vars => FileInHand'
  <1> SUFFICES ASSUME TypeOK, FileInHand, [Next]_vars, NEW o \in Runs,
                      kind'[o] = "sync", at'[o] \in {"export", "load"}
               PROVE  file'[o] \in Files
    BY DEF FileInHand
  <1>0. RunType
    BY TypeRun
  <1>1. CASE kind'[o] = kind[o] /\ at'[o] = at[o] /\ file'[o] = file[o]
    BY <1>1 DEF FileInHand
  <1>2. CASE RunStep(o)
    <2> USE <1>0 DEF RunType, MoveTo, Finish, Ends
    <2>1. CASE (\E k \in Kinds : Trigger(o, k)) \/ Enter(o) \/ Refuse(o) \/ Die(o) \/ Fail(o)
      BY <2>1 DEF Trigger, Enter, FirstStage, Refuse, Die, Fail
    <2>2. CASE ListFiles(o) \/ LoadIntoPostgres(o) \/ UploadBegin(o) \/ UploadEnd(o) \/ Reimport(o)
      BY <2>2 DEF ListFiles, LoadIntoPostgres, UploadBegin, UploadEnd, Reimport
    <2>3. CASE ImportZip(o)
      BY <2>3 DEF ImportZip
    <2>4. CASE Export(o)
      BY <2>4 DEF Export, FileInHand
    <2>5. CASE MotisImport(o) \/ OrphanFails(o)
      BY <2>5, <1>1 DEF MotisImport, OrphanFails, run
    <2>6. CASE Restart(o)
      BY <2>6, <1>1 DEF Restart, NextFile, run
    <2> QED BY <1>2, <2>1, <2>2, <2>3, <2>4, <2>5, <2>6 DEF RunStep, Stage
  <1>3. CASE \E r \in Runs : r # o /\ RunStep(r)
    BY <1>1, <1>3, OthersStay
  <1>4. CASE \E f \in Files : Deliver(f)
    BY <1>1, <1>4 DEF Deliver, run
  <1>5. CASE UNCHANGED vars
    BY <1>1, <1>5 DEF vars, run
  <1> QED BY <1>2, <1>3, <1>4, <1>5 DEF Next, RunStep

-----------------------------------------------------------------------------
\* What a step of a run does to the lock: enter takes it, an end gives it
\* back, and nothing else touches it.
Holds(r) == at'[r] = "done" \/ lock' = r \/ (Guarded(r) /\ UNCHANGED lock) \/ kind'[r] = "bundle" \/ at'[r] \in {"idle", "guard"}

LEMMA LockStep ==
  ASSUME TypeOK, NEW r \in Runs, RunStep(r)
  PROVE  /\ Holds(r)
         /\ \/ UNCHANGED lock
            \/ lock = None /\ lock' = r
            \/ lock' = IF lock = r THEN None ELSE lock
  <1> USE DEF Holds, Guarded, Working, MoveTo, Finish, Ends, run
  <1>0. RunType
    BY TypeRun
  <1> USE <1>0 DEF RunType
  <1>1. CASE \E k \in Kinds : Trigger(r, k)
    BY <1>1 DEF Trigger
  <1>2. CASE Enter(r) \/ Refuse(r) \/ ListFiles(r)
    BY <1>2 DEF Enter, Refuse, ListFiles, MayEnter
  <1>3. CASE ImportZip(r) \/ Export(r) \/ LoadIntoPostgres(r)
    BY <1>3 DEF ImportZip, Export, LoadIntoPostgres
  <1>4. CASE UploadBegin(r) \/ UploadEnd(r) \/ Reimport(r)
    BY <1>4 DEF UploadBegin, UploadEnd, Reimport
  <1>5. CASE MotisImport(r) \/ OrphanFails(r)
    BY <1>5 DEF MotisImport, OrphanFails
  <1>6. CASE Restart(r)
    BY <1>6 DEF Restart, NextFile
  <1>7. CASE Fail(r) \/ Die(r)
    BY <1>7 DEF Fail, Die
  <1> QED BY <1>1, <1>2, <1>3, <1>4, <1>5, <1>6, <1>7 DEF RunStep, Stage

\* Which run a step belongs to, when it belongs to one.
LEMMA StepCases ==
  ASSUME [Next]_vars
  PROVE  \/ \E r \in Runs : RunStep(r)
         \/ \E f \in Files : Deliver(f)
         \/ UNCHANGED vars
  BY DEF Next, RunStep

LEMMA KindStep ==
  ASSUME TypeOK, Exclusive, NEW r \in Runs, RunStep(r)
  PROVE  /\ at'[r] # "idle" => kind'[r] \in Kinds
         /\ kind'[r] = "bundle" => at'[r] \notin {"guard", "list", "import", "export"}
         /\ kind'[r] # "sync" \/ at'[r] \in {"idle", "guard"} => left'[r] = {} /\ at'[r] # "list"
  <1> USE DEF Exclusive, MoveTo, Finish, Ends, run
  <1>0. RunType
    BY TypeRun
  <1> USE <1>0 DEF RunType
  <1>1. CASE \E k \in Kinds : Trigger(r, k)
    BY <1>1 DEF Trigger, MayStart
  <1>2. CASE Enter(r) \/ Refuse(r) \/ ListFiles(r)
    BY <1>2 DEF Enter, Refuse, ListFiles, FirstStage
  <1>3. CASE ImportZip(r) \/ Export(r) \/ LoadIntoPostgres(r)
    BY <1>3 DEF ImportZip, Export, LoadIntoPostgres, AfterExport
  <1>4. CASE UploadBegin(r) \/ UploadEnd(r) \/ Reimport(r)
    BY <1>4 DEF UploadBegin, UploadEnd, Reimport
  <1>5. CASE MotisImport(r) \/ OrphanFails(r)
    BY <1>5 DEF MotisImport, OrphanFails
  <1>6. CASE Restart(r)
    BY <1>6 DEF Restart, NextFile
  <1>7. CASE Fail(r) \/ Die(r)
    BY <1>7 DEF Fail, Die, Working
  <1> QED BY <1>1, <1>2, <1>3, <1>4, <1>5, <1>6, <1>7 DEF RunStep, Stage

LEMMA ExclusiveStep == TypeOK /\ Exclusive /\ [Next]_vars => Exclusive'
  <1> SUFFICES ASSUME TypeOK, Exclusive, [Next]_vars PROVE Exclusive'
    OBVIOUS
  <1>1. ASSUME NEW r \in Runs, RunStep(r) PROVE Exclusive'
    <2>1. ASSUME NEW o \in Runs, Guarded(o)' PROVE lock' = o
      <3>1. CASE o = r
        BY <1>1, <2>1, <3>1, LockStep DEF Exclusive, Holds, Guarded, Working
      <3>2. CASE o # r
        <4>1. Guarded(o)
          BY <1>1, <2>1, <3>2, OthersStay DEF Guarded, Working
        <4>2. lock = o
          BY <4>1 DEF Exclusive
        <4> QED BY <1>1, <3>2, <4>2, LockStep
      <3> QED BY <3>1, <3>2
    <2>2. ASSUME NEW o \in Runs
          PROVE  /\ at'[o] # "idle" => kind'[o] \in Kinds
                 /\ kind'[o] = "bundle" => at'[o] \notin {"guard", "list", "import", "export"}
                 /\ kind'[o] # "sync" \/ at'[o] \in {"idle", "guard"} => left'[o] = {} /\ at'[o] # "list"
      <3>1. CASE o = r
        BY <1>1, <3>1, KindStep
      <3>2. CASE o # r
        BY <1>1, <3>2, OthersStay DEF Exclusive
      <3> QED BY <3>1, <3>2
    <2> QED BY <2>1, <2>2 DEF Exclusive
  <1>2. ASSUME UNCHANGED <<run, lock>> PROVE Exclusive'
    BY <1>2 DEF Exclusive, Guarded, Working, run
  <1>3. CASE \E f \in Files : Deliver(f)
    BY <1>2, <1>3 DEF Deliver
  <1>4. CASE UNCHANGED vars
    BY <1>2, <1>4 DEF vars
  <1> QED BY <1>1, <1>3, <1>4, StepCases

-----------------------------------------------------------------------------
\* Only the load publishes.
LEMMA NothingPublished == ASSUME UNCHANGED etlRun PROVE Published' = Published
  BY DEF Published

LEMMA FailurePublishesNothing ==
  ASSUME TypeOK, RecordRow(FALSE, None, 0) \/ UNCHANGED etlRun
  PROVE  Published' = Published
  <1>1. CASE UNCHANGED etlRun
    BY <1>1, NothingPublished
  <1>2. CASE RecordRow(FALSE, None, 0)
    BY <1>2, RowAppended, RowsType
  <1> QED BY <1>1, <1>2

LEMMA LoadPublishes ==
  ASSUME TypeOK, FileInHand, NEW r \in Runs, LoadIntoPostgres(r)
  PROVE  Published' = Published \union {Carried(r)}
  <1>1. RecordRow(TRUE, Carried(r), SourceTime(r))
    BY DEF LoadIntoPostgres
  <1>2. SourceTime(r) \in Nat
    BY SourceTimeType DEF LoadIntoPostgres, FileInHand
  <1> QED BY <1>1, <1>2, RowAppended, RowsType, CarriedType

LEMMA PublishedStep ==
  ASSUME TypeOK, FileInHand, NEW r \in Runs, RunStep(r)
  PROVE  Published' = Published \/ (LoadIntoPostgres(r) /\ Published' = Published \union {Carried(r)})
  <1> USE DEF pg
  <1>1. CASE (\E k \in Kinds : Trigger(r, k)) \/ Enter(r) \/ ListFiles(r) \/ ImportZip(r) \/ Export(r)
    BY <1>1, NothingPublished DEF Trigger, Enter, ListFiles, ImportZip, Export
  <1>2. CASE UploadBegin(r) \/ UploadEnd(r) \/ Reimport(r) \/ MotisImport(r) \/ Restart(r)
    BY <1>2, NothingPublished DEF UploadBegin, UploadEnd, Reimport, MotisImport, Restart
  <1>3. CASE Die(r) \/ OrphanFails(r)
    BY <1>3, NothingPublished DEF Die, OrphanFails
  <1>4. CASE Refuse(r)
    BY <1>4, FailurePublishesNothing DEF Refuse
  <1>5. CASE Fail(r)
    BY <1>5, FailurePublishesNothing DEF Fail, RecordFailure
  <1>6. CASE LoadIntoPostgres(r)
    BY <1>6, LoadPublishes
  <1> QED BY <1>1, <1>2, <1>3, <1>4, <1>5, <1>6 DEF RunStep, Stage

\* While a run is between its load and its upload, nobody exports.
LEMMA CarriedStays ==
  ASSUME TypeOK, Exclusive, NEW r \in Runs, RunStep(r), NEW o \in Runs, at'[o] = "upload"
  PROVE  /\ Carried(o)' = Carried(o)
         /\ at[o] = "upload" \/ (o = r /\ LoadIntoPostgres(r))
  <1> USE DEF MoveTo, Finish, Ends, run, etl
  <1>0. RunType
    BY TypeRun
  <1> USE <1>0 DEF RunType
  <1>1. at[o] = "upload" \/ (o = r /\ LoadIntoPostgres(r))
    <2>1. CASE o # r
      BY <2>1, OthersStay
    <2>2. CASE o = r
      <3>1. CASE (\E k \in Kinds : Trigger(r, k)) \/ Enter(r) \/ Refuse(r) \/ ListFiles(r)
        BY <2>2, <3>1 DEF Trigger, Enter, FirstStage, Refuse, ListFiles
      <3>2. CASE ImportZip(r) \/ Export(r) \/ UploadBegin(r) \/ UploadEnd(r) \/ Reimport(r)
        BY <2>2, <3>2 DEF ImportZip, Export, AfterExport, UploadBegin, UploadEnd, Reimport
      <3>3. CASE MotisImport(r) \/ OrphanFails(r)
        BY <2>2, <3>3 DEF MotisImport, OrphanFails
      <3>4. CASE Restart(r) \/ Fail(r) \/ Die(r)
        BY <2>2, <3>4 DEF Restart, NextFile, Fail, Die
      <3> QED BY <2>2, <3>1, <3>2, <3>3, <3>4 DEF RunStep, Stage
    <2> QED BY <2>1, <2>2
  <1>2. at[o] # "idle"
    BY <1>1 DEF LoadIntoPostgres
  <1>3. kind'[o] = kind[o]
    <2>1. CASE o # r
      BY <2>1, OthersStay
    <2>2. CASE o = r
      BY <1>1, <2>2 DEF LoadIntoPostgres, RunStep, Stage, Trigger, MayStart, Enter, Refuse,
        ListFiles, ImportZip, Export, UploadBegin, UploadEnd, Reimport, MotisImport,
        Restart, NextFile, Fail, Die, OrphanFails
    <2> QED BY <2>1, <2>2
  <1>4. CASE kind[o] = "bundle"
    BY <1>1, <1>3, <1>4 DEF Carried
  <1>5. CASE kind[o] # "bundle"
    <2>1. ~Export(r)
      <3>1. CASE o = r
        BY <1>1, <3>1 DEF Export, LoadIntoPostgres
      <3>2. CASE o # r
        <4>1. lock = o
          BY <1>1, <1>5, <3>2 DEF Exclusive, Guarded, Working
        <4> QED BY <3>2, <4>1 DEF Export, Exclusive, Guarded, Working
      <3> QED BY <3>1, <3>2
    <2>2. zip' = zip
      BY <2>1 DEF LoadIntoPostgres, RunStep, Stage, Trigger, Enter, Refuse,
        ListFiles, ImportZip, UploadBegin, UploadEnd, Reimport, MotisImport,
        Restart, Fail, Die, OrphanFails
    <2> QED BY <1>1, <1>3, <1>5, <2>2 DEF Carried
  <1> QED BY <1>1, <1>4, <1>5

LEMMA SidecarStep ==
  ASSUME TypeOK, FileInHand, OnTheWay, NEW r \in Runs, RunStep(r), Published \subseteq Published'
  PROVE  /\ {data', engine'} \subseteq Published
         /\ volume' \in Published \union {Mixed}
         /\ partial' \in Published \union {None, Mixed}
         /\ \A o \in Runs : sidecar'[o].at # "none" => sidecar'[o].loading \in Published \union {Mixed}
  <1> USE DEF OnTheWay, motis
  <1>0. sidecar \in [Runs -> Request]
    BY DEF TypeOK
  <1>1. CASE (\E k \in Kinds : Trigger(r, k)) \/ Enter(r) \/ Refuse(r) \/ ListFiles(r)
    BY <1>1 DEF Trigger, Enter, Refuse, ListFiles
  <1>2. CASE ImportZip(r) \/ Export(r) \/ LoadIntoPostgres(r) \/ Die(r)
    BY <1>2 DEF ImportZip, Export, LoadIntoPostgres, Die
  <1>3. CASE UploadBegin(r)
    BY <1>3 DEF UploadBegin
  <1>4. CASE UploadEnd(r)
    BY <1>4 DEF UploadEnd
  <1>5. CASE Reimport(r)
    <2>1. \A o \in Runs : sidecar'[o] = IF o = r THEN [at |-> "importing", loading |-> volume] ELSE sidecar[o]
      BY <1>0, <1>5 DEF Reimport
    <2> QED BY <1>5, <2>1 DEF Reimport
  <1>6. CASE MotisImport(r)
    <2>1. \A o \in Runs : sidecar'[o].loading = sidecar[o].loading
      BY <1>0, <1>6 DEF MotisImport, Request
    <2>2. \A o \in Runs : sidecar'[o].at # "none" => sidecar[o].at # "none"
      BY <1>0, <1>6 DEF MotisImport, Request
    <2> QED BY <1>6, <2>1, <2>2 DEF MotisImport
  <1>7. CASE Restart(r)
    <2>1. \A o \in Runs : sidecar'[o] = IF o = r THEN NoRequest ELSE sidecar[o]
      BY <1>0, <1>7 DEF Restart
    <2> QED BY <1>7, <2>1 DEF Restart, NoRequest
  <1>8. CASE OrphanFails(r)
    <2>1. \A o \in Runs : sidecar'[o] = IF o = r THEN NoRequest ELSE sidecar[o]
      BY <1>0, <1>8 DEF OrphanFails
    <2> QED BY <1>8, <2>1 DEF OrphanFails, NoRequest
  <1>9. CASE Fail(r)
    <2>1. \A o \in Runs : sidecar'[o] = sidecar[o] \/ sidecar'[o] = NoRequest
      BY <1>0, <1>9 DEF Fail
    <2> QED BY <1>9, <2>1 DEF Fail, NoRequest
  <1> QED BY <1>1, <1>2, <1>3, <1>4, <1>5, <1>6, <1>7, <1>8, <1>9 DEF RunStep, Stage

LEMMA OnTheWayStep == TypeOK /\ FileInHand /\ Exclusive /\ OnTheWay /\ [Next]_vars => OnTheWay'
  <1> SUFFICES ASSUME TypeOK, FileInHand, Exclusive, OnTheWay, [Next]_vars PROVE OnTheWay'
    OBVIOUS
  <1>1. ASSUME NEW r \in Runs, RunStep(r) PROVE OnTheWay'
    <2>1. Published \subseteq Published'
      BY <1>1, PublishedStep
    <2>2. ASSUME NEW o \in Runs, at'[o] = "upload" PROVE Carried(o)' \in Published'
      <3>1. CASE at[o] = "upload"
        BY <1>1, <2>1, <2>2, <3>1, CarriedStays DEF OnTheWay
      <3>2. CASE o = r /\ LoadIntoPostgres(r)
        BY <1>1, <2>2, <3>2, CarriedStays, LoadPublishes
      <3> QED BY <1>1, <2>2, <3>1, <3>2, CarriedStays
    <2>3. /\ {data', engine'} \subseteq Published
          /\ volume' \in Published \union {Mixed}
          /\ partial' \in Published \union {None, Mixed}
          /\ \A o \in Runs : sidecar'[o].at # "none" => sidecar'[o].loading \in Published \union {Mixed}
      BY <1>1, <2>1, SidecarStep
    <2> QED BY <2>1, <2>2, <2>3 DEF OnTheWay
  <1>2. ASSUME UNCHANGED <<run, zip, etlRun, motis>> PROVE OnTheWay'
    <2>1. Published' = Published
      BY <1>2, NothingPublished
    <2> QED BY <1>2, <2>1 DEF OnTheWay, Carried, run, motis
  <1>3. CASE \E f \in Files : Deliver(f)
    BY <1>2, <1>3 DEF Deliver, etl, pg
  <1>4. CASE UNCHANGED vars
    BY <1>2, <1>4 DEF vars, etl, pg
  <1> QED BY <1>1, <1>3, <1>4, StepCases

-----------------------------------------------------------------------------
BaseInv == TypeOK /\ FileInHand /\ Exclusive /\ OnTheWay

LEMMA BaseInvHolds == Spec => []BaseInv
  <1>1. Init => BaseInv
    BY InitIInv DEF IInv, BaseInv
  <1>2. BaseInv /\ [Next]_vars => BaseInv'
    BY TypeStep, FileStep, ExclusiveStep, OnTheWayStep DEF BaseInv
  <1> QED BY <1>1, <1>2, PTL DEF Spec

\* Every variable holds a value of its kind.
THEOREM TypeCorrect == Spec => []TypeOK
  BY BaseInvHolds, PTL DEF BaseInv

\* The advisory lock does what run-guard.ts says of it for the starts that take
\* it: of them, one run is at work at a time.
THEOREM GuardedOneAtATime ==
  Spec => []("bundle" \notin Kinds => OneRunAtATime)
  <1>1. BaseInv => ("bundle" \notin Kinds => OneRunAtATime)
    BY DEF BaseInv, Exclusive, OneRunAtATime, Guarded, Working
  <1> QED BY <1>1, BaseInvHolds, PTL

\* The import, the sidecar and the engine implement Serving: whatever starts,
\* fails, dies or overlaps, the engine only serves what the database was loaded
\* with before (commands.ts:67-79, load before push).
THEOREM RefinesServing == Spec => ServesWhatWasPublished
  <1>1. Init => S!Init
    BY DEF Init, S!Init, Published
  <1>2. BaseInv /\ BaseInv' /\ [Next]_vars => [S!Next]_(S!vars)
    <2> SUFFICES ASSUME BaseInv, [Next]_vars PROVE [S!Next]_(S!vars)
      OBVIOUS
    <2> USE DEF BaseInv
    <2>1. ASSUME NEW r \in Runs, RunStep(r) PROVE [S!Next]_(S!vars)
      <3>1. CASE LoadIntoPostgres(r)
        <4>1. engine' = engine
          BY <3>1 DEF LoadIntoPostgres, motis
        <4>2. Published' = Published \union {Carried(r)} /\ Carried(r) \in Versions
          BY <3>1, LoadPublishes, CarriedType
        <4> QED BY <4>1, <4>2 DEF S!Next, S!Publish
      <3>2. CASE ~LoadIntoPostgres(r)
        <4>1. Published' = Published
          BY <2>1, <3>2, PublishedStep
        <4>2. engine' \in Published
          BY <2>1, <4>1, SidecarStep
        <4> QED BY <4>1, <4>2 DEF S!Next, S!Serve
      <3> QED BY <3>1, <3>2
    <2>2. ASSUME UNCHANGED <<etlRun, engine>> PROVE [S!Next]_(S!vars)
      BY <2>2, NothingPublished DEF S!vars
    <2>3. CASE \E f \in Files : Deliver(f)
      BY <2>2, <2>3 DEF Deliver, pg, motis
    <2>4. CASE UNCHANGED vars
      BY <2>2, <2>4 DEF vars, pg, motis
    <2> QED BY <2>1, <2>3, <2>4, StepCases
  <1> QED BY <1>1, <1>2, BaseInvHolds, PTL DEF Spec, S!Spec, ServesWhatWasPublished

-----------------------------------------------------------------------------
\* A row without a source time changes nothing for the files.
LEMMA OtherRow ==
  ASSUME TypeOK, UNCHANGED etlRun \/ \E ok \in BOOLEAN, v \in Versions \union {None} : RecordRow(ok, v, 0),
         remote \subseteq remote'
  PROVE  /\ \A f \in Files : AfterRows(f) => AfterRows(f)'
         /\ RowsOfFiles => RowsOfFiles'
         /\ FilesInOrder => FilesInOrder'
  <1>1. CASE UNCHANGED etlRun
    BY <1>1 DEF AfterRows, RowsOfFiles, FilesInOrder
  <1>2. ASSUME NEW ok \in BOOLEAN, NEW v \in Versions \union {None}, RecordRow(ok, v, 0)
        PROVE  /\ \A f \in Files : AfterRows(f) => AfterRows(f)'
               /\ RowsOfFiles => RowsOfFiles'
               /\ FilesInOrder => FilesInOrder'
    <2>1. /\ \A i \in DOMAIN etlRun : i \in DOMAIN etlRun' /\ etlRun'[i] = etlRun[i]
          /\ \A i \in DOMAIN etlRun' : i \in DOMAIN etlRun \/ etlRun'[i].mtime = 0
      <3>1. /\ \A i \in DOMAIN etlRun : i \in DOMAIN etlRun' /\ etlRun'[i] = etlRun[i]
            /\ \A i \in DOMAIN etlRun' : i \in DOMAIN etlRun \/ i = Len(etlRun) + 1
            /\ etlRun'[Len(etlRun) + 1] = [ok |-> ok, version |-> v, mtime |-> 0]
        BY <1>2, RowAppended, RowsType
      <3> QED BY <3>1
    <2>2. \A f \in Files : AfterRows(f) => AfterRows(f)'
      BY <2>1 DEF AfterRows
    <2>3. RowsOfFiles => RowsOfFiles'
      BY <2>1 DEF RowsOfFiles
    <2>4. FilesInOrder => FilesInOrder'
      BY <2>1 DEF FilesInOrder
    <2> QED BY <2>2, <2>3, <2>4
  <1> QED BY <1>1, <1>2

\* The row of a file goes behind the others.
LEMMA FileRow ==
  ASSUME IInv, NEW r \in Runs, LoadIntoPostgres(r), kind[r] = "sync"
  PROVE  /\ file[r] \in Files
         /\ \A i \in DOMAIN etlRun : i \in DOMAIN etlRun' /\ etlRun'[i] = etlRun[i]
         /\ \A i \in DOMAIN etlRun' : i \in DOMAIN etlRun \/
              (i = Len(etlRun) + 1 /\ etlRun'[i] = [ok |-> TRUE, version |-> file[r], mtime |-> MTime[file[r]]])
         /\ DOMAIN etlRun = 1..Len(etlRun) /\ Len(etlRun) \in Nat
         /\ QueueOf(r) /\ HasFile(r)
  <1>1. at[r] = "load" /\ Working(r) /\ RecordRow(TRUE, Carried(r), SourceTime(r))
    BY DEF LoadIntoPostgres, Working
  <1>2. file[r] \in Files
    BY <1>1 DEF IInv, FileInHand
  <1>3. QueueOf(r) /\ HasFile(r)
    BY <1>1 DEF IInv, QueueInOrder, Syncing, HasFile
  <1>4. Carried(r) = file[r] /\ SourceTime(r) = MTime[file[r]]
    BY <1>1, <1>3 DEF QueueOf, Carried, SourceTime
  <1>5. MTime[file[r]] \in Nat /\ file[r] \in Versions
    BY <1>2 DEF Versions
  <1>6. TRUE \in BOOLEAN /\ file[r] \in Versions \union {None} /\ RecordRow(TRUE, file[r], MTime[file[r]])
    BY <1>1, <1>4, <1>5
  <1>7. /\ DOMAIN etlRun = 1..Len(etlRun) /\ Len(etlRun) \in Nat
        /\ \A i \in DOMAIN etlRun : i \in DOMAIN etlRun' /\ etlRun'[i] = etlRun[i]
        /\ \A i \in DOMAIN etlRun' : i \in DOMAIN etlRun \/ i = Len(etlRun) + 1
        /\ etlRun'[Len(etlRun) + 1] = [ok |-> TRUE, version |-> file[r], mtime |-> MTime[file[r]]]
    <2>1. etlRun \in Seq(Row)
      BY RowsType DEF IInv
    <2>2. MTime[file[r]] \in Nat
      BY <1>5
    <2> HIDE TimetableAssumption
    <2> QED BY <1>6, <2>1, <2>2, RowAppended
  <1> QED BY <1>2, <1>3, <1>7

LEMMA LoadInOrder ==
  ASSUME IInv, NEW r \in Runs, LoadIntoPostgres(r)
  PROVE  RowsOfFiles' /\ FilesInOrder'
  <1>0. UNCHANGED remote
    BY DEF LoadIntoPostgres
  <1>1. CASE kind[r] = "sync"
    <2>1. /\ file[r] \in remote /\ AfterRows(file[r])
          /\ file[r] \in Files /\ MTime[file[r]] \in Nat
      BY <1>1, FileRow DEF QueueOf
    <2>2. RowsOfFiles'
      BY <1>0, <1>1, <2>1, FileRow DEF IInv, RowsOfFiles
    <2>3. FilesInOrder'
      <3> SUFFICES ASSUME NEW i \in DOMAIN etlRun', NEW j \in DOMAIN etlRun', i < j,
                          etlRun'[i].mtime # 0, etlRun'[j].mtime # 0
                   PROVE  /\ etlRun'[i].mtime <= etlRun'[j].mtime
                          /\ etlRun'[i].version # etlRun'[j].version
        BY DEF FilesInOrder
      <3>1. CASE j \in DOMAIN etlRun
        <4>1. i \in DOMAIN etlRun
          BY <1>1, <3>1, FileRow
        <4> QED BY <1>1, <3>1, <4>1, FileRow DEF IInv, FilesInOrder
      <3>2. CASE j \notin DOMAIN etlRun
        <4>1. etlRun'[j] = [ok |-> TRUE, version |-> file[r], mtime |-> MTime[file[r]]]
          BY <1>1, <3>2, FileRow
        <4>2. i \in DOMAIN etlRun
          BY <1>1, <3>2, FileRow
        <4>3. etlRun'[i] = etlRun[i]
          BY <1>1, <4>2, FileRow
        <4> QED BY <2>1, <4>1, <4>2, <4>3 DEF AfterRows
      <3> QED BY <3>1, <3>2
    <2> QED BY <2>2, <2>3
  <1>2. CASE kind[r] # "sync"
    <2>1. RecordRow(TRUE, Carried(r), 0) /\ Carried(r) \in Versions \union {None}
      BY <1>2, CarriedType DEF IInv, LoadIntoPostgres, SourceTime
    <2> QED BY <1>0, <2>1, OtherRow DEF IInv
  <1> QED BY <1>1, <1>2

\* Every other step adds no row of a file.
LEMMA NoFileRow ==
  ASSUME TypeOK, NEW r \in Runs, RunStep(r), ~(LoadIntoPostgres(r) /\ kind[r] = "sync")
  PROVE  /\ UNCHANGED etlRun \/ \E ok \in BOOLEAN, v \in Versions \union {None} : RecordRow(ok, v, 0)
         /\ UNCHANGED remote
  <1> USE DEF pg
  <1>1. CASE (\E k \in Kinds : Trigger(r, k)) \/ Enter(r) \/ ListFiles(r) \/ ImportZip(r) \/ Export(r)
    BY <1>1 DEF Trigger, Enter, ListFiles, ImportZip, Export
  <1>2. CASE UploadBegin(r) \/ UploadEnd(r) \/ Reimport(r) \/ MotisImport(r) \/ Restart(r)
    BY <1>2 DEF UploadBegin, UploadEnd, Reimport, MotisImport, Restart
  <1>3. CASE Die(r) \/ OrphanFails(r)
    BY <1>3 DEF Die, OrphanFails
  <1>4. CASE Refuse(r)
    BY <1>4 DEF Refuse
  <1>5. CASE Fail(r)
    BY <1>5 DEF Fail, RecordFailure
  <1>6. CASE LoadIntoPostgres(r)
    BY <1>6, CarriedType DEF LoadIntoPostgres, SourceTime
  <1> QED BY <1>1, <1>2, <1>3, <1>4, <1>5, <1>6 DEF RunStep, Stage

\* The queue of a run that syncs is not disturbed by another run.
LEMMA QueueOfOthers ==
  ASSUME IInv, NEW r \in Runs, RunStep(r), NEW o \in Runs, o # r, Syncing(o)'
  PROVE  QueueOf(o)'
  <1>1. /\ kind'[o] = kind[o] /\ at'[o] = at[o] /\ file'[o] = file[o] /\ left'[o] = left[o]
    BY OthersStay DEF IInv
  <1>2. Syncing(o) /\ lock = o /\ QueueOf(o)
    BY <1>1 DEF Syncing, Working, Guarded, IInv, Exclusive, QueueInOrder
  <1>3. ~Guarded(r)
    BY <1>2 DEF IInv, Exclusive
  <1>4. UNCHANGED <<scratch, zip>>
    <2>1. ~ImportZip(r) /\ ~Export(r)
      BY <1>3 DEF ImportZip, Export, IInv, Exclusive, Guarded, Working
    <2> QED BY <2>1 DEF LoadIntoPostgres, RunStep, Stage, Trigger, Enter, Refuse,
        ListFiles, UploadBegin, UploadEnd, Reimport, MotisImport,
        Restart, Fail, Die, OrphanFails, etl
  <1>5. ~(LoadIntoPostgres(r) /\ kind[r] = "sync")
    BY <1>3 DEF LoadIntoPostgres, Guarded, Working
  <1>6. /\ \A f \in Files : AfterRows(f) => AfterRows(f)'
        /\ UNCHANGED remote
    BY <1>5, NoFileRow, OtherRow DEF IInv
  <1>7. left[o] \subseteq Files /\ remote \subseteq Files
    BY DEF IInv, TypeOK
  <1> QED BY <1>1, <1>2, <1>4, <1>6, <1>7 DEF QueueOf, HasFile, Syncing, Working

\* A file the watermark has not passed comes after every row.
LEMMA PendingAfterRows == IInv => \A f \in Pending : AfterRows(f)
  <1> SUFFICES ASSUME IInv, NEW f \in Pending, NEW i \in DOMAIN etlRun, etlRun[i].mtime # 0
               PROVE  etlRun[i].mtime <= MTime[f] /\ etlRun[i].version # f
    BY DEF AfterRows
  <1>1. f \in Files /\ MTime[f] \in Nat
    BY DEF Pending, IInv, TypeOK
  <1>2. etlRun[i] \in Row
    BY DEF IInv, TypeOK
  <1>3. etlRun[i].mtime \in Nat
    BY <1>2 DEF Row
  <1>4. etlRun[i].ok /\ etlRun[i].mtime = MTime[etlRun[i].version]
    BY DEF IInv, RowsOfFiles
  <1>5. ~(MTime[f] <= etlRun[i].mtime)
    BY <1>4 DEF Pending, Passed
  <1> QED BY <1>1, <1>3, <1>4, <1>5

\* The run's own steps: the list, the import of the oldest, its export and
\* its load, and the next turn of the loop.
LEMMA QueueOfList ==
  ASSUME IInv, NEW r \in Runs, ListFiles(r), Syncing(r)'
  PROVE  QueueOf(r)'
  <1> USE DEF IInv, TypeOK
  <1>1. at[r] = "list" /\ Pending # {} /\ at' = [at EXCEPT ![r] = "import"]
        /\ left' = [left EXCEPT ![r] = Pending] /\ UNCHANGED <<remote, etlRun>>
    BY DEF ListFiles, Finish, Ends, Syncing, Working, pg
  <1>2. at'[r] = "import" /\ left'[r] = Pending
    BY <1>1
  <1>3. \A f \in Pending : AfterRows(f)'
    BY <1>1, PendingAfterRows DEF AfterRows
  <1>4. Pending \subseteq remote'
    BY <1>1 DEF Pending
  <1> QED BY <1>2, <1>3, <1>4 DEF QueueOf, HasFile

LEMMA QueueOfImport ==
  ASSUME IInv, NEW r \in Runs, ImportZip(r), Syncing(r)'
  PROVE  QueueOf(r)'
  <1> USE DEF IInv, TypeOK
  <1>1. kind[r] = "sync" /\ at[r] = "import"
    BY DEF ImportZip, Syncing, MoveTo
  <1>2. QueueOf(r)
    BY <1>1 DEF QueueInOrder, Syncing, Working
  <1>3. PICK f \in left[r] : /\ IsOldest(f, left[r]) /\ scratch' = f
                             /\ at' = [at EXCEPT ![r] = "export"]
                             /\ file' = [file EXCEPT ![r] = f]
                             /\ left' = [left EXCEPT ![r] = @ \ {f}]
                             /\ UNCHANGED kind
    BY <1>1 DEF ImportZip
  <1>4. at'[r] = "export" /\ file'[r] = f /\ left'[r] = left[r] \ {f}
    BY <1>3
  <1>5. UNCHANGED <<remote, etlRun>>
    BY DEF ImportZip, pg
  <1>6. \A g \in left[r] : g \in remote' /\ AfterRows(g)'
    BY <1>2, <1>5 DEF QueueOf, AfterRows
  <1> QED BY <1>3, <1>4, <1>6 DEF QueueOf, HasFile, IsOldest

LEMMA QueueOfExport ==
  ASSUME IInv, NEW r \in Runs, Export(r), Syncing(r)'
  PROVE  QueueOf(r)'
  <1> USE DEF IInv, TypeOK, run
  <1>1. kind[r] = "sync" /\ at[r] = "export" /\ zip' = scratch
    BY DEF Export, Syncing, Working, MoveTo, Finish, Ends
  <1>2. QueueOf(r) /\ HasFile(r)
    BY <1>1 DEF QueueInOrder, HasFile, Syncing, Working
  <1>3. at'[r] = "load" /\ UNCHANGED <<kind, file, left, remote, etlRun>>
    BY <1>1 DEF Export, MoveTo, AfterExport, pg
  <1>4. \A g \in Files : AfterRows(g) => AfterRows(g)'
    BY <1>3 DEF AfterRows
  <1> QED BY <1>1, <1>2, <1>3, <1>4 DEF QueueOf, HasFile

LEMMA QueueOfLoad ==
  ASSUME IInv, NEW r \in Runs, LoadIntoPostgres(r), Syncing(r)'
  PROVE  QueueOf(r)'
  <1>1. kind[r] = "sync" /\ UNCHANGED <<remote, left>> /\ at'[r] = "upload"
    BY DEF LoadIntoPostgres, Syncing, Working, MoveTo, Finish, Ends, IInv, TypeOK
  <1>2. QueueOf(r) /\ HasFile(r) /\ file[r] \in Files
    BY <1>1, FileRow
  <1>3. ASSUME NEW g \in left[r] PROVE AfterRows(g)'
    <2>1. AfterRows(g) /\ MTime[file[r]] <= MTime[g] /\ g # file[r]
      BY <1>2 DEF QueueOf
    <2>2. \A i \in DOMAIN etlRun' :
            \/ i \in DOMAIN etlRun /\ etlRun'[i] = etlRun[i]
            \/ etlRun'[i] = [ok |-> TRUE, version |-> file[r], mtime |-> MTime[file[r]]]
      BY <1>1, FileRow
    <2> QED BY <2>1, <2>2 DEF AfterRows
  <1> QED BY <1>1, <1>2, <1>3 DEF QueueOf, HasFile

\* A step after the load keeps what is left.
LEMMA QueueKept ==
  ASSUME IInv, NEW r \in Runs, at[r] \notin {"idle", "guard", "done"}, kind[r] = "sync",
         at'[r] \notin {"export", "load"}, UNCHANGED <<remote, left, etlRun>>
  PROVE  QueueOf(r)'
  <1>1. QueueOf(r)
    BY DEF IInv, QueueInOrder, Syncing, Working
  <1> QED BY <1>1 DEF QueueOf, HasFile, AfterRows

LEMMA QueueOfOne ==
  ASSUME IInv, NEW r \in Runs, RunStep(r), Syncing(r)'
  PROVE  QueueOf(r)'
  <1> USE DEF Syncing, Working, MoveTo, Finish, Ends, run, etl, pg
  <1>0. RunType
    BY TypeRun DEF IInv
  <1> USE <1>0 DEF RunType
  <1>1. CASE (\E k \in Kinds : Trigger(r, k)) \/ Refuse(r) \/ Fail(r) \/ Die(r)
    BY <1>1 DEF Trigger, Refuse, Fail, Die
  <1>2. CASE Enter(r)
    <2>1. at[r] = "guard" /\ UNCHANGED <<left, kind>> /\ at'[r] \in {"list", "import", "load"}
      BY <1>2 DEF Enter, FirstStage
    <2>2. kind[r] = "sync" /\ at'[r] = "list"
      BY <1>2, <2>1 DEF Enter, FirstStage
    <2>3. left[r] = {}
      BY <2>1 DEF IInv, Exclusive
    <2> QED BY <2>1, <2>2, <2>3 DEF QueueOf, HasFile
  <1>3. CASE ListFiles(r)
    BY <1>3, QueueOfList
  <1>4. CASE ImportZip(r)
    BY <1>4, QueueOfImport
  <1>5. CASE Export(r)
    BY <1>5, QueueOfExport
  <1>6. CASE LoadIntoPostgres(r)
    BY <1>6, QueueOfLoad
  <1>7. CASE UploadBegin(r) \/ UploadEnd(r) \/ Reimport(r)
    BY <1>7, QueueKept DEF UploadBegin, UploadEnd, Reimport
  <1>8. CASE Restart(r)
    <2>1. CASE at[r] = "waiting"
      BY <1>8, <2>1, QueueKept DEF Restart, NextFile
    <2>2. CASE at[r] # "waiting"
      BY <1>8, <2>2 DEF Restart, IInv, QueueInOrder, QueueOf, HasFile, AfterRows
    <2> QED BY <2>1, <2>2
  <1>9. CASE MotisImport(r) \/ OrphanFails(r)
    BY <1>9 DEF MotisImport, OrphanFails, IInv, QueueInOrder, QueueOf, HasFile, AfterRows
  <1> QED BY <1>1, <1>2, <1>3, <1>4, <1>5, <1>6, <1>7, <1>8, <1>9 DEF RunStep, Stage

LEMMA OrderStep == IInv /\ [Next]_vars => RowsOfFiles' /\ QueueInOrder' /\ FilesInOrder'
  <1> SUFFICES ASSUME IInv, [Next]_vars PROVE RowsOfFiles' /\ QueueInOrder' /\ FilesInOrder'
    OBVIOUS
  <1>1. ASSUME NEW r \in Runs, RunStep(r) PROVE RowsOfFiles' /\ QueueInOrder' /\ FilesInOrder'
    <2>1. QueueInOrder'
      BY <1>1, QueueOfOne, QueueOfOthers DEF QueueInOrder
    <2>2. RowsOfFiles' /\ FilesInOrder'
      <3>1. CASE LoadIntoPostgres(r)
        BY <3>1, LoadInOrder
      <3>2. CASE ~LoadIntoPostgres(r)
        BY <1>1, <3>2, NoFileRow, OtherRow DEF IInv
      <3> QED BY <3>1, <3>2
    <2> QED BY <2>1, <2>2
  <1>2. ASSUME UNCHANGED <<run, scratch, zip, etlRun>>, remote \subseteq remote'
        PROVE  RowsOfFiles' /\ QueueInOrder' /\ FilesInOrder'
    BY <1>2 DEF IInv, RowsOfFiles, QueueInOrder, FilesInOrder, QueueOf, HasFile, Syncing,
                Working, AfterRows, run
  <1>3. CASE \E f \in Files : Deliver(f)
    BY <1>2, <1>3 DEF Deliver, etl, pg
  <1>4. CASE UNCHANGED vars
    BY <1>2, <1>4 DEF vars, etl, pg
  <1> QED BY <1>1, <1>3, <1>4, StepCases

LEMMA IInvHolds == Spec => []IInv
  <1>1. IInv /\ [Next]_vars => IInv'
    BY TypeStep, FileStep, ExclusiveStep, OnTheWayStep, OrderStep DEF IInv
  <1> QED BY <1>1, InitIInv, PTL DEF Spec

\* Whatever runs overlap, fail or die, the files of the feed are imported in
\* the order of their source times, and none twice.
THEOREM FilesAreInOrder == Spec => []FilesInOrder
  BY IInvHolds, PTL DEF IInv

-----------------------------------------------------------------------------
\* With a source time of its own for each file, in delivery order.
SkipInv == IInv /\ InDeliveryOrder /\ NothingMissed /\ NoFileIsSkipped

LEMMA ImportedMeans == \A f \in Files : Imported(f) <=> f \in Published
  BY DEF Imported, Published

LEMMA ImportedStays ==
  ASSUME IInv, [Next]_vars
  PROVE  \A f \in Files : Imported(f) => Imported(f)'
  <1>1. Published \subseteq Published'
    <2>1. CASE \E r \in Runs : RunStep(r)
      BY <2>1, PublishedStep DEF IInv
    <2>2. CASE UNCHANGED etlRun
      BY <2>2, NothingPublished
    <2> QED BY <2>1, <2>2, StepCases DEF Deliver, vars, pg
  <1>2. \A f \in Files : f \in Published' => Imported(f)'
    BY DEF Imported, Published
  <1> QED BY <1>1, <1>2, ImportedMeans

LEMMA LaterIsNewer ==
  ASSUME DistinctTimes, InDeliveryOrder, IInv, NEW f \in remote, NEW d \in Files, d \notin remote
  PROVE  MTime[f] < MTime[d]
  <1>1. f \in Files /\ f # d /\ ~(d < f)
    BY DEF InDeliveryOrder, IInv, TypeOK
  <1>2. f < d
    BY <1>1
  <1> QED BY <1>1, <1>2 DEF DistinctTimes

LEMMA TimesDiffer ==
  ASSUME DistinctTimes, NEW f \in Files, NEW g \in Files, f # g, MTime[f] <= MTime[g]
  PROVE  MTime[f] < MTime[g]
  <1>1. f < g \/ g < f
    OBVIOUS
  <1> QED BY <1>1 DEF DistinctTimes

\* A delivery: the new file is newer than whatever is imported or queued.
LEMMA SkipDeliver ==
  ASSUME SkipInv, DistinctTimes, NEW d \in Files, Deliver(d), IInv'
  PROVE  NothingMissed' /\ NoFileIsSkipped' /\ InDeliveryOrder'
  <1> USE DEF SkipInv
  <1>1. remote' = remote \union {d} /\ UNCHANGED <<run, etlRun>> /\ d \notin remote
    BY DEF Deliver, pg
  <1>2. \A f \in remote : MTime[f] < MTime[d]
    BY <1>1, LaterIsNewer
  <1>3. NothingMissed'
    <2> SUFFICES ASSUME NEW r \in Runs, Syncing(r), at[r] # "list", NEW g \in remote'
                 PROVE  \/ Imported(g) \/ g \in left[r] \/ (HasFile(r) /\ g = file[r])
                        \/ /\ \A f \in left[r] : MTime[f] < MTime[g]
                           /\ HasFile(r) => MTime[file[r]] < MTime[g]
      BY <1>1 DEF NothingMissed, Syncing, Working, HasFile, Imported, run
    <2>1. CASE g \in remote
      BY <2>1 DEF NothingMissed
    <2>2. CASE g = d
      <3>1. left[r] \subseteq remote /\ (HasFile(r) => file[r] \in remote)
        BY DEF IInv, QueueInOrder, QueueOf
      <3> QED BY <1>2, <2>2, <3>1
    <2> QED BY <1>1, <2>1, <2>2
  <1>4. NoFileIsSkipped'
    <2> SUFFICES ASSUME NEW f \in remote', Passed(f) PROVE Imported(f)
      BY <1>1 DEF NoFileIsSkipped, Passed, Imported
    <2>1. CASE f \in remote
      BY <2>1 DEF NoFileIsSkipped
    <2>2. CASE f = d
      <3>1. PICK i \in DOMAIN etlRun : etlRun[i].ok /\ MTime[d] <= etlRun[i].mtime
        BY <2>2 DEF Passed
      <3>2. etlRun[i] \in Row
        BY DEF IInv, TypeOK
      <3>3. etlRun[i].mtime \in Nat /\ MTime[d] \in Nat \ {0}
        BY <3>2 DEF Row
      <3>4. etlRun[i].version \in remote /\ etlRun[i].mtime = MTime[etlRun[i].version]
        BY <3>1, <3>3 DEF IInv, RowsOfFiles
      <3>5. MTime[etlRun[i].version] < MTime[d]
        BY <1>2, <3>4
      <3> QED BY <3>1, <3>3, <3>4, <3>5
    <2> QED BY <1>1, <2>1, <2>2
  <1>5. InDeliveryOrder'
    BY <1>1 DEF InDeliveryOrder, Deliver
  <1> QED BY <1>3, <1>4, <1>5

\* A load: what is not newer than its file was imported before.
LEMMA SkipRow ==
  ASSUME SkipInv, DistinctTimes, NEW r \in Runs, RunStep(r)
  PROVE  NoFileIsSkipped'
  <1> USE DEF SkipInv
  <1>0. [Next]_vars
    BY DEF Next, RunStep
  <1>1. CASE LoadIntoPostgres(r) /\ kind[r] = "sync"
    <2>1. /\ file[r] \in Files /\ HasFile(r) /\ QueueOf(r)
          /\ \A i \in DOMAIN etlRun' :
               \/ i \in DOMAIN etlRun /\ etlRun'[i] = etlRun[i]
               \/ etlRun'[i] = [ok |-> TRUE, version |-> file[r], mtime |-> MTime[file[r]]]
      BY <1>1, FileRow
    <2>2. \A c \in Files : c = file[r] => Imported(c)'
      <3>1. Published' = Published \union {file[r]}
        BY <1>1, <2>1, LoadPublishes DEF IInv, QueueOf, Carried, LoadIntoPostgres
      <3>2. PICK i \in DOMAIN etlRun' : etlRun'[i].ok /\ etlRun'[i].version = file[r]
        BY <2>1, <3>1 DEF Published
      <3> QED BY <3>2 DEF Imported
    <2> SUFFICES ASSUME NEW g \in remote, Passed(g)' PROVE Imported(g)'
      BY <1>1 DEF NoFileIsSkipped, LoadIntoPostgres
    <2>3. g \in Files /\ remote \subseteq Files
      BY DEF IInv, TypeOK
    <2>4. Imported(g) => Imported(g)'
      BY <1>0, <2>3, ImportedStays
    <2>5. CASE Passed(g)
      BY <2>4, <2>5 DEF NoFileIsSkipped
    <2>6. CASE ~Passed(g)
      <3>1. MTime[g] <= MTime[file[r]]
        BY <2>1, <2>6 DEF Passed
      <3>2. \/ Imported(g) \/ g \in left[r] \/ g = file[r]
            \/ MTime[file[r]] < MTime[g]
        BY <2>1 DEF NothingMissed, HasFile
      <3>3. g \in left[r] => MTime[file[r]] < MTime[g]
        <4>1. g \in left[r] => g # file[r] /\ MTime[file[r]] <= MTime[g]
          BY <2>1 DEF QueueOf
        <4> QED BY <2>1, <2>3, <4>1, TimesDiffer
      <3>4. MTime[g] \in Nat /\ MTime[file[r]] \in Nat
        BY <2>1, <2>3
      <3>5. ~(MTime[file[r]] < MTime[g])
        BY <3>1, <3>4
      <3>6. Imported(g) \/ g = file[r]
        BY <3>2, <3>3, <3>5
      <3> QED BY <2>2, <2>3, <2>4, <3>6
    <2> QED BY <2>5, <2>6
  <1>2. CASE ~(LoadIntoPostgres(r) /\ kind[r] = "sync")
    <2>1. UNCHANGED etlRun \/ \E ok \in BOOLEAN, v \in Versions \union {None} : RecordRow(ok, v, 0)
      BY <1>2, NoFileRow DEF IInv
    <2> SUFFICES ASSUME NEW g \in remote, Passed(g)' PROVE Imported(g)'
      BY <1>2, NoFileRow DEF NoFileIsSkipped, IInv
    <2>2. g \in Files /\ MTime[g] \in Nat \ {0}
      BY DEF IInv, TypeOK
    <2>3. Passed(g)
      <3>1. CASE UNCHANGED etlRun
        BY <3>1 DEF Passed
      <3>2. ASSUME NEW ok \in BOOLEAN, NEW v \in Versions \union {None}, RecordRow(ok, v, 0)
            PROVE  Passed(g)
        <4>1. /\ \A i \in DOMAIN etlRun : i \in DOMAIN etlRun' /\ etlRun'[i] = etlRun[i]
              /\ \A i \in DOMAIN etlRun' : i \in DOMAIN etlRun \/ i = Len(etlRun) + 1
              /\ etlRun'[Len(etlRun) + 1] = [ok |-> ok, version |-> v, mtime |-> 0]
          BY <3>2, RowAppended, RowsType DEF IInv
        <4> QED BY <2>2, <4>1 DEF Passed
      <3> QED BY <2>1, <3>1, <3>2
    <2> QED BY <1>0, <2>2, <2>3, ImportedStays DEF NoFileIsSkipped
  <1> QED BY <1>1, <1>2

\* What a run that syncs misses, in its own steps.
LEMMA MissedOfOne ==
  ASSUME SkipInv, DistinctTimes, NEW r \in Runs, RunStep(r), Syncing(r)', at'[r] # "list",
         NEW g \in remote
  PROVE  \/ Imported(g)' \/ g \in left'[r] \/ (HasFile(r)' /\ g = file'[r])
         \/ /\ \A f \in left'[r] : MTime[f] < MTime[g]
            /\ HasFile(r)' => MTime[file'[r]] < MTime[g]
  <1> USE DEF SkipInv, Syncing, Working, HasFile
  <1>1. g \in Files /\ [Next]_vars
    BY DEF IInv, TypeOK, Next, RunStep
  <1>2. Imported(g) => Imported(g)'
    BY <1>1, ImportedStays
  <1>3. RunType
    BY TypeRun DEF IInv
  <1>4. ASSUME Syncing(r), at[r] # "list", left'[r] = left[r], file'[r] = file[r],
               HasFile(r)' <=> HasFile(r)
        PROVE  \/ Imported(g)' \/ g \in left'[r] \/ (HasFile(r)' /\ g = file'[r])
               \/ /\ \A f \in left'[r] : MTime[f] < MTime[g]
                  /\ HasFile(r)' => MTime[file'[r]] < MTime[g]
    BY <1>2, <1>4 DEF NothingMissed
  <1>5. ~((\E k \in Kinds : Trigger(r, k)) \/ Refuse(r) \/ Fail(r) \/ Die(r))
    BY <1>3 DEF RunType, Trigger, Refuse, Fail, Die, MoveTo, Finish, Ends
  <1>6. ~Enter(r)
    BY <1>3 DEF RunType, Enter, FirstStage, MoveTo
  <1>7. CASE ListFiles(r)
    <2>1. left'[r] = Pending /\ at'[r] = "import"
      BY <1>7, <1>3 DEF RunType, ListFiles, Finish, Ends
    <2>2. g \in Pending \/ Imported(g)
      BY DEF Pending, NoFileIsSkipped
    <2> QED BY <1>2, <2>1, <2>2
  <1>8. CASE ImportZip(r)
    <2>1. kind[r] = "sync" /\ at[r] = "import"
      BY <1>8 DEF ImportZip, MoveTo
    <2>2. PICK f \in left[r] : /\ at' = [at EXCEPT ![r] = "export"]
                               /\ file' = [file EXCEPT ![r] = f]
                               /\ left' = [left EXCEPT ![r] = @ \ {f}]
      BY <1>8, <2>1 DEF ImportZip
    <2>3. at'[r] = "export" /\ file'[r] = f /\ left'[r] = left[r] \ {f}
      BY <1>3, <2>2 DEF RunType
    <2>4. Imported(g) \/ g \in left[r] \/ \A h \in left[r] : MTime[h] < MTime[g]
      BY <2>1 DEF NothingMissed
    <2> QED BY <1>2, <2>3, <2>4
  <1>9. CASE Export(r)
    BY <1>9, <1>4, <1>3 DEF RunType, Export, MoveTo, Finish, Ends, AfterExport
  <1>10. CASE LoadIntoPostgres(r)
    <2>1. kind[r] = "sync" /\ at[r] = "load" /\ at'[r] = "upload" /\ left'[r] = left[r]
      BY <1>10, <1>3 DEF RunType, LoadIntoPostgres, MoveTo, Finish, Ends
    <2>2. ASSUME g = file[r] PROVE Imported(g)'
      <3>1. Published' = Published \union {g}
        BY <1>10, <2>1, <2>2, FileRow, LoadPublishes DEF IInv, QueueOf, Carried
      <3>2. PICK i \in DOMAIN etlRun' : etlRun'[i].ok /\ etlRun'[i].version = g
        BY <1>1, <3>1 DEF Published
      <3> QED BY <3>2 DEF Imported
    <2>3. Imported(g) \/ g \in left[r] \/ g = file[r] \/ \A f \in left[r] : MTime[f] < MTime[g]
      BY <2>1 DEF NothingMissed
    <2> QED BY <1>2, <2>1, <2>2, <2>3
  <1>11. CASE UploadBegin(r) \/ UploadEnd(r) \/ Reimport(r)
    BY <1>11, <1>4, <1>3 DEF RunType, UploadBegin, UploadEnd, Reimport, MoveTo
  <1>12. CASE Restart(r)
    BY <1>12, <1>4, <1>3 DEF RunType, Restart, NextFile, MoveTo, Finish, Ends, run
  <1>13. CASE MotisImport(r) \/ OrphanFails(r)
    BY <1>13, <1>4 DEF MotisImport, OrphanFails, run
  <1> QED BY <1>5, <1>6, <1>7, <1>8, <1>9, <1>10, <1>11, <1>12, <1>13 DEF RunStep, Stage

LEMMA SkipStep == SkipInv /\ IInv' /\ DistinctTimes /\ [Next]_vars => SkipInv'
  <1> SUFFICES ASSUME SkipInv, IInv', DistinctTimes, [Next]_vars PROVE SkipInv'
    OBVIOUS
  <1>1. ASSUME NEW r \in Runs, RunStep(r) PROVE SkipInv'
    <2>1. UNCHANGED remote
      <3>1. CASE LoadIntoPostgres(r)
        BY <3>1 DEF LoadIntoPostgres
      <3>2. CASE ~LoadIntoPostgres(r)
        BY <1>1, <3>2, NoFileRow DEF SkipInv, IInv
      <3> QED BY <3>1, <3>2
    <2>2. NothingMissed'
      <3> SUFFICES ASSUME NEW o \in Runs, Syncing(o)', at'[o] # "list", NEW g \in remote
                   PROVE  \/ Imported(g)' \/ g \in left'[o] \/ (HasFile(o)' /\ g = file'[o])
                          \/ /\ \A f \in left'[o] : MTime[f] < MTime[g]
                             /\ HasFile(o)' => MTime[file'[o]] < MTime[g]
        BY <2>1 DEF NothingMissed
      <3>1. CASE o = r
        BY <1>1, <3>1, MissedOfOne
      <3>2. CASE o # r
        <4>1. kind'[o] = kind[o] /\ at'[o] = at[o] /\ file'[o] = file[o] /\ left'[o] = left[o]
          BY <1>1, <3>2, OthersStay DEF SkipInv, IInv
        <4>2. g \in Files
          BY DEF SkipInv, IInv, TypeOK
        <4>3. Imported(g) => Imported(g)'
          BY <4>2, ImportedStays DEF SkipInv
        <4> QED BY <4>1, <4>3 DEF SkipInv, NothingMissed, Syncing, Working, HasFile
      <3> QED BY <3>1, <3>2
    <2>3. NoFileIsSkipped'
      BY <1>1, SkipRow
    <2>4. InDeliveryOrder'
      BY <2>1 DEF SkipInv, InDeliveryOrder
    <2> QED BY <2>2, <2>3, <2>4 DEF SkipInv
  <1>2. ASSUME NEW d \in Files, Deliver(d) PROVE SkipInv'
    BY <1>2, SkipDeliver DEF SkipInv
  <1>3. CASE UNCHANGED vars
    BY <1>3 DEF SkipInv, vars, run, pg, InDeliveryOrder, NothingMissed, NoFileIsSkipped,
                Syncing, Working, HasFile, Imported, Passed
  <1> QED BY <1>1, <1>2, <1>3, StepCases

\* When no two files share a source time and they arrive in that order, a file
\* the watermark has passed is one that was imported: the next sync rightly
\* does not look at it.
THEOREM NothingIsSkipped ==
  ASSUME DistinctTimes
  PROVE  Spec => []NoFileIsSkipped
  <1>1. Init => InDeliveryOrder /\ NothingMissed /\ NoFileIsSkipped
    BY DEF Init, InDeliveryOrder, NothingMissed, NoFileIsSkipped
  <1>2. SkipInv /\ IInv' /\ [Next]_vars => SkipInv'
    BY SkipStep
  <1> QED BY <1>1, <1>2, InitIInv, IInvHolds, PTL DEF Spec, SkipInv
-----------------------------------------------------------------------------
\* The database is ahead of the engine only while the run that loaded it is
\* still delivering, or when a failure was recorded or may be missing. A
\* delivery hands the loaded version on from stage to stage, and is alone at
\* the sidecar when its own reimport is there: an earlier reimport that
\* somebody gave up on would have been seen by Reimport.
Excused == unseen \/ \E i \in DOMAIN etlRun : i = Len(etlRun) /\ ~etlRun[i].ok
AloneAtSidecar(r) == \A o \in Runs : o # r => sidecar[o].at = "none"
Delivery == {"upload", "uploading", "reimport", "waiting"}
Delivers(r) ==
  \/ at[r] = "upload" /\ zip = db
  \/ at[r] = "uploading" /\ partial = db
  \/ at[r] = "reimport" /\ volume = db
  \/ /\ at[r] = "waiting" /\ AloneAtSidecar(r)
     /\ \/ sidecar[r].at = "importing" /\ sidecar[r].loading = db
        \/ sidecar[r].at = "restarting" /\ data = db
Settled == engine = db /\ \A r \in Runs : sidecar[r].at = "none" /\ at[r] \notin Delivery
Follows == Excused \/ Settled \/ \E r \in Runs : Delivers(r)

\* Without bundles a run at work is the only one.
LEMMA OneAtWork ==
  ASSUME Exclusive, "bundle" \notin Kinds, NEW r \in Runs, Working(r)
  PROVE  /\ lock = r /\ kind[r] # "bundle" /\ kind[r] \in Kinds
         /\ \A o \in Runs : Working(o) => o = r
  BY DEF Exclusive, Guarded, Working

\* A failed row excuses, and only the next load takes the excuse back.
LEMMA FailureExcuses ==
  ASSUME TypeOK, RecordRow(FALSE, None, 0)
  PROVE  Excused'
  <1>1. /\ DOMAIN etlRun' = 1..(Len(etlRun) + 1) /\ Len(etlRun) \in Nat
        /\ etlRun'[Len(etlRun) + 1] = [ok |-> FALSE, version |-> None, mtime |-> 0]
        /\ etlRun' \in Seq(Row)
    BY RowAppended, RowsType
  <1>2. Len(etlRun') = Len(etlRun) + 1
    BY <1>1
  <1> QED BY <1>1, <1>2 DEF Excused

LEMMA ExcuseStays ==
  ASSUME Excused, UNCHANGED etlRun, unseen => unseen'
  PROVE  Excused'
  BY DEF Excused

LEMMA FailedRunExcuses ==
  ASSUME TypeOK, NEW r \in Runs, Refuse(r) \/ Fail(r) \/ Die(r)
  PROVE  Excused'
  <1>1. CASE Refuse(r)
    BY <1>1, FailureExcuses DEF Refuse
  <1>2. CASE Fail(r)
    BY <1>2, FailureExcuses DEF Fail, RecordFailure, Excused
  <1>3. CASE Die(r)
    BY <1>3 DEF Die, Excused
  <1> QED BY <1>1, <1>2, <1>3

LEMMA OnlyLoadClears ==
  ASSUME TypeOK, NEW r \in Runs, RunStep(r), ~LoadIntoPostgres(r), Excused
  PROVE  Excused'
  <1>1. CASE Refuse(r) \/ Fail(r) \/ Die(r)
    BY <1>1, FailedRunExcuses
  <1>2. CASE (\E k \in Kinds : Trigger(r, k)) \/ Enter(r) \/ ListFiles(r) \/ ImportZip(r) \/ Export(r)
    BY <1>2, ExcuseStays DEF Trigger, Enter, ListFiles, ImportZip, Export, pg
  <1>3. CASE UploadBegin(r) \/ UploadEnd(r) \/ Reimport(r)
    <2>1. UNCHANGED etlRun
      BY <1>3 DEF UploadBegin, UploadEnd, Reimport, pg
    <2>2. unseen => unseen'
      BY <1>3 DEF UploadBegin, UploadEnd, Reimport
    <2> QED BY <2>1, <2>2, ExcuseStays
  <1>4. CASE MotisImport(r) \/ Restart(r) \/ OrphanFails(r)
    BY <1>4, ExcuseStays DEF MotisImport, Restart, OrphanFails, pg
  <1> QED BY <1>1, <1>2, <1>3, <1>4 DEF RunStep, Stage

\* A load starts a delivery, or is the CLI's postprocess, which never tells
\* the engine.
LEMMA LoadDelivers ==
  ASSUME TypeOK, Exclusive, "bundle" \notin Kinds, NEW r \in Runs, LoadIntoPostgres(r)
  PROVE  Excused' \/ Delivers(r)'
  <1>1. CASE kind[r] = "postprocess"
    BY <1>1 DEF LoadIntoPostgres, Excused
  <1>2. CASE kind[r] # "postprocess"
    <2>1. kind[r] # "bundle"
      BY OneAtWork DEF LoadIntoPostgres, Working
    <2>2. at'[r] = "upload"
      BY <1>2, TypeRun DEF LoadIntoPostgres, MoveTo, RunType
    <2>3. db' = zip /\ zip' = zip
      BY <2>1 DEF LoadIntoPostgres, Carried, etl
    <2> QED BY <2>2, <2>3 DEF Delivers
  <1> QED BY <1>1, <1>2

\* While nothing is being delivered, only a load disturbs the agreement.
LEMMA SettledStep ==
  ASSUME TypeOK, NEW r \in Runs, RunStep(r), ~LoadIntoPostgres(r), Settled
  PROVE  Settled' \/ Excused'
  <1>1. CASE Refuse(r) \/ Fail(r) \/ Die(r)
    BY <1>1, FailedRunExcuses
  <1>2. ~UploadBegin(r) /\ ~UploadEnd(r) /\ ~Reimport(r)
    BY DEF Settled, Delivery, UploadBegin, UploadEnd, Reimport
  <1>3. ~MotisImport(r) /\ ~Restart(r) /\ ~OrphanFails(r)
    BY DEF Settled, MotisImport, Restart, OrphanFails
  <1>4. CASE (\E k \in Kinds : Trigger(r, k)) \/ Enter(r) \/ ListFiles(r) \/ ImportZip(r) \/ Export(r)
    <2>1. UNCHANGED <<db, engine, sidecar>>
      BY <1>4 DEF Trigger, Enter, ListFiles, ImportZip, Export, pg, motis
    <2>2. at'[r] \notin Delivery
      <3> USE TypeRun DEF RunType, MoveTo, Finish, Ends, Delivery
      <3>1. CASE (\E k \in Kinds : Trigger(r, k)) \/ Enter(r)
        BY <3>1 DEF Trigger, Enter, FirstStage
      <3>2. CASE ListFiles(r) \/ ImportZip(r)
        BY <3>2 DEF ListFiles, ImportZip
      <3>3. CASE Export(r)
        BY <3>3 DEF Export, AfterExport
      <3> QED BY <1>4, <3>1, <3>2, <3>3
    <2>3. \A o \in Runs : o # r => at'[o] = at[o]
      BY OthersStay
    <2> QED BY <2>1, <2>2, <2>3 DEF Settled
  <1> QED BY <1>1, <1>2, <1>3, <1>4 DEF RunStep, Stage

\* The delivering run's own steps hand its version on.
LEMMA DeliveryStep ==
  ASSUME TypeOK, Exclusive, "bundle" \notin Kinds, NEW r \in Runs, RunStep(r),
         ~LoadIntoPostgres(r), Delivers(r)
  PROVE  Follows'
  <1> USE TypeRun DEF RunType
  <1>0. Working(r)
    BY DEF Delivers, Working
  <1>1. /\ kind[r] # "bundle"
        /\ \A o \in Runs : o # r => ~Working(o)
    BY <1>0, OneAtWork
  <1>2. sidecar \in [Runs -> Request]
    BY DEF TypeOK
  <1>3. CASE Refuse(r) \/ Fail(r) \/ Die(r)
    BY <1>3, FailedRunExcuses DEF Follows
  <1>4. ~(\E k \in Kinds : Trigger(r, k)) /\ ~Enter(r) /\ ~ListFiles(r) /\ ~ImportZip(r) /\ ~Export(r)
    BY DEF Delivers, Trigger, MayStart, Enter, ListFiles, ImportZip, Export
  <1>5. CASE UploadBegin(r)
    <2>1. partial' = Carried(r) /\ Carried(r) = zip
      BY <1>1, <1>5 DEF UploadBegin, Carried, Working
    <2>2. at'[r] = "uploading" /\ db' = db
      BY <1>5 DEF UploadBegin, MoveTo, pg
    <2>3. zip = db
      BY <1>5 DEF UploadBegin, Delivers
    <2> QED BY <2>1, <2>2, <2>3 DEF Follows, Delivers
  <1>6. CASE UploadEnd(r)
    <2>1. volume' = db /\ at'[r] = "reimport" /\ db' = db
      BY <1>6 DEF UploadEnd, MoveTo, pg, Delivers
    <2> QED BY <2>1 DEF Follows, Delivers
  <1>7. CASE Reimport(r)
    <2>1. CASE \E o \in Runs : sidecar[o].at # "none"
      BY <1>7, <2>1 DEF Reimport, Follows, Excused
    <2>2. CASE \A o \in Runs : sidecar[o].at = "none"
      <3>1. at'[r] = "waiting" /\ db' = db /\ volume = db
        BY <1>7 DEF Reimport, MoveTo, pg, Delivers
      <3>2. sidecar'[r] = [at |-> "importing", loading |-> volume]
            /\ \A o \in Runs : o # r => sidecar'[o].at = "none"
        BY <1>2, <1>7, <2>2 DEF Reimport
      <3> QED BY <3>1, <3>2 DEF Follows, Delivers, AloneAtSidecar
    <2> QED BY <2>1, <2>2
  <1>8. CASE MotisImport(r)
    <2>1. db' = db /\ at' = at /\ UNCHANGED <<zip, partial, volume>> /\ data' = sidecar[r].loading
      BY <1>8 DEF MotisImport, pg, etl, run
    <2>2. sidecar'[r].at = "restarting" /\ \A o \in Runs : o # r => sidecar'[o] = sidecar[o]
      BY <1>2, <1>8 DEF MotisImport, Request
    <2>3. sidecar[r].at = "importing"
      BY <1>8 DEF MotisImport
    <2> QED BY <2>1, <2>2, <2>3 DEF Follows, Delivers, AloneAtSidecar
  <1>9. CASE Restart(r)
    <2>1. db' = db /\ engine' = data /\ UNCHANGED <<zip, partial, volume, data>>
      BY <1>9 DEF Restart, pg, etl
    <2>2. sidecar'[r].at = "none" /\ \A o \in Runs : o # r => sidecar'[o] = sidecar[o]
      BY <1>2, <1>9 DEF Restart, NoRequest
    <2>3. CASE at[r] = "waiting"
      <3>1. AloneAtSidecar(r) /\ data = db
        BY <1>9, <2>3 DEF Restart, Delivers
      <3>2. at'[r] \notin Delivery
        BY <1>9, <2>3 DEF Restart, NextFile, MoveTo, Finish, Ends, Delivery
      <3>3. \A o \in Runs : o # r => at'[o] = at[o] /\ at[o] \notin Delivery
        BY <1>1, OthersStay DEF Working, Delivery
      <3> QED BY <2>1, <2>2, <3>1, <3>2, <3>3 DEF Follows, Settled, AloneAtSidecar
    <2>4. CASE at[r] # "waiting"
      <3>1. at' = at
        BY <1>9, <2>4 DEF Restart, run
      <3> QED BY <2>1, <2>4, <3>1 DEF Follows, Delivers
    <2> QED BY <2>3, <2>4
  <1>10. CASE OrphanFails(r)
    <2>1. at[r] # "waiting" /\ at' = at /\ UNCHANGED <<db, zip, partial, volume>>
      BY <1>10 DEF OrphanFails, pg, etl, run
    <2> QED BY <2>1 DEF Follows, Delivers
  <1> QED BY <1>3, <1>4, <1>5, <1>6, <1>7, <1>8, <1>9, <1>10 DEF RunStep, Stage

\* While a run delivers, another can only be refused or start, or be a
\* reimport nobody waits for, which Delivers allows for until the run's own.
LEMMA DeliveryUndisturbed ==
  ASSUME TypeOK, Exclusive, "bundle" \notin Kinds, NEW r \in Runs, RunStep(r),
         NEW d \in Runs, d # r, Delivers(d)
  PROVE  Excused' \/ Delivers(d)'
  <1>0. Working(d)
    BY DEF Delivers, Working
  <1>1. lock = d /\ ~Working(r)
    BY <1>0, OneAtWork
  <1>2. sidecar \in [Runs -> Request]
    BY DEF TypeOK
  <1>3. at'[d] = at[d]
    BY OthersStay
  <1>4. CASE Refuse(r)
    BY <1>4, FailedRunExcuses
  <1>5. CASE (\E k \in Kinds : Trigger(r, k))
    <2>1. UNCHANGED <<db, zip, motis>>
      BY <1>5 DEF Trigger, pg
    <2> QED BY <1>3, <2>1 DEF Delivers, AloneAtSidecar, motis
  <1>6. ~Enter(r) /\ ~ListFiles(r) /\ ~ImportZip(r) /\ ~Export(r) /\ ~LoadIntoPostgres(r)
    BY <1>1 DEF Enter, MayEnter, Working, ListFiles, ImportZip, Export, LoadIntoPostgres
  <1>7. ~UploadBegin(r) /\ ~UploadEnd(r) /\ ~Reimport(r) /\ ~Fail(r) /\ ~Die(r)
    BY <1>1 DEF Working, UploadBegin, UploadEnd, Reimport, Fail, Die
  <1>8. CASE MotisImport(r) \/ Restart(r) \/ OrphanFails(r)
    <2>1. sidecar[r].at # "none"
      BY <1>8 DEF MotisImport, Restart, OrphanFails
    <2>2. UNCHANGED <<db, zip, partial, volume>>
      BY <1>8 DEF MotisImport, Restart, OrphanFails, pg, etl
    <2>3. at[d] # "waiting"
      BY <2>1 DEF Delivers, AloneAtSidecar
    <2> QED BY <1>3, <2>2, <2>3 DEF Delivers
  <1> QED BY <1>4, <1>5, <1>6, <1>7, <1>8 DEF RunStep, Stage

LEMMA FollowsStep ==
  BaseInv /\ Follows /\ "bundle" \notin Kinds /\ [Next]_vars => Follows'
  <1> SUFFICES ASSUME BaseInv, Follows, "bundle" \notin Kinds, [Next]_vars PROVE Follows'
    OBVIOUS
  <1> USE DEF BaseInv
  <1>1. ASSUME NEW r \in Runs, RunStep(r) PROVE Follows'
    <2>1. CASE LoadIntoPostgres(r)
      BY <2>1, LoadDelivers DEF Follows
    <2>2. CASE ~LoadIntoPostgres(r) /\ Excused
      BY <1>1, <2>2, OnlyLoadClears DEF Follows
    <2>3. CASE ~LoadIntoPostgres(r) /\ Settled
      BY <1>1, <2>3, SettledStep DEF Follows
    <2>4. ASSUME ~LoadIntoPostgres(r), NEW d \in Runs, Delivers(d) PROVE Follows'
      <3>1. CASE d = r
        BY <1>1, <2>4, <3>1, DeliveryStep
      <3>2. CASE d # r
        BY <1>1, <2>4, <3>2, DeliveryUndisturbed DEF Follows
      <3> QED BY <3>1, <3>2
    <2> QED BY <2>1, <2>2, <2>3, <2>4 DEF Follows
  <1>2. ASSUME UNCHANGED <<at, zip, pg, motis, unseen>> PROVE Follows'
    BY <1>2 DEF Follows, Excused, Settled, Delivers, AloneAtSidecar, pg, motis
  <1>3. CASE \E f \in Files : Deliver(f)
    BY <1>2, <1>3 DEF Deliver, etl, run
  <1>4. CASE UNCHANGED vars
    BY <1>2, <1>4 DEF vars, etl, run
  <1> QED BY <1>1, <1>3, <1>4, StepCases

\* Where every start takes the lock, the engine serves the timetable of the
\* database once nothing runs, or the newest row of etl_run shows the failure
\* that kept it behind.
THEOREM EngineCatchesUp ==
  ASSUME "bundle" \notin Kinds
  PROVE  Spec => []EngineFollowsDatabase
  <1>1. Init => Follows
    BY DEF Init, Follows, Settled, NoRequest, Delivery
  <1>2. BaseInv /\ Follows /\ [Next]_vars => Follows'
    BY FollowsStep
  <1>3. Follows => EngineFollowsDatabase
    BY DEF Follows, EngineFollowsDatabase, Excused, Settled, Delivers, Quiet, Working
  <1> QED BY <1>1, <1>2, <1>3, BaseInvHolds, PTL DEF Spec
=============================================================================
