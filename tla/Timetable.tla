----------------------------- MODULE Timetable -----------------------------
(***************************************************************************)
(* The timetable import: four ways to start a run (nightly or on-demand    *)
(* SFTP sync, raw upload, the CLI's package and postprocess, a bundle      *)
(* uploaded to the web app), the advisory lock around all but the last,    *)
(* the stages of importTimetableZip over scratch database and fixed paths, *)
(* the etl_run rows that carry the SFTP watermark, and the motis sidecar   *)
(* that takes the GTFS zip and reimports it.                               *)
(*                                                                         *)
(* A timetable is a version: an SFTP file stands for what its import       *)
(* leaves behind, an upload or a bundle is named by its run.               *)
(***************************************************************************)
EXTENDS Naturals, Sequences, FiniteSets

CONSTANTS Files,      \* the zips delivered, numbered in delivery order
          MTime,      \* modification time of a file, as SFTP lists it
          Runs,       \* the runs that may be started
          Kinds,      \* the ways to start one that are in use
          None,       \* no run, no file
          Mixed,      \* what two interleaved uploads leave
          MaxOverlap, \* bound on the runs at work at one time
          MaxFaults   \* bound on failed stages and dead processes

ASSUME TimetableAssumption ==
  /\ Files \subseteq Nat \ {0}
  /\ MTime \in [Files -> Nat \ {0}]
  /\ Kinds \subseteq {"sync", "upload", "package", "postprocess", "bundle"}
  /\ MaxFaults \in Nat
  /\ None \notin Runs /\ None \notin Files /\ None # 0
  /\ Mixed \notin Runs \union Files \union {0, None}
  /\ 0 \notin Runs

VARIABLES
  remote,     \* files in the SFTP folder
  lock,       \* the run holding the advisory lock
  kind,       \* per run: how it was started, None before that
  at,         \*   its stage
  file,       \*   the file it imports
  left,       \*   the files still to import
  incoming,   \* the zip in the upload directory
  scratch,    \* what the MariaDB scratch database holds
  zip,        \* gb-rail.gtfs.zip on the etl side
  db,         \* the version in station and trip_mapping
  etlRun,     \* the etl_run rows of the feed, oldest first
  partial,    \* the .partial file of the upload under way
  volume,     \* gb-rail.gtfs.zip in motis's input volume
  sidecar,    \* per run: its /reimport at the sidecar
  data,       \* the preprocessed version under /data/data
  engine,     \* the version motis serves
  unseen,     \* history: the engine may lag without a failed row to show it
  faults      \* faults so far

run == <<kind, at, file, left>>
etl == <<incoming, scratch, zip>>
pg == <<db, etlRun>>
motis == <<partial, volume, sidecar, data, engine>>
vars == <<remote, lock, run, etl, pg, motis, unseen, faults>>

Versions == Files \union Runs \union {0}

\* The sidecar without a request.
NoRequest == [at |-> "none", loading |-> 0]

Init ==
  /\ remote = {} /\ lock = None
  /\ kind = [r \in Runs |-> None] /\ at = [r \in Runs |-> "idle"]
  /\ file = [r \in Runs |-> None] /\ left = [r \in Runs |-> {}]
  /\ incoming = 0 /\ scratch = 0 /\ zip = 0
  /\ db = 0 /\ etlRun = <<>>
  /\ partial = None /\ volume = 0 /\ data = 0 /\ engine = 0
  /\ sidecar = [r \in Runs |-> NoRequest]
  /\ unseen = FALSE /\ faults = 0

-----------------------------------------------------------------------------
\* What the ok rows say: the watermark is the newest of their source times,
\* so a file is new when it is newer than all of them.
Imported(f) == \E i \in DOMAIN etlRun : etlRun[i].ok /\ etlRun[i].version = f
Passed(f) == \E i \in DOMAIN etlRun : etlRun[i].ok /\ MTime[f] <= etlRun[i].mtime

Pending == {f \in remote : ~Passed(f)}

\* Oldest first (and, for a mutant, newest first).
NewestFirst(f, fs) == f \in fs /\ \A g \in fs : MTime[g] <= MTime[f]
IsOldest(f, fs) == f \in fs /\ \A g \in fs : MTime[f] <= MTime[g]

\* The newest zip in the folder, for the CLI's package.
IsNewest(f) == f \in remote /\ \A g \in remote : MTime[g] <= MTime[f]

\* The version a run loads and pushes: a bundle carries its own.
Carried(r) == IF kind[r] = "bundle" THEN r ELSE zip

SourceTime(r) == IF kind[r] = "sync" THEN MTime[file[r]] ELSE 0

MoveTo(r, stage) == at' = [at EXCEPT ![r] = stage] /\ UNCHANGED <<kind, file, left>>

\* The end of guarded(): the lock goes back whatever happened (the mutant
\* forgets it).
Ends(r) == /\ at' = [at EXCEPT ![r] = "done"]
           /\ left' = [left EXCEPT ![r] = {}]
           /\ file' = [file EXCEPT ![r] = None]
           /\ UNCHANGED kind
FinishLocked(r) == Ends(r) /\ UNCHANGED lock
Finish(r) == /\ Ends(r)
             /\ lock' = IF lock = r THEN None ELSE lock

\* The loop over the pending files.
NextFile(r) == IF left[r] # {}
               THEN MoveTo(r, "import") /\ UNCHANGED lock
               ELSE Finish(r)

RecordRow(ok, version, mtime) ==
  etlRun' = Append(etlRun, [ok |-> ok, version |-> version, mtime |-> mtime])

-----------------------------------------------------------------------------
Deliver(f) ==
  /\ f \notin remote
  /\ \A g \in Files : g < f => g \in remote
  /\ remote' = remote \union {f}
  /\ UNCHANGED <<lock, run, etl, pg, motis, unseen, faults>>

\* The runs are interchangeable: a fixed idle one is started next.
NextRun == CHOOSE r \in Runs : at[r] = "idle"
MayStart(r) == /\ at[r] = "idle" /\ r = NextRun
               /\ Cardinality({o \in Runs : at[o] \notin {"idle", "done"}}) < MaxOverlap

\* The upload's body is on disk before the lock is asked for.
Trigger(r, k) ==
  /\ MayStart(r)
  /\ kind' = [kind EXCEPT ![r] = k]
  /\ at' = [at EXCEPT ![r] = IF k = "bundle" THEN "load" ELSE "guard"]
  /\ incoming' = IF k = "upload" THEN r ELSE incoming
  /\ UNCHANGED <<file, left, remote, lock, scratch, zip, pg, motis, unseen, faults>>

FirstStage(r) == CASE kind[r] = "sync" -> "list"
                   [] kind[r] = "postprocess" -> "load"
                   [] OTHER -> "import"

\* pg_try_advisory_lock (and a mutant without it).
MayEnterAlways == TRUE
MayEnter == lock = None

Enter(r) ==
  /\ at[r] = "guard" /\ MayEnter
  /\ lock' = r
  /\ MoveTo(r, FirstStage(r))
  /\ UNCHANGED <<remote, etl, pg, motis, unseen, faults>>

Refuse(r) ==
  /\ at[r] = "guard" /\ ~MayEnter
  /\ MoveTo(r, "done")
  /\ RecordRow(FALSE, None, 0)
  /\ UNCHANGED <<remote, lock, etl, db, motis, unseen, faults>>

ListFiles(r) ==
  /\ at[r] = "list"
  /\ IF Pending = {}
     THEN Finish(r)
     ELSE /\ at' = [at EXCEPT ![r] = "import"]
          /\ left' = [left EXCEPT ![r] = Pending]
          /\ UNCHANGED <<kind, file, lock>>
  /\ UNCHANGED <<remote, etl, pg, motis, unseen, faults>>

\* prepare and dtd2mysql, into the one scratch database.
ImportZip(r) ==
  /\ at[r] = "import"
  /\ \/ /\ kind[r] = "sync"
        /\ \E f \in left[r] :
             /\ IsOldest(f, left[r])
             /\ scratch' = f
             /\ at' = [at EXCEPT ![r] = "export"]
             /\ file' = [file EXCEPT ![r] = f]
             /\ left' = [left EXCEPT ![r] = @ \ {f}]
             /\ UNCHANGED kind
     \/ /\ kind[r] = "package"
        /\ \E f \in remote : IsNewest(f) /\ scratch' = f
        /\ MoveTo(r, "export")
     \/ /\ kind[r] = "upload"
        /\ scratch' = incoming
        /\ MoveTo(r, "export")
  /\ UNCHANGED <<remote, lock, incoming, zip, pg, motis, unseen, faults>>

\* Load before push (the mutant pushes what was never loaded).
PushFirst == "upload"
AfterExport == "load"

Export(r) ==
  /\ at[r] = "export"
  /\ zip' = scratch
  /\ IF kind[r] = "package" THEN Finish(r) ELSE MoveTo(r, AfterExport) /\ UNCHANGED lock
  /\ UNCHANGED <<remote, incoming, scratch, pg, motis, unseen, faults>>

\* One transaction: stations, trip mappings and the ok row. The CLI's
\* postprocess stops here and never tells the engine.
LoadIntoPostgres(r) ==
  /\ at[r] = "load"
  /\ db' = Carried(r)
  /\ RecordRow(TRUE, Carried(r), SourceTime(r))
  /\ unseen' = (kind[r] = "postprocess")
  /\ IF kind[r] = "postprocess"
     THEN Finish(r)
     ELSE MoveTo(r, "upload") /\ UNCHANGED lock
  /\ UNCHANGED <<remote, etl, motis, faults>>

\* cat into the one .partial file, then mv.
UploadBegin(r) ==
  /\ at[r] = "upload"
  /\ partial' = IF \E o \in Runs : at[o] = "uploading" THEN Mixed ELSE Carried(r)
  /\ MoveTo(r, "uploading")
  /\ UNCHANGED <<remote, lock, etl, pg, volume, sidecar, data, engine, unseen, faults>>

UploadEnd(r) ==
  /\ at[r] = "uploading" /\ partial # None
  /\ volume' = partial
  /\ partial' = None
  /\ MoveTo(r, "reimport")
  /\ UNCHANGED <<remote, lock, etl, pg, sidecar, data, engine, unseen, faults>>

\* The sidecar keeps no lock: motis import reads the volume now, and two may run.
Reimport(r) ==
  /\ at[r] = "reimport"
  /\ sidecar' = [sidecar EXCEPT ![r] = [at |-> "importing", loading |-> volume]]
  /\ unseen' = (unseen \/ \E o \in Runs : sidecar[o].at # "none")
  /\ MoveTo(r, "waiting")
  /\ UNCHANGED <<remote, lock, etl, pg, partial, volume, data, engine, faults>>

MotisImport(r) ==
  /\ sidecar[r].at = "importing" /\ sidecar[r].loading # Mixed
  /\ data' = sidecar[r].loading
  /\ sidecar' = [sidecar EXCEPT ![r].at = "restarting"]
  /\ UNCHANGED <<remote, lock, run, etl, pg, partial, volume, engine, unseen, faults>>

Restart(r) ==
  /\ sidecar[r].at = "restarting"
  /\ engine' = data
  /\ sidecar' = [sidecar EXCEPT ![r] = NoRequest]
  /\ IF at[r] = "waiting" THEN NextFile(r) ELSE UNCHANGED <<run, lock>>
  /\ UNCHANGED <<remote, etl, pg, partial, volume, data, unseen, faults>>

-----------------------------------------------------------------------------
Working(r) == at[r] \notin {"idle", "guard", "done"}

RecordNothing(r) == UNCHANGED <<etlRun, unseen>>

\* guarded() records the failure, unless that write fails too; the web
\* app's bundle job records nothing.
RecordFailure(r) ==
  \/ /\ kind[r] # "bundle"
     /\ RecordRow(FALSE, None, 0)
     /\ UNCHANGED unseen
  \/ /\ unseen' = TRUE
     /\ UNCHANGED etlRun

\* A stage throws. A /reimport that fails or is cut off may go on behind it.
Fail(r) ==
  /\ Working(r)
  /\ \/ faults < MaxFaults /\ faults' = faults + 1
     \/ at[r] = "uploading" /\ partial = None /\ UNCHANGED faults
     \/ sidecar[r].loading = Mixed /\ UNCHANGED faults
     \/ kind[r] = "package" /\ at[r] = "import" /\ remote = {} /\ UNCHANGED faults
  /\ RecordFailure(r)
  /\ Finish(r)
  /\ \/ sidecar' = [sidecar EXCEPT ![r] = NoRequest]
     \/ sidecar[r].loading # Mixed /\ UNCHANGED sidecar
  /\ UNCHANGED <<remote, etl, db, partial, volume, data, engine>>

\* The process dies: its session's lock is released, and no row is written.
Die(r) ==
  /\ Working(r) /\ faults < MaxFaults
  /\ faults' = faults + 1
  /\ unseen' = TRUE
  /\ Finish(r)
  /\ UNCHANGED <<remote, etl, pg, motis>>

\* A reimport nobody waits for any more ends in an error.
OrphanFails(r) ==
  /\ sidecar[r].at # "none" /\ at[r] # "waiting"
  /\ sidecar' = [sidecar EXCEPT ![r] = NoRequest]
  /\ UNCHANGED <<remote, lock, run, etl, pg, partial, volume, data, engine, unseen, faults>>

Stage(r) == \/ Enter(r) \/ Refuse(r) \/ ListFiles(r) \/ ImportZip(r) \/ Export(r)
            \/ LoadIntoPostgres(r) \/ UploadBegin(r) \/ UploadEnd(r) \/ Reimport(r)
            \/ MotisImport(r) \/ Restart(r) \/ Fail(r) \/ OrphanFails(r)

Next == \/ \E f \in Files : Deliver(f)
        \/ \E r \in Runs : (\E k \in Kinds : Trigger(r, k)) \/ Stage(r) \/ Die(r)

\* A run that is under way goes on, and so does the sidecar.
Spec == Init /\ [][Next]_vars /\ \A r \in Runs : WF_vars(Stage(r))

-----------------------------------------------------------------------------
Stages == {"idle", "guard", "list", "import", "export", "load", "upload",
           "uploading", "reimport", "waiting", "done"}
Row == [ok : BOOLEAN, version : Versions \union {None}, mtime : Nat]
Request == [at : {"none", "importing", "restarting"}, loading : Versions \union {Mixed}]

TypeOK ==
  /\ remote \subseteq Files
  /\ lock \in Runs \union {None}
  /\ kind \in [Runs -> Kinds \union {None}] /\ at \in [Runs -> Stages]
  /\ file \in [Runs -> Files \union {None}] /\ left \in [Runs -> SUBSET Files]
  /\ incoming \in Versions /\ scratch \in Versions /\ zip \in Versions
  /\ db \in Versions /\ data \in Versions /\ engine \in Versions
  /\ etlRun \in Seq(Row)
  /\ partial \in Versions \union {None, Mixed}
  /\ volume \in Versions \union {Mixed}
  /\ sidecar \in [Runs -> Request]
  /\ unseen \in BOOLEAN
  /\ faults \in 0..MaxFaults

\* The SFTP files are imported in the order of their source times and none
\* twice, whatever was started at once and whichever run died half way
\* (commands.ts:85-88).
FilesInOrder ==
  \A i, j \in DOMAIN etlRun :
    i < j /\ etlRun[i].mtime # 0 /\ etlRun[j].mtime # 0 =>
      /\ etlRun[i].mtime <= etlRun[j].mtime
      /\ etlRun[i].version # etlRun[j].version

\* A file the watermark has passed was imported: the next sync does not look
\* at it again (sftp-download.ts:131-133, a run never skips files).
NoFileIsSkipped == \A f \in remote : Passed(f) => Imported(f)

\* Once nothing is running, the engine serves the timetable of the database,
\* or the newest row of etl_run says that a run failed. (Left out: the two
\* ends of a run that leave no row, the CLI's postprocess, and a reimport
\* started while a lost one still ran.)
Quiet == \A r \in Runs : ~Working(r) /\ sidecar[r].at = "none"
EngineFollowsDatabase ==
  Quiet /\ engine # db => unseen \/ \E i \in DOMAIN etlRun : i = Len(etlRun) /\ ~etlRun[i].ok

\* The pipeline, the sidecar and the engine together implement Serving.
Published == {0} \union {etlRun[i].version : i \in {k \in DOMAIN etlRun : etlRun[k].ok}}
S == INSTANCE Serving WITH First <- 0, published <- Published, serving <- engine
ServesWhatWasPublished == S!Spec

\* One run at a time between the guard and its end (run-guard.ts:4-15, which
\* counts a bundle upload among the four ways to start one).
OneRunAtATime == \A r, o \in Runs : Working(r) /\ Working(o) => r = o

\* The lock comes back, however its run ends.
LockIsReleased == \A r \in Runs : lock = r ~> lock # r
=============================================================================
