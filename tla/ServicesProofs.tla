---------------------------- MODULE ServicesProofs ----------------------------
(***************************************************************************)
(* Proofs about five services of a family that work in the background:     *)
(* backups and restores (BackupRestore), the import of assignments         *)
(* (AssignmentImport), exports (ExportJobs), the import of rows            *)
(* (ImportJobs) and the notifications (Compliance).                        *)
(*                                                                         *)
(* Each part has an inductive invariant: BackupInv, AssignmentsInv,        *)
(* ExportsInv, RowsInv and NoticesInv.  It says what a step in the middle  *)
(* of its work still holds in its hands: what a backup has dumped and      *)
(* copied, what a request has read and locked, what an export has taken    *)
(* and passed over, which rows a task has made, what a transaction has     *)
(* written and with whom it overlaps.  A lemma for every action shows that *)
(* it is kept, and the theorems follow from it.                            *)
(***************************************************************************)
EXTENDS AssignmentImport, BackupRestore, Compliance, ExportJobs, ImportJobs, FiniteSetTheorems, TLAPS

-----------------------------------------------------------------------------
(* Backups and restores. *)

RestoreStep == {"idle", "snapshot", "database", "clear", "fill", "merge"}

Placed    == [name : Nat, modified : Nat, old : BOOLEAN, completed : Nat, id : Nat, dump : Database,
              files : SUBSET Works, untouched : BOOLEAN]
BackupRun == [step : RunStep, id : Nat, started : Nat, completed : Nat, dump : Database,
              files : SUBSET Works, untouched : BOOLEAN, expired : SUBSET Placed]
Restore   == [step : RestoreStep, source : Nat, parts : SUBSET {"database", "uploads", "merge"}]

BackupType ==
    /\ live \in Database /\ uploads \in SUBSET Works /\ target \in SUBSET Placed
    /\ keep \in 1..MaxKeep /\ moment \in Nat
    /\ backup \in [AllRunners -> BackupRun] /\ restore \in Restore

\* The files of what a run has dumped are in the uploads, until it has copied them.
RunIsWhole(r) ==
    backup[r].untouched =>
        /\ backup[r].step = "dumped" => backup[r].dump.rows \subseteq uploads
        /\ backup[r].step \in {"copied", "placed", "described"} =>
              backup[r].dump.rows \subseteq backup[r].files

\* The times of a run are past; when it looks for what is old there is an artifact that was
\* completed after its start, and old is only what was modified before it.
RunIsTimed(r) ==
    /\ backup[r].started <= moment /\ backup[r].completed <= moment
    /\ backup[r].step \notin {"idle", "created", "pruned", "ended"} => backup[r].started # 0
    /\ backup[r].step = "described" => backup[r].started < backup[r].completed
    /\ backup[r].step \in {"published", "listed"} =>
          \E a \in Artifacts : backup[r].started < a.completed
    /\ \A d \in backup[r].expired : d.old
    /\ \A d \in target : d.old /\ backup[r].started # 0 => d.modified < backup[r].started

\* While a restore fills the uploads there is nothing else in them to be lost.
ClearedIsEmpty == restore.step = "fill" => uploads = {}

\* The artifacts, in whatever number, have one that was completed last.
HasNewest == Artifacts # {} => \E a \in Artifacts : \A b \in Artifacts : a.completed >= b.completed

\* An artifact is modified after it was completed: its manifest is written then.
TargetIsTimed == \A d \in target : d.modified <= moment /\ (d.completed # 0 => d.completed < d.modified)

BackupInv ==
    /\ BackupType /\ ClearedIsEmpty /\ HasNewest /\ TargetIsTimed /\ ArtifactsAreWhole
    /\ \A r \in AllRunners : RunIsWhole(r) /\ RunIsTimed(r)

\* A run that has not begun, or is over.
Fresh(b) ==
    /\ b.step \in {"idle", "created", "ended"}
    /\ b.started = 0 /\ b.completed = 0 /\ b.expired = {}

\* The values of who rests.
LEMMA RestingRuns ==
    ASSUME BackupRestoreAssumption
    PROVE  /\ EmptyDatabase \in Database /\ IdleRun \in BackupRun /\ Fresh(IdleRun)
           /\ NoRestore \in Restore /\ NoRestore.step = "idle"
<1>1. EmptyDatabase \in Database
  BY DEF EmptyDatabase, Database, BackupJobStatus, BackupRestoreAssumption
<1>. QED
  BY <1>1 DEF IdleRun, BackupRun, RunStep, Fresh, NoRestore, Restore, RestoreStep

\* Nothing is lost or late about a run that rests.
LEMMA FreshIsSound ==
    ASSUME NEW r \in AllRunners, Fresh(backup[r]), moment \in Nat
    PROVE  RunIsWhole(r) /\ RunIsTimed(r)
  BY DEF Fresh, RunIsWhole, RunIsTimed

\* Without artifacts.
LEMMA BackupInvInit == ASSUME BackupRestoreAssumption, BackupInit PROVE BackupInv
<1>1. BackupType
  BY RestingRuns DEF BackupInit, BackupType
<1>2. \A r \in AllRunners : RunIsWhole(r) /\ RunIsTimed(r)
  BY <1>1, RestingRuns, FreshIsSound DEF BackupInit, BackupType
<1>. QED
  BY <1>1, <1>2, RestingRuns
     DEF BackupInit, BackupInv, ClearedIsEmpty, HasNewest, ArtifactsAreWhole, TargetIsTimed, Artifacts

\* A job is added to the database, or its status changes: no submission is touched.
LEMMA JobsKeepRows ==
    ASSUME BackupInv, NEW i, NEW status \in BackupJobStatus, NEW n \in 1..MaxJobs + 1,
           NEW d, d = [live EXCEPT !.jobs[i] = status] \/ d = [live EXCEPT !.jobs[i] = status, !.next = n]
    PROVE  d \in Database /\ d.rows = live.rows
<1>. DEFINE one == [live EXCEPT !.jobs = [@ EXCEPT ![i] = status]]
<1>1. live \in [rows : SUBSET Works, jobs : [JobIds -> BackupJobStatus], next : 1..MaxJobs + 1]
  BY DEF BackupInv, BackupType, Database
<1>2. [live.jobs EXCEPT ![i] = status] \in [JobIds -> BackupJobStatus]
  BY <1>1
<1>3. one \in Database /\ one.rows = live.rows
  BY <1>1, <1>2 DEF Database
<1>4. d = one \/ d = [one EXCEPT !.next = n]
  OBVIOUS
<1>. HIDE DEF one
<1>. QED
  BY <1>3, <1>4 DEF Database

\* What the steps that leave the target keep of it.
LEMMA TargetStays ==
    ASSUME BackupInv, UNCHANGED target, moment' \in Nat, moment <= moment'
    PROVE  TargetIsTimed' /\ ArtifactsAreWhole' /\ HasNewest' /\ KeepsNewest /\ Artifacts' = Artifacts
<1>1. \A d \in target : d.modified \in Nat /\ moment \in Nat
  BY DEF BackupInv, BackupType, Placed
<1>2. TargetIsTimed'
  BY <1>1 DEF BackupInv, TargetIsTimed
<1>. QED
  BY <1>2 DEF BackupInv, ArtifactsAreWhole, HasNewest, KeepsNewest, Artifacts

\* A clean-up that spares the artifact completed last, whatever else it removes.
LEMMA SparingKeepsNewest ==
    ASSUME BackupInv, target' \subseteq target, UNCHANGED moment,
           \A a \in Artifacts : Newer(a) = {} => a \in target'
    PROVE  TargetIsTimed' /\ ArtifactsAreWhole' /\ HasNewest' /\ KeepsNewest
<1>1. \A a \in Artifacts : a.completed \in Nat
  BY DEF BackupInv, BackupType, Placed, Artifacts
<1>2. \A a \in Artifacts : (\A b \in Artifacts : a.completed >= b.completed) => a \in Artifacts'
  BY <1>1 DEF Newer, Artifacts
<1>3. Artifacts' \subseteq Artifacts
  BY DEF Artifacts
<1>4. HasNewest' /\ KeepsNewest
  BY <1>2, <1>3 DEF BackupInv, HasNewest, KeepsNewest
<1>. QED
  BY <1>3, <1>4 DEF BackupInv, TargetIsTimed, ArtifactsAreWhole

\* An artifact is published, and none is removed.
LEMMA AddingKeepsNewest ==
    ASSUME BackupInv, NEW new \in Placed, Artifacts' = Artifacts \cup {new}
    PROVE  HasNewest' /\ KeepsNewest
<1>1. \A a \in Artifacts \cup {new} : a.completed \in Nat
  BY DEF BackupInv, BackupType, Placed, Artifacts
<1>2. CASE Artifacts = {}
  <2>1. \A b \in Artifacts' : new.completed >= b.completed
    BY <1>1, <1>2
  <2>. QED
    BY <1>2, <2>1 DEF HasNewest, KeepsNewest
<1>3. CASE Artifacts # {}
  <2>1. PICK a \in Artifacts : \A b \in Artifacts : a.completed >= b.completed
    BY <1>3 DEF BackupInv, HasNewest
  <2>2. \E c \in Artifacts' : \A b \in Artifacts' : c.completed >= b.completed
    <3>1. CASE a.completed >= new.completed
      BY <2>1, <3>1
    <3>2. CASE ~(a.completed >= new.completed)
      <4>1. \A b \in Artifacts' : new.completed >= b.completed
        BY <1>1, <2>1, <3>2
      <4>. QED
        BY <4>1
    <3>. QED
      BY <3>1, <3>2
  <2>. QED
    BY <2>1, <2>2 DEF HasNewest, KeepsNewest
<1>. QED
  BY <1>2, <1>3

\* A run that is not touched stays timed while the target changes: the artifact completed
\* last is not lost, and nothing gets old.
LEMMA StaysTimed ==
    ASSUME BackupInv, NEW q \in AllRunners, backup'[q] = backup[q], moment' \in Nat, moment <= moment',
           \A d \in target' : d.old => d \in target, KeepsNewest, target' \in SUBSET Placed
    PROVE  RunIsTimed(q)'
<1>1. /\ backup[q].started \in Nat /\ backup[q].completed \in Nat /\ moment \in Nat /\ RunIsTimed(q)
      /\ \A a \in Artifacts : a.completed \in Nat
      /\ \A a \in Artifacts' : a.completed \in Nat
  BY DEF BackupInv, BackupType, BackupRun, Placed, Artifacts
<1>2. (\E a \in Artifacts : backup[q].started < a.completed) =>
         \E a \in Artifacts' : backup[q].started < a.completed
  <2>1. SUFFICES ASSUME NEW a \in Artifacts, backup[q].started < a.completed
                 PROVE  \E b \in Artifacts' : backup[q].started < b.completed
    OBVIOUS
  <2>2. PICK b \in Artifacts' : b.completed >= a.completed
    BY DEF KeepsNewest
  <2>. QED
    BY <1>1, <2>1, <2>2
<1>3. backup'[q].started <= moment' /\ backup'[q].completed <= moment'
  BY <1>1 DEF RunIsTimed
<1>. QED
  BY <1>1, <1>2, <1>3 DEF RunIsTimed

\* A run moves on, and leaves the uploads and the restore alone.
LEMMA MovingOnKeeps ==
    ASSUME BackupInv, NEW r \in AllRunners, NEW moved \in BackupRun,
           backup' = [backup EXCEPT ![r] = moved], RunIsWhole(r)', RunIsTimed(r)',
           live' \in Database, UNCHANGED <<uploads, keep, restore>>, moment' \in Nat, moment <= moment',
           target' \in SUBSET Placed, \A d \in target' : d.old => d \in target,
           TargetIsTimed', ArtifactsAreWhole', HasNewest', KeepsNewest
    PROVE  BackupInv'
<1>1. BackupType'
  BY DEF BackupInv, BackupType
<1>2. backup'[r] = moved /\ \A q \in AllRunners \ {r} : backup'[q] = backup[q]
  BY DEF BackupInv, BackupType
<1>3. \A q \in AllRunners \ {r} : RunIsWhole(q)' /\ RunIsTimed(q)'
  BY <1>2, StaysTimed DEF BackupInv, RunIsWhole
<1>. QED
  BY <1>1, <1>3 DEF BackupInv, ClearedIsEmpty

\* The same, and it leaves the target alone too.
LEMMA MovingOnInPlace ==
    ASSUME BackupInv, NEW r \in AllRunners, NEW moved \in BackupRun,
           backup' = [backup EXCEPT ![r] = moved], RunIsWhole(r)', RunIsTimed(r)',
           live' \in Database, UNCHANGED <<uploads, target, keep, restore>>,
           moment' \in Nat, moment <= moment'
    PROVE  BackupInv' /\ KeepsNewest
<1>1. TargetIsTimed' /\ ArtifactsAreWhole' /\ HasNewest' /\ KeepsNewest
  BY TargetStays
<1>2. target' \in SUBSET Placed /\ \A d \in target' : d.old => d \in target
  BY DEF BackupInv, BackupType
<1>. QED
  BY <1>1, <1>2, MovingOnKeeps

\* What is over has an idle run, or one that has ended.
LEMMA OverIs ==
    ASSUME BackupRestoreAssumption, BackupInv, NEW r \in AllRunners
    PROVE  Ended(r) \in BackupRun /\ Fresh(Ended(r))
<1>. DEFINE last == [IdleRun EXCEPT !.step = "ended", !.id = backup[r].id]
<1>1. last \in BackupRun /\ Fresh(last)
  BY RestingRuns DEF BackupInv, BackupType, BackupRun, RunStep, Fresh
<1>. QED
  BY <1>1, RestingRuns DEF Ended

\* A run works on: its times are the same, and it does not look for what is old yet.
LEMMA WorkingOnIsTimed ==
    ASSUME BackupInv, NEW r \in AllRunners, NEW moved \in BackupRun, backup'[r] = moved,
           moved.started = backup[r].started, moved.completed = backup[r].completed,
           moved.expired = backup[r].expired, moved.step \in {"dumped", "copied", "placed"},
           backup[r].step \in {"running", "dumped", "copied"},
           moment' \in Nat, moment <= moment', \A d \in target' : d.old => d \in target
    PROVE  RunIsTimed(r)'
<1>1. backup[r].started \in Nat /\ backup[r].completed \in Nat /\ moment \in Nat /\ RunIsTimed(r)
  BY DEF BackupInv, BackupType, BackupRun
<1>2. moved.started <= moment' /\ moved.completed <= moment'
  BY <1>1 DEF RunIsTimed
<1>. QED
  BY <1>1, <1>2 DEF RunIsTimed

\* The directory of a run, with its manifest or without.
LEMMA DirectoryIs ==
    ASSUME BackupRestoreAssumption, BackupInv, NEW r \in AllRunners, NEW n \in Nat
    PROVE  /\ Directory(r, n) \in Placed /\ ~Directory(r, n).old /\ Directory(r, n).completed = 0
           /\ Directory(r, n).modified = n
           /\ Artifact(r) \in Placed /\ ~Artifact(r).old /\ Artifact(r).modified = moment + 1
           /\ Artifact(r).completed = backup[r].completed
           /\ Artifact(r).dump = backup[r].dump /\ Artifact(r).files = backup[r].files
           /\ Artifact(r).untouched = backup[r].untouched
<1>1. backup[r] \in BackupRun /\ moment + 1 \in Nat /\ EmptyDatabase \in Database
  BY RestingRuns DEF BackupInv, BackupType
<1>. QED
  BY <1>1 DEF Directory, Artifact, Placed, BackupRun

\* StartRun and the steps before anything is in the target.
LEMMA StagingKeeps ==
    ASSUME BackupRestoreAssumption, BackupInv, NEW r \in AllRunners,
           StartRun(r) \/ DumpDatabase(r) \/ CopyUploads(r)
    PROVE  BackupInv' /\ KeepsNewest
<1>. DEFINE old == backup[r]
<1>0. /\ live \in Database /\ target \in SUBSET Placed /\ moment \in Nat /\ uploads \in SUBSET Works
      /\ backup \in [AllRunners -> BackupRun] /\ old \in BackupRun /\ RunIsWhole(r) /\ RunIsTimed(r)
      /\ Ended(r) \in BackupRun /\ Fresh(Ended(r))
  BY OverIs DEF BackupInv, BackupType
<1>1. CASE StartRun(r)
  <2>1. UNCHANGED <<uploads, target, keep, restore>>
        /\ (live' = live \/ live' = [live EXCEPT !.jobs[old.id] = "running"])
    BY <1>1 DEF StartRun
  <2>2. live' \in Database
    BY <1>0, <2>1, JobsKeepRows DEF BackupJobStatus, Database
  <2>3. CASE live.jobs[old.id] \in {"none", "complete"}
    <3>1. backup' = [backup EXCEPT ![r] = Ended(r)] /\ moment' = moment
      BY <1>1, <2>3 DEF StartRun
    <3>2. RunIsWhole(r)' /\ RunIsTimed(r)'
      BY <1>0, <3>1 DEF Fresh, RunIsWhole, RunIsTimed
    <3>3. moment' \in Nat /\ moment <= moment'
      BY <1>0, <3>1
    <3>. QED
      BY <1>0, <2>1, <2>2, <3>1, <3>2, <3>3, MovingOnInPlace
  <2>4. CASE live.jobs[old.id] \notin {"none", "complete"}
    <3>. DEFINE moved == [old EXCEPT !.step = "running", !.started = moment + 1]
    <3>1. backup' = [backup EXCEPT ![r] = moved] /\ moment' = moment + 1 /\ old.step = "created"
      BY <1>1, <2>4 DEF StartRun, Tick
    <3>2. /\ moved \in BackupRun /\ moved.step = "running" /\ moved.started = moment + 1
          /\ moved.completed = old.completed /\ moved.expired = old.expired
      <4>1. \A n \in Nat : [old EXCEPT !.step = "running", !.started = n] \in BackupRun
        BY <1>0 DEF BackupRun, RunStep
      <4>2. moment + 1 \in Nat
        BY <1>0
      <4>. QED
        BY <1>0, <4>1, <4>2 DEF BackupRun
    <3>3. backup'[r] = moved
      BY <1>0, <3>1
    <3>. HIDE DEF moved
    <3>4. RunIsWhole(r)'
      BY <3>2, <3>3 DEF RunIsWhole
    <3>5. RunIsTimed(r)'
      <4>1. moved.completed <= moment'
        BY <1>0, <3>1, <3>2 DEF RunIsTimed, BackupRun
      <4>2. \A d \in target' : d.modified < moved.started
        BY <1>0, <2>1, <3>2 DEF BackupInv, TargetIsTimed, Placed
      <4>. QED
        BY <1>0, <3>1, <3>2, <3>3, <4>1, <4>2 DEF RunIsTimed
    <3>6. moment' \in Nat /\ moment <= moment'
      BY <1>0, <3>1
    <3>. QED
      BY <1>0, <2>1, <2>2, <3>1, <3>2, <3>4, <3>5, <3>6, MovingOnInPlace
  <2>. QED
    BY <2>3, <2>4
<1>2. CASE DumpDatabase(r)
  <2>. DEFINE moved == [old EXCEPT !.step = "dumped", !.dump = live, !.untouched = live.rows \subseteq uploads]
  <2>1. /\ backup' = [backup EXCEPT ![r] = moved] /\ UNCHANGED <<live, uploads, target, keep, moment, restore>>
        /\ old.step = "running"
    BY <1>2 DEF DumpDatabase
  <2>2. /\ moved \in BackupRun /\ moved.step = "dumped" /\ moved.dump = live
        /\ moved.untouched = (live.rows \subseteq uploads) /\ moved.started = old.started
        /\ moved.completed = old.completed /\ moved.expired = old.expired
    BY <1>0 DEF BackupRun, RunStep
  <2>3. backup'[r] = moved
    BY <1>0, <2>1
  <2>. HIDE DEF moved
  <2>4. RunIsWhole(r)'
    BY <2>1, <2>2, <2>3 DEF RunIsWhole
  <2>5. RunIsTimed(r)'
    BY <1>0, <2>1, <2>2, <2>3, WorkingOnIsTimed
  <2>6. moment' \in Nat /\ moment <= moment'
    BY <1>0, <2>1
  <2>. QED
    BY <1>0, <2>1, <2>2, <2>4, <2>5, <2>6, MovingOnInPlace
<1>3. CASE CopyUploads(r)
  <2>. DEFINE moved == [old EXCEPT !.step = "copied", !.files = uploads]
  <2>1. /\ backup' = [backup EXCEPT ![r] = moved] /\ UNCHANGED <<live, uploads, target, keep, moment, restore>>
        /\ old.step = "dumped"
    BY <1>3 DEF CopyUploads
  <2>2. /\ moved \in BackupRun /\ moved.step = "copied" /\ moved.dump = old.dump /\ moved.files = uploads
        /\ moved.untouched = old.untouched /\ moved.started = old.started
        /\ moved.completed = old.completed /\ moved.expired = old.expired
    BY <1>0 DEF BackupRun, RunStep
  <2>3. backup'[r] = moved
    BY <1>0, <2>1
  <2>. HIDE DEF moved
  <2>4. RunIsWhole(r)'
    BY <1>0, <2>1, <2>2, <2>3 DEF RunIsWhole
  <2>5. RunIsTimed(r)'
    BY <1>0, <2>1, <2>2, <2>3, WorkingOnIsTimed
  <2>6. moment' \in Nat /\ moment <= moment'
    BY <1>0, <2>1
  <2>. QED
    BY <1>0, <2>1, <2>2, <2>4, <2>5, <2>6, MovingOnInPlace
<1>. QED
  BY <1>1, <1>2, <1>3

\* The steps that make a directory of the target and then an artifact of it.
LEMMA PlacingKeeps ==
    ASSUME BackupRestoreAssumption, BackupInv, NEW r \in AllRunners,
           Place(r) \/ Describe(r) \/ Publish(r)
    PROVE  BackupInv' /\ KeepsNewest
<1>. DEFINE old == backup[r]
<1>0. /\ live \in Database /\ target \in SUBSET Placed /\ moment \in Nat /\ uploads \in SUBSET Works
      /\ backup \in [AllRunners -> BackupRun] /\ old \in BackupRun /\ RunIsWhole(r) /\ RunIsTimed(r)
      /\ TargetIsTimed /\ ArtifactsAreWhole /\ HasNewest
  BY DEF BackupInv, BackupType
<1>1. CASE Place(r)
  <2>. DEFINE moved == [old EXCEPT !.step = "placed"]
  <2>1. \E n \in Nat : target' = target \cup {Directory(r, n)} /\ n <= moment'
    <3>1. CASE target' = target \cup {Directory(r, old.started)} /\ UNCHANGED moment
      BY <1>0, <3>1 DEF RunIsTimed, BackupRun
    <3>2. CASE target' = target \cup {Directory(r, moment + 1)} /\ Tick
      <4>1. moment + 1 \in Nat /\ moment + 1 <= moment'
        BY <1>0, <3>2 DEF Tick
      <4>. QED
        BY <3>2, <4>1
    <3>. QED
      BY <1>1, <3>1, <3>2 DEF Place
  <2>a. PICK n \in Nat : target' = target \cup {Directory(r, n)} /\ n <= moment'
    BY <2>1
  <2>2. /\ backup' = [backup EXCEPT ![r] = moved] /\ UNCHANGED <<live, uploads, keep, restore>>
        /\ old.step = "copied" /\ moment' \in {moment, moment + 1}
    BY <1>1 DEF Place, Tick
  <2>3. moment' \in Nat /\ moment <= moment'
    BY <1>0, <2>2
  <2>4. /\ moved \in BackupRun /\ moved.step = "placed" /\ moved.dump = old.dump /\ moved.files = old.files
        /\ moved.untouched = old.untouched /\ moved.started = old.started
        /\ moved.completed = old.completed /\ moved.expired = old.expired
    BY <1>0 DEF BackupRun, RunStep
  <2>5. backup'[r] = moved
    BY <1>0, <2>2
  <2>. HIDE DEF moved
  <2>6. target' \in SUBSET Placed /\ Artifacts' = Artifacts /\ \A d \in target' : d.old => d \in target
    BY <1>0, <2>a, DirectoryIs DEF Artifacts
  <2>7. TargetIsTimed'
    BY <1>0, <2>a, <2>3, DirectoryIs DEF TargetIsTimed, Placed
  <2>8. ArtifactsAreWhole' /\ HasNewest' /\ KeepsNewest
    BY <1>0, <2>6 DEF ArtifactsAreWhole, HasNewest, KeepsNewest
  <2>9. RunIsWhole(r)'
    BY <1>0, <2>2, <2>4, <2>5 DEF RunIsWhole
  <2>10. RunIsTimed(r)'
    BY <1>0, <2>2, <2>3, <2>4, <2>5, <2>6, WorkingOnIsTimed
  <2>. QED
    BY <1>0, <2>2, <2>3, <2>4, <2>6, <2>7, <2>8, <2>9, <2>10, MovingOnKeeps
<1>2. CASE Describe(r)
  <2>. DEFINE moved == [old EXCEPT !.step = "described", !.completed = moment + 1]
  <2>1. /\ backup' = [backup EXCEPT ![r] = moved] /\ UNCHANGED <<live, uploads, target, keep, restore>>
        /\ old.step = "placed" /\ moment' = moment + 1
    BY <1>2 DEF Describe, Tick
  <2>2. /\ moved \in BackupRun /\ moved.step = "described" /\ moved.dump = old.dump /\ moved.files = old.files
        /\ moved.untouched = old.untouched /\ moved.started = old.started
        /\ moved.completed = moment + 1 /\ moved.expired = old.expired
    <3>1. \A n \in Nat : [old EXCEPT !.step = "described", !.completed = n] \in BackupRun
      BY <1>0 DEF BackupRun, RunStep
    <3>2. moment + 1 \in Nat
      BY <1>0
    <3>. QED
      BY <1>0, <3>1, <3>2 DEF BackupRun
  <2>3. backup'[r] = moved
    BY <1>0, <2>1
  <2>. HIDE DEF moved
  <2>4. RunIsWhole(r)'
    BY <1>0, <2>1, <2>2, <2>3 DEF RunIsWhole
  <2>5. moved.started <= moment' /\ moved.completed <= moment' /\ moved.started < moved.completed
    BY <1>0, <2>1, <2>2 DEF RunIsTimed, BackupRun
  <2>6. RunIsTimed(r)'
    BY <1>0, <2>1, <2>2, <2>3, <2>5 DEF RunIsTimed
  <2>7. moment' \in Nat /\ moment <= moment'
    BY <1>0, <2>1
  <2>. QED
    BY <1>0, <2>1, <2>2, <2>4, <2>6, <2>7, MovingOnInPlace
<1>3. CASE Publish(r)
  <2>. DEFINE moved == [IdleRun EXCEPT !.step = "published", !.id = old.id, !.started = old.started]
              new == Artifact(r)
  <2>1. /\ backup' = [backup EXCEPT ![r] = moved] /\ UNCHANGED <<live, uploads, keep, restore>>
        /\ target' = (target \ Bare(r)) \cup {new} /\ old.step = "described" /\ moment' = moment + 1
    BY <1>3 DEF Publish, Tick
  <2>2. /\ moved \in BackupRun /\ moved.step = "published" /\ moved.started = old.started
        /\ moved.completed = 0 /\ moved.expired = {}
    BY <1>0, RestingRuns DEF BackupRun, RunStep, Fresh
  <2>3. backup'[r] = moved
    BY <1>0, <2>1
  <2>4. /\ new \in Placed /\ ~new.old /\ new.modified = moment + 1 /\ new.completed = old.completed
        /\ new.dump = old.dump /\ new.files = old.files /\ new.untouched = old.untouched
    BY DirectoryIs
  <2>. HIDE DEF moved, new
  <2>5. old.started < new.completed /\ new.completed # 0 /\ new.completed < new.modified
    BY <1>0, <2>1, <2>4 DEF RunIsTimed, BackupRun
  <2>6. Artifacts' = Artifacts \cup {new}
    BY <2>1, <2>5 DEF Artifacts, Bare
  <2>7. target' \in SUBSET Placed /\ \A d \in target' : d.old => d \in target
    BY <1>0, <2>1, <2>4
  <2>8. TargetIsTimed'
    BY <1>0, <2>1, <2>4, <2>5 DEF TargetIsTimed, Placed
  <2>9. ArtifactsAreWhole'
    BY <1>0, <2>1, <2>4, <2>6 DEF ArtifactsAreWhole, RunIsWhole
  <2>10. HasNewest' /\ KeepsNewest
    BY <2>4, <2>6, AddingKeepsNewest
  <2>11. RunIsWhole(r)'
    BY <2>2, <2>3 DEF RunIsWhole
  <2>12. RunIsTimed(r)'
    <3>1. moved.started <= moment' /\ moved.completed <= moment'
      BY <1>0, <2>1, <2>2 DEF RunIsTimed, BackupRun
    <3>2. \A d \in target' : d.old /\ moved.started # 0 => d.modified < moved.started
      BY <1>0, <2>2, <2>7 DEF RunIsTimed
    <3>. QED
      BY <1>0, <2>1, <2>2, <2>3, <2>5, <2>6, <3>1, <3>2 DEF RunIsTimed
  <2>13. moment' \in Nat /\ moment <= moment'
    BY <1>0, <2>1
  <2>. QED
    BY <1>0, <2>1, <2>2, <2>7, <2>8, <2>9, <2>10, <2>11, <2>12, <2>13, MovingOnKeeps
<1>. QED
  BY <1>1, <1>2, <1>3

\* The end of a run: it looks for what is old and removes it.  The artifact completed last
\* was completed after the run's start, so that it was not old when the run looked.
LEMMA EndingKeeps ==
    ASSUME BackupRestoreAssumption, BackupInv, NEW r \in AllRunners,
           ListOld(r) \/ Prune(r) \/ Complete(r) \/ Fail(r)
    PROVE  BackupInv' /\ KeepsNewest
<1>. DEFINE old == backup[r]
<1>0. /\ live \in Database /\ target \in SUBSET Placed /\ moment \in Nat /\ uploads \in SUBSET Works
      /\ backup \in [AllRunners -> BackupRun] /\ old \in BackupRun /\ RunIsWhole(r) /\ RunIsTimed(r)
      /\ TargetIsTimed /\ Ended(r) \in BackupRun /\ Fresh(Ended(r))
  BY OverIs DEF BackupInv, BackupType
<1>1. CASE ListOld(r)
  <2>. DEFINE moved == [old EXCEPT !.step = "listed", !.expired = {d \in target : Outdated(d)}]
  <2>1. /\ backup' = [backup EXCEPT ![r] = moved] /\ UNCHANGED <<live, uploads, target, keep, moment, restore>>
        /\ old.step = "published"
    BY <1>1 DEF ListOld
  <2>2. /\ moved \in BackupRun /\ moved.step = "listed" /\ moved.started = old.started
        /\ moved.completed = old.completed /\ moved.expired = {d \in target : Outdated(d)}
    BY <1>0 DEF BackupRun, RunStep
  <2>3. backup'[r] = moved /\ \A d \in moved.expired : d.old
    BY <1>0, <2>1, <2>2 DEF Outdated
  <2>. HIDE DEF moved
  <2>4. RunIsWhole(r)'
    BY <2>2, <2>3 DEF RunIsWhole
  <2>5. RunIsTimed(r)'
    BY <1>0, <2>1, <2>2, <2>3, TargetStays DEF RunIsTimed
  <2>6. moment' \in Nat /\ moment <= moment'
    BY <1>0, <2>1
  <2>. QED
    BY <1>0, <2>1, <2>2, <2>4, <2>5, <2>6, MovingOnInPlace
<1>2. CASE Prune(r)
  <2>. DEFINE moved == [old EXCEPT !.step = "pruned", !.expired = {}]
  <2>1. /\ backup' = [backup EXCEPT ![r] = moved] /\ UNCHANGED <<live, uploads, keep, moment, restore>>
        /\ target' = target \ old.expired /\ old.step = "listed"
    BY <1>2 DEF Prune
  <2>2. /\ moved \in BackupRun /\ moved.step = "pruned" /\ moved.started = old.started
        /\ moved.completed = old.completed /\ moved.expired = {}
    BY <1>0 DEF BackupRun, RunStep
  <2>3. backup'[r] = moved
    BY <1>0, <2>1
  <2>. HIDE DEF moved
  <2>4. ASSUME NEW a \in Artifacts, Newer(a) = {}, a \in old.expired PROVE FALSE
    <3>1. PICK b \in Artifacts : old.started < b.completed
      BY <1>0, <2>1 DEF RunIsTimed
    <3>2. old.started \in Nat /\ a.completed \in Nat /\ a.modified \in Nat /\ b.completed \in Nat
      BY <1>0 DEF BackupRun, Artifacts, Placed
    <3>3. a.completed >= b.completed
      BY <2>4, <3>2 DEF Newer
    <3>4. a.completed < a.modified
      BY <1>0 DEF TargetIsTimed, Artifacts
    <3>5. a.modified < old.started
      BY <1>0, <2>1, <2>4 DEF RunIsTimed, Artifacts
    <3>. QED
      BY <3>1, <3>2, <3>3, <3>4, <3>5
  <2>5. TargetIsTimed' /\ ArtifactsAreWhole' /\ HasNewest' /\ KeepsNewest
    BY <2>1, <2>4, SparingKeepsNewest DEF Artifacts
  <2>6. RunIsWhole(r)' /\ RunIsTimed(r)'
    BY <1>0, <2>1, <2>2, <2>3 DEF RunIsWhole, RunIsTimed
  <2>7. /\ moment' \in Nat /\ moment <= moment' /\ target' \in SUBSET Placed
        /\ \A d \in target' : d.old => d \in target
    BY <1>0, <2>1
  <2>. QED
    BY <1>0, <2>1, <2>2, <2>5, <2>6, <2>7, MovingOnKeeps
<1>3. ASSUME NEW status \in BackupJobStatus, Settle(r, status)
      PROVE  BackupInv' /\ KeepsNewest
  <2>1. /\ backup' = [backup EXCEPT ![r] = Ended(r)] /\ UNCHANGED <<uploads, target, keep, moment, restore>>
        /\ live' = live \/ live' = [live EXCEPT !.jobs[old.id] = status]
    BY <1>3 DEF Settle
  <2>2. live' \in Database
    BY <1>0, <2>1, JobsKeepRows DEF Database
  <2>3. RunIsWhole(r)' /\ RunIsTimed(r)'
    BY <1>0, <2>1 DEF Fresh, RunIsWhole, RunIsTimed
  <2>4. moment' \in Nat /\ moment <= moment'
    BY <1>0, <2>1
  <2>. QED
    BY <1>0, <2>1, <2>2, <2>3, <2>4, MovingOnInPlace
<1>4. CASE Complete(r) \/ Fail(r)
  BY <1>3, <1>4 DEF Complete, Fail, BackupJobStatus
<1>. QED
  BY <1>1, <1>2, <1>4

\* Every step of a run keeps the invariant, and the newest artifact.
LEMMA RunKeeps ==
    ASSUME BackupRestoreAssumption, BackupInv, NEW r \in AllRunners, Run(r)
    PROVE  BackupInv' /\ KeepsNewest
  BY StagingKeeps, PlacingKeeps, EndingKeeps DEF Run

\* A directory gets old: it is the same directory, and no run at work started before it
\* was modified.
LEMMA AgeKeeps ==
    ASSUME BackupInv, Age
    PROVE  BackupInv' /\ KeepsNewest
<1>1. PICK d \in target :
          /\ \A r \in AllRunners : backup[r].started # 0 => d.modified < backup[r].started
          /\ target' = (target \ {d}) \cup {[d EXCEPT !.old = TRUE]}
  BY DEF Age
<1>. DEFINE aged == [d EXCEPT !.old = TRUE]
<1>2. UNCHANGED <<live, uploads, keep, backup, moment, tokens, restore>>
  BY DEF Age
<1>3. /\ target \in SUBSET Placed /\ backup \in [AllRunners -> BackupRun] /\ HasNewest
      /\ TargetIsTimed /\ ArtifactsAreWhole
  BY DEF BackupInv, BackupType
<1>4. /\ aged \in Placed /\ aged.modified = d.modified /\ aged.completed = d.completed
      /\ aged.dump = d.dump /\ aged.files = d.files /\ aged.untouched = d.untouched
  BY <1>3 DEF Placed
<1>. HIDE DEF aged
<1>5. target' = (target \ {d}) \cup {aged}
  BY <1>1 DEF aged
<1>6. /\ \A a \in Artifacts : \E b \in Artifacts' : b.completed = a.completed
      /\ \A b \in Artifacts' : \E a \in Artifacts : b.completed = a.completed
  BY <1>4, <1>5 DEF Artifacts
<1>7. HasNewest' /\ KeepsNewest
  <2>1. CASE Artifacts = {}
    BY <1>6, <2>1 DEF HasNewest, KeepsNewest
  <2>2. CASE Artifacts # {}
    <3>1. PICK a \in Artifacts : \A b \in Artifacts : a.completed >= b.completed
      BY <1>3, <2>2 DEF HasNewest
    <3>2. PICK b \in Artifacts' : b.completed = a.completed
      BY <1>6
    <3>3. \A c \in Artifacts : b.completed >= c.completed
      BY <3>1, <3>2
    <3>4. \A c \in Artifacts' : b.completed >= c.completed
      BY <1>6, <3>3
    <3>. QED
      BY <3>3, <3>4 DEF HasNewest, KeepsNewest
  <2>. QED
    BY <2>1, <2>2
<1>8. BackupType' /\ TargetIsTimed' /\ ArtifactsAreWhole' /\ ClearedIsEmpty'
  <2>1. BackupType' /\ ClearedIsEmpty'
    BY <1>2, <1>3, <1>4, <1>5 DEF BackupInv, BackupType, ClearedIsEmpty
  <2>2. TargetIsTimed'
    BY <1>2, <1>3, <1>4, <1>5 DEF TargetIsTimed
  <2>3. ArtifactsAreWhole'
    BY <1>3, <1>4, <1>5 DEF ArtifactsAreWhole, Artifacts
  <2>. QED
    BY <2>1, <2>2, <2>3
<1>9. ASSUME NEW r \in AllRunners PROVE RunIsWhole(r)' /\ RunIsTimed(r)'
  <2>1. RunIsWhole(r) /\ RunIsTimed(r)
    BY DEF BackupInv
  <2>2. RunIsWhole(r)'
    BY <1>2, <2>1 DEF RunIsWhole
  <2>3. \A e \in target' : e.old /\ backup[r].started # 0 => e.modified < backup[r].started
    BY <1>1, <1>4, <1>5, <2>1 DEF RunIsTimed
  <2>4. (\E a \in Artifacts : backup[r].started < a.completed) =>
           \E a \in Artifacts' : backup[r].started < a.completed
    BY <1>6
  <2>5. RunIsTimed(r)'
    BY <1>2, <2>1, <2>3, <2>4 DEF RunIsTimed
  <2>. QED
    BY <2>2, <2>5
<1>. QED
  BY <1>7, <1>8, <1>9 DEF BackupInv

\* The clean-up on request: the artifact completed last has none that is newer, and the
\* retention count is not zero.
LEMMA CleanupKeeps ==
    ASSUME BackupInv, Cleanup
    PROVE  BackupInv' /\ KeepsNewest
<1>1. /\ target' = {d \in target : ~(d \in Artifacts /\ Expired(d))}
      /\ UNCHANGED <<live, uploads, keep, backup, moment, tokens, restore>>
  BY DEF Cleanup
<1>2. ASSUME NEW a \in Artifacts, Newer(a) = {} PROVE a \in target'
  <2>1. keep \in 1..MaxKeep /\ Cardinality(Newer(a)) = 0
    BY <1>2, FS_EmptySet DEF BackupInv, BackupType
  <2>2. ~Expired(a)
    BY <2>1 DEF Expired
  <2>. QED
    BY <1>1, <2>2 DEF Artifacts
<1>3. TargetIsTimed' /\ ArtifactsAreWhole' /\ HasNewest' /\ KeepsNewest
  BY <1>1, <1>2, SparingKeepsNewest
<1>4. target' \in SUBSET Placed /\ moment \in Nat /\ BackupType' /\ ClearedIsEmpty'
  BY <1>1 DEF BackupInv, BackupType, ClearedIsEmpty
<1>5. \A r \in AllRunners : RunIsWhole(r)' /\ RunIsTimed(r)'
  BY <1>1, <1>3, <1>4, StaysTimed DEF BackupInv, RunIsWhole
<1>. QED
  BY <1>3, <1>4, <1>5 DEF BackupInv

\* A restore or its request moves on: at most one run is replaced by one that has not
\* begun, and the uploads grow, unless they are cleared.
LEMMA RestoreMovesOn ==
    ASSUME BackupInv, live' \in Database, uploads' \in SUBSET Works, uploads \subseteq uploads',
           UNCHANGED <<target, keep, moment>>, backup' \in [AllRunners -> BackupRun],
           \A r \in AllRunners : backup'[r] = backup[r] \/ Fresh(backup'[r]),
           restore' \in Restore, restore'.step # "fill"
    PROVE  BackupInv' /\ KeepsNewest
<1>1. moment \in Nat /\ target' \in SUBSET Placed
  BY DEF BackupInv, BackupType
<1>2. TargetIsTimed' /\ ArtifactsAreWhole' /\ HasNewest' /\ KeepsNewest
  BY <1>1, TargetStays
<1>3. ASSUME NEW r \in AllRunners PROVE RunIsWhole(r)' /\ RunIsTimed(r)'
  <2>1. CASE backup'[r] = backup[r]
    BY <1>1, <1>2, <2>1, StaysTimed DEF BackupInv, RunIsWhole
  <2>2. CASE Fresh(backup'[r])
    BY <1>1, <2>2 DEF Fresh, RunIsWhole, RunIsTimed
  <2>. QED
    BY <2>1, <2>2
<1>. QED
  BY <1>1, <1>2, <1>3 DEF BackupInv, BackupType, ClearedIsEmpty

\* A job is created for a run that was idle.
LEMMA CreatingIs ==
    ASSUME BackupRestoreAssumption, BackupInv, NEW r \in AllRunners, CreateJob(r)
    PROVE  /\ live' \in Database /\ backup' \in [AllRunners -> BackupRun]
           /\ \A q \in AllRunners : backup'[q] = backup[q] \/ Fresh(backup'[q])
<1>1. live \in Database /\ live.next \in JobIds /\ live.next + 1 \in 1..MaxJobs + 1
  BY DEF CreateJob, BackupInv, BackupType, Database, JobIds, BackupRestoreAssumption
<1>2. live' = [live EXCEPT !.jobs[live.next] = "pending", !.next = live.next + 1]
  BY DEF CreateJob
<1>3. live' \in Database
  <2>1. "pending" \in BackupJobStatus
    BY DEF BackupJobStatus
  <2>. QED
    BY <1>1, <1>2, <2>1, JobsKeepRows
<1>. DEFINE moved == [IdleRun EXCEPT !.step = "created", !.id = live.next]
<1>4. live.next \in Nat /\ IdleRun \in BackupRun /\ Fresh(IdleRun)
  BY <1>1, RestingRuns DEF JobIds
<1>5. moved \in BackupRun /\ Fresh(moved)
  BY <1>4 DEF BackupRun, RunStep, Fresh
<1>6. backup' = [backup EXCEPT ![r] = moved] /\ backup \in [AllRunners -> BackupRun]
  BY DEF CreateJob, BackupInv, BackupType
<1>. HIDE DEF moved
<1>. QED
  BY <1>3, <1>5, <1>6

\* The part that comes next is one.
LEMMA NextPartIs ==
    ASSUME NEW parts PROVE NextPart(parts) \in RestoreStep \ {"fill"}
  BY DEF NextPart, RestoreStep

\* Every step of a restore keeps the invariant; none touches the target.
LEMMA RestoringKeeps ==
    ASSUME BackupRestoreAssumption, BackupInv, Restoring
    PROVE  BackupInv' /\ KeepsNewest
<1>0. /\ live \in Database /\ target \in SUBSET Placed /\ uploads \in SUBSET Works /\ moment \in Nat
      /\ restore \in Restore /\ backup \in [AllRunners -> BackupRun]
  BY DEF BackupInv, BackupType
<1>1. NoRestore \in Restore /\ NoRestore.step = "idle"
  BY RestingRuns
<1>2. CASE CheckSnapshot
  <2>1. backup' = [backup EXCEPT !["snapshot"] = IdleRun] /\ UNCHANGED <<live, uploads, target, keep, moment>>
    BY <1>2 DEF CheckSnapshot
  <2>2. backup' \in [AllRunners -> BackupRun]
        /\ \A r \in AllRunners : backup'[r] = backup[r] \/ Fresh(backup'[r])
    BY <1>0, <2>1, RestingRuns
  <2>3. restore' = NoRestore \/ restore' = [restore EXCEPT !.step = NextPart(restore.parts)]
    BY <1>2 DEF CheckSnapshot
  <2>4. restore' \in Restore /\ restore'.step # "fill"
    BY <1>0, <1>1, <2>3, NextPartIs DEF Restore, RestoreStep
  <2>. QED
    BY <1>0, <2>1, <2>2, <2>4, RestoreMovesOn
<1>3. CASE RestoreDatabase
  <2>1. PICK a \in target : live' = a.dump
    BY <1>3 DEF RestoreDatabase, Source, Artifacts
  <2>2. live' \in Database
    BY <1>0, <2>1 DEF Placed
  <2>3. restore' = NoRestore \/ restore' = [restore EXCEPT !.step = "clear"]
    BY <1>3 DEF RestoreDatabase
  <2>4. restore' \in Restore /\ restore'.step # "fill"
    BY <1>0, <1>1, <2>3 DEF Restore, RestoreStep
  <2>5. UNCHANGED <<uploads, target, keep, backup, moment>>
    BY <1>3 DEF RestoreDatabase
  <2>. QED
    BY <1>0, <2>2, <2>4, <2>5, RestoreMovesOn
<1>4. CASE ClearUploads
  <2>1. /\ uploads' = {} /\ restore' = [restore EXCEPT !.step = "fill"]
        /\ backup' = [r \in AllRunners |-> [backup[r] EXCEPT !.untouched = FALSE]]
        /\ UNCHANGED <<live, target, keep, moment>>
    BY <1>4 DEF ClearUploads
  <2>2. \A r \in AllRunners :
            /\ backup'[r] \in BackupRun /\ ~backup'[r].untouched
            /\ backup'[r].step = backup[r].step /\ backup'[r].started = backup[r].started
            /\ backup'[r].completed = backup[r].completed /\ backup'[r].expired = backup[r].expired
    BY <1>0, <2>1 DEF BackupRun
  <2>3. restore' \in Restore
    BY <1>0, <2>1 DEF Restore, RestoreStep
  <2>4. BackupType'
    BY <2>1, <2>2, <2>3 DEF BackupInv, BackupType
  <2>5. TargetIsTimed' /\ ArtifactsAreWhole' /\ HasNewest' /\ KeepsNewest /\ Artifacts' = Artifacts
    BY <1>0, <2>1, TargetStays
  <2>6. \A r \in AllRunners : RunIsWhole(r)' /\ RunIsTimed(r)'
    BY <2>1, <2>2, <2>5 DEF BackupInv, RunIsWhole, RunIsTimed
  <2>. QED
    BY <2>1, <2>4, <2>5, <2>6 DEF BackupInv, ClearedIsEmpty
<1>5. CASE FillUploads
  <2>1. PICK a \in target : uploads' = a.files
    BY <1>5 DEF FillUploads, Source, Artifacts
  <2>2. uploads = {} /\ uploads' \in SUBSET Works
    BY <1>0, <1>5, <2>1 DEF FillUploads, BackupInv, ClearedIsEmpty, Placed
  <2>. QED
    BY <1>0, <1>1, <1>5, <2>2, RestoreMovesOn DEF FillUploads
<1>6. CASE MergeRows
  <2>1. PICK a \in Artifacts, some \in SUBSET Works :
            live' = [live EXCEPT !.rows = @ \cup some] /\ uploads' = uploads \cup some
    BY <1>6 DEF MergeRows, Source
  <2>2. live' \in Database
    BY <1>0, <2>1 DEF Database
  <2>. QED
    BY <1>0, <1>1, <1>6, <2>1, <2>2, RestoreMovesOn DEF MergeRows
<1>7. CASE RestoreFails
  BY <1>0, <1>1, <1>7, RestoreMovesOn DEF RestoreFails
<1>. QED
  BY <1>2, <1>3, <1>4, <1>5, <1>6, <1>7 DEF Restoring

\* Every step keeps the invariant, and the newest artifact.
LEMMA BackupInvNext ==
    ASSUME BackupRestoreAssumption, BackupInv, [BackupNext]_backupVars
    PROVE  BackupInv' /\ [KeepsNewest]_backupVars
<1>0. /\ live \in Database /\ target \in SUBSET Placed /\ uploads \in SUBSET Works /\ moment \in Nat
      /\ restore \in Restore /\ backup \in [AllRunners -> BackupRun]
  BY DEF BackupInv, BackupType
<1>a. ASSUME UNCHANGED <<live, uploads, target, backup, moment, restore>>, keep' \in 1..MaxKeep
      PROVE  BackupInv' /\ KeepsNewest
  <2>1. TargetIsTimed' /\ ArtifactsAreWhole' /\ HasNewest' /\ KeepsNewest /\ Artifacts' = Artifacts
    BY <1>0, <1>a, TargetStays
  <2>2. \A r \in AllRunners : RunIsWhole(r)' /\ RunIsTimed(r)'
    BY <1>a, <2>1 DEF BackupInv, RunIsWhole, RunIsTimed
  <2>. QED
    BY <1>a, <2>1, <2>2 DEF BackupInv, BackupType, ClearedIsEmpty
<1>1. CASE UNCHANGED backupVars
  BY <1>a, <1>1 DEF backupVars, BackupInv, BackupType
<1>2. ASSUME NEW w \in Works, Submit(w) PROVE BackupInv' /\ KeepsNewest
  <2>1. live' \in Database
    BY <1>0, <1>2 DEF Submit, Database
  <2>. QED
    BY <1>0, <1>2, <2>1, RestoreMovesOn DEF Submit, LoopIsFree
<1>3. ASSUME NEW r \in Runners, CreateBackup(r) PROVE BackupInv' /\ KeepsNewest
  <2>1. r \in AllRunners
    BY DEF AllRunners
  <2>. QED
    BY <1>0, <1>3, <2>1, CreatingIs, RestoreMovesOn DEF CreateBackup, LoopIsFree
<1>4. ASSUME NEW r \in AllRunners, Run(r) PROVE BackupInv' /\ KeepsNewest
  BY <1>4, RunKeeps
<1>5. CASE ExpireToken
  BY <1>a, <1>5 DEF ExpireToken, BackupInv, BackupType
<1>6. CASE Age \/ Cleanup
  BY <1>6, AgeKeeps, CleanupKeeps
<1>7. ASSUME NEW n \in 1..MaxKeep, SetRetention(n) PROVE BackupInv' /\ KeepsNewest
  BY <1>a, <1>7 DEF SetRetention
<1>8. ASSUME NEW i \in JobIds, Validate(i) PROVE BackupInv' /\ KeepsNewest
  BY <1>a, <1>8 DEF Validate, BackupInv, BackupType
<1>9. ASSUME NEW i \in tokens, BeginRestore(i) PROVE BackupInv' /\ KeepsNewest
  <2>1. PICK a \in Found(i), parts \in Parts :
            \/ /\ restore' = [step |-> NextPart(parts), source |-> a.name, parts |-> parts]
               /\ UNCHANGED <<live, backup>>
            \/ /\ restore' = [step |-> "snapshot", source |-> a.name, parts |-> parts]
               /\ CreateJob("snapshot")
    BY <1>9 DEF BeginRestore
  <2>2. a.name \in Nat /\ parts \in SUBSET {"database", "uploads", "merge"}
    BY <1>0 DEF Found, Artifacts, Placed, Parts
  <2>3. restore' \in Restore /\ restore'.step # "fill"
    BY <2>1, <2>2, NextPartIs DEF Restore, RestoreStep
  <2>4. /\ live' \in Database /\ backup' \in [AllRunners -> BackupRun]
        /\ \A q \in AllRunners : backup'[q] = backup[q] \/ Fresh(backup'[q])
    BY <1>0, <2>1, CreatingIs DEF AllRunners
  <2>. QED
    BY <1>0, <1>9, <2>3, <2>4, RestoreMovesOn DEF BeginRestore
<1>10. CASE Restoring
  BY <1>10, RestoringKeeps
<1>11. CASE StopProcess
  <2>1. NoRestore \in Restore /\ NoRestore.step = "idle"
    BY RestingRuns
  <2>. QED
    BY <1>0, <1>11, <2>1, RestingRuns, RestoreMovesOn DEF StopProcess
<1>. QED
  BY <1>1, <1>2, <1>3, <1>4, <1>5, <1>6, <1>7, <1>8, <1>9, <1>10, <1>11 DEF BackupNext

\* The order of _execute_backup_job, the dump before the uploads, makes an artifact whole
\* for any number of runs, snapshots and uploads at once, unless a restore cleared the
\* uploads under the run.
THEOREM BackupsAreWhole ==
    ASSUME BackupRestoreAssumption PROVE BackupSpec => []ArtifactsAreWhole
<1>1. BackupInit => BackupInv
  BY BackupInvInit
<1>2. BackupInv /\ [BackupNext]_backupVars => BackupInv'
  BY BackupInvNext
<1>3. BackupInv => ArtifactsAreWhole
  BY DEF BackupInv
<1>. QED
  BY <1>1, <1>2, <1>3, PTL DEF BackupSpec

\* _cleanup_old_backups, at the end of every run, and cleanup_retained_backups, in whatever
\* order the runs begin, complete, fail and prune and whatever the retention is then, leave
\* the artifact completed last in the target.
THEOREM BackupsKeepTheNewest ==
    ASSUME BackupRestoreAssumption PROVE BackupSpec => NewestArtifactIsKept
<1>1. BackupInit => BackupInv
  BY BackupInvInit
<1>2. BackupInv /\ [BackupNext]_backupVars => BackupInv' /\ [KeepsNewest]_backupVars
  BY BackupInvNext
<1>. QED
  BY <1>1, <1>2, PTL DEF BackupSpec, NewestArtifactIsKept
-----------------------------------------------------------------------------
(* The import of assignments. *)

DraftRow == [status : DraftStatus, revision : Nat, rows : SUBSET Row]
Parsing  == [state : {"none", "scheduled", "asking", "failing"}, revision : Nat]
Asking   == [draft : Drafts \cup {"none"}, seen : DraftRow, step : {"none", "read", "checked", "claimed"},
             rows : SUBSET Row, plan : {<< >>} \cup [Activities -> Days \cup {"missing"}],
             done : SUBSET Activities]
Assigned == [draft : Drafts, activity : Activities, day : Days \cup {"missing"}]

AssignmentsType ==
    /\ draft \in [Drafts -> DraftRow] /\ parse \in [Drafts -> Parsing] /\ ask \in [Teachers -> Asking]
    /\ family \in Teachers \cup {"nobody"} /\ plan \in [Activities -> Days \cup {"missing"}]
    /\ assigned \in SUBSET Assigned /\ removed \in SUBSET Drafts

\* Whoever holds the family's row, and nobody else, has claimed a draft that may still be
\* confirmed, and has looked up all that is there.
LockIsHeld ==
    /\ family \in Teachers => ask[family].step = "claimed"
    /\ \A c \in Teachers : ask[c].step = "claimed" =>
          /\ family = c /\ ask[c].done = Linked
          /\ draft[ask[c].draft].status \in {"ready", "needs_clarification"}

\* A session is there for whoever has read it, and does not go back to processing.
ReadsLast ==
    \A c \in Teachers : ask[c].step # "none" =>
        /\ ask[c].draft \in Drafts /\ draft[ask[c].draft].status # "none"
        /\ ask[c].seen.status # "processing" => draft[ask[c].draft].status # "processing"

\* Nobody is at work on a session that counts as removed, now or ever again.
NobodyWorks(s) ==
    /\ parse[s].state \notin {"asking", "failing"}
    /\ \A c \in Teachers : ask[c].draft = s /\ ask[c].step = "read" => ask[c].seen.status # "processing"

RemovedRest == \A s \in removed : draft[s].status \notin {"none", "processing"} /\ NobodyWorks(s)

AssignmentsInv == AssignmentsType /\ LockIsHeld /\ ReadsLast /\ RemovedRest /\ OneAssignmentPerActivity

\* What rests, and what an assessment of rows can give.
LEMMA RestingAsks ==
    /\ NoDraft \in DraftRow /\ NoDraft.status = "none"
    /\ NoParse \in Parsing /\ NoParse.state = "none"
    /\ NoAsk \in Asking /\ NoAsk.step = "none"
    /\ \A rows, isWeekly, plans : Assessed(rows, isWeekly, plans) \in {"failed", "ready", "needs_clarification"}
<1>1. NoDraft \in DraftRow /\ NoDraft.status = "none"
  BY DEF NoDraft, DraftRow, DraftStatus
<1>2. NoAsk \in Asking /\ NoAsk.step = "none"
  BY <1>1 DEF NoAsk, Asking
<1>. QED
  BY <1>1, <1>2 DEF NoParse, Parsing, Assessed

\* What a failure makes of a row.
LEMMA FailedIs ==
    ASSUME NEW row \in DraftRow, NEW revision \in Nat
    PROVE  Failed(row, revision) \in DraftRow /\ Failed(row, revision).status = "failed"
  BY DEF Failed, DraftRow, DraftStatus

\* Without sessions.
LEMMA AssignmentsInvInit == ASSUME AssignmentImportAssumption, AssignmentImportInit PROVE AssignmentsInv
<1>1. AssignmentsType
  BY RestingAsks DEF AssignmentImportInit, AssignmentsType
<1>. QED
  BY <1>1, RestingAsks DEF AssignmentImportInit, AssignmentsInv, LockIsHeld, ReadsLast, RemovedRest,
     OneAssignmentPerActivity, AssignmentImportAssumption

\* What a write of the session s leaves of a teacher's request: all, nothing, or, for
\* who wrote it, what it has read of the session again.
Afterwards(c, s) ==
    \/ ask'[c] = ask[c]
    \/ ask'[c] = NoAsk /\ ask[c].step # "claimed"
    \/ /\ ask'[c] \in Asking /\ ask'[c].draft = s /\ ask'[c].seen = draft'[s] /\ ask'[c].step = "checked"
       /\ ask[c].step # "claimed"

\* A session is written that nobody has claimed, or that nobody has; it is not processed,
\* and one that counts as removed stays expired.
LEMMA WritingKeeps ==
    ASSUME AssignmentImportAssumption, AssignmentsInv, NEW s \in Drafts, NEW row \in DraftRow,
           row.status \notin {"none", "processing"}, ~RowLocked(s), draft' = [draft EXCEPT ![s] = row],
           UNCHANGED <<weekly, family, plan, assigned>>,
           parse' = parse \/ parse' = [parse EXCEPT ![s] = NoParse],
           DOMAIN ask' = Teachers, ask' = [c \in Teachers |-> ask'[c]], \A c \in Teachers : Afterwards(c, s),
           removed' = removed \/ (removed' = removed \cup {s} /\ NobodyWorks(s)'),
           s \in removed /\ draft[s].status = "expired" => row.status = "expired"
    PROVE  AssignmentsInv' /\ StaysExpired
<1>0. /\ draft \in [Drafts -> DraftRow] /\ parse \in [Drafts -> Parsing] /\ ask \in [Teachers -> Asking]
      /\ family \in Teachers \cup {"nobody"} /\ "nobody" \notin Teachers
  BY DEF AssignmentsInv, AssignmentsType, AssignmentImportAssumption
<1>1. draft'[s] = row /\ \A q \in Drafts \ {s} : draft'[q] = draft[q]
  BY <1>0
<1>2. \A c \in Teachers : ask'[c] \in Asking
  BY <1>0, RestingAsks DEF Afterwards
<1>3. \A q \in Drafts : parse'[q] = parse[q] \/ parse'[q] = NoParse
  BY <1>0
<1>4. AssignmentsType'
  <2>1. ask' \in [Teachers -> Asking]
    BY <1>2
  <2>2. draft' \in [Drafts -> DraftRow] /\ parse' \in [Drafts -> Parsing] /\ removed' \in SUBSET Drafts
    BY <1>0, RestingAsks DEF AssignmentsInv, AssignmentsType
  <2>. QED
    BY <2>1, <2>2 DEF AssignmentsInv, AssignmentsType
<1>5. LockIsHeld'
  <2>1. ASSUME NEW c \in Teachers, ask'[c].step = "claimed"
        PROVE  ask'[c] = ask[c] /\ family = c /\ ask[c].draft # s
    <3>1. ask'[c] = ask[c]
      BY <2>1, RestingAsks DEF Afterwards
    <3>2. family = c
      BY <2>1, <3>1 DEF AssignmentsInv, LockIsHeld
    <3>. QED
      BY <1>0, <3>1, <3>2 DEF RowLocked
  <2>2. ASSUME NEW c \in Teachers, ask'[c].step = "claimed"
        PROVE  draft'[ask'[c].draft].status \in {"ready", "needs_clarification"}
    BY <1>1, <2>1, <2>2 DEF AssignmentsInv, LockIsHeld, ReadsLast
  <2>3. family \in Teachers => ask'[family].step = "claimed"
    BY DEF AssignmentsInv, LockIsHeld, Afterwards
  <2>4. Linked' = Linked
    BY DEF Linked
  <2>. QED
    BY <2>1, <2>2, <2>3, <2>4 DEF AssignmentsInv, LockIsHeld
<1>6. ReadsLast'
  BY <1>0, <1>1, RestingAsks DEF AssignmentsInv, ReadsLast, Afterwards
<1>7. RemovedRest'
  <2>1. ASSUME NEW q \in removed
        PROVE  draft'[q].status \notin {"none", "processing"} /\ NobodyWorks(q)'
    <3>1. q \in Drafts /\ draft[q].status \notin {"none", "processing"} /\ NobodyWorks(q)
      BY <2>1 DEF AssignmentsInv, AssignmentsType, RemovedRest
    <3>2. draft'[q].status \notin {"none", "processing"}
      BY <1>1, <3>1
    <3>3. parse'[q].state \notin {"asking", "failing"}
      BY <1>3, <3>1, RestingAsks DEF NobodyWorks
    <3>4. \A c \in Teachers : ask'[c].draft = q /\ ask'[c].step = "read" => ask'[c].seen.status # "processing"
      BY <3>1, RestingAsks DEF NobodyWorks, Afterwards
    <3>. QED
      BY <3>2, <3>3, <3>4 DEF NobodyWorks
  <2>. QED
    BY <1>1, <2>1 DEF RemovedRest
<1>8. OneAssignmentPerActivity'
  BY DEF AssignmentsInv, OneAssignmentPerActivity
<1>9. StaysExpired
  BY <1>1 DEF AssignmentsInv, AssignmentsType, StaysExpired
<1>. QED
  BY <1>4, <1>5, <1>6, <1>7, <1>8, <1>9 DEF AssignmentsInv

\* What the invariant says of the variables.
LEMMA AssignmentsTypes ==
    ASSUME AssignmentImportAssumption, AssignmentsInv
    PROVE  /\ draft \in [Drafts -> DraftRow] /\ parse \in [Drafts -> Parsing] /\ ask \in [Teachers -> Asking]
           /\ family \in Teachers \cup {"nobody"} /\ plan \in [Activities -> Days \cup {"missing"}]
           /\ assigned \in SUBSET Assigned /\ removed \in SUBSET Drafts /\ "nobody" \notin Teachers
  BY DEF AssignmentsInv, AssignmentsType, AssignmentImportAssumption

\* A session that is not there has no readers.
LEMMA UploadingKeeps ==
    ASSUME AssignmentImportAssumption, AssignmentsInv, NEW s \in Drafts, UploadParsed(s) \/ UploadForAi(s)
    PROVE  AssignmentsInv' /\ StaysExpired
<1>1. s \notin removed /\ \A c \in Teachers : ask[c].step # "none" => ask[c].draft # s
  BY DEF UploadParsed, UploadForAi, AssignmentsInv, ReadsLast, RemovedRest
<1>2. ~RowLocked(s)
  BY <1>1, AssignmentsTypes DEF RowLocked, AssignmentsInv, LockIsHeld
<1>3. CASE UploadParsed(s)
  <2>1. PICK rows \in Documents : draft' = [draft EXCEPT ![s] = NewDraft(s, rows)]
    BY <1>3 DEF UploadParsed
  <2>2. NewDraft(s, rows) \in DraftRow /\ NewDraft(s, rows).status \in {"failed", "ready", "needs_clarification"}
    BY RestingAsks DEF NewDraft, DraftRow, DraftStatus, Documents
  <2>3. /\ UNCHANGED <<weekly, family, plan, assigned, parse, ask, removed>>
        /\ \A c \in Teachers : Afterwards(c, s)
    BY <1>3 DEF UploadParsed, Afterwards
  <2>. QED
    BY <1>1, <1>2, <2>1, <2>2, <2>3, AssignmentsTypes, WritingKeeps
<1>4. CASE UploadForAi(s)
  <2>. DEFINE row == [status |-> "processing", revision |-> 1, rows |-> {}]
              queued == [parse[s] EXCEPT !.state = "scheduled"]
  <2>1. /\ draft' = [draft EXCEPT ![s] = row] /\ parse' = [parse EXCEPT ![s] = queued]
        /\ UNCHANGED <<weekly, over, stalled, ask, family, plan, assigned, removed>>
    BY <1>4 DEF UploadForAi
  <2>2. row \in DraftRow /\ queued \in Parsing
    BY AssignmentsTypes DEF DraftRow, DraftStatus, Parsing
  <2>3. row.status = "processing"
    OBVIOUS
  <2>. HIDE DEF row, queued
  <2>4. /\ draft'[s] = row /\ \A q \in Drafts \ {s} : draft'[q] = draft[q] /\ parse'[q] = parse[q]
        /\ draft' \in [Drafts -> DraftRow] /\ parse' \in [Drafts -> Parsing]
    BY <2>1, <2>2, AssignmentsTypes
  <2>5. AssignmentsType' /\ OneAssignmentPerActivity'
    BY <2>1, <2>4 DEF AssignmentsInv, AssignmentsType, OneAssignmentPerActivity
  <2>6. LockIsHeld'
    BY <1>1, <2>1, <2>4 DEF AssignmentsInv, LockIsHeld, ReadsLast, Linked
  <2>7. ReadsLast'
    BY <1>1, <2>1, <2>3, <2>4 DEF AssignmentsInv, ReadsLast
  <2>8. RemovedRest' /\ StaysExpired
    BY <1>1, <2>1, <2>4, AssignmentsTypes DEF AssignmentsInv, RemovedRest, NobodyWorks, StaysExpired
  <2>. QED
    BY <2>5, <2>6, <2>7, <2>8 DEF AssignmentsInv
<1>. QED
  BY <1>3, <1>4

\* The task stores what it has made, of a session that does not count as removed.
LEMMA StoringKeeps ==
    ASSUME AssignmentImportAssumption, AssignmentsInv, NEW s \in Drafts, StoreParse(s) \/ StoreFailure(s)
    PROVE  AssignmentsInv' /\ StaysExpired
<1>1. /\ s \notin removed /\ ~RowLocked(s) /\ parse' = [parse EXCEPT ![s] = NoParse]
      /\ UNCHANGED <<weekly, family, plan, assigned, ask, removed>> /\ \A c \in Teachers : Afterwards(c, s)
  BY DEF StoreParse, StoreFailure, AssignmentsInv, RemovedRest, NobodyWorks, Afterwards
<1>2. parse[s].revision + 1 \in Nat
  BY AssignmentsTypes DEF Parsing
<1>3. \E row \in DraftRow : row.status \in {"failed", "ready", "needs_clarification"} /\ draft' = [draft EXCEPT ![s] = row]
  <2>1. CASE StoreParse(s)
    <3>1. PICK rows \in Documents :
              draft' = [draft EXCEPT ![s] = [status |-> Assessed(rows, s \in weekly, plan),
                                             revision |-> parse[s].revision + 1, rows |-> rows]]
      BY <2>1 DEF StoreParse
    <3>. DEFINE row == [status |-> Assessed(rows, s \in weekly, plan), revision |-> parse[s].revision + 1, rows |-> rows]
    <3>2. row \in DraftRow /\ row.status \in {"failed", "ready", "needs_clarification"}
      BY <1>2, RestingAsks DEF DraftRow, DraftStatus, Documents
    <3>. QED
      BY <3>1, <3>2
  <2>2. CASE StoreFailure(s)
    <3>. DEFINE row == Failed(draft[s], parse[s].revision + 1)
    <3>1. draft' = [draft EXCEPT ![s] = row]
      BY <2>2 DEF StoreFailure
    <3>2. row \in DraftRow /\ row.status = "failed"
      BY <1>2, FailedIs, AssignmentsTypes
    <3>. QED
      BY <3>1, <3>2
  <2>. QED
    BY <2>1, <2>2
<1>. QED
  BY <1>1, <1>3, AssignmentsTypes, WritingKeeps

\* The steps of the task that do not store, and time.
LEMMA WorkingKeeps ==
    ASSUME AssignmentImportAssumption, AssignmentsInv, NEW s \in Drafts,
           BeginParse(s) \/ ParseFails(s) \/ Stall(s) \/ RunOut(s)
    PROVE  AssignmentsInv' /\ StaysExpired
<1>1. UNCHANGED <<draft, weekly, ask, family, plan, assigned, removed>>
  BY DEF BeginParse, ParseFails, Stall, RunOut
<1>2. /\ parse' \in [Drafts -> Parsing]
      /\ \A q \in removed : parse'[q].state \notin {"asking", "failing"}
  <2>1. CASE BeginParse(s)
    <3>1. [state |-> "asking", revision |-> draft[s].revision] \in Parsing
      BY AssignmentsTypes DEF Parsing, DraftRow
    <3>. QED
      BY <2>1, <3>1, RestingAsks, AssignmentsTypes DEF BeginParse, AssignmentsInv, RemovedRest, NobodyWorks
  <2>2. CASE ParseFails(s)
    <3>1. [state |-> "failing", revision |-> draft[s].revision] \in Parsing
      BY AssignmentsTypes DEF Parsing, DraftRow
    <3>. QED
      BY <2>2, <3>1, RestingAsks, AssignmentsTypes DEF ParseFails, AssignmentsInv, RemovedRest, NobodyWorks
  <2>3. CASE Stall(s) \/ RunOut(s)
    BY <2>3, AssignmentsTypes DEF Stall, RunOut, AssignmentsInv, RemovedRest, NobodyWorks
  <2>. QED
    BY <2>1, <2>2, <2>3
<1>. QED
  BY <1>1, <1>2 DEF AssignmentsInv, AssignmentsType, LockIsHeld, ReadsLast, RemovedRest, NobodyWorks, Linked,
     OneAssignmentPerActivity, StaysExpired

\* A request that reads a session, and one that is over.
LEMMA AskingKeeps ==
    ASSUME AssignmentImportAssumption, AssignmentsInv, NEW c \in Teachers,
           (\E s \in Drafts : Ask(c, s)) \/ Answered(c) \/ RollBackConfirm(c)
    PROVE  AssignmentsInv' /\ StaysExpired
<1>1. UNCHANGED <<draft, weekly, parse, plan, assigned, removed>>
  BY DEF Ask, Answered, RollBackConfirm
<1>2. AssignmentsType' /\ OneAssignmentPerActivity' /\ LockIsHeld' /\ ReadsLast' /\ RemovedRest' => AssignmentsInv'
  BY DEF AssignmentsInv
<1>3. OneAssignmentPerActivity' /\ StaysExpired /\ Linked' = Linked
  BY <1>1 DEF AssignmentsInv, OneAssignmentPerActivity, StaysExpired, Linked
<1>4. ASSUME NEW s \in Drafts, Ask(c, s)
      PROVE  AssignmentsInv' /\ StaysExpired
  <2>. DEFINE new == [NoAsk EXCEPT !.draft = s, !.seen = draft[s], !.step = "read"]
  <2>1. /\ new \in Asking /\ new.draft = s /\ new.seen = draft[s] /\ new.step = "read"
    BY RestingAsks, AssignmentsTypes DEF Asking
  <2>2. ask' = [ask EXCEPT ![c] = new] /\ family' = family /\ draft[s].status # "none" /\ ask[c].step = "none"
    BY <1>4 DEF Ask
  <2>. HIDE DEF new
  <2>3. ask'[c] = new /\ \A d \in Teachers \ {c} : ask'[d] = ask[d]
    BY <2>2, AssignmentsTypes
  <2>4. AssignmentsType'
    BY <1>1, <2>1, <2>2, AssignmentsTypes DEF AssignmentsType
  <2>5. LockIsHeld'
    BY <1>1, <1>3, <2>1, <2>2, <2>3 DEF AssignmentsInv, LockIsHeld
  <2>6. ReadsLast'
    BY <1>1, <2>1, <2>2, <2>3 DEF AssignmentsInv, ReadsLast
  <2>7. RemovedRest'
    BY <1>1, <2>1, <2>2, <2>3 DEF AssignmentsInv, RemovedRest, NobodyWorks
  <2>. QED
    BY <1>2, <1>3, <2>4, <2>5, <2>6, <2>7
<1>5. CASE Answered(c) \/ RollBackConfirm(c)
  <2>1. ask' = [ask EXCEPT ![c] = NoAsk]
    BY <1>5 DEF Answered, RollBackConfirm
  <2>2. ask'[c] = NoAsk /\ \A d \in Teachers \ {c} : ask'[d] = ask[d]
    BY <2>1, AssignmentsTypes
  <2>3. \/ family' = family /\ ask[c].step # "claimed"
        \/ family' = "nobody" /\ ask[c].step = "claimed"
    BY <1>5 DEF Answered, RollBackConfirm
  <2>4. AssignmentsType'
    BY <1>1, <2>1, <2>3, RestingAsks, AssignmentsTypes DEF AssignmentsType
  <2>5. LockIsHeld'
    BY <1>1, <1>3, <2>2, <2>3, RestingAsks, AssignmentsTypes DEF AssignmentsInv, LockIsHeld
  <2>6. ReadsLast'
    BY <1>1, <2>2, RestingAsks DEF AssignmentsInv, ReadsLast
  <2>7. RemovedRest'
    BY <1>1, <2>2, RestingAsks DEF AssignmentsInv, RemovedRest, NobodyWorks
  <2>. QED
    BY <1>2, <1>3, <2>4, <2>5, <2>6, <2>7
<1>. QED
  BY <1>4, <1>5

\* A claim is of a draft that is still as it was read.
LEMMA ClaimingKeeps ==
    ASSUME AssignmentImportAssumption, AssignmentsInv, NEW c \in Teachers, Claim(c)
    PROVE  AssignmentsInv' /\ StaysExpired
<1>1. /\ UNCHANGED <<draft, weekly, parse, plan, assigned, removed>> /\ family = "nobody" /\ family' = c
      /\ ask[c].step \in {"read", "checked"} /\ draft[ask[c].draft].status = ask[c].seen.status
  BY DEF Claim, TakesFamily, Handles, Unmoved
<1>2. PICK rows \in SUBSET ask[c].seen.rows :
          /\ MayConfirm(ask[c].draft, ask[c].seen, rows)
          /\ ask' = [ask EXCEPT ![c] = [ask[c] EXCEPT !.step = "claimed", !.rows = rows, !.plan = plan, !.done = Linked]]
  BY DEF Claim, TakesFamily
<1>3. Linked \in SUBSET Activities /\ rows \in SUBSET Row
  BY AssignmentsTypes DEF Linked, Assigned, Asking, DraftRow
<1>. DEFINE new == [ask[c] EXCEPT !.step = "claimed", !.rows = rows, !.plan = plan, !.done = Linked]
<1>4. /\ new \in Asking /\ new.step = "claimed" /\ new.done = Linked
      /\ new.draft = ask[c].draft /\ new.seen = ask[c].seen
  <2>1. ask[c] \in Asking /\ plan \in [Activities -> Days \cup {"missing"}]
    BY AssignmentsTypes
  <2>. HIDE DEF Linked
  <2>. QED
    BY <1>3, <2>1 DEF Asking
<1>5. ask' = [ask EXCEPT ![c] = new]
  BY <1>2
<1>. HIDE DEF new
<1>6. ask'[c] = new /\ \A d \in Teachers \ {c} : ask'[d] = ask[d]
  BY <1>5, AssignmentsTypes
<1>7. Linked' = Linked
  BY <1>1 DEF Linked
<1>8. AssignmentsType'
  BY <1>1, <1>4, <1>5, AssignmentsTypes DEF AssignmentsType
<1>9. LockIsHeld'
  <2>1. draft[ask[c].draft].status \in {"ready", "needs_clarification"}
    BY <1>1, <1>2 DEF MayConfirm
  <2>2. \A d \in Teachers \ {c} : ask[d].step # "claimed"
    BY <1>1, AssignmentsTypes DEF AssignmentsInv, LockIsHeld
  <2>. QED
    BY <1>1, <1>4, <1>6, <1>7, <2>1, <2>2 DEF LockIsHeld
<1>10. ReadsLast'
  BY <1>1, <1>4, <1>6 DEF AssignmentsInv, ReadsLast
<1>11. RemovedRest'
  BY <1>1, <1>4, <1>6 DEF AssignmentsInv, RemovedRest, NobodyWorks
<1>12. OneAssignmentPerActivity' /\ StaysExpired
  BY <1>1 DEF AssignmentsInv, OneAssignmentPerActivity, StaysExpired
<1>. QED
  BY <1>8, <1>9, <1>10, <1>11, <1>12 DEF AssignmentsInv

\* What a request writes of its session; an edit is stored over what it has read, and a
\* removal is of a session that nobody is at work on, or does not count.
LEMMA EditingKeeps ==
    ASSUME AssignmentImportAssumption, AssignmentsInv, NEW c \in Teachers,
           Lapse(c) \/ Starve(c) \/ Patch(c) \/ Delete(c)
    PROVE  AssignmentsInv' /\ StaysExpired
<1>0. ask[c].step \in {"read", "checked"}
  BY DEF Lapse, Starve, Patch, Delete, Lapsed, Starved, Handles
<1>s. PICK s \in Drafts : s = ask[c].draft
  BY <1>0 DEF AssignmentsInv, ReadsLast
<1>1. /\ ask[c].step \in {"read", "checked"} /\ ~RowLocked(s)
      /\ UNCHANGED <<weekly, family, plan, assigned, parse>>
  BY <1>0, <1>s DEF Lapse, Starve, Patch, Delete
<1>2. /\ draft[s] \in DraftRow /\ ask[c] \in Asking /\ ask[c].seen \in DraftRow
      /\ draft[s].status # "none"
      /\ ask[c].seen.status # "processing" => draft[s].status # "processing"
  BY <1>1, <1>s, AssignmentsTypes DEF AssignmentsInv, ReadsLast, Asking
<1>3. ask[c].seen.revision + 1 \in Nat
  BY <1>2 DEF DraftRow
<1>4. ask' = [ask EXCEPT ![c] = NoAsk] =>
         /\ ask'[c] = NoAsk /\ \A d \in Teachers \ {c} : ask'[d] = ask[d]
         /\ \A d \in Teachers : Afterwards(d, s)
         /\ DOMAIN ask' = Teachers /\ ask' = [d \in Teachers |-> ask'[d]]
  BY <1>1, AssignmentsTypes DEF Afterwards
<1>5. CASE Lapse(c)
  <2>. DEFINE row == [draft[s] EXCEPT !.status = "expired"]
  <2>1. draft' = [draft EXCEPT ![s] = row] /\ ask' = [ask EXCEPT ![c] = NoAsk] /\ removed' = removed
    BY <1>5, <1>s DEF Lapse
  <2>2. row \in DraftRow /\ row.status = "expired"
    BY <1>2 DEF DraftRow, DraftStatus
  <2>. HIDE DEF row
  <2>. QED
    BY <1>1, <1>2, <1>4, <2>1, <2>2, WritingKeeps
<1>6. CASE Starve(c)
  <2>. DEFINE row == Failed(draft[s], ask[c].seen.revision + 1)
              new == [ask[c] EXCEPT !.seen = row, !.step = "checked"]
  <2>1. draft' = [draft EXCEPT ![s] = row] /\ removed' = removed
    BY <1>6, <1>s DEF Starve
  <2>2. row \in DraftRow /\ row.status = "failed"
    BY <1>2, <1>3, FailedIs
  <2>. HIDE DEF row
  <2>3. draft'[s] = row
    BY <1>2, <2>1, AssignmentsTypes
  <2>4. new \in Asking /\ new.draft = s /\ new.seen = row /\ new.step = "checked"
    BY <1>2, <1>s, <2>2 DEF Asking
  <2>5. ask' = [ask EXCEPT ![c] = new]
    BY <1>6, <1>s, <2>3 DEF Starve
  <2>. HIDE DEF new
  <2>6. \A d \in Teachers : Afterwards(d, s)
    BY <1>1, <2>3, <2>4, <2>5, AssignmentsTypes DEF Afterwards
  <2>7. DOMAIN ask' = Teachers /\ ask' = [d \in Teachers |-> ask'[d]]
    BY <2>5, AssignmentsTypes
  <2>8. s \notin removed
    BY <1>6, <1>s DEF Starve, Starved, AssignmentsInv, RemovedRest, NobodyWorks
  <2>. QED
    BY <1>1, <1>2, <2>1, <2>2, <2>6, <2>7, <2>8, WritingKeeps
<1>7. CASE Patch(c)
  <2>1. PICK r \in ask[c].seen.rows, edited \in Row :
            draft' = [draft EXCEPT ![s] =
                [status |-> Assessed((ask[c].seen.rows \ {r}) \cup {edited}, s \in weekly, plan),
                 revision |-> ask[c].seen.revision + 1, rows |-> (ask[c].seen.rows \ {r}) \cup {edited}]]
    BY <1>7, <1>s DEF Patch
  <2>. DEFINE rows == (ask[c].seen.rows \ {r}) \cup {edited}
              row  == [status |-> Assessed(rows, s \in weekly, plan), revision |-> ask[c].seen.revision + 1, rows |-> rows]
  <2>2. /\ draft' = [draft EXCEPT ![s] = row] /\ ask' = [ask EXCEPT ![c] = NoAsk] /\ removed' = removed
        /\ draft[s].status # "expired"
    BY <1>7, <1>s, <2>1 DEF Patch, Unmoved
  <2>3. rows \in SUBSET Row
    BY <1>2 DEF DraftRow
  <2>. HIDE DEF rows
  <2>4. row \in DraftRow /\ row.status \in {"failed", "ready", "needs_clarification"}
    BY <1>3, <2>3, RestingAsks DEF DraftRow, DraftStatus
  <2>. HIDE DEF row
  <2>. QED
    BY <1>1, <1>2, <1>4, <2>2, <2>4, WritingKeeps
<1>8. CASE Delete(c)
  <2>. DEFINE status == IF ask[c].seen.status = "expired" THEN draft[s].status ELSE "expired"
              row    == [draft[s] EXCEPT !.status = status, !.revision = ask[c].seen.revision + 1]
  <2>1. draft' = [draft EXCEPT ![s] = row] /\ ask' = [ask EXCEPT ![c] = NoAsk]
    BY <1>8, <1>s DEF Delete
  <2>2. status \in DraftStatus \ {"none", "processing"} /\ (draft[s].status = "expired" => status = "expired")
    BY <1>2 DEF DraftRow, DraftStatus
  <2>. HIDE DEF status
  <2>3. row \in DraftRow /\ row.status = status
    BY <1>2, <1>3, <2>2 DEF DraftRow
  <2>. HIDE DEF row
  <2>4. removed' = removed \/ (removed' = removed \cup {s} /\ ~AtWork(s, c))
    BY <1>8, <1>s DEF Delete
  <2>5. removed' = removed \/ (removed' = removed \cup {s} /\ NobodyWorks(s)')
    BY <1>1, <1>4, <2>1, <2>4, RestingAsks DEF AtWork, NobodyWorks
  <2>. QED
    BY <1>1, <1>2, <1>4, <2>1, <2>2, <2>3, <2>5, WritingKeeps
<1>. QED
  BY <1>5, <1>6, <1>7, <1>8

\* A confirmation, under the lock, makes what is not there: a second row of an activity
\* is of the same day, and an activity that has an assignment is skipped.
LEMMA ConfirmingKeeps ==
    ASSUME AssignmentImportAssumption, AssignmentsInv, NEW c \in Teachers, CommitConfirm(c)
    PROVE  AssignmentsInv' /\ StaysExpired
<1>0. ask[c].step = "claimed"
  BY DEF CommitConfirm
<1>s. PICK s \in Drafts : s = ask[c].draft
  BY <1>0 DEF AssignmentsInv, ReadsLast
<1>1. /\ family = c /\ ask[c].done = Linked /\ draft[s].status \in {"ready", "needs_clarification"}
      /\ ask[c].rows \in SUBSET Row /\ ask[c].seen.revision \in Nat
  BY <1>0, <1>s, AssignmentsTypes DEF AssignmentsInv, LockIsHeld, Asking, DraftRow
<1>. DEFINE chosen == ask[c].rows
            fresh  == {r \in chosen : ~(s \in weekly /\ r.activity \in ask[c].done)}
            row    == [draft[s] EXCEPT !.status = "confirmed", !.revision = ask[c].seen.revision + 1]
            new    == {[draft |-> s, activity |-> r.activity, day |-> r.day] : r \in fresh}
<1>2. /\ \A r \in chosen : RowReady(r, chosen, s \in weekly, ask[c].plan)
      /\ assigned' = assigned \cup new
      /\ draft' = [draft EXCEPT ![s] = [@ EXCEPT !.status = "confirmed", !.revision = ask[c].seen.revision + 1]]
      /\ family' = "nobody" /\ ask' = [ask EXCEPT ![c] = NoAsk] /\ UNCHANGED <<weekly, parse, removed>>
  BY <1>s DEF CommitConfirm
<1>3. draft' = [draft EXCEPT ![s] = row]
  BY <1>2
<1>4. row \in DraftRow /\ row.status = "confirmed"
  <2>1. draft[s] \in DraftRow /\ ask[c].seen.revision + 1 \in Nat
    BY <1>1, AssignmentsTypes
  <2>. QED
    BY <2>1 DEF DraftRow, DraftStatus
<1>. HIDE DEF row
<1>5. draft'[s] = row /\ (\A q \in Drafts \ {s} : draft'[q] = draft[q]) /\ draft' \in [Drafts -> DraftRow]
  BY <1>3, <1>4, AssignmentsTypes
<1>6. ask'[c] = NoAsk /\ (\A d \in Teachers \ {c} : ask'[d] = ask[d]) /\ ask' \in [Teachers -> Asking]
  BY <1>2, RestingAsks, AssignmentsTypes
<1>7. plan' \in [Activities -> Days \cup {"missing"}]
  <2>1. plan' = [a \in Activities |->
                    IF s \in weekly /\ \E r \in fresh : r.activity = a
                    THEN (CHOOSE r \in fresh : r.activity = a).day ELSE plan[a]]
    BY <1>s DEF CommitConfirm
  <2>2. ASSUME NEW a \in Activities, \E r \in fresh : r.activity = a
        PROVE  (CHOOSE r \in fresh : r.activity = a).day \in Days \cup {"missing"}
    <3>1. (CHOOSE r \in fresh : r.activity = a) \in fresh
      BY <2>2
    <3>. QED
      BY <1>1, <3>1 DEF Row
  <2>3. \A a \in Activities : plan[a] \in Days \cup {"missing"}
    BY AssignmentsTypes
  <2>. QED
    BY <2>1, <2>2, <2>3
<1>8. new \in SUBSET Assigned
  BY <1>1 DEF Row, Assigned
<1>9. AssignmentsType'
  BY <1>2, <1>5, <1>6, <1>7, <1>8, AssignmentsTypes DEF AssignmentsType
<1>10. LockIsHeld'
  BY <1>1, <1>2, <1>6, RestingAsks, AssignmentsTypes DEF AssignmentsInv, LockIsHeld
<1>11. ReadsLast'
  BY <1>4, <1>5, <1>6, RestingAsks DEF AssignmentsInv, ReadsLast
<1>12. RemovedRest'
  <2>1. ASSUME NEW q \in removed
        PROVE  draft'[q].status \notin {"none", "processing"} /\ NobodyWorks(q)'
    <3>1. q \in Drafts /\ draft[q].status \notin {"none", "processing"} /\ NobodyWorks(q)
      BY <2>1, AssignmentsTypes DEF AssignmentsInv, RemovedRest
    <3>. QED
      BY <1>2, <1>4, <1>5, <1>6, <3>1, RestingAsks DEF NobodyWorks
  <2>. QED
    BY <1>2, <2>1 DEF RemovedRest
<1>13. OneAssignmentPerActivity'
  <2>1. ASSUME NEW a \in assigned, NEW b \in new, {a.draft, b.draft} \subseteq weekly, a.activity = b.activity
        PROVE  FALSE
    <3>1. PICK r \in fresh : b = [draft |-> s, activity |-> r.activity, day |-> r.day]
      OBVIOUS
    <3>2. s \in weekly /\ r.activity = a.activity
      BY <2>1, <3>1
    <3>3. r.activity \notin Linked
      BY <1>1, <3>2
    <3>4. a.activity \in Linked
      BY <2>1 DEF Linked
    <3>. QED
      BY <3>2, <3>3, <3>4
  <2>2. ASSUME NEW a \in new, NEW b \in new, {a.draft, b.draft} \subseteq weekly, a.activity = b.activity
        PROVE  a = b
    <3>1. PICK r \in fresh : a = [draft |-> s, activity |-> r.activity, day |-> r.day]
      OBVIOUS
    <3>2. PICK q \in fresh : b = [draft |-> s, activity |-> q.activity, day |-> q.day]
      OBVIOUS
    <3>3. s \in weekly /\ r \in chosen /\ q \in chosen /\ q.activity = r.activity
      BY <2>2, <3>1, <3>2
    <3>4. q.day = r.day
      BY <1>2, <3>3 DEF RowReady, Agrees, OneDate
    <3>. QED
      BY <3>1, <3>2, <3>3, <3>4
  <2>3. ASSUME NEW a \in assigned, NEW b \in assigned, {a.draft, b.draft} \subseteq weekly, a.activity = b.activity
        PROVE  a = b
    BY <2>3 DEF AssignmentsInv, OneAssignmentPerActivity
  <2>. HIDE DEF new
  <2>. QED
    BY <1>2, <2>1, <2>2, <2>3 DEF OneAssignmentPerActivity
<1>14. StaysExpired
  BY <1>1, <1>5, AssignmentsTypes DEF StaysExpired
<1>. QED
  BY <1>9, <1>10, <1>11, <1>12, <1>13, <1>14 DEF AssignmentsInv

\* Every step keeps the invariant, and what was deleted.
LEMMA AssignmentsInvNext ==
    ASSUME AssignmentImportAssumption, AssignmentsInv, [AssignmentImportNext]_assignmentImportVars
    PROVE  AssignmentsInv' /\ [StaysExpired]_assignmentImportVars
<1>1. CASE UNCHANGED assignmentImportVars
  BY <1>1 DEF assignmentImportVars, AssignmentsInv, AssignmentsType, LockIsHeld, ReadsLast, RemovedRest, NobodyWorks,
              Linked, OneAssignmentPerActivity
<1>2. ASSUME NEW s \in Drafts, Tasks(s) PROVE AssignmentsInv' /\ StaysExpired
  BY <1>2, UploadingKeeps, StoringKeeps, WorkingKeeps DEF Tasks
<1>3. ASSUME NEW c \in Teachers, NEW s \in Drafts, Ask(c, s) PROVE AssignmentsInv' /\ StaysExpired
  BY <1>3, AskingKeeps
<1>4. ASSUME NEW c \in Teachers, Handling(c) PROVE AssignmentsInv' /\ StaysExpired
  BY <1>4, AskingKeeps, EditingKeeps, ClaimingKeeps, ConfirmingKeeps DEF Handling
<1>5. CASE LoseServer
  <2>1. /\ \A c \in Teachers : ask'[c] = NoAsk
        /\ ask' \in [Teachers -> Asking] /\ parse' \in [Drafts -> Parsing] /\ family' = "nobody"
        /\ UNCHANGED <<weekly, draft, plan, assigned, removed>>
    BY <1>5, RestingAsks DEF LoseServer
  <2>2. \A s \in Drafts : parse'[s] = NoParse
    BY <1>5 DEF LoseServer
  <2>. QED
    BY <2>1, <2>2, RestingAsks, AssignmentsTypes DEF AssignmentsInv, AssignmentsType, LockIsHeld, ReadsLast,
       RemovedRest, NobodyWorks, OneAssignmentPerActivity, StaysExpired
<1>. QED
  BY <1>1, <1>2, <1>3, <1>4, <1>5 DEF AssignmentImportNext

\* confirm looks up what is there under the family's lock, so that weekly imports of any
\* number of teachers make one assignment of an activity.
THEOREM ActivitiesAreAssignedOnce ==
    ASSUME AssignmentImportAssumption PROVE AssignmentImportSpec => []OneAssignmentPerActivity
<1>1. AssignmentImportInit => AssignmentsInv
  BY AssignmentsInvInit
<1>2. AssignmentsInv /\ [AssignmentImportNext]_assignmentImportVars => AssignmentsInv'
  BY AssignmentsInvNext
<1>3. AssignmentsInv => OneAssignmentPerActivity
  BY DEF AssignmentsInv
<1>. QED
  BY <1>1, <1>2, <1>3, PTL DEF AssignmentImportSpec

\* What delete_assignment_import_session has expired stays expired, whatever is confirmed,
\* edited, parsed or found to be stale, unless somebody was at work on it already.
THEOREM DeletionsAreKept ==
    ASSUME AssignmentImportAssumption PROVE AssignmentImportSpec => DeletionIsKept
<1>1. AssignmentImportInit => AssignmentsInv
  BY AssignmentsInvInit
<1>2. AssignmentsInv /\ [AssignmentImportNext]_assignmentImportVars => AssignmentsInv' /\ [StaysExpired]_assignmentImportVars
  BY AssignmentsInvNext
<1>. QED
  BY <1>1, <1>2, PTL DEF AssignmentImportSpec, DeletionIsKept
-----------------------------------------------------------------------------
(* Exports. *)

RecordRow == [version : Nat, created : Nat, changed : Nat, quiet : SUBSET Nat]
ExportRow == [status : ExportStatus, since : Nat, created : Nat]
Task      == [state : {"none", "scheduled", "collecting", "written", "ended"}, next : Nat,
              taken : [Rows -> Nat], passed : [Rows -> Nat]]
Deletion  == [step : {"none", "loaded", "unlinked"}, path : BOOLEAN]

ExportsType ==
    /\ record \in [Rows -> RecordRow] /\ export \in [Exports -> ExportRow] /\ task \in [Exports -> Task]
    /\ deletion \in [Exports -> Deletion] /\ now \in Nat

\* The dates of the rows and of the open transactions are past.
DatesArePast ==
    /\ \A r \in Rows : record[r].changed <= now
    /\ \A w \in writer : w.row \in Rows /\ w.at \in Nat /\ w.at <= now

\* Tasks and deletions are of exports, and the second export's date is not after the first.
TasksAreOfExports ==
    /\ \A e \in Exports :
          /\ export[e].created <= now
          /\ task[e].state # "none" \/ deletion[e].step # "none" => export[e].status # "none"
    /\ export[Full].since = 0
    /\ export[Full].status = "none" => task[Full].next = 1
    /\ export[Incremental].status # "none" =>
          export[Full].status # "none" /\ export[Incremental].since <= export[Full].created

\* The first export is written when it has been through all the tables.
CollectsAll ==
    task[Full].state = "written" \/ export[Full].status = "complete" => task[Full].next > Tables

Collected(r) == TableOf[r] < task[Full].next

\* Whatever came of a row since the first export collected its table came quietly, or has
\* left the row a date that is not before that export.
Seen(r) ==
    Collected(r) =>
        \A k \in task[Full].taken[r] + 1 .. record[r].version :
            k \in record[r].quiet \/ record[r].changed >= export[Full].created

\* What the second export has passed over by then, it had reason to.
Passed(r) ==
    /\ task[Incremental].passed[r] <= record[r].version
    /\ Collected(r) =>
          \A k \in task[Full].taken[r] + 1 .. task[Incremental].passed[r] : k \in record[r].quiet

ExportsInv ==
    /\ ExportsType /\ DatesArePast /\ TasksAreOfExports /\ CollectsAll
    /\ \A r \in Rows : Seen(r) /\ Passed(r)

\* Two exports.
LEMMA ExportsAre == Full \in Exports /\ Incremental \in Exports /\ Full # Incremental
  BY DEF Exports, Full, Incremental

\* The invariant says of the rows what the property does.
LEMMA ExportsInvKeeps == ASSUME ExportJobsAssumption, ExportsInv PROVE NothingFallsBetween
<1>1. ASSUME NEW r \in Rows, export[Full].status = "complete",
             NEW k \in task[Full].taken[r] + 1 .. task[Incremental].passed[r]
      PROVE  k \in record[r].quiet
  <2>1. TableOf[r] \in 1..Tables /\ Tables \in Nat /\ task[Full].next \in Nat
    BY ExportsAre DEF ExportJobsAssumption, ExportsInv, ExportsType, Task
  <2>2. Collected(r)
    BY <1>1, <2>1 DEF ExportsInv, CollectsAll, Collected
  <2>. QED
    BY <1>1, <2>2 DEF ExportsInv, Passed
<1>. QED
  BY <1>1 DEF NothingFallsBetween

\* Nothing is exported yet.
LEMMA ExportsInvInit == ASSUME ExportJobsAssumption, ExportJobsInit PROVE ExportsInv
<1>1. \A e \in Exports : export[e] = NoExport /\ task[e] = NoTask
  BY DEF ExportJobsInit
<1>2. NoExport \in ExportRow /\ NoExport.status = "none" /\ NoExport.since = 0 /\ NoExport.created = 0
  BY DEF NoExport, ExportRow, ExportStatus
<1>3. /\ NoTask \in Task /\ NoTask.state = "none" /\ NoTask.next = 1
      /\ \A r \in Rows : NoTask.taken[r] = 0 /\ NoTask.passed[r] = 0
  BY DEF NoTask, Task
<1>4. /\ \A r \in Rows : record[r].version = 0 /\ record[r].changed = 0
      /\ record \in [Rows -> RecordRow] /\ writer = {} /\ now = 0
  BY DEF ExportJobsInit, RecordRow
<1>5. ExportsType
  BY <1>2, <1>3, <1>4 DEF ExportJobsInit, ExportsType, NoDeletion, Deletion
<1>6. DatesArePast
  BY <1>4 DEF DatesArePast
<1>7. TasksAreOfExports /\ CollectsAll
  <2>1. \A e \in Exports : deletion[e].step = "none"
    BY DEF ExportJobsInit, NoDeletion
  <2>. QED
    BY <1>1, <1>2, <1>3, <1>4, <2>1, ExportsAre DEF TasksAreOfExports, CollectsAll
<1>8. ASSUME NEW r \in Rows PROVE Seen(r) /\ Passed(r)
  BY <1>1, <1>3, <1>4, ExportsAre DEF Seen, Passed
<1>. QED
  BY <1>5, <1>6, <1>7, <1>8 DEF ExportsInv

\* What the invariant says of the variables.
LEMMA ExportsTypes ==
    ASSUME ExportsInv
    PROVE  /\ record \in [Rows -> RecordRow] /\ export \in [Exports -> ExportRow] /\ task \in [Exports -> Task]
           /\ deletion \in [Exports -> Deletion] /\ now \in Nat /\ \A e \in Exports : export[e].created <= now
           /\ \A r \in Rows : record[r].version \in Nat /\ record[r].changed \in Nat /\ record[r].quiet \in SUBSET Nat
           /\ \A e \in Exports : export[e].since \in Nat /\ export[e].created \in Nat
           /\ \A e \in Exports, r \in Rows : task[e].taken[r] \in Nat /\ task[e].passed[r] \in Nat
  BY DEF ExportsInv, ExportsType, TasksAreOfExports, RecordRow, ExportRow, Task

\* A row gets a new version.  It is quiet or dated now; of the versions before, the quiet
\* ones stay so, and the others become it unless the row's date does not go back.
LEMMA VersionsKeep ==
    ASSUME ExportsInv, NEW r \in Rows, NEW new \in RecordRow,
           record' = [record EXCEPT ![r] = new], UNCHANGED <<now, export, task, deletion>>,
           new.version = record[r].version + 1, new.changed <= now, writer' \subseteq writer,
           new.version \in new.quiet \/ new.changed = now,
           \A k \in 1..record[r].version : k \in new.quiet \/ k \notin record[r].quiet,
           \A k \in 1..record[r].version : k \in new.quiet \/ record[r].changed <= new.changed
    PROVE  ExportsInv'
<1>1. record'[r] = new /\ (\A q \in Rows \ {r} : record'[q] = record[q]) /\ record' \in [Rows -> RecordRow]
  BY ExportsTypes
<1>2. ExportsType' /\ TasksAreOfExports' /\ CollectsAll'
  BY <1>1 DEF ExportsInv, ExportsType, TasksAreOfExports, CollectsAll
<1>3. DatesArePast'
  BY <1>1 DEF ExportsInv, DatesArePast
<1>4. \A q \in Rows \ {r} : Seen(q)' /\ Passed(q)'
  BY <1>1 DEF ExportsInv, Seen, Passed, Collected
<1>5. /\ new.version \in Nat /\ new.changed \in Nat /\ export[Full].created \in Nat /\ export[Full].created <= now
      /\ record[r].changed \in Nat /\ record[r].version \in Nat /\ task[Full].taken[r] \in Nat /\ now \in Nat
      /\ task[Incremental].passed[r] \in Nat
  BY ExportsAre, ExportsTypes DEF RecordRow
<1>6. Seen(r)'
  <2>1. ASSUME Collected(r), NEW k \in task[Full].taken[r] + 1 .. new.version
        PROVE  k \in new.quiet \/ new.changed >= export[Full].created
    <3>1. CASE k = new.version
      BY <1>5, <3>1
    <3>2. CASE k # new.version
      <4>1. k \in task[Full].taken[r] + 1 .. record[r].version /\ k \in 1..record[r].version
        BY <1>5, <2>1, <3>2
      <4>2. k \in record[r].quiet \/ record[r].changed >= export[Full].created
        BY <2>1, <4>1 DEF ExportsInv, Seen
      <4>. QED
        BY <1>5, <4>1, <4>2
    <3>. QED
      BY <3>1, <3>2
  <2>. QED
    BY <1>1, <2>1 DEF Seen, Collected
<1>7. Passed(r)'
  <2>1. Passed(r)
    BY DEF ExportsInv
  <2>2. task[Incremental].passed[r] <= new.version
    BY <1>5, <2>1 DEF Passed
  <2>3. ASSUME Collected(r), NEW k \in task[Full].taken[r] + 1 .. task[Incremental].passed[r]
        PROVE  k \in new.quiet
    <3>1. k \in 1..record[r].version /\ k \in record[r].quiet
      BY <1>5, <2>1, <2>3 DEF Passed
    <3>. QED
      BY <3>1
  <2>. QED
    BY <1>1, <2>2, <2>3 DEF Passed, Collected
<1>. QED
  BY <1>2, <1>3, <1>4, <1>6, <1>7 DEF ExportsInv

\* A change that leaves the dates of the row.
LEMMA UndatedKeeps ==
    ASSUME ExportsInv, NEW r \in Rows, ChangeUndated(r)
    PROVE  ExportsInv'
<1>. DEFINE new == [record[r] EXCEPT !.version = record[r].version + 1,
                                     !.quiet = record[r].quiet \cup {record[r].version + 1}]
<1>1. record' = [record EXCEPT ![r] = new] /\ UNCHANGED <<writer, now, export, task, deletion>>
  BY DEF ChangeUndated
<1>2. record[r] \in RecordRow /\ record[r].version + 1 \in Nat /\ record[r].quiet \in SUBSET Nat
  BY ExportsTypes
<1>3. /\ new \in RecordRow /\ new.version = record[r].version + 1 /\ new.changed = record[r].changed
      /\ new.quiet = record[r].quiet \cup {new.version}
  <2>1. \A n \in Nat, q \in SUBSET Nat : [record[r] EXCEPT !.version = n, !.quiet = q] \in RecordRow
    BY <1>2 DEF RecordRow
  <2>2. record[r].quiet \cup {record[r].version + 1} \in SUBSET Nat
    BY <1>2
  <2>3. new \in RecordRow
    BY <1>2, <2>1, <2>2
  <2>. QED
    BY <1>2, <2>3 DEF RecordRow
<1>4. record[r].changed <= now /\ record[r].changed \in Nat
  BY ExportsTypes DEF ExportsInv, DatesArePast
<1>. HIDE DEF new
<1>5. new.changed <= now /\ record[r].changed <= new.changed /\ new.version \in new.quiet
      /\ \A k \in 1..record[r].version : k \in new.quiet \/ k \notin record[r].quiet
  BY <1>3, <1>4
<1>6. UNCHANGED <<now, export, task, deletion>> /\ writer' \subseteq writer
  BY <1>1
<1>. QED
  BY <1>1, <1>3, <1>5, <1>6, VersionsKeep

\* A transaction commits: its version is quiet if the clock has moved on, and hides the
\* others if the row has a later date.
LEMMA CommittingKeeps == ASSUME ExportsInv, CommitWrite PROVE ExportsInv'
<1>1. PICK w \in writer :
          /\ record' = [record EXCEPT ![w.row] =
                           [version |-> record[w.row].version + 1,
                            created |-> IF record[w.row].version = 0 THEN w.at ELSE record[w.row].created,
                            changed |-> w.at, quiet |-> Hidden(w, record[w.row])]]
          /\ writer' = writer \ {w}
  BY DEF CommitWrite
<1>2. w.row \in Rows /\ w.at \in Nat /\ w.at <= now /\ now \in Nat
  BY ExportsTypes DEF ExportsInv, DatesArePast
<1>3. PICK r \in Rows : r = w.row
  BY <1>2
<1>. DEFINE quiet   == Hidden(w, record[r])
            created == IF record[r].version = 0 THEN w.at ELSE record[r].created
            new     == [version |-> record[r].version + 1, created |-> created, changed |-> w.at, quiet |-> quiet]
<1>4. record' = [record EXCEPT ![r] = new] /\ UNCHANGED <<now, export, task, deletion>> /\ writer' \subseteq writer
  BY <1>1, <1>3 DEF CommitWrite
<1>5. /\ record[r].version \in Nat /\ record[r].changed \in Nat /\ record[r].quiet \in SUBSET Nat
      /\ created \in Nat
  BY <1>2, ExportsTypes DEF RecordRow
<1>6. /\ quiet \in SUBSET Nat /\ (record[r].version + 1 \in quiet \/ w.at = now)
      /\ \A k \in 1..record[r].version : k \in quiet \/ k \notin record[r].quiet
      /\ \A k \in 1..record[r].version : k \in quiet \/ record[r].changed <= w.at
  <2>1. CASE w.at = now
    <3>1. quiet = record[r].quiet /\ record[r].changed <= w.at
      BY <2>1 DEF Hidden, ExportsInv, DatesArePast
    <3>. QED
      BY <1>5, <2>1, <3>1
  <2>2. CASE w.at # now /\ w.at < record[r].changed
    <3>1. quiet = 1..record[r].version + 1
      BY <2>2 DEF Hidden
    <3>. QED
      BY <1>5, <3>1
  <2>3. CASE w.at # now /\ ~(w.at < record[r].changed)
    <3>1. quiet = record[r].quiet \cup {record[r].version + 1}
      BY <2>3 DEF Hidden
    <3>. QED
      BY <1>2, <1>5, <2>3, <3>1
  <2>. QED
    BY <2>1, <2>2, <2>3
<1>. HIDE DEF quiet, created
<1>7. new \in RecordRow /\ new.version = record[r].version + 1 /\ new.changed = w.at /\ new.quiet = quiet
  BY <1>2, <1>5, <1>6 DEF RecordRow
<1>. HIDE DEF new
<1>. QED
  BY <1>2, <1>4, <1>6, <1>7, VersionsKeep

\* The rows, their transactions and the clock.
LEMMA RowsKeep ==
    ASSUME ExportsInv,
           (\E r \in Rows : BeginWrite(r) \/ EditDocument(r) \/ ChangeRelated(r)) \/ CommitWrite \/ Pass
    PROVE  ExportsInv'
<1>1. ASSUME NEW r \in Rows, BeginWrite(r)
      PROVE  ExportsInv'
  <2>1. writer' = writer \cup {[row |-> r, at |-> now]} /\ UNCHANGED <<record, now, export, task, deletion>>
    BY <1>1 DEF BeginWrite
  <2>2. DatesArePast'
    <3>1. \A w \in writer' : w \in writer \/ (w.row = r /\ w.at = now)
      BY <2>1
    <3>. QED
      BY <2>1, <3>1, ExportsTypes DEF ExportsInv, DatesArePast
  <2>3. ExportsType' /\ TasksAreOfExports' /\ CollectsAll'
    BY <2>1 DEF ExportsInv, ExportsType, TasksAreOfExports, CollectsAll
  <2>4. \A q \in Rows : Seen(q)' /\ Passed(q)'
    BY <2>1 DEF ExportsInv, Seen, Passed, Collected
  <2>. QED
    BY <2>1, <2>2, <2>3, <2>4 DEF ExportsInv
<1>2. ASSUME NEW r \in Rows, EditDocument(r) \/ ChangeRelated(r)
      PROVE  ExportsInv'
  BY <1>2, UndatedKeeps DEF EditDocument, ChangeRelated
<1>3. CASE Pass
  <2>1. now' = now + 1 /\ now \in Nat /\ UNCHANGED <<record, writer, export, task, deletion>>
    BY <1>3, ExportsTypes DEF Pass
  <2>2. DatesArePast'
    BY <2>1, ExportsTypes DEF ExportsInv, DatesArePast
  <2>3. TasksAreOfExports'
    BY <2>1, ExportsTypes DEF ExportsInv, TasksAreOfExports
  <2>. QED
    BY <2>1, <2>2, <2>3 DEF ExportsInv, ExportsType, CollectsAll, Seen, Passed, Collected
<1>. QED
  BY <1>1, <1>2, <1>3, CommittingKeeps

\* A job or its task moves on, and takes nothing.
LEMMA JobsMoveOn ==
    ASSUME ExportsInv, UNCHANGED <<record, writer, now>>,
           export' \in [Exports -> ExportRow], task' \in [Exports -> Task], deletion' \in [Exports -> Deletion],
           \A e \in Exports :
              /\ export'[e].since = export[e].since /\ export'[e].created = export[e].created
              /\ export'[e].status = "none" <=> export[e].status = "none"
              /\ task'[e].next = task[e].next /\ task'[e].taken = task[e].taken /\ task'[e].passed = task[e].passed
              /\ task'[e].state # "none" \/ deletion'[e].step # "none" => export[e].status # "none",
           task'[Full].state = "written" => task[Full].state = "written" \/ task[Full].next > Tables,
           export'[Full].status = "complete" => task[Full].state = "written" \/ export[Full].status = "complete"
    PROVE  ExportsInv'
<1>1. ExportsType' /\ DatesArePast'
  BY ExportsTypes DEF ExportsType, ExportsInv, DatesArePast
<1>2. TasksAreOfExports'
  BY ExportsAre DEF ExportsInv, TasksAreOfExports
<1>3. CollectsAll'
  BY ExportsAre DEF ExportsInv, CollectsAll
<1>4. \A r \in Rows : Seen(r)' /\ Passed(r)'
  BY ExportsAre DEF ExportsInv, Seen, Passed, Collected
<1>. QED
  BY <1>1, <1>2, <1>3, <1>4 DEF ExportsInv

\* One job is written, as another status.
LEMMA StatusIs ==
    ASSUME ExportsInv, NEW e \in Exports, NEW status \in ExportStatus \ {"none"}, export[e].status # "none",
           export' = export \/ export' = [export EXCEPT ![e].status = status]
    PROVE  /\ export' \in [Exports -> ExportRow]
           /\ \A f \in Exports :
                /\ export'[f].since = export[f].since /\ export'[f].created = export[f].created
                /\ export'[f].status = "none" <=> export[f].status = "none"
                /\ export'[f].status = export[f].status \/ (f = e /\ export'[f].status = status)
<1>. DEFINE row == [export[e] EXCEPT !.status = status]
<1>1. /\ row \in ExportRow /\ row.status = status
      /\ row.since = export[e].since /\ row.created = export[e].created
  BY ExportsTypes DEF ExportRow
<1>2. export' = export \/ export' = [export EXCEPT ![e] = row]
  OBVIOUS
<1>. HIDE DEF row
<1>. QED
  BY <1>1, <1>2, ExportsTypes

\* One task moves to another state.
LEMMA StateIs ==
    ASSUME ExportsInv, NEW e \in Exports, NEW state \in {"none", "scheduled", "collecting", "written", "ended"},
           task' = task \/ task' = [task EXCEPT ![e].state = state]
    PROVE  /\ task' \in [Exports -> Task]
           /\ \A f \in Exports :
                /\ task'[f].next = task[f].next /\ task'[f].taken = task[f].taken /\ task'[f].passed = task[f].passed
                /\ task'[f].state = task[f].state \/ (f = e /\ task'[f].state = state)
<1>. DEFINE new == [task[e] EXCEPT !.state = state]
<1>1. /\ new \in Task /\ new.state = state
      /\ new.next = task[e].next /\ new.taken = task[e].taken /\ new.passed = task[e].passed
  <2>1. task[e] \in Task
    BY ExportsTypes
  <2>. QED
    BY <2>1 DEF Task
<1>2. task' = task \/ task' = [task EXCEPT ![e] = new]
  OBVIOUS
<1>. HIDE DEF new
<1>. QED
  BY <1>1, <1>2, ExportsTypes

\* One job, or its task, moves on.
LEMMA JobMovesOn ==
    ASSUME ExportsInv, NEW e \in Exports, export[e].status # "none", UNCHANGED <<record, writer, now>>,
           NEW state \in {"none", "scheduled", "collecting", "written", "ended"},
           NEW status \in ExportStatus \ {"none"},
           task' = task \/ task' = [task EXCEPT ![e].state = state],
           export' = export \/ export' = [export EXCEPT ![e].status = status],
           deletion' \in [Exports -> Deletion],
           \A f \in Exports : deletion'[f].step # "none" => f = e \/ deletion'[f] = deletion[f],
           e = Full /\ state = "written" => task[Full].next > Tables,
           e = Full /\ status = "complete" => task[Full].state = "written"
    PROVE  ExportsInv'
<1>1. /\ export' \in [Exports -> ExportRow]
      /\ \A f \in Exports :
           /\ export'[f].since = export[f].since /\ export'[f].created = export[f].created
           /\ export'[f].status = "none" <=> export[f].status = "none"
           /\ export'[f].status = export[f].status \/ (f = e /\ export'[f].status = status)
  BY StatusIs
<1>2. /\ task' \in [Exports -> Task]
      /\ \A f \in Exports :
           /\ task'[f].next = task[f].next /\ task'[f].taken = task[f].taken /\ task'[f].passed = task[f].passed
           /\ task'[f].state = task[f].state \/ (f = e /\ task'[f].state = state)
  BY StateIs
<1>3. ASSUME NEW f \in Exports
      PROVE  task'[f].state # "none" \/ deletion'[f].step # "none" => export[f].status # "none"
  BY <1>2 DEF ExportsInv, TasksAreOfExports
<1>4. task'[Full].state = "written" => task[Full].state = "written" \/ task[Full].next > Tables
  BY <1>2, ExportsAre
<1>5. export'[Full].status = "complete" => task[Full].state = "written" \/ export[Full].status = "complete"
  BY <1>1, ExportsAre
<1>. QED
  BY <1>1, <1>2, <1>3, <1>4, <1>5, JobsMoveOn

\* The steps of a job that collect nothing.
LEMMA MovingKeeps ==
    ASSUME ExportJobsAssumption, ExportsInv, NEW e \in Exports,
           \/ ScheduleExport(e) \/ StartExport(e) \/ WriteFile(e) \/ CompleteExport(e) \/ FailExport(e)
           \/ AskDeletion(e) \/ Unlink(e) \/ CommitDeletion(e)
    PROVE  ExportsInv'
<1>1. UNCHANGED <<record, writer, now>>
  BY DEF ScheduleExport, StartExport, WriteFile, CompleteExport, FailExport, AskDeletion, Unlink, CommitDeletion
<1>2. export[e].status # "none"
  BY DEF ScheduleExport, StartExport, WriteFile, CompleteExport, FailExport, AskDeletion, Unlink, CommitDeletion,
         ExportsInv, TasksAreOfExports
<1>3. /\ deletion' \in [Exports -> Deletion]
      /\ \A f \in Exports : deletion'[f].step # "none" => f = e \/ deletion'[f] = deletion[f]
  <2>1. CASE AskDeletion(e) \/ CommitDeletion(e)
    <3>1. \E new \in Deletion : deletion' = [deletion EXCEPT ![e] = new]
      BY <2>1 DEF AskDeletion, CommitDeletion, NoDeletion, Deletion
    <3>. QED
      BY <3>1, ExportsTypes
  <2>2. CASE Unlink(e)
    <3>1. deletion' = [deletion EXCEPT ![e] = [deletion[e] EXCEPT !.step = "unlinked"]]
      BY <2>2 DEF Unlink
    <3>2. [deletion[e] EXCEPT !.step = "unlinked"] \in Deletion
      BY ExportsTypes DEF Deletion
    <3>. QED
      BY <3>1, <3>2, ExportsTypes
  <2>3. CASE ~(AskDeletion(e) \/ CommitDeletion(e) \/ Unlink(e))
    BY <2>3, ExportsTypes DEF ScheduleExport, StartExport, WriteFile, CompleteExport, FailExport
  <2>. QED
    BY <2>1, <2>2, <2>3
<1>4. {"failed", "complete", "processing", "deleted"} \subseteq ExportStatus \ {"none"}
  BY DEF ExportStatus
<1>5. CASE ScheduleExport(e)
  <2>1. task' = [task EXCEPT ![e].state = "scheduled"] /\ export' = export
    BY <1>5 DEF ScheduleExport
  <2>. QED
    BY <1>1, <1>2, <1>3, <1>4, <2>1, JobMovesOn
<1>6. CASE StartExport(e)
  <2>1. CASE task' = [task EXCEPT ![e].state = "ended"] /\ export' = export
    BY <1>1, <1>2, <1>3, <1>4, <2>1, JobMovesOn
  <2>2. CASE task' = [task EXCEPT ![e].state = "collecting"] /\ export' = [export EXCEPT ![e].status = "processing"]
    BY <1>1, <1>2, <1>3, <1>4, <2>2, JobMovesOn
  <2>. QED
    BY <1>6, <2>1, <2>2 DEF StartExport
<1>7. CASE WriteFile(e)
  <2>1. task' = [task EXCEPT ![e].state = "written"] /\ export' = export /\ task[e].next > Tables
    BY <1>7 DEF WriteFile
  <2>. QED
    BY <1>1, <1>2, <1>3, <1>4, <2>1, JobMovesOn
<1>8. CASE CompleteExport(e) \/ FailExport(e)
  <2>1. export[e].status = "deleted" => [export EXCEPT ![e].status = "deleted"] = export
    BY ExportsTypes DEF ExportRow
  <2>2. /\ task' = [task EXCEPT ![e].state = "ended"]
        /\ \/ export' = export
           \/ export' = [export EXCEPT ![e].status = "failed"]
           \/ export' = [export EXCEPT ![e].status = "complete"] /\ task[e].state = "written"
    BY <1>8, <2>1 DEF CompleteExport, FailExport
  <2>3. CASE export' = export \/ export' = [export EXCEPT ![e].status = "failed"]
    BY <1>1, <1>2, <1>3, <1>4, <2>2, <2>3, JobMovesOn
  <2>4. CASE export' = [export EXCEPT ![e].status = "complete"] /\ task[e].state = "written"
    BY <1>1, <1>2, <1>3, <1>4, <2>2, <2>4, JobMovesOn
  <2>. QED
    BY <2>2, <2>3, <2>4
<1>9. CASE AskDeletion(e) \/ Unlink(e)
  <2>1. UNCHANGED <<export, task>>
    BY <1>9 DEF AskDeletion, Unlink
  <2>. QED
    BY <1>1, <1>2, <1>3, <1>4, <2>1, JobMovesOn
<1>10. CASE CommitDeletion(e)
  <2>1. export' = [export EXCEPT ![e].status = "deleted"] /\ task' = task
    BY <1>10 DEF CommitDeletion
  <2>. QED
    BY <1>1, <1>2, <1>3, <1>4, <2>1, JobMovesOn
<1>. QED
  BY <1>5, <1>6, <1>7, <1>8, <1>9, <1>10

\* An export is created, the second with a date that is not after the first.
LEMMA CreatingKeeps ==
    ASSUME ExportJobsAssumption, ExportsInv, NEW e \in Exports, Create(e)
    PROVE  ExportsInv'
<1>1. PICK since \in IF e = Full THEN {0} ELSE 0..export[Full].created :
          export' = [export EXCEPT ![e] = [status |-> "pending", since |-> since, created |-> now]]
  BY DEF Create
<1>2. /\ UNCHANGED <<record, writer, now, task, deletion>> /\ export[e].status = "none"
      /\ e = Incremental => export[Full].status # "none"
  BY DEF Create
<1>3. /\ since \in Nat /\ (e = Full => since = 0) /\ (e = Incremental => since <= export[Full].created)
      /\ e = Full \/ e = Incremental
  BY ExportsAre, ExportsTypes DEF Exports
<1>. DEFINE new == [status |-> "pending", since |-> since, created |-> now]
<1>4. new \in ExportRow /\ new.status = "pending" /\ new.since = since /\ new.created = now
  BY <1>3, ExportsTypes DEF ExportRow, ExportStatus
<1>5. export' = [export EXCEPT ![e] = new]
  BY <1>1
<1>. HIDE DEF new
<1>6. export'[e] = new /\ \A f \in Exports \ {e} : export'[f] = export[f]
  BY <1>5, ExportsTypes
<1>7. ExportsType' /\ DatesArePast'
  BY <1>2, <1>4, <1>5, ExportsTypes DEF ExportsType, ExportsInv, DatesArePast
<1>8. e = Full => export[Incremental].status = "none"
  BY <1>2 DEF ExportsInv, TasksAreOfExports
<1>9. TasksAreOfExports'
  <2>1. /\ now <= now /\ \A f \in Exports :
             /\ export'[f].created <= now
             /\ task[f].state # "none" \/ deletion[f].step # "none" => export'[f].status # "none"
    BY <1>4, <1>6, ExportsTypes DEF ExportsInv, TasksAreOfExports
  <2>2. CASE e = Full
    BY <1>2, <1>3, <1>4, <1>6, <1>8, <2>1, <2>2, ExportsAre DEF ExportsInv, TasksAreOfExports
  <2>3. CASE e = Incremental
    BY <1>2, <1>3, <1>4, <1>6, <2>1, <2>3, ExportsAre DEF ExportsInv, TasksAreOfExports
  <2>. QED
    BY <1>3, <2>2, <2>3
<1>10. CollectsAll'
  BY <1>2, <1>4, <1>6, ExportsAre DEF ExportsInv, CollectsAll
<1>11. ASSUME NEW r \in Rows PROVE Seen(r)' /\ Passed(r)'
  <2>1. Passed(r)'
    BY <1>2 DEF ExportsInv, Passed, Collected
  <2>2. CASE e = Full
    <3>1. task[Full].next = 1 /\ TableOf[r] \in 1..Tables /\ Tables \in Nat
      BY <1>2, <2>2 DEF ExportsInv, TasksAreOfExports, ExportJobsAssumption
    <3>2. ~(TableOf[r] < task[Full].next)
      BY <3>1
    <3>. QED
      BY <1>2, <2>1, <3>2 DEF Seen, Collected
  <2>3. CASE e = Incremental
    <3>1. export'[Full] = export[Full] /\ Seen(r)
      BY <1>6, <2>3, ExportsAre DEF ExportsInv
    <3>. QED
      BY <1>2, <2>1, <3>1 DEF Seen, Collected
  <2>. QED
    BY <1>3, <2>1, <2>2, <2>3
<1>. QED
  BY <1>7, <1>9, <1>10, <1>11 DEF ExportsInv

\* A table is collected: its rows are taken, or are passed over because of their dates.
LEMMA CollectingKeeps ==
    ASSUME ExportJobsAssumption, ExportsInv, NEW e \in Exports, CollectTable(e)
    PROVE  ExportsInv'
<1>. DEFINE rows   == {r \in Rows : TableOf[r] = task[e].next /\ record[r].version # 0}
            chosen == Selected(e, rows)
            taken  == [r \in Rows |-> IF r \in chosen THEN record[r].version ELSE task[e].taken[r]]
            passed == [r \in Rows |-> IF r \in rows \ chosen THEN record[r].version ELSE task[e].passed[r]]
            new    == [state |-> "collecting", next |-> task[e].next + 1, taken |-> taken, passed |-> passed]
<1>1. /\ task' = [task EXCEPT ![e] = new] /\ UNCHANGED <<record, writer, now, export, deletion>>
      /\ task[e].state = "collecting"
  BY DEF CollectTable
<1>2. \A r \in Rows : /\ r \in chosen => r \in rows
                      /\ r \in rows \ chosen => ~(record[r].changed >= export[e].since)
  BY DEF Selected, Since
<1>3. /\ taken \in [Rows -> Nat] /\ passed \in [Rows -> Nat]
      /\ \A r \in Rows : r \in chosen => taken[r] = record[r].version /\ passed[r] = task[e].passed[r]
      /\ \A r \in Rows : r \in rows \ chosen => taken[r] = task[e].taken[r] /\ passed[r] = record[r].version
      /\ \A r \in Rows : r \notin rows => taken[r] = task[e].taken[r] /\ passed[r] = task[e].passed[r]
  <2>. HIDE DEF chosen, rows
  <2>1. \A r \in Rows : record[r].version \in Nat /\ task[e].taken[r] \in Nat /\ task[e].passed[r] \in Nat
    BY ExportsTypes
  <2>2. \A r \in Rows : /\ taken[r]  = IF r \in chosen THEN record[r].version ELSE task[e].taken[r]
                        /\ passed[r] = IF r \in rows \ chosen THEN record[r].version ELSE task[e].passed[r]
    OBVIOUS
  <2>3. taken \in [Rows -> Nat] /\ passed \in [Rows -> Nat]
    BY <2>1
  <2>. HIDE DEF taken, passed
  <2>4. \A r \in Rows : r \in chosen => taken[r] = record[r].version /\ passed[r] = task[e].passed[r]
    BY <2>2
  <2>5. \A r \in Rows : r \in rows \ chosen => taken[r] = task[e].taken[r] /\ passed[r] = record[r].version
    BY <2>2
  <2>6. \A r \in Rows : r \notin rows => taken[r] = task[e].taken[r] /\ passed[r] = task[e].passed[r]
    BY <1>2, <2>2
  <2>. QED
    BY <2>3, <2>4, <2>5, <2>6
<1>. HIDE DEF chosen, taken, passed
<1>4. new \in Task /\ new.state = "collecting" /\ new.next = task[e].next + 1 /\ new.taken = taken /\ new.passed = passed
  BY <1>3, ExportsTypes DEF Task
<1>. HIDE DEF new
<1>5. task'[e] = new /\ (\A f \in Exports \ {e} : task'[f] = task[f]) /\ task' \in [Exports -> Task]
  BY <1>1, <1>4, ExportsTypes
<1>6. ExportsType' /\ DatesArePast'
  BY <1>1, <1>5 DEF ExportsInv, ExportsType, DatesArePast
<1>7. /\ export[e].status # "none" /\ export[Full].since = 0
      /\ e = Incremental => export[Incremental].since <= export[Full].created
  BY <1>1 DEF ExportsInv, TasksAreOfExports
<1>8. TasksAreOfExports'
  BY <1>1, <1>4, <1>5, <1>7, ExportsAre DEF ExportsInv, TasksAreOfExports
<1>9. e = Full => rows \subseteq chosen
  BY <1>2, <1>7, ExportsTypes
<1>10. CollectsAll'
  <2>1. /\ task[Full].next \in Nat /\ Tables \in Nat
        /\ task'[Full].next = task[Full].next \/ task'[Full].next = task[Full].next + 1
        /\ task'[Full].state = task[Full].state \/ task'[Full].state = "collecting"
    BY <1>4, <1>5, ExportsAre, ExportsTypes DEF Task, ExportJobsAssumption
  <2>. QED
    BY <1>1, <2>1 DEF ExportsInv, CollectsAll
<1>11. ASSUME NEW r \in Rows PROVE Seen(r)' /\ Passed(r)'
  <2>0. /\ record[r].version \in Nat /\ record[r].changed \in Nat /\ export[Full].created \in Nat
        /\ export[Incremental].since \in Nat /\ task[Full].taken[r] \in Nat /\ task[Incremental].passed[r] \in Nat
        /\ task[Full].next \in Nat /\ TableOf[r] \in Nat /\ Seen(r) /\ Passed(r)
    BY ExportsAre, ExportsTypes DEF ExportsInv, Task, ExportJobsAssumption
  <2>1. CASE e = Full
    <3>1. /\ task'[Full].taken[r] = taken[r] /\ task'[Incremental] = task[Incremental]
          /\ task'[Full].next = task[Full].next + 1
      BY <1>4, <1>5, <2>1, ExportsAre
    <3>2. CASE TableOf[r] = task[Full].next
      <4>1. taken[r] >= record[r].version /\ taken[r] \in Nat
        <5>1. CASE record[r].version = 0
          BY <1>3, <2>0, <5>1
        <5>2. CASE record[r].version # 0
          BY <1>3, <1>9, <2>0, <2>1, <3>2, <5>2
        <5>. QED
          BY <5>1, <5>2
      <4>2. task[Incremental].passed[r] <= record[r].version
        BY <2>0 DEF Passed
      <4>. QED
        BY <1>1, <2>0, <3>1, <4>1, <4>2 DEF Seen, Passed
    <3>3. CASE TableOf[r] # task[Full].next
      <4>1. taken[r] = task[Full].taken[r]
        BY <1>3, <2>1, <3>3
      <4>2. Collected(r)' => Collected(r)
        BY <2>0, <3>1, <3>3 DEF Collected
      <4>. QED
        BY <1>1, <2>0, <3>1, <4>1, <4>2 DEF Seen, Passed
    <3>. QED
      BY <3>2, <3>3
  <2>2. CASE e = Incremental
    <3>1. task'[Incremental].passed[r] = passed[r] /\ task'[Full] = task[Full]
      BY <1>4, <1>5, <2>2, ExportsAre
    <3>2. CASE passed[r] = task[Incremental].passed[r]
      BY <1>1, <2>0, <3>1, <3>2 DEF Seen, Passed, Collected
    <3>3. CASE passed[r] = record[r].version /\ record[r].changed < export[Incremental].since
      BY <1>1, <1>7, <2>0, <2>2, <3>1, <3>3 DEF Seen, Passed, Collected
    <3>. QED
      BY <1>2, <1>3, <2>0, <2>2, <3>2, <3>3
  <2>. QED
    BY <2>1, <2>2 DEF Exports
<1>. QED
  BY <1>6, <1>8, <1>10, <1>11 DEF ExportsInv

\* The process stops, with its tasks and requests.
LEMMA StoppingKeeps == ASSUME ExportsInv, StopExports PROVE ExportsInv'
<1>1. /\ UNCHANGED <<record, writer, now, export>> /\ deletion' = [e \in Exports |-> NoDeletion]
      /\ task' = [e \in Exports |-> IF task[e].state \in {"none", "ended"} THEN task[e]
                                    ELSE [task[e] EXCEPT !.state = "ended"]]
  BY DEF StopExports
<1>2. NoDeletion \in Deletion /\ NoDeletion.step = "none"
  BY DEF NoDeletion, Deletion
<1>3. ASSUME NEW e \in Exports
      PROVE  /\ task'[e] \in Task /\ task'[e].next = task[e].next
             /\ task'[e].taken = task[e].taken /\ task'[e].passed = task[e].passed
             /\ task'[e].state = task[e].state \/ (task'[e].state = "ended" /\ task[e].state # "none")
  <2>1. task[e] \in Task
    BY ExportsTypes
  <2>2. CASE task[e].state \in {"none", "ended"}
    BY <1>1, <2>1, <2>2
  <2>3. CASE task[e].state \notin {"none", "ended"}
    <3>1. task'[e] = [task[e] EXCEPT !.state = "ended"]
      BY <1>1, <2>3
    <3>. QED
      BY <2>1, <2>3, <3>1 DEF Task
  <2>. QED
    BY <2>2, <2>3
<1>4. task' \in [Exports -> Task] /\ deletion' \in [Exports -> Deletion]
  BY <1>1, <1>2, <1>3
<1>5. ASSUME NEW e \in Exports
      PROVE  task'[e].state # "none" \/ deletion'[e].step # "none" => export[e].status # "none"
  BY <1>1, <1>2, <1>3 DEF ExportsInv, TasksAreOfExports
<1>6. task'[Full].state = "written" => task[Full].state = "written"
  BY <1>3, ExportsAre
<1>. QED
  BY <1>1, <1>3, <1>4, <1>5, <1>6, JobsMoveOn, ExportsTypes

\* Every step keeps the invariant.
LEMMA ExportsInvNext ==
    ASSUME ExportJobsAssumption, ExportsInv, [ExportJobsNext]_exportJobsVars
    PROVE  ExportsInv'
<1>1. CASE UNCHANGED exportJobsVars
  BY <1>1 DEF exportJobsVars, ExportsInv, ExportsType, DatesArePast, TasksAreOfExports, CollectsAll, Seen, Passed, Collected
<1>2. ASSUME NEW e \in Exports,
             \/ Create(e) \/ ScheduleExport(e) \/ StartExport(e) \/ CollectTable(e)
             \/ WriteFile(e) \/ CompleteExport(e) \/ FailExport(e)
             \/ AskDeletion(e) \/ Unlink(e) \/ CommitDeletion(e)
      PROVE  ExportsInv'
  BY <1>2, CreatingKeeps, CollectingKeeps, MovingKeeps
<1>. QED
  BY <1>1, <1>2, RowsKeep, StoppingKeeps DEF ExportJobsNext

\* For any rows, tables and clock: what _apply_since leaves out of the second export, the
\* first one has, or it came in a way that the row's dates do not tell: by the edit of a
\* document, of another row that the record repeats, or in a transaction that took longer
\* than a tick of the clock, or was hidden by one.
THEOREM ExportsMissNothing ==
    ASSUME ExportJobsAssumption PROVE ExportJobsSpec => []NothingFallsBetween
<1>1. ExportJobsInit => ExportsInv
  BY ExportsInvInit
<1>2. ExportsInv /\ [ExportJobsNext]_exportJobsVars => ExportsInv'
  BY ExportsInvNext
<1>3. ExportsInv => NothingFallsBetween
  BY ExportsInvKeeps
<1>. QED
  BY <1>1, <1>2, <1>3, PTL DEF ExportJobsSpec

-----------------------------------------------------------------------------
(* The imports of rows: each is made once. *)

AskSteps  == {"none", "validate", "validating", "execute", "importing"}
RunStates == {"none", "scheduled", "loaded", "applying", "ended", "conflict", "lost"}

ImportJobsType ==
    /\ file \in Files /\ import \in ImportStatus
    /\ asked \in [Clients -> [step : AskSteps, loaded : ImportStatus \cup {"none"}]]
    /\ run \in [Runs -> [state : RunStates, loaded : ImportStatus \cup {"none"}, next : Nat \ {0}]]
    /\ \A r \in Runs : run[r].state \in {"none", "scheduled", "loaded"} => run[r].next = 1
    /\ copied \in [Keys -> Nat]

\* What is under way: one request, or one task.
OneUnderWay ==
    /\ \A c, d \in Clients : asked[c].step # "none" /\ asked[d].step # "none" => c = d
    /\ \A q, r \in Active : q = r
    /\ \A c \in Clients : asked[c].step # "none" => Active = {}

Before(i)  == {j \in DOMAIN file : j < i}
NoneCopied == \A k \in Keys : copied[k] = 0

\* A job has copied no row until it is importing, and then the rows before the task's next.
CopiedSoFar ==
    /\ import \notin {"importing", "complete"} => NoneCopied /\ Active = {}
    /\ \A c \in Clients :
          /\ asked[c].step \in {"validate", "execute"} => asked[c].loaded = import
          /\ asked[c].step \in {"validate", "validating", "execute"} => import \notin {"importing", "complete"}
          /\ asked[c].step = "importing" => import = "importing" /\ NoneCopied
    /\ \A r \in Active :
          /\ import = "importing"
          /\ run[r].state # "scheduled" => run[r].loaded = "importing"
          /\ run[r].state # "applying" => NoneCopied
          /\ run[r].state = "applying" => \A k \in Keys : copied[k] = Times(k, Before(run[r].next))

CopiedOnce == \A k \in Keys : copied[k] <= Times(k, DOMAIN file)

RowsInv == ImportJobsType /\ (raced \/ reopened \/ (OneUnderWay /\ CopiedSoFar /\ CopiedOnce))

LEMMA RowsInvInit == ASSUME ImportJobsAssumption, ImportJobsInit PROVE RowsInv
<1>1. /\ file \in Files /\ import = "pending" /\ copied = [k \in Keys |-> 0]
      /\ asked = [c \in Clients |-> NoRequest] /\ run = [r \in Runs |-> NotStarted]
  BY DEF ImportJobsInit
<1>2. /\ NoRequest \in [step : AskSteps, loaded : ImportStatus \cup {"none"}] /\ NoRequest.step = "none"
      /\ NotStarted \in [state : RunStates, loaded : ImportStatus \cup {"none"}, next : Nat \ {0}]
      /\ NotStarted.state = "none" /\ NotStarted.next = 1
  BY DEF NoRequest, NotStarted, AskSteps, RunStates
<1>3. ImportJobsType
  BY <1>1, <1>2 DEF ImportJobsType, ImportStatus
<1>4. Active = {}
  BY <1>1, <1>2 DEF Active
<1>5. OneUnderWay /\ CopiedSoFar
  BY <1>1, <1>2, <1>4 DEF OneUnderWay, CopiedSoFar, NoneCopied
<1>6. CopiedOnce
  <2>1. \E n \in Nat : DOMAIN file = 1..n
    BY <1>1 DEF Files, ImportJobsAssumption
  <2>2. IsFiniteSet(DOMAIN file)
    BY <2>1, FS_Interval
  <2>3. \A k \in Keys : Times(k, DOMAIN file) \in Nat
    BY <2>2, FS_Subset, FS_CardinalityType DEF Times
  <2>. QED
    BY <1>1, <2>3 DEF CopiedOnce
<1>. QED
  BY <1>3, <1>5, <1>6 DEF RowsInv

\* How often a key is among some rows of the file.
LEMMA CountingRows ==
    ASSUME ImportJobsAssumption, file \in Files, NEW k
    PROVE  /\ \A rows \in SUBSET DOMAIN file : Times(k, rows) \in Nat /\ Times(k, rows) <= Times(k, DOMAIN file)
           /\ \A rows, more \in SUBSET DOMAIN file :
                 rows \cap more = {} => Times(k, rows \cup more) = Times(k, rows) + Times(k, more)
<1>1. IsFiniteSet(DOMAIN file)
  <2>1. \E n \in Nat : DOMAIN file = 1..n
    BY DEF Files, ImportJobsAssumption
  <2>. QED
    BY <2>1, FS_Interval
<1>. DEFINE Among(rows) == {i \in rows : file[i] = k}
<1>2. \A rows \in SUBSET DOMAIN file : Times(k, rows) = Cardinality(Among(rows)) /\ IsFiniteSet(Among(rows))
  <2>1. \A rows \in SUBSET DOMAIN file : Among(rows) \in SUBSET DOMAIN file
    OBVIOUS
  <2>. QED
    BY <1>1, <2>1, FS_Subset DEF Times
<1>3. ASSUME NEW rows \in SUBSET DOMAIN file
      PROVE  Times(k, rows) \in Nat /\ Times(k, rows) <= Times(k, DOMAIN file)
  <2>1. Among(rows) \in SUBSET Among(DOMAIN file)
    OBVIOUS
  <2>2. Cardinality(Among(rows)) \in Nat /\ Cardinality(Among(rows)) <= Cardinality(Among(DOMAIN file))
    <3>. HIDE DEF Among
    <3>. QED
      BY <1>2, <2>1, FS_Subset, FS_CardinalityType
  <2>. QED
    BY <1>2, <2>2
<1>4. ASSUME NEW rows \in SUBSET DOMAIN file, NEW more \in SUBSET DOMAIN file, rows \cap more = {}
      PROVE  Times(k, rows \cup more) = Times(k, rows) + Times(k, more)
  <2>1. /\ Among(rows \cup more) = Among(rows) \cup Among(more) /\ Among(rows) \cap Among(more) = {}
        /\ rows \cup more \in SUBSET DOMAIN file
    BY <1>4
  <2>2. Cardinality(Among(rows) \cup Among(more)) = Cardinality(Among(rows)) + Cardinality(Among(more))
    <3>. HIDE DEF Among
    <3>1. Cardinality(Among(rows)) \in Nat /\ Cardinality(Among(more)) \in Nat
      BY <1>2, FS_CardinalityType
    <3>2. Cardinality(Among(rows) \cup Among(more))
            = Cardinality(Among(rows)) + Cardinality(Among(more)) - Cardinality(Among(rows) \cap Among(more))
      BY <1>2, FS_Union
    <3>3. Cardinality(Among(rows) \cap Among(more)) = 0
      BY <2>1, FS_EmptySet
    <3>. QED
      BY <3>1, <3>2, <3>3
  <2>. QED
    BY <1>2, <2>1, <2>2
<1>. QED
  BY <1>3, <1>4

\* A request begins: nothing else is under way, unless it races.
LEMMA AskingKeepsRows ==
    ASSUME ImportJobsAssumption, RowsInv, NEW c \in Clients, AskValidation(c) \/ AskExecution(c)
    PROVE  RowsInv'
<1>0. /\ ImportJobsType /\ UNCHANGED <<kind, file, table, import, run, copied>> /\ asked[c].step = "none"
      /\ import # "importing"
      /\ \E step \in {"validate", "execute"} : asked' = [asked EXCEPT ![c] = [step |-> step, loaded |-> import]]
  BY DEF RowsInv, AskValidation, AskExecution, AskFor
<1>1. /\ \A d \in Clients \ {c} : asked'[d] = asked[d]
      /\ asked'[c].step \in {"validate", "execute"} /\ asked'[c].loaded = import
      /\ asked' \in [Clients -> [step : AskSteps, loaded : ImportStatus \cup {"none"}]]
  BY <1>0 DEF ImportJobsType, AskSteps
<1>2. ImportJobsType'
  BY <1>0, <1>1 DEF ImportJobsType
<1>3. Active' = Active
  BY <1>0 DEF Active
<1>4. ASSUME ~raced', ~reopened' PROVE OneUnderWay' /\ CopiedSoFar' /\ CopiedOnce'
  <2>1. ~raced /\ Active = {} /\ \A d \in Clients : asked[d].step = "none"
    BY <1>4, Zenon DEF AskValidation, AskExecution, AskFor
  <2>2. ~reopened /\ import # "complete"
    <3>1. CASE AskValidation(c)
      BY <1>4, <3>1, Zenon DEF AskValidation
    <3>2. CASE AskExecution(c)
      <4>1. ~reopened
        BY <1>4, <3>2, Zenon DEF AskExecution
      <4>2. import # "complete"
        BY <3>2 DEF AskExecution
      <4>. QED
        BY <4>1, <4>2
    <3>. QED
      BY <3>1, <3>2
  <2>3. CopiedSoFar /\ CopiedOnce
    BY <2>1, <2>2 DEF RowsInv
  <2>4. OneUnderWay'
    BY <1>1, <1>3, <2>1 DEF OneUnderWay
  <2>5. CopiedSoFar'
    BY <1>0, <1>1, <1>3, <2>1, <2>2, <2>3 DEF CopiedSoFar, NoneCopied
  <2>6. CopiedOnce'
    BY <1>0, <2>3 DEF CopiedOnce, Times
  <2>. QED
    BY <2>4, <2>5, <2>6
<1>. QED
  BY <1>2, <1>4 DEF RowsInv

\* A request goes on, ends or is lost.
LEMMA AnsweringKeepsRows ==
    ASSUME ImportJobsAssumption, RowsInv, NEW c \in Clients,
           MarkValidating(c) \/ FinishValidation(c) \/ MarkImporting(c) \/ LoseRequest(c)
    PROVE  RowsInv'
<1>0. /\ ImportJobsType /\ UNCHANGED <<kind, file, table, run, copied, reopened>> /\ asked[c].step # "none"
      /\ \/ asked[c].step \in {"validate", "validating", "execute"} /\ UNCHANGED raced
         \/ raced'
      /\ raced => raced'
  BY DEF RowsInv, MarkValidating, FinishValidation, MarkImporting, LoseRequest
<1>1. /\ import' \in ImportStatus
      /\ \E new \in [step : AskSteps, loaded : ImportStatus \cup {"none"}] : asked' = [asked EXCEPT ![c] = new]
  <2>0. NoRequest \in [step : AskSteps, loaded : ImportStatus \cup {"none"}] /\ import \in ImportStatus
    BY <1>0 DEF NoRequest, AskSteps, ImportJobsType
  <2>1. CASE MarkValidating(c)
    BY <2>0, <2>1 DEF MarkValidating, Saved, ImportStatus, AskSteps
  <2>2. CASE FinishValidation(c)
    BY <2>0, <2>2 DEF FinishValidation, Saved, ImportStatus
  <2>3. CASE MarkImporting(c)
    BY <2>0, <2>3 DEF MarkImporting, Saved, ImportStatus, AskSteps
  <2>4. CASE LoseRequest(c)
    BY <2>0, <2>4 DEF LoseRequest
  <2>. QED
    BY <2>1, <2>2, <2>3, <2>4
<1>2. /\ \A d \in Clients \ {c} : asked'[d] = asked[d]
      /\ asked' \in [Clients -> [step : AskSteps, loaded : ImportStatus \cup {"none"}]]
  BY <1>0, <1>1 DEF ImportJobsType
<1>3. ImportJobsType'
  BY <1>0, <1>1, <1>2 DEF ImportJobsType
<1>4. Active' = Active
  BY <1>0 DEF Active
<1>5. ASSUME ~raced', ~reopened' PROVE OneUnderWay' /\ CopiedSoFar' /\ CopiedOnce'
  <2>1. OneUnderWay /\ CopiedSoFar /\ CopiedOnce
    BY <1>0, <1>5 DEF RowsInv
  <2>2. Active = {} /\ (\A d \in Clients \ {c} : asked'[d].step = "none") /\ import \notin {"importing", "complete"} /\ NoneCopied
    BY <1>0, <1>2, <1>5, <2>1 DEF OneUnderWay, CopiedSoFar
  <2>3. OneUnderWay'
    BY <1>4, <2>2 DEF OneUnderWay
  <2>4. \/ /\ asked'[c].step \in {"none", "validating"} /\ import' \notin {"importing", "complete"}
        \/ asked'[c].step = "importing" /\ import' = "importing"
    <3>1. CASE MarkValidating(c)
      BY <1>0, <2>2, <3>1 DEF MarkValidating, Saved, ImportJobsType
    <3>2. CASE FinishValidation(c)
      BY <1>0, <2>2, <3>2 DEF FinishValidation, Saved, ImportJobsType, NoRequest
    <3>3. CASE MarkImporting(c)
      <4>1. asked[c].loaded = import
        BY <2>1, <3>3 DEF CopiedSoFar, MarkImporting
      <4>. QED
        BY <1>0, <2>2, <3>3, <4>1 DEF MarkImporting, Saved, ImportJobsType
    <3>4. CASE LoseRequest(c)
      BY <1>5, <3>4 DEF LoseRequest
    <3>. QED
      BY <3>1, <3>2, <3>3, <3>4
  <2>5. NoneCopied'
    BY <1>0, <2>2 DEF NoneCopied
  <2>6. CopiedSoFar'
    BY <1>4, <2>2, <2>4, <2>5 DEF CopiedSoFar
  <2>7. CopiedOnce'
    BY <1>0, <2>1 DEF CopiedOnce, Times
  <2>. QED
    BY <2>3, <2>6, <2>7
<1>. QED
  BY <1>3, <1>5 DEF RowsInv

\* A task is scheduled in place of the request that asked for it.
LEMMA SchedulingKeepsRows ==
    ASSUME ImportJobsAssumption, RowsInv, NEW c \in Clients, Schedule(c)
    PROVE  RowsInv'
<1>0. /\ ImportJobsType /\ UNCHANGED <<kind, file, table, import, copied, raced, reopened>>
      /\ asked[c].step = "importing" /\ asked' = [asked EXCEPT ![c] = NoRequest]
      /\ NoRequest \in [step : AskSteps, loaded : ImportStatus \cup {"none"}] /\ NoRequest.step = "none"
  BY DEF RowsInv, Schedule, NoRequest, AskSteps
<1>1. PICK r \in Runs : run[r].state = "none" /\ run' = [run EXCEPT ![r].state = "scheduled"]
  BY DEF Schedule
<1>2. /\ \A q \in Runs \ {r} : run'[q] = run[q]
      /\ run'[r].state = "scheduled" /\ run'[r].next = 1
      /\ run' \in [Runs -> [state : RunStates, loaded : ImportStatus \cup {"none"}, next : Nat \ {0}]]
  BY <1>0, <1>1 DEF ImportJobsType, RunStates
<1>3. /\ \A d \in Clients \ {c} : asked'[d] = asked[d]
      /\ asked'[c].step = "none"
      /\ asked' \in [Clients -> [step : AskSteps, loaded : ImportStatus \cup {"none"}]]
  BY <1>0 DEF ImportJobsType
<1>4. ImportJobsType'
  BY <1>0, <1>2, <1>3 DEF ImportJobsType
<1>5. ASSUME ~raced', ~reopened' PROVE OneUnderWay' /\ CopiedSoFar' /\ CopiedOnce'
  <2>1. OneUnderWay /\ CopiedSoFar /\ CopiedOnce
    BY <1>0, <1>5 DEF RowsInv
  <2>2. Active = {} /\ (\A d \in Clients : asked'[d].step = "none") /\ import = "importing" /\ NoneCopied
    BY <1>0, <1>3, <2>1 DEF OneUnderWay, CopiedSoFar
  <2>3. Active' = {r}
    BY <1>2, <2>2 DEF Active
  <2>4. OneUnderWay'
    BY <2>2, <2>3 DEF OneUnderWay
  <2>5. NoneCopied' /\ import' = "importing"
    BY <1>0, <2>2 DEF NoneCopied
  <2>6. CopiedSoFar'
    BY <1>2, <2>2, <2>3, <2>5 DEF CopiedSoFar
  <2>7. CopiedOnce'
    BY <1>0, <2>1 DEF CopiedOnce, Times
  <2>. QED
    BY <2>4, <2>6, <2>7
<1>. QED
  BY <1>4, <1>5 DEF RowsInv

\* A task loads its job, and ends with its rows refused, all of them, lost or in conflict;
\* or it applies them.
LEMMA TaskKeepsRows ==
    ASSUME ImportJobsAssumption, RowsInv, NEW r \in Runs,
           LoadJob(r) \/ CheckRows(r) \/ ConflictEndsRun(r) \/ FinishRun(r) \/ LoseRun(r)
    PROVE  RowsInv'
<1>0. /\ ImportJobsType /\ UNCHANGED <<kind, file, table, asked, copied, raced, reopened>> /\ r \in Active
  BY DEF RowsInv, LoadJob, CheckRows, ConflictEndsRun, FinishRun, LoseRun, Active
<1>1. \A how \in {"ended", "conflict", "lost"} :
         [state |-> how, loaded |-> "none", next |-> 1]
            \in [state : {"ended", "conflict", "lost"}, loaded : ImportStatus \cup {"none"}, next : Nat \ {0}]
  OBVIOUS
<1>2. /\ \A q \in Runs \ {r} : run'[q] = run[q]
      /\ run' \in [Runs -> [state : RunStates, loaded : ImportStatus \cup {"none"}, next : Nat \ {0}]]
      /\ \/ run'[r].state \in {"ended", "conflict", "lost"}
         \/ run[r].state = "scheduled" /\ run'[r].state = "loaded" /\ run'[r].loaded = import /\ run'[r].next = 1
         \/ /\ run[r].state = "loaded" /\ run'[r].state = "applying"
            /\ run'[r].loaded = run[r].loaded /\ run'[r].next = 1
  <2>1. CASE \E how \in {"ended", "conflict", "lost"} : run' = RunEnded(r, how)
    BY <1>0, <1>1, <2>1 DEF RunEnded, ImportJobsType, RunStates
  <2>2. CASE LoadJob(r)
    BY <1>0, <2>2 DEF LoadJob, ImportJobsType, RunStates
  <2>3. CASE CheckRows(r) /\ run' = [run EXCEPT ![r].state = "applying"]
    BY <1>0, <2>3 DEF CheckRows, ImportJobsType, RunStates
  <2>. QED
    BY <2>1, <2>2, <2>3 DEF CheckRows, ConflictEndsRun, FinishRun, LoseRun
<1>3. /\ import' \in ImportStatus
      /\ import' # import => run'[r].state = "ended" /\ (import' = "failed" => run[r].state = "loaded")
                             /\ import' \in {"failed", "complete"}
  <2>1. [run EXCEPT ![r] = [state |-> "ended", loaded |-> "none", next |-> 1]][r].state = "ended"
    BY <1>0 DEF ImportJobsType
  <2>. QED
    BY <1>0, <2>1 DEF LoadJob, CheckRows, ConflictEndsRun, FinishRun, LoseRun, Saved, RunEnded, ImportJobsType, ImportStatus
<1>4. ImportJobsType'
  BY <1>0, <1>2, <1>3 DEF ImportJobsType
<1>5. ASSUME ~raced', ~reopened' PROVE OneUnderWay' /\ CopiedSoFar' /\ CopiedOnce'
  <2>1. OneUnderWay /\ CopiedSoFar /\ CopiedOnce
    BY <1>0, <1>5 DEF RowsInv
  <2>2. Active = {r} /\ (\A d \in Clients : asked'[d].step = "none") /\ import = "importing"
    BY <1>0, <2>1 DEF OneUnderWay, CopiedSoFar
  <2>3. Active' \subseteq {r} /\ (run'[r].state \in {"ended", "conflict", "lost"} => Active' = {})
    BY <1>2, <2>2 DEF Active
  <2>4. OneUnderWay'
    BY <2>2, <2>3 DEF OneUnderWay
  <2>5. ASSUME run'[r].state \in {"ended", "conflict", "lost"} PROVE CopiedSoFar'
    <3>1. import' \notin {"importing", "complete"} => NoneCopied'
      BY <1>0, <1>3, <2>1, <2>2 DEF CopiedSoFar, NoneCopied
    <3>2. Active' = {} /\ \A d \in Clients : asked'[d].step = "none"
      BY <2>2, <2>3, <2>5
    <3>. QED
      BY <3>1, <3>2 DEF CopiedSoFar
  <2>6. ASSUME run'[r].state \notin {"ended", "conflict", "lost"} PROVE CopiedSoFar'
    <3>1. import' = "importing" /\ run[r].state # "applying" /\ NoneCopied
      BY <1>0, <1>2, <1>3, <2>1, <2>2, <2>6 DEF CopiedSoFar
    <3>2. NoneCopied'
      BY <1>0, <3>1 DEF NoneCopied
    <3>3. run'[r].state # "scheduled" /\ run'[r].loaded = "importing"
      BY <1>0, <1>2, <2>1, <2>2, <2>6 DEF CopiedSoFar
    <3>4. ASSUME NEW k \in Keys PROVE copied'[k] = Times(k, Before(run[r].next))'
      <4>1. run'[r].next = 1
        BY <1>2, <2>6
      <4>2. \A j \in DOMAIN file : ~(j < 1)
        BY <1>0 DEF ImportJobsType, Files, ImportJobsAssumption
      <4>3. {i \in {j \in DOMAIN file' : j < run'[r].next} : file'[i] = k} = {}
        BY <1>0, <4>1, <4>2
      <4>4. Times(k, Before(run[r].next))' = 0
        BY <4>3, FS_EmptySet DEF Times, Before
      <4>. QED
        BY <3>2, <4>4 DEF NoneCopied
    <3>. QED
      BY <2>2, <2>3, <3>1, <3>2, <3>3, <3>4 DEF CopiedSoFar
  <2>7. CopiedOnce'
    BY <1>0, <2>1 DEF CopiedOnce, Times
  <2>. QED
    BY <2>4, <2>5, <2>6, <2>7
<1>. QED
  BY <1>4, <1>5 DEF RowsInv

\* A batch makes its rows: they are not among those before the task's next.
LEMMA BatchKeepsRows ==
    ASSUME ImportJobsAssumption, RowsInv, NEW r \in Runs, ApplyBatch(r)
    PROVE  RowsInv'
<1>0. /\ ImportJobsType /\ UNCHANGED <<kind, file, import, asked, raced, reopened>> /\ r \in Active
      /\ run[r].state = "applying" /\ run' = [run EXCEPT ![r].next = @ + BatchSize]
      /\ copied' = [k \in Keys |-> copied[k] + Times(k, Batch(r))]
  BY DEF RowsInv, ApplyBatch, Active
<1>1. /\ \A q \in Runs \ {r} : run'[q] = run[q]
      /\ run'[r].state = "applying" /\ run'[r].loaded = run[r].loaded
      /\ run[r].next \in Nat \ {0} /\ run'[r].next = run[r].next + BatchSize
      /\ run' \in [Runs -> [state : RunStates, loaded : ImportStatus \cup {"none"}, next : Nat \ {0}]]
  BY <1>0 DEF ImportJobsType, ImportJobsAssumption
<1>2. Active' = Active
  BY <1>0, <1>1 DEF Active
<1>3. DOMAIN file \in SUBSET Nat
  BY <1>0 DEF ImportJobsType, Files, ImportJobsAssumption
<1>4. /\ Before(run[r].next) \in SUBSET DOMAIN file /\ Batch(r) \in SUBSET DOMAIN file
      /\ Before(run[r].next) \cap Batch(r) = {}
      /\ Before(run'[r].next) = Before(run[r].next) \cup Batch(r)
  <2>1. BatchSize \in Nat \ {0}
    BY DEF ImportJobsAssumption
  <2>2. Before(run[r].next) \in SUBSET DOMAIN file /\ Batch(r) \in SUBSET DOMAIN file
    BY DEF Before, Batch
  <2>3. \A j \in DOMAIN file : ~(j < run[r].next /\ j \in run[r].next .. run[r].next + BatchSize - 1)
    BY <1>1, <1>3, <2>1
  <2>4. \A j \in DOMAIN file :
           j < run[r].next + BatchSize <=> j < run[r].next \/ j \in run[r].next .. run[r].next + BatchSize - 1
    BY <1>1, <1>3, <2>1
  <2>. QED
    BY <1>1, <2>2, <2>3, <2>4 DEF Before, Batch
<1>5. \A k \in Keys :
         /\ Times(k, Batch(r)) \in Nat
         /\ Times(k, Before(run'[r].next)) = Times(k, Before(run[r].next)) + Times(k, Batch(r))
         /\ Times(k, Before(run'[r].next)) <= Times(k, DOMAIN file)
  <2>. SUFFICES ASSUME NEW k \in Keys
                PROVE  /\ Times(k, Batch(r)) \in Nat
                       /\ Times(k, Before(run'[r].next)) = Times(k, Before(run[r].next)) + Times(k, Batch(r))
                       /\ Times(k, Before(run'[r].next)) <= Times(k, DOMAIN file)
    OBVIOUS
  <2>1. file \in Files
    BY <1>0 DEF ImportJobsType
  <2>2. Before(run'[r].next) \in SUBSET DOMAIN file
    BY <1>4
  <2>. QED
    BY <1>4, <2>1, <2>2, CountingRows
<1>6. ImportJobsType'
  <2>1. copied' \in [Keys -> Nat]
    BY <1>0, <1>5 DEF ImportJobsType
  <2>. QED
    BY <1>0, <1>1, <2>1 DEF ImportJobsType
<1>7. ASSUME ~raced', ~reopened' PROVE OneUnderWay' /\ CopiedSoFar' /\ CopiedOnce'
  <2>1. OneUnderWay /\ CopiedSoFar /\ CopiedOnce
    BY <1>0, <1>7 DEF RowsInv
  <2>2. Active = {r} /\ (\A d \in Clients : asked'[d].step = "none") /\ import' = "importing" /\ run[r].loaded = "importing"
    BY <1>0, <2>1 DEF OneUnderWay, CopiedSoFar
  <2>3. OneUnderWay'
    BY <1>2, <2>2 DEF OneUnderWay
  <2>4. \A k \in Keys : copied[k] = Times(k, Before(run[r].next))
    BY <1>0, <2>1 DEF CopiedSoFar
  <2>5. \A k \in Keys : copied'[k] = Times(k, Before(run'[r].next)) /\ copied'[k] <= Times(k, DOMAIN file)
    BY <1>0, <1>5, <2>4
  <2>6. \A k \in Keys : copied'[k] = Times(k, Before(run[r].next))' /\ copied'[k] <= Times(k, DOMAIN file)'
    BY <1>0, <2>5 DEF Times, Before
  <2>7. CopiedSoFar'
    BY <1>1, <1>2, <2>2, <2>6 DEF CopiedSoFar
  <2>8. CopiedOnce'
    BY <2>6 DEF CopiedOnce
  <2>. QED
    BY <2>3, <2>7, <2>8
<1>. QED
  BY <1>6, <1>7 DEF RowsInv

LEMMA RowsInvNext == ASSUME ImportJobsAssumption, RowsInv, [ImportJobsNext]_importJobsVars PROVE RowsInv'
<1>1. CASE UNCHANGED <<file, import, asked, run, copied, raced, reopened>>
  BY <1>1 DEF RowsInv, ImportJobsType, OneUnderWay, CopiedSoFar, CopiedOnce, NoneCopied, Active, Times, Before
<1>2. ASSUME NEW k \in Keys, AddElsewhere(k) PROVE RowsInv'
  BY <1>1, <1>2 DEF AddElsewhere
<1>3. ASSUME UNCHANGED importJobsVars PROVE RowsInv'
  BY <1>1, <1>3 DEF importJobsVars
<1>4. ASSUME NEW c \in Clients, AskValidation(c) \/ AskExecution(c) \/ RequestStep(c) \/ LoseRequest(c) PROVE RowsInv'
  BY <1>4, AskingKeepsRows, AnsweringKeepsRows, SchedulingKeepsRows DEF RequestStep
<1>5. ASSUME NEW r \in Runs, TaskStep(r) \/ LoseRun(r) PROVE RowsInv'
  BY <1>5, TaskKeepsRows, BatchKeepsRows DEF TaskStep
<1>. QED
  BY <1>2, <1>3, <1>4, <1>5 DEF ImportJobsNext

\* A row of the file is imported once (import_service.execute_import, _run_import_job).
THEOREM RowsAreImportedOnce == ASSUME ImportJobsAssumption PROVE ImportJobsSpec => []RowsImportedOnce
<1>1. ImportJobsInit => RowsInv
  BY RowsInvInit
<1>2. RowsInv /\ [ImportJobsNext]_importJobsVars => RowsInv'
  BY RowsInvNext
<1>3. RowsInv => RowsImportedOnce
  BY DEF RowsInv, CopiedOnce, RowsImportedOnce
<1>. QED
  BY <1>1, <1>2, <1>3, PTL DEF ImportJobsSpec

-----------------------------------------------------------------------------
(* Notifications.  Two of a title are near if one comes within the other's *)
(* window.                                                                 *)

NotifierKind == {"check", "maintenance", "grading"}
UnmetRules   == UNION {[S -> {"warning", "non compliant"}] : S \in SUBSET (1..Len(Rules))}

Note ==
    [title : Titles, kind : NotifierKind, of : Years \cup NotifierKind, created : Nat, at : Nat,
     read : BOOLEAN, alone : BOOLEAN, id : 1..MaxSent]

Sender ==
    [kind : NotifierKind \cup {"closed"}, of : Years \cup NotifierKind \cup {"closed"},
     step : {"computed", "found", "reminding", "notifying", "notified", "closed"},
     unmet : UnmetRules, found : BOOLEAN, began : Nat, wrote : SUBSET Note, alone : BOOLEAN]

ComplianceType ==
    /\ clock \in Nat /\ saved \in SUBSET Years /\ sent \in SUBSET Note /\ sender \in [Senders -> Sender]
    /\ IsFiniteSet(sent) /\ \A t \in Senders : IsFiniteSet(sender[t].wrote)

\* Which titles a kind of transaction writes, and no later than now.
IsTitled(n) ==
    /\ n.at <= clock
    /\ n.kind = "check" <=> n.title \in {"Compliance warning", "Compliance non compliant"}
    /\ n.kind = "maintenance" <=> n.title = "Due soon"

NotesAreTitled ==
    /\ \A n \in sent : IsTitled(n)
    /\ \A t \in Senders : \A n \in sender[t].wrote : IsTitled(n)

\* What the transactions wrote is their own, and a check writes with its rows held.
SenderIsAt(t) ==
    /\ sender[t].kind = "closed" => sender[t] = Closed
    /\ sender[t].kind = "check" <=> sender[t].step \in {"computed", "found", "reminding"}
    /\ sender[t].kind = "check" => sender[t].of \in Years
    /\ sender[t].kind \in {"maintenance", "grading"} => sender[t].of = sender[t].kind
    /\ sender[t].step \in {"computed", "found"} => sender[t].wrote = {}
    /\ \A n \in sender[t].wrote : n.kind = sender[t].kind /\ n.of = sender[t].of

\* A notification has its id for itself.
IdsTellApart ==
    /\ \A m, n \in sent : m.id = n.id => m = n
    /\ \A t \in Senders : \A m, n \in sender[t].wrote : m.id = n.id => m = n
    /\ \A t \in Senders : \A m \in sent, n \in sender[t].wrote : m.id # n.id
    /\ \A t, u \in Senders : t # u => \A m \in sender[t].wrote, n \in sender[u].wrote : m.id # n.id

\* Open transactions know that they overlap; the status rows keep two checks of a year
\* from reminding, and the worker its maintenance from a second round.
SendersOverlap ==
    \A t, u \in Senders : t # u /\ Open(t) /\ Open(u) =>
        /\ ~sender[t].alone
        /\ ~(sender[t].kind = "maintenance" /\ sender[u].kind = "maintenance")
        /\ sender[t].step = "reminding" /\ sender[u].step = "reminding" => sender[t].of # sender[u].of

Near(m, n) ==
    /\ m.title = n.title /\ m.id # n.id
    /\ m.created <= n.created /\ m.at <= n.at /\ m.created >= n.at - Window[n.title]

Apart(m, n) == m.kind # "maintenance" /\ (m.kind = "check" => m.of # n.of)

\* What a transaction has written is near to what was sent only if others overlapped both.
WrittenIsApart(t) ==
    \A w \in sender[t].wrote, s \in sent :
        Near(w, s) \/ Near(s, w) => ~s.alone /\ ~sender[t].alone /\ Apart(w, s) /\ Apart(s, w)

NoneIsNear(t) == \A m, n \in sender[t].wrote : ~Near(m, n)

NoticesInv ==
    /\ ComplianceType /\ NotesAreTitled /\ (\A t \in Senders : SenderIsAt(t)) /\ IdsTellApart /\ SendersOverlap
    /\ NoticeOnce /\ \A t \in Senders : WrittenIsApart(t) /\ NoneIsNear(t)

\* A transaction that rests.
LEMMA NobodySends == ASSUME ComplianceAssumption PROVE Closed \in Sender
<1>1. << >> \in UnmetRules
  <2>1. << >> \in [{} -> {"warning", "non compliant"}]
    OBVIOUS
  <2>. QED
    BY <2>1 DEF UnmetRules
<1>. QED
  BY <1>1 DEF Closed, Sender

\* No row yet.
LEMMA NoticesInvInit == ASSUME ComplianceAssumption, ComplianceInit PROVE NoticesInv
<1>1. clock = 0 /\ saved = {} /\ sent = {} /\ sender = [t \in Senders |-> Closed]
  BY DEF ComplianceInit
<1>2. Closed.wrote = {} /\ Closed.kind = "closed" /\ Closed.step = "closed"
  BY DEF Closed
<1>3. \A t \in Senders : ~Open(t) /\ sender[t] = Closed
  BY <1>1 DEF Open
<1>4. ComplianceType
  <2>1. IsFiniteSet(sent) /\ \A t \in Senders : IsFiniteSet(sender[t].wrote)
    BY <1>1, <1>2, <1>3, FS_EmptySet
  <2>. QED
    BY <1>1, <2>1, NobodySends DEF ComplianceType
<1>5. NotesAreTitled /\ IdsTellApart /\ NoticeOnce
  BY <1>1, <1>2, <1>3 DEF NotesAreTitled, IdsTellApart, NoticeOnce
<1>6. SendersOverlap
  BY <1>3 DEF SendersOverlap
<1>7. \A t \in Senders : SenderIsAt(t) /\ WrittenIsApart(t) /\ NoneIsNear(t)
  BY <1>2, <1>3 DEF SenderIsAt, WrittenIsApart, NoneIsNear
<1>. QED
  BY <1>4, <1>5, <1>6, <1>7 DEF NoticesInv

\* A transaction is open by its kind.
LEMMA OpenByKind ==
    ASSUME \A t \in Senders : SenderIsAt(t)
    PROVE  \A t \in Senders : Open(t) <=> sender[t].kind # "closed"
<1>1. Closed.kind = "closed"
  BY DEF Closed
<1>. QED
  BY <1>1 DEF Open, SenderIsAt

\* A new notification has an id.
LEMMA FreshId ==
    ASSUME ComplianceAssumption, NoticesInv, HasRoom
    PROVE  \E i \in 1..MaxSent : \A n \in Written : n.id # i
<1>1. Cardinality(Written) < MaxSent /\ MaxSent \in Nat
  BY DEF HasRoom, ComplianceAssumption
<1>2. IsFiniteSet(Written)
  <2>. DEFINE writers == {t \in Senders : Open(t)}
              wrote   == [t \in writers |-> sender[t].wrote]
              all     == {sender[t].wrote : t \in writers}
  <2>1. IsFiniteSet(writers)
    BY FS_Subset DEF ComplianceAssumption
  <2>2. wrote \in Surjection(writers, all)
    BY DEF Surjection
  <2>3. IsFiniteSet(all)
    <3>. HIDE DEF writers, wrote, all
    <3>. QED
      BY <2>1, <2>2, FS_Surjection
  <2>4. \A W \in all : IsFiniteSet(W)
    BY DEF NoticesInv, ComplianceType
  <2>5. IsFiniteSet(UNION all)
    <3>. HIDE DEF all
    <3>. QED
      BY <2>3, <2>4, FS_UNION
  <2>6. IsFiniteSet(sent)
    BY DEF NoticesInv, ComplianceType
  <2>. QED
    BY <2>5, <2>6, FS_Union DEF Written
<1>3. SUFFICES ASSUME \A i \in 1..MaxSent : \E n \in Written : n.id = i PROVE FALSE
  OBVIOUS
<1>. DEFINE having == [i \in 1..MaxSent |-> CHOOSE n \in Written : n.id = i]
<1>4. IsFiniteSet(1..MaxSent) /\ Cardinality(1..MaxSent) = MaxSent
  BY <1>1, FS_Interval
<1>5. \A i \in 1..MaxSent : having[i] \in Written /\ having[i].id = i
  BY <1>3
<1>6. having \in [1..MaxSent -> Written]
  BY <1>5
<1>7. \E i, j \in 1..MaxSent : i # j /\ having[i] = having[j]
  <2>. HIDE DEF having
  <2>. QED
    BY <1>1, <1>4, <1>6, <1>2, FS_PigeonHole
<1>. QED
  BY <1>5, <1>7

\* A transaction begins: those that were open know.
LEMMA BeginKeepsNotices ==
    ASSUME ComplianceAssumption, NoticesInv, NEW t \in Senders, NEW sort \in NotifierKind,
           NEW of \in Years \cup NotifierKind, NEW step \in {"computed", "notifying"}, NEW unmet \in UnmetRules,
           ~Open(t), sender' = Begun(t, sort, of, step, unmet), UNCHANGED <<clock, saved, sent>>,
           sort = "check" => step = "computed" /\ of \in Years, sort # "check" => step = "notifying" /\ of = sort,
           sort = "maintenance" => \A u \in Senders : Open(u) => sender[u].kind # "maintenance"
    PROVE  NoticesInv'
<1>1. /\ ComplianceType /\ NotesAreTitled /\ IdsTellApart /\ SendersOverlap /\ NoticeOnce
      /\ \A u \in Senders : SenderIsAt(u) /\ WrittenIsApart(u) /\ NoneIsNear(u)
  BY DEF NoticesInv
<1>. DEFINE new == [kind |-> sort, of |-> of, step |-> step, unmet |-> unmet, found |-> FALSE, began |-> clock,
                    wrote |-> {}, alone |-> {u \in Senders : Open(u)} = {}]
<1>2. /\ sender'[t] = new /\ Closed.wrote = {} /\ Closed.kind = "closed" /\ sender[t] = Closed
      /\ \A u \in Senders \ {t} : sender'[u] = IF Open(u) THEN [sender[u] EXCEPT !.alone = FALSE] ELSE Closed
      /\ DOMAIN sender' = Senders
  BY DEF Begun, Open, Closed
<1>3. \A u \in Senders : Open(u) <=> sender[u].kind # "closed"
  BY <1>1, OpenByKind
<1>4. new \in Sender
  <2>1. new.alone \in BOOLEAN
    OBVIOUS
  <2>2. clock \in Nat
    BY <1>1 DEF ComplianceType
  <2>. QED
    BY <2>1, <2>2 DEF Sender
<1>5. \A u \in Senders \ {t} :
         /\ sender'[u] \in Sender /\ sender'[u].wrote = sender[u].wrote /\ (Open(u) => ~sender'[u].alone)
         /\ sender'[u].kind = sender[u].kind /\ sender'[u].of = sender[u].of /\ sender'[u].step = sender[u].step
  <2>. SUFFICES ASSUME NEW u \in Senders \ {t}
                PROVE  /\ sender'[u] \in Sender /\ sender'[u].wrote = sender[u].wrote /\ (Open(u) => ~sender'[u].alone)
                       /\ sender'[u].kind = sender[u].kind /\ sender'[u].of = sender[u].of /\ sender'[u].step = sender[u].step
    OBVIOUS
  <2>1. sender[u] \in Sender
    BY <1>1 DEF ComplianceType
  <2>2. CASE Open(u)
    <3>1. sender'[u] = [sender[u] EXCEPT !.alone = FALSE]
      BY <1>2, <2>2
    <3>. QED
      BY <2>1, <3>1 DEF Sender
  <2>3. CASE ~Open(u)
    <3>1. sender[u] = Closed
      BY <2>3 DEF Open
    <3>. QED
      BY <1>2, <2>1, <2>3, <3>1
  <2>. QED
    BY <2>2, <2>3
<1>6. /\ sender'[t].kind = sort /\ sender'[t].of = of /\ sender'[t].step = step /\ sender'[t].wrote = {}
       /\ \A u \in Senders : Open(u) => ~sender'[t].alone
  <2>1. \A u \in Senders : Open(u) => ~new.alone
    OBVIOUS
  <2>. QED
    BY <1>2, <2>1
<1>. HIDE DEF new
<1>7. ComplianceType'
  <2>1. \A u \in Senders : sender'[u] \in Sender
    BY <1>2, <1>4, <1>5
  <2>2. sender' \in [Senders -> Sender]
    BY <2>1 DEF Begun
  <2>3. \A u \in Senders : IsFiniteSet(sender'[u].wrote)
    BY <1>1, <1>6, <1>5, FS_EmptySet DEF ComplianceType
  <2>. QED
    BY <1>1, <2>2, <2>3 DEF ComplianceType
<1>8. NotesAreTitled' /\ IdsTellApart' /\ NoticeOnce'
  <2>1. sender'[t].wrote = {}
    BY <1>6
  <2>2. NotesAreTitled'
    BY <1>1, <1>5, <2>1 DEF NotesAreTitled, IsTitled
  <2>3. IdsTellApart'
    BY <1>1, <1>5, <2>1 DEF IdsTellApart
  <2>. QED
    BY <1>1, <2>2, <2>3 DEF NoticeOnce
<1>9. \A u \in Senders : SenderIsAt(u)'
  <2>1. SenderIsAt(t)'
    BY <1>6 DEF SenderIsAt, NotifierKind
  <2>2. ASSUME NEW u \in Senders \ {t} PROVE SenderIsAt(u)'
    <3>1. SenderIsAt(u) /\ (Open(u) <=> sender[u].kind # "closed")
      BY <1>1, <1>3
    <3>2. sender[u].kind = "closed" => sender'[u] = Closed
      BY <1>2, <3>1
    <3>. QED
      BY <1>5, <3>1, <3>2 DEF SenderIsAt
  <2>. QED
    BY <2>1, <2>2
<1>10. \A u \in Senders \ {t} : Open(u)' <=> Open(u)
  <2>1. \A u \in Senders \ {t} : SenderIsAt(u)'
    BY <1>9
  <2>2. \A u \in Senders \ {t} : sender'[u] # Closed <=> sender'[u].kind # "closed"
    BY <1>2, <2>1 DEF SenderIsAt
  <2>. QED
    BY <1>3, <1>5, <2>2 DEF Open
<1>11. SendersOverlap'
  <2>. SUFFICES ASSUME NEW u \in Senders, NEW v \in Senders, u # v, Open(u)', Open(v)'
                PROVE  /\ ~sender'[u].alone
                       /\ ~(sender'[u].kind = "maintenance" /\ sender'[v].kind = "maintenance")
                       /\ sender'[u].step = "reminding" /\ sender'[v].step = "reminding" => sender'[u].of # sender'[v].of
    BY DEF SendersOverlap
  <2>1. CASE u = t
    BY <1>5, <1>10, <1>6, <2>1
  <2>2. CASE v = t
    BY <1>5, <1>10, <1>6, <2>2
  <2>3. CASE u # t /\ v # t
    BY <1>1, <1>5, <1>10, <2>3 DEF SendersOverlap
  <2>. QED
    BY <2>1, <2>2, <2>3
<1>12. \A u \in Senders : WrittenIsApart(u)' /\ NoneIsNear(u)'
  <2>1. \A u \in Senders \ {t} : sender'[u].wrote # {} => ~sender'[u].alone
    <3>1. \A u \in Senders \ {t} : ~Open(u) => sender[u].wrote = {}
      BY <1>2 DEF Open
    <3>. QED
      BY <1>5, <3>1
  <2>2. ASSUME NEW u \in Senders \ {t} PROVE WrittenIsApart(u)' /\ NoneIsNear(u)'
    BY <1>1, <1>5, <2>1, <2>2 DEF WrittenIsApart, NoneIsNear, Near, Apart
  <2>3. WrittenIsApart(t)' /\ NoneIsNear(t)'
    BY <1>6 DEF WrittenIsApart, NoneIsNear
  <2>. QED
    BY <2>2, <2>3
<1>. QED
  BY <1>7, <1>8, <1>9, <1>11, <1>12 DEF NoticesInv

\* A check looks for its rows and flushes them: it has written no notification yet.
LEMMA RowsKeepNotices ==
    ASSUME NoticesInv, NEW t \in Senders, NEW step \in {"found", "reminding"}, NEW found \in BOOLEAN,
           sender[t].step \in {"computed", "found"}, step = "reminding" => ~Held(sender[t].of),
           sender' = [sender EXCEPT ![t].step = step, ![t].found = found], UNCHANGED <<clock, saved, sent>>
    PROVE  NoticesInv'
<1>1. /\ ComplianceType /\ NotesAreTitled /\ IdsTellApart /\ SendersOverlap /\ NoticeOnce
      /\ \A u \in Senders : SenderIsAt(u) /\ WrittenIsApart(u) /\ NoneIsNear(u)
  BY DEF NoticesInv
<1>2. /\ sender[t] \in Sender /\ sender[t].kind = "check" /\ sender[t].of \in Years /\ sender[t].wrote = {}
      /\ \A u \in Senders : Open(u) <=> sender[u].kind # "closed"
  BY <1>1, OpenByKind DEF ComplianceType, SenderIsAt
<1>3. /\ \A u \in Senders \ {t} : sender'[u] = sender[u]
      /\ sender'[t] \in Sender /\ sender'[t].step = step /\ sender'[t].kind = "check"
      /\ sender'[t].of = sender[t].of /\ sender'[t].wrote = {} /\ sender'[t].alone = sender[t].alone
      /\ sender' \in [Senders -> Sender]
  BY <1>1, <1>2 DEF ComplianceType, Sender
<1>4. \A u \in Senders : Open(u)' <=> Open(u)
  <2>1. Closed.kind = "closed"
    BY DEF Closed
  <2>. QED
    BY <1>2, <1>3, <2>1 DEF Open
<1>5. ComplianceType'
  BY <1>1, <1>2, <1>3 DEF ComplianceType
<1>6. NotesAreTitled' /\ IdsTellApart' /\ NoticeOnce'
  <2>1. NotesAreTitled'
    BY <1>1, <1>3 DEF NotesAreTitled, IsTitled
  <2>2. IdsTellApart'
    BY <1>1, <1>3 DEF IdsTellApart
  <2>. QED
    BY <1>1, <2>1, <2>2 DEF NoticeOnce
<1>7. \A u \in Senders : SenderIsAt(u)' /\ WrittenIsApart(u)' /\ NoneIsNear(u)'
  <2>1. SenderIsAt(t)' /\ WrittenIsApart(t)' /\ NoneIsNear(t)'
    BY <1>2, <1>3 DEF SenderIsAt, WrittenIsApart, NoneIsNear
  <2>2. ASSUME NEW u \in Senders \ {t} PROVE SenderIsAt(u)' /\ WrittenIsApart(u)' /\ NoneIsNear(u)'
    BY <1>1, <1>3, <2>2 DEF SenderIsAt, WrittenIsApart, NoneIsNear
  <2>. QED
    BY <2>1, <2>2
<1>8. SendersOverlap'
  <2>1. ASSUME step = "reminding", NEW u \in Senders \ {t}, sender[u].step = "reminding"
        PROVE  sender[u].of # sender[t].of
    BY <1>1, <1>2, <2>1 DEF Held, SenderIsAt
  <2>. QED
    BY <1>1, <1>2, <1>3, <1>4, <2>1 DEF SendersOverlap
<1>. QED
  BY <1>5, <1>6, <1>7, <1>8 DEF NoticesInv

\* A transaction ends without its rows, or with them: then what it wrote is sent.
LEMMA EndKeepsNotices ==
    ASSUME ComplianceAssumption, NoticesInv, NEW t \in Senders, Open(t), sender' = [sender EXCEPT ![t] = Closed],
           sent' = sent \/ sent' = sent \cup Committed(t),
           UNCHANGED clock, saved' \in SUBSET Years
    PROVE  NoticesInv'
<1>1. /\ ComplianceType /\ NotesAreTitled /\ IdsTellApart /\ SendersOverlap /\ NoticeOnce
      /\ \A u \in Senders : SenderIsAt(u) /\ WrittenIsApart(u) /\ NoneIsNear(u)
  BY DEF NoticesInv
<1>2. /\ \A u \in Senders \ {t} : sender'[u] = sender[u]
      /\ sender'[t] = Closed /\ sender' \in [Senders -> Sender]
      /\ Closed.wrote = {} /\ Closed.kind = "closed" /\ Closed.step = "closed"
  BY <1>1, NobodySends DEF ComplianceType, Closed
<1>3. /\ ~Open(t)' /\ \A u \in Senders \ {t} : Open(u)' <=> Open(u)
      /\ \A u \in Senders : Open(u) <=> sender[u].kind # "closed"
  BY <1>1, <1>2, OpenByKind DEF Open
<1>4. \A w \in sender[t].wrote :
         LET c == [w EXCEPT !.alone = sender[t].alone] IN
         /\ c \in Note /\ c.title = w.title /\ c.kind = w.kind /\ c.of = w.of /\ c.created = w.created
         /\ c.at = w.at /\ c.id = w.id /\ c.alone = sender[t].alone
  BY <1>1 DEF ComplianceType, Sender, Note
<1>5. \A n \in sent' : n \in sent \/ \E w \in sender[t].wrote :
         /\ n \in Note /\ n.title = w.title /\ n.kind = w.kind /\ n.of = w.of /\ n.created = w.created
         /\ n.at = w.at /\ n.id = w.id /\ n.alone = sender[t].alone
         /\ n = [w EXCEPT !.alone = sender[t].alone]
  <2>. SUFFICES ASSUME NEW n \in sent', n \notin sent
                PROVE  \E w \in sender[t].wrote :
                          /\ n \in Note /\ n.title = w.title /\ n.kind = w.kind /\ n.of = w.of /\ n.created = w.created
                          /\ n.at = w.at /\ n.id = w.id /\ n.alone = sender[t].alone
                          /\ n = [w EXCEPT !.alone = sender[t].alone]
    OBVIOUS
  <2>1. PICK w \in sender[t].wrote : n = [w EXCEPT !.alone = sender[t].alone]
    BY DEF Committed
  <2>. QED
    BY <1>4, <2>1
<1>6. ComplianceType'
  <2>1. sent' \in SUBSET Note
    BY <1>1, <1>5 DEF ComplianceType
  <2>2. IsFiniteSet(Committed(t))
    <3>. DEFINE kept == [w \in sender[t].wrote |-> [w EXCEPT !.alone = sender[t].alone]]
    <3>1. kept \in Surjection(sender[t].wrote, Committed(t))
      BY DEF Surjection, Committed
    <3>2. IsFiniteSet(sender[t].wrote)
      BY <1>1 DEF ComplianceType
    <3>. HIDE DEF kept
    <3>. QED
      BY <3>1, <3>2, FS_Surjection
  <2>3. IsFiniteSet(sent')
    BY <1>1, <2>2, FS_Union DEF ComplianceType
  <2>4. \A u \in Senders : IsFiniteSet(sender'[u].wrote)
    BY <1>1, <1>2, FS_EmptySet DEF ComplianceType
  <2>. QED
    BY <1>1, <1>2, <2>1, <2>3, <2>4 DEF ComplianceType
<1>7. NotesAreTitled'
  <2>1. ASSUME NEW n \in sent' PROVE IsTitled(n)'
    <3>1. CASE n \in sent
      BY <1>1, <3>1 DEF NotesAreTitled, IsTitled
    <3>2. CASE n \notin sent
      <4>1. PICK w \in sender[t].wrote : n.title = w.title /\ n.kind = w.kind /\ n.at = w.at
        BY <1>5, <3>2
      <4>2. IsTitled(w)
        BY <1>1 DEF NotesAreTitled
      <4>. QED
        BY <4>1, <4>2 DEF IsTitled
    <3>. QED
      BY <3>1, <3>2
  <2>2. ASSUME NEW u \in Senders, NEW n \in sender'[u].wrote PROVE IsTitled(n)'
    <3>1. n \in sender[u].wrote
      BY <1>2
    <3>. QED
      BY <1>1, <3>1 DEF NotesAreTitled, IsTitled
  <2>. QED
    BY <2>1, <2>2 DEF NotesAreTitled
<1>8. \A u \in Senders : SenderIsAt(u)'
  BY <1>1, <1>2 DEF SenderIsAt
<1>9. SendersOverlap'
  BY <1>1, <1>2, <1>3 DEF SendersOverlap
<1>10. IdsTellApart'
  <2>1. \A m, n \in sent' : m.id = n.id => m = n
    BY <1>1, <1>5 DEF IdsTellApart
  <2>2. \A u \in Senders : \A m \in sent', n \in sender'[u].wrote : m.id # n.id
    BY <1>1, <1>2, <1>5 DEF IdsTellApart
  <2>. QED
    BY <1>1, <1>2, <2>1, <2>2 DEF IdsTellApart
<1>11. \A w, x \in sender[t].wrote : ~Near(w, x)
  BY <1>1 DEF NoneIsNear
<1>12. NoticeOnce'
  <2>. SUFFICES ASSUME NEW m \in sent', NEW n \in sent', Near(m, n)
                PROVE  ~m.alone /\ ~n.alone /\ Apart(m, n)
    BY DEF NoticeOnce, Near, Apart
  <2>1. CASE m \in sent /\ n \in sent
    BY <1>1, <2>1 DEF NoticeOnce, Near, Apart
  <2>2. CASE m \in sent /\ n \notin sent
    <3>1. PICK w \in sender[t].wrote : /\ n.title = w.title /\ n.kind = w.kind /\ n.of = w.of /\ n.created = w.created
                                      /\ n.at = w.at /\ n.id = w.id /\ n.alone = sender[t].alone
      BY <1>5, <2>2
    <3>2. Near(m, w)
      BY <3>1 DEF Near
    <3>. QED
      BY <1>1, <2>2, <3>1, <3>2 DEF WrittenIsApart, Apart
  <2>3. CASE m \notin sent /\ n \in sent
    <3>1. PICK w \in sender[t].wrote : /\ m.title = w.title /\ m.kind = w.kind /\ m.of = w.of /\ m.created = w.created
                                      /\ m.at = w.at /\ m.id = w.id /\ m.alone = sender[t].alone
      BY <1>5, <2>3
    <3>2. Near(w, n)
      BY <3>1 DEF Near
    <3>. QED
      BY <1>1, <2>3, <3>1, <3>2 DEF WrittenIsApart, Apart
  <2>4. CASE m \notin sent /\ n \notin sent
    BY <1>5, <1>11, <2>4 DEF Near
  <2>. QED
    BY <2>1, <2>2, <2>3, <2>4
<1>13. \A u \in Senders : NoneIsNear(u)'
  BY <1>1, <1>2 DEF NoneIsNear, Near
<1>14. ASSUME NEW u \in Senders PROVE WrittenIsApart(u)'
  <2>. SUFFICES ASSUME NEW x \in sender'[u].wrote, NEW s \in sent', Near(x, s) \/ Near(s, x)
                PROVE  ~s.alone /\ ~sender'[u].alone /\ Apart(x, s) /\ Apart(s, x)
    BY DEF WrittenIsApart, Near, Apart
  <2>1. u # t /\ sender'[u] = sender[u]
    BY <1>2
  <2>2. CASE s \in sent
    BY <1>1, <2>1, <2>2 DEF WrittenIsApart
  <2>3. CASE s \notin sent
    <3>1. PICK w \in sender[t].wrote : /\ s.title = w.title /\ s.kind = w.kind /\ s.of = w.of
                                      /\ s.alone = sender[t].alone
      BY <1>5, <2>3
    <3>2. Open(u) /\ ~sender[t].alone /\ ~sender[u].alone
      <4>1. Open(u)
        BY <1>2, <2>1 DEF Open
      <4>. QED
        BY <1>1, <2>1, <4>1 DEF SendersOverlap
    <3>3. x.title = s.title /\ x.title = w.title
      BY <3>1 DEF Near
    <3>4. /\ x.kind = sender[u].kind /\ x.of = sender[u].of /\ w.kind = sender[t].kind /\ w.of = sender[t].of
          /\ IsTitled(x) /\ IsTitled(w)
      BY <1>1, <2>1 DEF SenderIsAt, NotesAreTitled
    <3>5. /\ x.kind = "maintenance" <=> w.kind = "maintenance"
          /\ x.kind = "check" <=> w.kind = "check"
      BY <3>3, <3>4 DEF IsTitled
    <3>6. x.kind # "maintenance"
      BY <1>1, <2>1, <3>2, <3>4, <3>5 DEF SendersOverlap
    <3>7. x.kind = "check" => x.of # w.of
      <4>1. ASSUME x.kind = "check" PROVE sender[u].step = "reminding" /\ sender[t].step = "reminding"
        BY <1>1, <2>1, <3>4, <3>5, <4>1 DEF SenderIsAt
      <4>. QED
        BY <1>1, <2>1, <3>2, <3>4, <4>1 DEF SendersOverlap
    <3>. QED
      BY <2>1, <3>1, <3>2, <3>4, <3>5, <3>6, <3>7 DEF Apart
  <2>. QED
    BY <2>2, <2>3
<1>. QED
  BY <1>6, <1>7, <1>8, <1>9, <1>10, <1>12, <1>13, <1>14 DEF NoticesInv

\* A transaction writes a title of its kind and goes on to a step.
Writes(t, title, inApp, unmet, step) ==
    /\ Open(t) /\ HasRoom /\ title \in Titles /\ unmet \in UnmetRules /\ step \in {"reminding", "notified"}
    /\ \/ sender[t].step = "reminding" /\ step = "reminding" /\ title \in {"Compliance warning", "Compliance non compliant"}
       \/ sender[t].step = "notifying" /\ step = "notified" /\ title = TitleOf(sender[t].kind)
    /\ sender' = [sender EXCEPT ![t].step = step, ![t].unmet = unmet, ![t].wrote = Wrote(t, title, inApp)]

\* A transaction writes where it finds none of the title in its window.
LEMMA WritingKeepsNotices ==
    ASSUME ComplianceAssumption, NoticesInv, NEW t \in Senders, NEW title, NEW inApp, NEW unmet, NEW step,
           Writes(t, title, inApp, unmet, step), UNCHANGED <<clock, saved, sent>>
    PROVE  NoticesInv'
<1>1. /\ ComplianceType /\ NotesAreTitled /\ IdsTellApart /\ SendersOverlap /\ NoticeOnce
      /\ \A u \in Senders : SenderIsAt(u) /\ WrittenIsApart(u) /\ NoneIsNear(u)
  BY DEF NoticesInv
<1>2. /\ sender[t] \in Sender /\ clock \in Nat /\ sent \in SUBSET Note
      /\ \A u \in Senders : Open(u) <=> sender[u].kind # "closed"
  BY <1>1, OpenByKind DEF ComplianceType
<1>3. /\ sender[t].kind \in NotifierKind /\ sender[t].of \in Years \cup NotifierKind
      /\ sender[t].kind = "check" <=> title \in {"Compliance warning", "Compliance non compliant"}
      /\ sender[t].kind = "maintenance" <=> title = "Due soon"
      /\ sender[t].kind = "check" <=> step = "reminding"
      /\ step = sender[t].step \/ sender[t].step = "notifying"
  <2>1. sender[t].kind \in NotifierKind /\ SenderIsAt(t)
    BY <1>1, <1>2 DEF Sender, Writes
  <2>2. sender[t].of \in Years \cup NotifierKind
    BY <2>1 DEF SenderIsAt, NotifierKind
  <2>. QED
    BY <2>1, <2>2 DEF SenderIsAt, TitleOf, NotifierKind, Writes
<1>. DEFINE new == Notice(t, title)
            added == IF Earlier(t, title) = {} /\ inApp THEN {new} ELSE {}
<1>4. /\ new \in Note /\ new.title = title /\ new.kind = sender[t].kind /\ new.of = sender[t].of
      /\ new.at = clock /\ \A n \in Written : n.id # new.id
  <2>1. new.id \in 1..MaxSent /\ \A n \in Written : n.id # new.id
    BY FreshId DEF Notice, Writes
  <2>2. sender[t].began \in Nat
    BY <1>2 DEF Sender
  <2>. QED
    BY <1>2, <1>3, <2>1, <2>2 DEF Notice, Note, Writes
<1>5. /\ Wrote(t, title, inApp) = sender[t].wrote \cup added
      /\ \A m \in added : m = new /\ \A n \in sent \cup sender[t].wrote :
                                       n.title = title => ~(n.created >= clock - Window[title])
      /\ IsFiniteSet(added) /\ added \in SUBSET {new}
  BY FS_EmptySet, FS_Singleton DEF Wrote, Earlier, Visible
<1>. HIDE DEF new, added
<1>6. /\ \A n \in sent : n.id # new.id
      /\ \A u \in Senders : \A n \in sender[u].wrote : n.id # new.id
  <2>1. Closed.wrote = {}
    BY DEF Closed
  <2>2. \A u \in Senders : sender[u].wrote # {} => Open(u)
    BY <2>1 DEF Open
  <2>. QED
    BY <1>4, <2>2 DEF Written
<1>7. /\ \A u \in Senders \ {t} : sender'[u] = sender[u]
      /\ sender'[t].step = step /\ sender'[t].kind = sender[t].kind /\ sender'[t].of = sender[t].of
      /\ sender'[t].alone = sender[t].alone
      /\ sender'[t].wrote = sender[t].wrote \cup added
      /\ sender' \in [Senders -> Sender]
  <2>1. Wrote(t, title, inApp) \in SUBSET Note
    BY <1>2, <1>4, <1>5 DEF Sender
  <2>2. /\ sender' = [sender EXCEPT ![t].step = step, ![t].unmet = unmet, ![t].wrote = Wrote(t, title, inApp)]
        /\ unmet \in UnmetRules /\ step \in {"reminding", "notified"} /\ sender \in [Senders -> Sender]
    BY <1>1 DEF ComplianceType, Writes
  <2>3. sender'[t] = [sender[t] EXCEPT !.step = step, !.unmet = unmet, !.wrote = Wrote(t, title, inApp)]
    BY <2>2
  <2>4. /\ sender'[t] \in Sender
        /\ sender'[t].step = step /\ sender'[t].kind = sender[t].kind /\ sender'[t].of = sender[t].of
        /\ sender'[t].alone = sender[t].alone /\ sender'[t].wrote = Wrote(t, title, inApp)
    BY <1>2, <2>1, <2>2, <2>3 DEF Sender
  <2>. QED
    BY <1>5, <2>2, <2>4
<1>8. \A n \in sender'[t].wrote : n \in sender[t].wrote \/ n \in added
  BY <1>7
<1>9. \A m \in added : \A n \in sent \cup sender[t].wrote : ~Near(n, m) /\ ~Near(m, n)
  <2>. SUFFICES ASSUME NEW m \in added, NEW n \in sent \cup sender[t].wrote, n.title = title
                PROVE  ~Near(n, m) /\ ~Near(m, n)
    BY <1>4, <1>5 DEF Near
  <2>1. ~(n.created >= clock - Window[title])
    BY <1>5
  <2>2. n \in Note /\ n.at <= clock
    BY <1>1, <1>2 DEF Sender, NotesAreTitled, IsTitled
  <2>3. m.title = title /\ m.at = clock /\ m.created \in Nat
    BY <1>4, <1>5 DEF Note
  <2>4. n.created \in Nat /\ n.at \in Nat /\ Window[title] \in Nat /\ clock \in Nat
    BY <1>2, <2>2 DEF Note, ComplianceAssumption
  <2>5. ~Near(n, m)
    BY <2>1, <2>3 DEF Near
  <2>6. ~Near(m, n)
    BY <2>1, <2>2, <2>3, <2>4 DEF Near
  <2>. QED
    BY <2>5, <2>6
<1>10. \A m, n \in added : m = n /\ ~Near(m, n)
  BY <1>5 DEF Near
<1>11. \A u \in Senders : Open(u)' <=> Open(u)
  <2>1. Closed.kind = "closed"
    BY DEF Closed
  <2>2. \A u \in Senders \ {t} : Open(u)' <=> Open(u)
    BY <1>7 DEF Open
  <2>3. Open(t) /\ Open(t)'
    BY <1>2, <1>7, <2>1 DEF Open, Writes
  <2>. QED
    BY <2>2, <2>3
<1>12. ComplianceType'
  <2>1. IsFiniteSet(sender[t].wrote) /\ IsFiniteSet(added)
    BY <1>1, <1>5 DEF ComplianceType
  <2>2. IsFiniteSet(sender[t].wrote \cup added)
    BY <2>1, FS_Union
  <2>3. \A u \in Senders : IsFiniteSet(sender'[u].wrote)
    BY <1>1, <1>7, <2>2 DEF ComplianceType
  <2>. QED
    BY <1>1, <1>7, <2>3 DEF ComplianceType
<1>13. NotesAreTitled' /\ IdsTellApart' /\ NoticeOnce'
  <2>1. \A n \in added : IsTitled(n)
    <3>1. new.at <= clock
      BY <1>2, <1>4
    <3>2. IsTitled(new)
      BY <1>3, <1>4, <3>1 DEF IsTitled
    <3>. QED
      BY <1>5, <3>2
  <2>2. NotesAreTitled'
    BY <1>1, <1>7, <1>8, <2>1 DEF NotesAreTitled, IsTitled
  <2>3. IdsTellApart'
    <3>1. \A m, n \in sender'[t].wrote : m.id = n.id => m = n
      BY <1>1, <1>6, <1>5, <1>8 DEF IdsTellApart
    <3>2. \A m \in sent, n \in sender'[t].wrote : m.id # n.id
      BY <1>1, <1>6, <1>5, <1>8 DEF IdsTellApart
    <3>3. \A u \in Senders \ {t} : \A m \in sender[u].wrote, n \in sender'[t].wrote : m.id # n.id
      BY <1>1, <1>6, <1>5, <1>8 DEF IdsTellApart
    <3>4. \A u \in Senders : \A m, n \in sender'[u].wrote : m.id = n.id => m = n
      BY <1>1, <1>7, <3>1 DEF IdsTellApart
    <3>5. \A u \in Senders : \A m \in sent', n \in sender'[u].wrote : m.id # n.id
      BY <1>1, <1>7, <3>2 DEF IdsTellApart
    <3>6. ASSUME NEW u \in Senders, NEW v \in Senders, u # v, NEW m \in sender'[u].wrote, NEW n \in sender'[v].wrote
          PROVE  m.id # n.id
      <4>1. CASE u = t
        BY <1>7, <3>3, <3>6, <4>1
      <4>2. CASE v = t
        BY <1>7, <3>3, <3>6, <4>2
      <4>3. CASE u # t /\ v # t
        BY <1>1, <1>7, <3>6, <4>3 DEF IdsTellApart
      <4>. QED
        BY <4>1, <4>2, <4>3
    <3>. QED
      BY <1>1, <3>4, <3>5, <3>6 DEF IdsTellApart
  <2>. QED
    BY <1>1, <2>2, <2>3 DEF NoticeOnce
<1>14. \A u \in Senders : SenderIsAt(u)'
  <2>1. SenderIsAt(t)'
    <3>1. sender'[t].kind # "closed"
      BY <1>2, <1>7 DEF Writes
    <3>2. \A n \in sender'[t].wrote : n.kind = sender'[t].kind /\ n.of = sender'[t].of
      BY <1>1, <1>4, <1>5, <1>7, <1>8 DEF SenderIsAt
    <3>3. SenderIsAt(t) /\ sender[t].step \in {"reminding", "notifying"} /\ step \in {"reminding", "notified"}
      BY <1>1 DEF Writes
    <3>4. sender'[t].step \notin {"computed", "found"} /\ (sender'[t].kind = "check" <=> sender'[t].step = "reminding")
      BY <1>3, <1>7, <3>3
    <3>5. /\ sender'[t].kind = "check" => sender'[t].of \in Years
          /\ sender'[t].kind \in {"maintenance", "grading"} => sender'[t].of = sender'[t].kind
      BY <1>7, <3>3 DEF SenderIsAt
    <3>. QED
      BY <3>1, <3>2, <3>4, <3>5 DEF SenderIsAt
  <2>2. ASSUME NEW u \in Senders \ {t} PROVE SenderIsAt(u)'
    BY <1>1, <1>7, <2>2 DEF SenderIsAt
  <2>. QED
    BY <2>1, <2>2
<1>15. SendersOverlap'
  <2>1. \A u \in Senders :
           /\ sender'[u].alone = sender[u].alone /\ sender'[u].kind = sender[u].kind /\ sender'[u].of = sender[u].of
           /\ sender'[u].step = "reminding" => sender[u].step = "reminding"
    BY <1>1, <1>3, <1>7 DEF SenderIsAt
  <2>. QED
    BY <1>1, <1>11, <2>1 DEF SendersOverlap
<1>16. \A u \in Senders : WrittenIsApart(u)' /\ NoneIsNear(u)'
  <2>1. ASSUME NEW w \in sender'[t].wrote, NEW s \in sent, Near(w, s) \/ Near(s, w)
        PROVE  ~s.alone /\ ~sender'[t].alone /\ Apart(w, s) /\ Apart(s, w)
    <3>1. w \in sender[t].wrote
      BY <1>8, <1>9, <2>1
    <3>. QED
      BY <1>1, <1>7, <2>1, <3>1 DEF WrittenIsApart
  <2>2. \A m, n \in sender'[t].wrote : ~Near(m, n)
    BY <1>1, <1>8, <1>9, <1>10 DEF NoneIsNear
  <2>3. WrittenIsApart(t)' /\ NoneIsNear(t)'
    BY <2>1, <2>2 DEF WrittenIsApart, NoneIsNear, Near, Apart
  <2>4. ASSUME NEW u \in Senders \ {t} PROVE WrittenIsApart(u)' /\ NoneIsNear(u)'
    BY <1>1, <1>7, <2>4 DEF WrittenIsApart, NoneIsNear, Near, Apart
  <2>. QED
    BY <2>3, <2>4
<1>. QED
  BY <1>12, <1>13, <1>14, <1>15, <1>16 DEF NoticesInv

\* A notification that is read stays what it was.
LEMMA ReadingKeepsNotices ==
    ASSUME NoticesInv, NEW some \in SUBSET {n \in sent : ~n.read}, MarkRead(some)
    PROVE  NoticesInv'
<1>1. /\ ComplianceType /\ NotesAreTitled /\ IdsTellApart /\ SendersOverlap /\ NoticeOnce
      /\ \A u \in Senders : SenderIsAt(u) /\ WrittenIsApart(u) /\ NoneIsNear(u)
  BY DEF NoticesInv
<1>2. /\ UNCHANGED <<clock, saved, sender>>
      /\ sent' = {n \in sent : n \notin some} \cup {[n EXCEPT !.read = TRUE] : n \in some}
  BY DEF MarkRead
<1>3. \A n \in sent' : \E m \in sent :
         /\ n \in Note /\ n.title = m.title /\ n.kind = m.kind /\ n.of = m.of /\ n.created = m.created
         /\ n.at = m.at /\ n.id = m.id /\ n.alone = m.alone
         /\ IF m \in some THEN n = [m EXCEPT !.read = TRUE] ELSE n = m
  <2>1. \A m \in some :
           LET n == [m EXCEPT !.read = TRUE] IN
           /\ n \in Note /\ n.title = m.title /\ n.kind = m.kind /\ n.of = m.of /\ n.created = m.created
           /\ n.at = m.at /\ n.id = m.id /\ n.alone = m.alone
    BY <1>1 DEF ComplianceType, Note
  <2>2. ASSUME NEW n \in sent', n \notin {m \in sent : m \notin some}
        PROVE  \E m \in some : n = [m EXCEPT !.read = TRUE]
    BY <1>2, <2>2
  <2>3. some \subseteq sent /\ sent \subseteq Note
    BY <1>1 DEF ComplianceType
  <2>4. ASSUME NEW n \in sent, n \notin some
        PROVE  \E m \in sent : n = m /\ m \notin some /\ n \in Note
    BY <2>3, <2>4
  <2>5. ASSUME NEW m \in some
        PROVE  LET n == [m EXCEPT !.read = TRUE] IN
               /\ m \in sent /\ n \in Note /\ n.title = m.title /\ n.kind = m.kind /\ n.of = m.of /\ n.created = m.created
               /\ n.at = m.at /\ n.id = m.id /\ n.alone = m.alone
    BY <2>1, <2>3
  <2>. QED
    BY <2>2, <2>4, <2>5
<1>4. ComplianceType'
  <2>. DEFINE marked == {[n EXCEPT !.read = TRUE] : n \in some}
              mark   == [n \in some |-> [n EXCEPT !.read = TRUE]]
  <2>1. IsFiniteSet(some) /\ IsFiniteSet({n \in sent : n \notin some})
    BY <1>1, FS_Subset DEF ComplianceType
  <2>2. mark \in Surjection(some, marked)
    BY DEF Surjection
  <2>3. IsFiniteSet(marked)
    <3>. HIDE DEF mark, marked
    <3>. QED
      BY <2>1, <2>2, FS_Surjection
  <2>4. IsFiniteSet(sent')
    BY <1>2, <2>1, <2>3, FS_Union
  <2>5. sent' \in SUBSET Note
    BY <1>3
  <2>. QED
    BY <1>1, <1>2, <2>4, <2>5 DEF ComplianceType
<1>5. NotesAreTitled'
  <2>1. ASSUME NEW n \in sent' PROVE IsTitled(n)'
    <3>1. PICK m \in sent : n.title = m.title /\ n.kind = m.kind /\ n.at = m.at
      BY <1>3
    <3>2. IsTitled(m)
      BY <1>1 DEF NotesAreTitled
    <3>. QED
      BY <1>2, <3>1, <3>2 DEF IsTitled
  <2>. QED
    BY <1>1, <1>2, <2>1 DEF NotesAreTitled, IsTitled
<1>6. IdsTellApart'
  <2>1. ASSUME NEW m \in sent', NEW n \in sent', m.id = n.id PROVE m = n
    <3>1. PICK x \in sent : m.id = x.id /\ IF x \in some THEN m = [x EXCEPT !.read = TRUE] ELSE m = x
      BY <1>3
    <3>2. PICK y \in sent : n.id = y.id /\ IF y \in some THEN n = [y EXCEPT !.read = TRUE] ELSE n = y
      BY <1>3
    <3>3. x = y
      BY <1>1, <2>1, <3>1, <3>2 DEF IdsTellApart
    <3>4. CASE x \in some
      BY <3>1, <3>2, <3>3, <3>4
    <3>5. CASE x \notin some
      BY <3>1, <3>2, <3>3, <3>5
    <3>. QED
      BY <3>4, <3>5
  <2>2. \A t \in Senders : \A m \in sent', n \in sender[t].wrote : m.id # n.id
    BY <1>1, <1>3 DEF IdsTellApart
  <2>. QED
    BY <1>1, <1>2, <2>1, <2>2 DEF IdsTellApart
<1>7. NoticeOnce'
  <2>. SUFFICES ASSUME NEW m \in sent', NEW n \in sent', Near(m, n)
                PROVE  ~m.alone /\ ~n.alone /\ Apart(m, n)
    BY DEF NoticeOnce, Near, Apart
  <2>. QED
    BY <1>1, <1>3 DEF NoticeOnce, Near, Apart
<1>8. \A t \in Senders : WrittenIsApart(t)'
  BY <1>1, <1>2, <1>3 DEF WrittenIsApart, Near, Apart
<1>9. SendersOverlap' /\ \A t \in Senders : SenderIsAt(t)' /\ NoneIsNear(t)'
  BY <1>1, <1>2 DEF SendersOverlap, SenderIsAt, NoneIsNear, Open, Near
<1>. QED
  BY <1>4, <1>5, <1>6, <1>7, <1>8, <1>9 DEF NoticesInv

\* Time passes for all.
LEMMA TimeKeepsNotices == ASSUME NoticesInv, UNCHANGED <<saved, sent, sender>>, clock' \in {clock, clock + 1} PROVE NoticesInv'
<1>1. /\ ComplianceType /\ NotesAreTitled /\ IdsTellApart /\ SendersOverlap /\ NoticeOnce
      /\ \A u \in Senders : SenderIsAt(u) /\ WrittenIsApart(u) /\ NoneIsNear(u)
  BY DEF NoticesInv
<1>2. ComplianceType'
  BY <1>1 DEF ComplianceType
<1>3. NotesAreTitled'
  <2>1. \A n \in Note : n.at <= clock => n.at <= clock'
    BY <1>1 DEF ComplianceType, Note
  <2>2. \A n \in Note : IsTitled(n) => IsTitled(n)'
    BY <2>1 DEF IsTitled
  <2>3. \A t \in Senders : sender[t].wrote \subseteq Note
    BY <1>1 DEF ComplianceType, Sender
  <2>. QED
    BY <1>1, <2>2, <2>3 DEF NotesAreTitled, ComplianceType
<1>4. IdsTellApart' /\ SendersOverlap' /\ NoticeOnce'
  BY <1>1 DEF IdsTellApart, SendersOverlap, NoticeOnce, Open
<1>5. \A u \in Senders : SenderIsAt(u)' /\ WrittenIsApart(u)' /\ NoneIsNear(u)'
  BY <1>1 DEF SenderIsAt, WrittenIsApart, NoneIsNear, Near, Apart
<1>. QED
  BY <1>2, <1>3, <1>4, <1>5 DEF NoticesInv

LEMMA UnmetAreUnmet ==
    ASSUME ComplianceAssumption, NEW y \in Years, NEW current \in [1..Len(Rules) -> 0..MaxFacts]
    PROVE  Unmet(y, current) \in UnmetRules
<1>. DEFINE state(r) == Derived(Rules[r], current[r], Progress[y][clock])
            open == {r \in 1..Len(Rules) : state(r) # "compliant"}
<1>1. \A r \in 1..Len(Rules) : state(r) \in {"compliant", "warning", "non compliant"}
  BY DEF Derived
<1>2. Unmet(y, current) = [r \in open |-> state(r)]
  BY DEF Unmet
<1>3. Unmet(y, current) \in [open -> {"warning", "non compliant"}] /\ open \in SUBSET (1..Len(Rules))
  <2>. HIDE DEF state
  <2>. QED
    BY <1>1, <1>2
<1>. HIDE DEF open
<1>. QED
  BY <1>3 DEF UnmetRules

LEMMA NoticesInvNext == ASSUME ComplianceAssumption, NoticesInv, [ComplianceNext]_complianceVars PROVE NoticesInv'
<1>1. ASSUME NEW t \in Senders, NEW y \in Years, NEW current \in [1..Len(Rules) -> 0..MaxFacts], BeginCheck(t, y, current)
      PROVE  NoticesInv'
  BY <1>1, UnmetAreUnmet, BeginKeepsNotices DEF BeginCheck, NotifierKind
<1>2. ASSUME NEW t \in Senders, FindRows(t) PROVE NoticesInv'
  <2>1. (sender[t].of \in saved) \in BOOLEAN
    OBVIOUS
  <2>. QED
    BY <1>2, <2>1, RowsKeepNotices DEF FindRows
<1>3. ASSUME NEW t \in Senders, Flush(t) PROVE NoticesInv'
  BY <1>3, RowsKeepNotices, EndKeepsNotices DEF Flush, NoticesInv, ComplianceType
<1>4. ASSUME NEW t \in Senders, Open(t), RollBack(t) PROVE NoticesInv'
  BY <1>4, EndKeepsNotices DEF RollBack, NoticesInv, ComplianceType
<1>5. ASSUME NEW t \in Senders, Remind(t) PROVE NoticesInv'
  <2>1. PICK r \in DOMAIN sender[t].unmet :
          LET title == Title(sender[t].unmet[r]) IN
            \/ Fails(t, title) /\ RollBack(t)
            \/ /\ ~Fails(t, title) /\ HasRoom
               /\ \E inApp \in BOOLEAN :
                    sender' = [sender EXCEPT ![t].unmet = [q \in DOMAIN @ \ {r} |-> @[q]],
                                             ![t].wrote = Wrote(t, title, inApp)]
               /\ UNCHANGED <<clock, saved, sent>>
    BY <1>5 DEF Remind
  <2>. DEFINE title == Title(sender[t].unmet[r])
              rest  == [q \in DOMAIN sender[t].unmet \ {r} |-> sender[t].unmet[q]]
  <2>2. Open(t) /\ sender[t].step = "reminding" /\ sender[t] \in Sender /\ sender \in [Senders -> Sender]
    BY <1>5 DEF Remind, NoticesInv, ComplianceType
  <2>3. title \in {"Compliance warning", "Compliance non compliant"} /\ title \in Titles
    BY DEF Title, Titles
  <2>4. rest \in UnmetRules
    <3>1. PICK S \in SUBSET (1..Len(Rules)) : sender[t].unmet \in [S -> {"warning", "non compliant"}]
      BY <2>2 DEF Sender, UnmetRules
    <3>2. rest \in [S \ {r} -> {"warning", "non compliant"}] /\ S \ {r} \in SUBSET (1..Len(Rules))
      BY <3>1
    <3>. QED
      BY <3>2 DEF UnmetRules
  <2>5. CASE RollBack(t)
    BY <1>4, <2>2, <2>5
  <2>6. ASSUME HasRoom, NEW inApp \in BOOLEAN, UNCHANGED <<clock, saved, sent>>,
               sender' = [sender EXCEPT ![t].unmet = [q \in DOMAIN @ \ {r} |-> @[q]], ![t].wrote = Wrote(t, title, inApp)]
        PROVE  NoticesInv'
    <3>. HIDE DEF title
    <3>1. sender' = [sender EXCEPT ![t].unmet = rest, ![t].wrote = Wrote(t, title, inApp)]
      BY <2>6
    <3>. HIDE DEF rest
    <3>2. sender' = [sender EXCEPT ![t].step = "reminding", ![t].unmet = rest, ![t].wrote = Wrote(t, title, inApp)]
      BY <2>2, <3>1 DEF Sender
    <3>3. Writes(t, title, inApp, rest, "reminding")
      BY <2>2, <2>3, <2>4, <2>6, <3>2 DEF Writes
    <3>. QED
      BY <2>6, <3>3, WritingKeepsNotices
  <2>. QED
    BY <2>1, <2>5, <2>6
<1>6. ASSUME NEW t \in Senders, CommitCheck(t) \/ CommitNotify(t) PROVE NoticesInv'
  <2>1. saved' \in SUBSET Years
    <3>1. saved \in SUBSET Years /\ SenderIsAt(t)
      BY DEF NoticesInv, ComplianceType
    <3>. QED
      BY <1>6, <3>1 DEF CommitCheck, CommitNotify, SenderIsAt
  <2>. QED
    BY <1>6, <2>1, EndKeepsNotices DEF CommitCheck, CommitNotify
<1>7. ASSUME NEW t \in Senders, NEW sort \in {"maintenance", "grading"}, BeginNotify(t, sort) PROVE NoticesInv'
  <2>1. << >> \in UnmetRules
    BY NobodySends DEF Sender, Closed
  <2>. QED
    BY <1>7, <2>1, BeginKeepsNotices DEF BeginNotify, NotifierKind
<1>8. ASSUME NEW t \in Senders, Notify(t) PROVE NoticesInv'
  <2>. DEFINE title == TitleOf(sender[t].kind)
  <2>1. Open(t) /\ sender[t].step = "notifying" /\ sender[t] \in Sender /\ sender \in [Senders -> Sender]
    BY <1>8 DEF Notify, NoticesInv, ComplianceType
  <2>2. title \in Titles /\ sender[t].unmet \in UnmetRules
    BY <2>1 DEF TitleOf, Titles, Sender
  <2>3. CASE RollBack(t)
    BY <1>4, <2>1, <2>3
  <2>4. ASSUME HasRoom, NEW inApp \in BOOLEAN, UNCHANGED <<clock, saved, sent>>,
               sender' = [sender EXCEPT ![t].step = "notified", ![t].wrote = Wrote(t, title, inApp)]
        PROVE  NoticesInv'
    <3>1. sender' = [sender EXCEPT ![t].step = "notified", ![t].unmet = sender[t].unmet, ![t].wrote = Wrote(t, title, inApp)]
      BY <2>1, <2>4 DEF Sender
    <3>2. Writes(t, title, inApp, sender[t].unmet, "notified")
      BY <2>1, <2>2, <2>4, <3>1 DEF Writes
    <3>. QED
      BY <2>4, <3>2, WritingKeepsNotices
  <2>. QED
    BY <1>8, <2>3, <2>4 DEF Notify
<1>9. ASSUME NEW some \in SUBSET {n \in sent : ~n.read}, MarkRead(some) PROVE NoticesInv'
  BY <1>9, ReadingKeepsNotices
<1>10. ASSUME TimePasses \/ UNCHANGED complianceVars PROVE NoticesInv'
  BY <1>10, TimeKeepsNotices DEF TimePasses, complianceVars
<1>. QED
  BY <1>1, <1>2, <1>3, <1>5, <1>6, <1>7, <1>8, <1>9, <1>10 DEF ComplianceNext

\* A user is told once (services/notifications._notification_exists, services/compliance).
THEOREM UsersAreToldOnce == ASSUME ComplianceAssumption PROVE ComplianceSpec => []NoticeOnce
<1>1. ComplianceInit => NoticesInv
  BY NoticesInvInit
<1>2. NoticesInv /\ [ComplianceNext]_complianceVars => NoticesInv'
  BY NoticesInvNext
<1>3. NoticesInv => NoticeOnce
  BY DEF NoticesInv
<1>. QED
  BY <1>1, <1>2, <1>3, PTL DEF ComplianceSpec
=============================================================================
