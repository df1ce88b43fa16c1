-------------------------- MODULE AtomicBuildProofs --------------------------
(***************************************************************************)
(* The atomic index build, for every set of builds and process ids, every  *)
(* number of builds at once and of edits, whatever is killed where.        *)
(***************************************************************************)
EXTENDS AtomicBuild, TLAPS

Swapping == \E c \in Builds : pc[c] \in {"rename2", "restore"}
Placed == man # NoBuild \/ \E b \in Builds : pc[b] \in {"rmBackup", "commit"}

(* A running build that has ingested still has its database to promote, and *)
(* one inside the swap the old database to put back.                       *)
DbReady ==
    \A b \in alive : pc[b] \in {"manifest", "rename", "aside", "rename2"} => temp[b].db # NoBuild
BackupReady == \A b \in alive : pc[b] \in {"rename2", "restore"} => backup[b] # NoBuild
PlacedHasDb == Placed /\ db = NoBuild => Swapping

(* The invariant that holds however builds overlap.                        *)
DiskInv == TypeOK /\ LiveTempKept /\ DbReady /\ BackupReady /\ PlacedHasDb

-----------------------------------------------------------------------------
LEMMA DiskInit == Init => DiskInv
<1>1. ASSUME Init PROVE TypeOK
  <2>1. 0 \in Versions /\ NoBuild \in Maybe /\ "new" \in Steps
    BY BoundsAssumption DEF Versions, Maybe, Steps
  <2>2. pc \in [Builds -> Steps] /\ alive \in SUBSET Builds /\ overlapped \in BOOLEAN
    BY <1>1, <2>1 DEF Init
  <2>3. temp \in [Builds -> TempDir \cup {NoBuild}]
    BY <1>1 DEF Init
  <2>4. QED
    BY <1>1, <2>1, <2>2, <2>3 DEF Init, TypeOK
<1>2. ASSUME Init PROVE LiveTempKept /\ DbReady /\ BackupReady /\ PlacedHasDb
  BY <1>2 DEF Init, LiveTempKept, Building, DbReady, BackupReady, PlacedHasDb, Placed
<1>3. QED
  BY <1>1, <1>2 DEF DiskInv

(* A sweep leaves what belongs to running builds.                          *)
LEMMA SweepKeeps ==
    ASSUME TypeOK, sweepStaleTempDirs, sweepReplacedOrphans
    PROVE  /\ temp' \in [Builds -> TempDir \cup {NoBuild}]
           /\ backup' \in [Builds -> Maybe]
           /\ \A b \in alive : temp'[b] = temp[b] /\ backup'[b] = backup[b]
           /\ \A b \in Builds : ~isPidAlive(pid[b]) => temp'[b] = NoBuild /\ backup'[b] = NoBuild
<1>1. \A b \in alive : isPidAlive(pid[b]) /\ b \in Builds
  BY DEF TypeOK, isPidAlive
<1>2. QED
  BY <1>1 DEF TypeOK, sweepStaleTempDirs, sweepReplacedOrphans, Maybe

LEMMA SpawnOrKillKeeps ==
    ASSUME DiskInv, NEW b \in Builds, Spawn(b) \/ (Kill(b) /\ UNCHANGED overlapped)
    PROVE  DiskInv'
<1>1. CASE Spawn(b)
  <2>1. TypeOK'
    BY <1>1 DEF DiskInv, TypeOK, Spawn, Goto, Steps
  <2>2. \A c \in Builds : pc'[c] = IF c = b THEN "sweep" ELSE pc[c]
    BY <1>1 DEF DiskInv, TypeOK, Spawn, Goto
  <2>3. pc[b] = "new" /\ alive' = alive \cup {b} /\ UNCHANGED <<temp, backup, db, man>>
    BY <1>1 DEF Spawn
  <2>4. \A c \in alive : c \in Builds
    BY DEF DiskInv, TypeOK
  <2>5. LiveTempKept' /\ DbReady' /\ BackupReady'
    BY <2>2, <2>3, <2>4 DEF DiskInv, LiveTempKept, Building, DbReady, BackupReady
  <2>6. Swapping => Swapping'
    BY <2>2, <2>3 DEF Swapping
  <2>7. Placed' => Placed
    BY <2>2, <2>3 DEF Placed
  <2>8. PlacedHasDb'
    BY <2>3, <2>6, <2>7 DEF DiskInv, PlacedHasDb
  <2>9. QED
    BY <2>1, <2>5, <2>8 DEF DiskInv
<1>2. CASE Kill(b) /\ UNCHANGED overlapped
  <2>1. TypeOK'
    BY <1>2 DEF DiskInv, TypeOK, Kill
  <2>2. alive' \subseteq alive /\ UNCHANGED <<pc, temp, backup, db, man>>
    BY <1>2 DEF Kill
  <2>3. LiveTempKept' /\ DbReady' /\ BackupReady' /\ PlacedHasDb'
    BY <2>2 DEF DiskInv, LiveTempKept, Building, DbReady, BackupReady, PlacedHasDb, Placed, Swapping
  <2>4. QED
    BY <2>1, <2>3 DEF DiskInv
<1>3. QED
  BY <1>1, <1>2

(* What a step of build b leaves to show, when it moves to `to' and touches *)
(* no temp directory nor backup but its own.                               *)
LEMMA OwnStep ==
    ASSUME DiskInv, NEW b \in alive, NEW to \in Steps, Goto(b, to),
           alive' \in {alive, alive \ {b}}, TypeOK',
           \A c \in alive \ {b} : temp'[c] = temp[c] /\ backup'[c] = backup[c],
           b \in alive' /\ to \notin {"new", "sweep", "fingerprint", "end"} => temp'[b] # NoBuild,
           b \in alive' /\ to \in {"manifest", "rename", "aside", "rename2"} => temp'[b].db # NoBuild,
           b \in alive' /\ to \in {"rename2", "restore"} => backup'[b] # NoBuild
    PROVE  LiveTempKept' /\ DbReady' /\ BackupReady'
<1>1. b \in Builds /\ \A c \in alive : c \in Builds
  BY DEF DiskInv, TypeOK
<1>2. \A c \in Builds : pc'[c] = IF c = b THEN to ELSE pc[c]
  BY DEF DiskInv, TypeOK, Goto
<1>3. LiveTempKept'
  BY <1>1, <1>2 DEF DiskInv, LiveTempKept, Building
<1>4. DbReady'
  BY <1>1, <1>2 DEF DiskInv, DbReady
<1>5. BackupReady'
  BY <1>1, <1>2 DEF DiskInv, BackupReady
<1>6. QED
  BY <1>3, <1>4, <1>5

(* The steps before the promotion change neither database nor manifest.    *)
LEMMA BeforePromotion ==
    ASSUME DiskInv, NEW b \in Builds, UNCHANGED overlapped,
           Prepare(b) \/ SnapshotFiles(b) \/ Ingest(b) \/ WriteManifest(b) \/ RemoveTemp(b)
    PROVE  DiskInv'
<1>1. b \in alive /\ UNCHANGED <<db, man>>
  BY DEF Prepare, SnapshotFiles, Ingest, WriteManifest, RemoveTemp, At
<1>2. ASSUME NEW to \in Steps, Goto(b, to), to \notin {"rmBackup", "commit"},
             pc[b] \notin {"rename2", "restore"}
      PROVE  PlacedHasDb'
  <2>1. \A c \in Builds : pc'[c] = IF c = b THEN to ELSE pc[c]
    BY <1>2 DEF DiskInv, TypeOK, Goto
  <2>2. (Placed' => Placed) /\ (Swapping => Swapping')
    BY <1>1, <1>2, <2>1 DEF Placed, Swapping
  <2>3. QED
    BY <1>1, <2>2 DEF DiskInv, PlacedHasDb
<1>3. CASE Prepare(b)
  <2>1. Goto(b, "fingerprint") /\ alive' = alive /\ pc[b] = "sweep" /\ "fingerprint" \in Steps
    BY <1>3 DEF Prepare, At, Steps
  <2>2. TypeOK' /\ \A c \in alive : temp'[c] = temp[c] /\ backup'[c] = backup[c]
    BY <1>3, SweepKeeps DEF Prepare, DiskInv, TypeOK, Goto, Steps
  <2>3. LiveTempKept' /\ DbReady' /\ BackupReady'
    BY <1>1, <2>1, <2>2, OwnStep
  <2>4. QED
    BY <1>2, <2>1, <2>2, <2>3 DEF DiskInv
<1>4. CASE SnapshotFiles(b)
  <2>1. Goto(b, "ingest") /\ alive' = alive /\ pc[b] = "fingerprint" /\ "ingest" \in Steps
    BY <1>4 DEF SnapshotFiles, At, Steps
  <2>2. [db |-> NoBuild, man |-> NoBuild] \in TempDir
    BY DEF TempDir, Maybe
  <2>3. TypeOK'
    BY <1>4, <2>2 DEF SnapshotFiles, DiskInv, TypeOK, Goto, Steps, Maybe
  <2>4. temp'[b] = [db |-> NoBuild, man |-> NoBuild] /\ backup' = backup
        /\ \A c \in alive \ {b} : temp'[c] = temp[c]
    BY <1>4 DEF SnapshotFiles, DiskInv, TypeOK
  <2>5. temp'[b] # NoBuild
    BY <2>2, <2>4, NoBuildAssumption
  <2>6. LiveTempKept' /\ DbReady' /\ BackupReady'
    BY <1>1, <2>1, <2>3, <2>4, <2>5, OwnStep
  <2>7. QED
    BY <1>2, <2>1, <2>3, <2>6 DEF DiskInv
<1>5. CASE Ingest(b)
  <2>1. PICK to \in {"manifest", "fail"} :
           /\ Goto(b, to)
           /\ IF to = "manifest" THEN temp' = [temp EXCEPT ![b].db = files] ELSE temp' = temp
    BY <1>5 DEF Ingest
  <2>2. pc[b] = "ingest" /\ alive' = alive /\ backup' = backup /\ to \in Steps
    BY <1>5 DEF Ingest, At, Steps
  <2>3. temp[b] # NoBuild /\ temp[b] \in TempDir /\ files \in Maybe /\ files # NoBuild
    BY <1>1, <2>2, NoBuildAssumption
       DEF DiskInv, TypeOK, LiveTempKept, Building, Maybe, Versions
  <2>4. [temp[b] EXCEPT !.db = files] \in TempDir /\ [temp[b] EXCEPT !.db = files].db = files
    BY <2>3 DEF TempDir
  <2>5. TypeOK'
    BY <1>5, <2>1, <2>2, <2>4 DEF Ingest, DiskInv, TypeOK, Goto
  <2>6. /\ temp'[b] \in TempDir /\ (to = "manifest" => temp'[b].db = files)
        /\ \A c \in alive \ {b} : temp'[c] = temp[c]
    BY <2>1, <2>3, <2>4 DEF DiskInv, TypeOK
  <2>7. LiveTempKept' /\ DbReady' /\ BackupReady'
    BY <1>1, <2>1, <2>2, <2>3, <2>5, <2>6, NoBuildAssumption, OwnStep
  <2>8. QED
    BY <1>2, <2>1, <2>2, <2>5, <2>7 DEF DiskInv
<1>6. CASE WriteManifest(b)
  <2>1. Goto(b, "rename") /\ alive' = alive /\ pc[b] = "manifest" /\ "rename" \in Steps
        /\ backup' = backup /\ temp' = [temp EXCEPT ![b].man = fingerprint[b]]
    BY <1>6 DEF WriteManifest, At, Steps
  <2>2. temp[b] \in TempDir /\ temp[b].db # NoBuild /\ fingerprint[b] \in Maybe
    BY <1>1, <2>1 DEF DiskInv, TypeOK, LiveTempKept, Building, DbReady
  <2>3. /\ [temp[b] EXCEPT !.man = fingerprint[b]] \in TempDir
        /\ [temp[b] EXCEPT !.man = fingerprint[b]].db = temp[b].db
    BY <2>2 DEF TempDir
  <2>4. TypeOK'
    BY <1>6, <2>1, <2>3 DEF WriteManifest, DiskInv, TypeOK, Goto
  <2>5. /\ temp'[b] \in TempDir /\ temp'[b].db = temp[b].db
        /\ \A c \in alive \ {b} : temp'[c] = temp[c]
    BY <2>1, <2>3 DEF DiskInv, TypeOK
  <2>6. LiveTempKept' /\ DbReady' /\ BackupReady'
    BY <1>1, <2>1, <2>2, <2>4, <2>5, NoBuildAssumption, OwnStep
  <2>7. QED
    BY <1>2, <2>1, <2>4, <2>6 DEF DiskInv
<1>7. CASE RemoveTemp(b)
  <2>1. Goto(b, "end") /\ alive' = alive \ {b} /\ pc[b] \in {"rmTemp", "fail"} /\ "end" \in Steps
        /\ backup' = backup /\ temp' = [temp EXCEPT ![b] = NoBuild]
    BY <1>7 DEF RemoveTemp, At, Steps
  <2>2. TypeOK'
    BY <1>7, <2>1 DEF RemoveTemp, DiskInv, TypeOK, Goto
  <2>3. \A c \in alive \ {b} : temp'[c] = temp[c]
    BY <2>1 DEF DiskInv, TypeOK
  <2>4. LiveTempKept' /\ DbReady' /\ BackupReady'
    BY <1>1, <2>1, <2>2, <2>3, OwnStep
  <2>5. QED
    BY <1>2, <2>1, <2>2, <2>4 DEF DiskInv
<1>8. QED
  BY <1>3, <1>4, <1>5, <1>6, <1>7

(* The database is renamed in, at once or after the old one was set aside. *)
LEMMA MoveKeeps ==
    ASSUME DiskInv, NEW b \in Builds, UNCHANGED overlapped,
           RenameDb(b) \/ RenameDbAgain(b), db = NoBuild
    PROVE  DiskInv'
<1>1. PICK to \in {"commit", "rmBackup"} :
         /\ b \in alive /\ pc[b] \in {"rename", "rename2"} /\ Goto(b, to) /\ MoveDbIn(b)
         /\ UNCHANGED <<files, alive, pid, fingerprint, backup, man>>
  BY DEF RenameDb, RenameDbAgain, At
<1>2. temp[b] \in TempDir /\ temp[b].db # NoBuild
  BY <1>1 DEF DiskInv, TypeOK, LiveTempKept, Building, DbReady
<1>3. [temp[b] EXCEPT !.db = NoBuild] \in TempDir /\ temp[b].db \in Maybe
  BY <1>2 DEF TempDir, Maybe
<1>4. to \in Steps
  BY DEF Steps
<1>5. /\ TypeOK'
      /\ temp'[b] \in TempDir
      /\ \A c \in alive \ {b} : temp'[c] = temp[c]
  BY <1>1, <1>3, <1>4 DEF DiskInv, TypeOK, Goto, MoveDbIn
<1>6. LiveTempKept' /\ DbReady' /\ BackupReady'
  BY <1>1, <1>4, <1>5, NoBuildAssumption, OwnStep
<1>7. PlacedHasDb'
  BY <1>1, <1>2 DEF PlacedHasDb, MoveDbIn
<1>8. QED
  BY <1>5, <1>6, <1>7 DEF DiskInv

(* The old database is renamed aside: from here the swap has no database.  *)
LEMMA AsideKeeps ==
    ASSUME DiskInv, NEW b \in Builds, UNCHANGED overlapped, RenameAside(b), db # NoBuild
    PROVE  DiskInv'
<1>1. /\ b \in alive /\ pc[b] = "aside" /\ Goto(b, "rename2") /\ "rename2" \in Steps
      /\ backup' = [backup EXCEPT ![b] = db] /\ db' = NoBuild
      /\ UNCHANGED <<files, alive, pid, fingerprint, temp, man>>
  BY DEF RenameAside, At, Steps
<1>2. /\ TypeOK'
      /\ backup'[b] = db
      /\ \A c \in alive \ {b} : backup'[c] = backup[c]
  BY <1>1 DEF DiskInv, TypeOK, Goto, Maybe
<1>3. temp[b] # NoBuild /\ temp[b].db # NoBuild
  BY <1>1 DEF DiskInv, LiveTempKept, Building, DbReady
<1>4. LiveTempKept' /\ DbReady' /\ BackupReady'
  BY <1>1, <1>2, <1>3, OwnStep
<1>5. pc'[b] = "rename2"
  BY <1>1 DEF DiskInv, TypeOK, Goto
<1>6. PlacedHasDb'
  BY <1>5 DEF PlacedHasDb, Swapping
<1>7. QED
  BY <1>2, <1>4, <1>6 DEF DiskInv

(* Steps of a promotion that find something else than they hoped for.      *)
LEMMA DetourKeeps ==
    ASSUME DiskInv, NEW b \in Builds, UNCHANGED overlapped,
           \/ RenameDb(b) /\ db # NoBuild
           \/ RenameAside(b) /\ db = NoBuild
           \/ RenameDbAgain(b) /\ db # NoBuild
    PROVE  DiskInv'
<1>1. PICK to \in {"aside", "fail", "restore"} :
         /\ b \in alive /\ Goto(b, to) /\ pc[b] \in {"rename", "aside", "rename2"}
         /\ to = "aside" => pc[b] = "rename"
         /\ to = "restore" => pc[b] = "rename2"
         /\ to = "fail" => pc[b] = "aside"
         /\ pc[b] = "rename2" => db # NoBuild
         /\ UNCHANGED <<files, alive, pid, fingerprint, temp, backup, db, man>>
  BY DEF RenameDb, RenameAside, RenameDbAgain, At
<1>2. to \in Steps
  BY DEF Steps
<1>3. TypeOK'
  BY <1>1, <1>2 DEF DiskInv, TypeOK, Goto
<1>4. /\ temp[b] # NoBuild
      /\ temp[b].db # NoBuild
      /\ pc[b] = "rename2" => backup[b] # NoBuild
  BY <1>1 DEF DiskInv, LiveTempKept, Building, DbReady, BackupReady
<1>5. LiveTempKept' /\ DbReady' /\ BackupReady'
  BY <1>1, <1>2, <1>3, <1>4, OwnStep
<1>6. \A c \in Builds : pc'[c] = IF c = b THEN to ELSE pc[c]
  BY <1>1 DEF DiskInv, TypeOK, Goto
<1>7. (Placed' => Placed) /\ (db = NoBuild => (Swapping => Swapping'))
  BY <1>1, <1>6 DEF Placed, Swapping
<1>8. PlacedHasDb'
  BY <1>1, <1>7 DEF DiskInv, PlacedHasDb
<1>9. QED
  BY <1>3, <1>5, <1>8 DEF DiskInv

LEMMA RestoreKeeps ==
    ASSUME DiskInv, NEW b \in Builds, UNCHANGED overlapped, RestoreBackup(b)
    PROVE  DiskInv'
<1>1. /\ b \in alive /\ pc[b] = "restore" /\ Goto(b, "fail") /\ "fail" \in Steps
      /\ UNCHANGED <<files, alive, pid, fingerprint, temp, man>>
  BY DEF RestoreBackup, At, Steps
<1>2. backup[b] # NoBuild /\ backup[b] \in Maybe /\ temp[b] # NoBuild
  BY <1>1 DEF DiskInv, TypeOK, BackupReady, LiveTempKept, Building
<1>3. db' # NoBuild
  BY <1>2 DEF RestoreBackup
<1>4. /\ TypeOK'
      /\ \A c \in alive \ {b} : backup'[c] = backup[c]
  BY <1>1, <1>2 DEF RestoreBackup, DiskInv, TypeOK, Goto, Maybe
<1>5. LiveTempKept' /\ DbReady' /\ BackupReady'
  BY <1>1, <1>2, <1>4, OwnStep
<1>6. QED
  BY <1>3, <1>4, <1>5 DEF DiskInv, PlacedHasDb

LEMMA CommitKeeps ==
    ASSUME DiskInv, NEW b \in Builds, UNCHANGED overlapped, RemoveBackup(b) \/ RenameManifest(b)
    PROVE  DiskInv'
<1>1. b \in alive /\ pc[b] \in {"rmBackup", "commit"} /\ UNCHANGED <<files, alive, pid, fingerprint, db>>
  BY DEF RemoveBackup, RenameManifest, At
<1>2. temp[b] \in TempDir /\ temp[b] # NoBuild
  BY <1>1 DEF DiskInv, TypeOK, LiveTempKept, Building
<1>3. /\ temp[b].man \in Maybe
      /\ [temp[b] EXCEPT !.man = NoBuild] \in TempDir
  BY <1>2 DEF TempDir, Maybe
<1>4. PICK to \in {"commit", "rmTemp"} : Goto(b, to)
  BY DEF RemoveBackup, RenameManifest
<1>5. to \in Steps /\ NoBuild \in Maybe
  BY DEF Steps, Maybe
<1>6. TypeOK'
  BY <1>1, <1>3, <1>4, <1>5 DEF RemoveBackup, RenameManifest, DiskInv, TypeOK, Goto
<1>7. \A c \in alive \ {b} : temp'[c] = temp[c] /\ backup'[c] = backup[c]
  BY <1>1 DEF RemoveBackup, RenameManifest, DiskInv, TypeOK
<1>8. temp'[b] \in TempDir
  BY <1>1, <1>2, <1>3 DEF RemoveBackup, RenameManifest, DiskInv, TypeOK
<1>9. LiveTempKept' /\ DbReady' /\ BackupReady'
  BY <1>1, <1>4, <1>5, <1>6, <1>7, <1>8, NoBuildAssumption, OwnStep
<1>10. \A c \in Builds : pc'[c] = IF c = b THEN to ELSE pc[c]
  BY <1>4 DEF DiskInv, TypeOK, Goto
<1>11. Placed /\ (Swapping => Swapping')
  BY <1>1, <1>10 DEF Placed, Swapping
<1>12. PlacedHasDb'
  BY <1>1, <1>11 DEF DiskInv, PlacedHasDb
<1>13. QED
  BY <1>6, <1>9, <1>12 DEF DiskInv

LEMMA OutsideKeeps ==
    ASSUME DiskInv, (ServeSweeps \/ Edit) /\ UNCHANGED overlapped
    PROVE  DiskInv'
<1>1. CASE ServeSweeps /\ UNCHANGED overlapped
  <2>1. sweepStaleTempDirs /\ sweepReplacedOrphans /\ UNCHANGED <<files, pc, alive, pid, fingerprint, db, man, overlapped>>
    BY <1>1 DEF ServeSweeps
  <2>2. TypeOK' /\ \A c \in alive : c \in Builds /\ temp'[c] = temp[c] /\ backup'[c] = backup[c]
    BY <2>1, SweepKeeps DEF DiskInv, TypeOK
  <2>3. LiveTempKept' /\ DbReady' /\ BackupReady' /\ PlacedHasDb'
    BY <2>1, <2>2 DEF DiskInv, LiveTempKept, Building, DbReady, BackupReady, PlacedHasDb, Placed, Swapping
  <2>4. QED
    BY <2>2, <2>3 DEF DiskInv
<1>2. CASE Edit /\ UNCHANGED overlapped
  <2>1. files' \in Versions /\ UNCHANGED <<pc, alive, pid, fingerprint, temp, backup, db, man, overlapped>>
    BY <1>2, BoundsAssumption DEF Edit, Versions, DiskInv, TypeOK
  <2>2. TypeOK'
    BY <2>1 DEF DiskInv, TypeOK
  <2>3. LiveTempKept' /\ DbReady' /\ BackupReady' /\ PlacedHasDb'
    BY <2>1 DEF DiskInv, LiveTempKept, Building, DbReady, BackupReady, PlacedHasDb, Placed, Swapping
  <2>4. QED
    BY <2>2, <2>3 DEF DiskInv
<1>3. QED
  BY <1>1, <1>2

LEMMA DiskInductive == DiskInv /\ [Next]_vars => DiskInv'
<1>1. ASSUME DiskInv, UNCHANGED vars PROVE DiskInv'
  BY <1>1 DEF vars, DiskInv, TypeOK, LiveTempKept, Building, DbReady, BackupReady, PlacedHasDb,
              Placed, Swapping
<1>2. ASSUME DiskInv, NEW b \in Builds, Step(b), UNCHANGED overlapped PROVE DiskInv'
  BY <1>2, BeforePromotion, MoveKeeps, AsideKeeps, DetourKeeps, RestoreKeeps, CommitKeeps DEF Step
<1>3. QED
  BY <1>1, <1>2, SpawnOrKillKeeps, OutsideKeeps DEF Next

(* Types, temp directories of running builds and visible indexes, in every *)
(* behaviour.                                                              *)
THEOREM DiskInvariant == Spec => []DiskInv
  BY DiskInit, DiskInductive, PTL DEF Spec

(* No sweep removes the temp directory of a build that runs                *)
(* (glob-index/atomic-build.ts).                                           *)
THEOREM LiveTempAlwaysKept == Spec => []LiveTempKept
<1>1. DiskInv => LiveTempKept
  BY DEF DiskInv
<1>2. QED
  BY <1>1, DiskInvariant, PTL

(* A visible index has its database outside the swap of a rebuild          *)
(* (glob-index/atomic-build.ts, promote).                                  *)
THEOREM VisibleAlwaysHasDb == Spec => []VisibleHasDb
<1>1. DiskInv => VisibleHasDb
  BY DEF DiskInv, PlacedHasDb, Placed, Swapping, VisibleHasDb
<1>2. QED
  BY <1>1, DiskInvariant, PTL

-----------------------------------------------------------------------------
(* As long as builds do not overlap, versions only grow along a build: it  *)
(* takes the fingerprints first, ingests later, and what was there when it *)
(* started is older than what it brings.                                   *)
Ordered(b) ==
    /\ pc[b] \in {"ingest", "manifest"} => fingerprint[b] \in Nat /\ fingerprint[b] <= files
    /\ pc[b] = "manifest" => fingerprint[b] <= temp[b].db
    /\ pc[b] \in {"rename", "aside", "rename2"} =>
           temp[b].man \in Nat /\ temp[b].man <= temp[b].db
    /\ pc[b] \in {"manifest", "rename", "aside", "rename2"} =>
           temp[b].db <= files /\ (man # NoBuild => man <= temp[b].db)
    /\ pc[b] \in {"rename2", "restore"} =>
           backup[b] <= files /\ (man # NoBuild => man <= backup[b])
    /\ pc[b] \in {"rmBackup", "commit"} =>
           db # NoBuild /\ temp[b].man \in Nat /\ temp[b].man <= db

OneAtATime == \A b, c \in alive : b = c
RealPath ==
    /\ man # NoBuild => man <= files
    /\ db # NoBuild => db <= files /\ (man # NoBuild => man <= db)
OrderInv == ~overlapped => OneAtATime /\ RealPath /\ \A b \in alive : Ordered(b)

(* What is in the records of running builds, for the arithmetic below.     *)
LEMMA Contents ==
    ASSUME DiskInv
    PROVE  /\ files \in Nat /\ NoBuild \notin Nat
           /\ man # NoBuild => man \in Nat
           /\ db # NoBuild => db \in Nat
           /\ \A b \in alive :
                 /\ b \in Builds
                 /\ pc[b] \in {"manifest", "rename", "aside", "rename2"} => temp[b].db \in Nat
                 /\ pc[b] \in {"rename2", "restore"} => backup[b] \in Nat
<1>1. Versions \subseteq Nat
  BY BoundsAssumption DEF Versions
<1>2. \A v \in Maybe : v # NoBuild => v \in Nat
  BY <1>1 DEF Maybe
<1>3. ASSUME NEW b \in alive, pc[b] \in {"manifest", "rename", "aside", "rename2"}
      PROVE  temp[b].db \in Nat
  <2>1. temp[b] \in TempDir /\ temp[b].db # NoBuild
    BY <1>3 DEF DiskInv, TypeOK, LiveTempKept, Building, DbReady
  <2>2. QED
    BY <2>1, <1>2 DEF TempDir
<1>4. QED
  BY <1>1, <1>2, <1>3, NoBuildAssumption DEF DiskInv, TypeOK, BackupReady

LEMMA OrderInit == Init => OrderInv
  BY DEF Init, OrderInv, OneAtATime, RealPath

(* A step of build b shows the order when it shows its own.                *)
LEMMA OrderOfStep ==
    ASSUME DiskInv, OrderInv, NEW b \in alive, alive' \subseteq alive, UNCHANGED overlapped,
           ~overlapped => RealPath' /\ (b \in alive' => Ordered(b)')
    PROVE  OrderInv'
  BY DEF OrderInv, OneAtATime

LEMMA OrderOfPreparing ==
    ASSUME DiskInv, DiskInv', OrderInv, NEW b \in Builds, UNCHANGED overlapped,
           Prepare(b) \/ SnapshotFiles(b) \/ Ingest(b) \/ WriteManifest(b) \/ RemoveTemp(b)
    PROVE  OrderInv'
<1>1. b \in alive /\ alive' \subseteq alive /\ UNCHANGED <<files, db, man>>
  BY DEF Prepare, SnapshotFiles, Ingest, WriteManifest, RemoveTemp, At
<1>2. ~overlapped => RealPath' /\ Ordered(b)
  BY <1>1 DEF OrderInv, RealPath
<1>3. \A to : Goto(b, to) => pc'[b] = to
  BY DEF Goto, DiskInv, TypeOK
<1>4. CASE Prepare(b) \/ RemoveTemp(b)
  <2>1. pc'[b] \in {"fingerprint", "end"}
    BY <1>3, <1>4 DEF Prepare, RemoveTemp
  <2>2. QED
    BY <1>1, <1>2, <2>1, OrderOfStep DEF Ordered
<1>5. CASE SnapshotFiles(b)
  <2>1. pc'[b] = "ingest" /\ fingerprint'[b] = files
    BY <1>3, <1>5 DEF SnapshotFiles, DiskInv, TypeOK
  <2>2. Ordered(b)'
    BY <1>1, <2>1, Contents DEF Ordered
  <2>3. QED
    BY <1>1, <1>2, <2>2, OrderOfStep
<1>6. CASE Ingest(b)
  <2>1. pc[b] = "ingest" /\ fingerprint' = fingerprint
    BY <1>6 DEF Ingest, At
  <2>2. CASE pc'[b] = "fail"
    BY <1>1, <1>2, <2>2, OrderOfStep DEF Ordered
  <2>3. CASE pc'[b] # "fail"
    <3>1. pc'[b] = "manifest" /\ temp' = [temp EXCEPT ![b].db = files]
      BY <1>3, <1>6, <2>3 DEF Ingest
    <3>2. temp[b] \in TempDir
      BY <1>1, <2>1 DEF DiskInv, TypeOK, LiveTempKept, Building
    <3>3. [temp[b] EXCEPT !.db = files].db = files
      BY <3>2 DEF TempDir
    <3>4. temp'[b].db = files
      BY <3>1, <3>3 DEF DiskInv, TypeOK
    <3>5. ~overlapped => Ordered(b)'
      BY <1>1, <1>2, <2>1, <3>1, <3>4, Contents DEF Ordered, OrderInv, RealPath
    <3>6. QED
      BY <1>1, <1>2, <3>5, OrderOfStep
  <2>4. QED
    BY <2>2, <2>3
<1>7. CASE WriteManifest(b)
  <2>1. pc[b] = "manifest" /\ pc'[b] = "rename" /\ temp' = [temp EXCEPT ![b].man = fingerprint[b]]
    BY <1>3, <1>7 DEF WriteManifest, At
  <2>2. temp[b] \in TempDir
    BY <1>1, <2>1 DEF DiskInv, TypeOK, LiveTempKept, Building
  <2>3. /\ [temp[b] EXCEPT !.man = fingerprint[b]].db = temp[b].db
        /\ [temp[b] EXCEPT !.man = fingerprint[b]].man = fingerprint[b]
    BY <2>2 DEF TempDir
  <2>4. temp'[b].db = temp[b].db /\ temp'[b].man = fingerprint[b]
    BY <2>1, <2>3 DEF DiskInv, TypeOK
  <2>5. ~overlapped => Ordered(b)'
    BY <1>1, <1>2, <2>1, <2>4, Contents DEF Ordered
  <2>6. QED
    BY <1>1, <1>2, <2>5, OrderOfStep
<1>8. QED
  BY <1>4, <1>5, <1>6, <1>7

LEMMA OrderOfSwap ==
    ASSUME DiskInv, DiskInv', OrderInv, NEW b \in Builds, UNCHANGED overlapped,
           RenameDb(b) \/ RenameAside(b) \/ RenameDbAgain(b) \/ RestoreBackup(b)
    PROVE  OrderInv'
<1>1. b \in alive /\ alive' = alive /\ UNCHANGED <<files, man, fingerprint>>
  BY DEF RenameDb, RenameAside, RenameDbAgain, RestoreBackup, At
<1>2. ~overlapped => RealPath /\ Ordered(b)
  BY <1>1 DEF OrderInv
<1>3. \A to : Goto(b, to) => pc'[b] = to
  BY DEF Goto, DiskInv, TypeOK
<1>4. CASE (RenameDb(b) \/ RenameDbAgain(b)) /\ db = NoBuild
  <2>1. /\ pc[b] \in {"rename", "rename2"} /\ pc'[b] \in {"rmBackup", "commit"}
        /\ db' = temp[b].db /\ temp' = [temp EXCEPT ![b].db = NoBuild]
    BY <1>3, <1>4 DEF RenameDb, RenameDbAgain, MoveDbIn, At
  <2>2. temp[b] \in TempDir
    BY <1>1, <2>1 DEF DiskInv, TypeOK, LiveTempKept, Building
  <2>3. [temp[b] EXCEPT !.db = NoBuild].man = temp[b].man
    BY <2>2 DEF TempDir
  <2>4. temp'[b].man = temp[b].man
    BY <2>1, <2>3 DEF DiskInv, TypeOK
  <2>5. ~overlapped => RealPath' /\ Ordered(b)'
    BY <1>1, <1>2, <2>1, <2>4, Contents DEF Ordered, RealPath
  <2>6. QED
    BY <1>1, <2>5, OrderOfStep
<1>5. CASE (RenameDb(b) \/ RenameDbAgain(b)) /\ db # NoBuild
  <2>1. /\ (pc[b] = "rename" /\ pc'[b] = "aside") \/ (pc[b] = "rename2" /\ pc'[b] = "restore")
        /\ UNCHANGED <<db, temp, backup>>
    BY <1>3, <1>5 DEF RenameDb, RenameDbAgain, At
  <2>2. ~overlapped => RealPath' /\ Ordered(b)'
    BY <1>1, <1>2, <2>1 DEF Ordered, RealPath
  <2>3. QED
    BY <1>1, <2>2, OrderOfStep
<1>6. CASE RenameAside(b) /\ db # NoBuild
  <2>1. /\ pc[b] = "aside" /\ pc'[b] = "rename2" /\ db' = NoBuild /\ temp' = temp
        /\ backup'[b] = db
    BY <1>3, <1>6 DEF RenameAside, At, DiskInv, TypeOK
  <2>2. ~overlapped => RealPath'
    BY <1>1, <1>2, <2>1 DEF RealPath
  <2>3. ~overlapped => db <= files /\ (man # NoBuild => man <= db)
    BY <1>2, <1>6 DEF RealPath
  <2>4. ~overlapped => Ordered(b)'
    BY <1>1, <1>2, <2>1, <2>3 DEF Ordered
  <2>5. QED
    BY <1>1, <2>2, <2>4, OrderOfStep
<1>7. CASE RenameAside(b) /\ db = NoBuild
  <2>1. pc'[b] = "fail" /\ db' = db
    BY <1>3, <1>7 DEF RenameAside
  <2>2. ~overlapped => RealPath' /\ Ordered(b)'
    BY <1>1, <1>2, <2>1 DEF Ordered, RealPath
  <2>3. QED
    BY <1>1, <2>2, OrderOfStep
<1>8. CASE RestoreBackup(b)
  <2>1. pc[b] = "restore" /\ pc'[b] = "fail" /\ db' = IF db = NoBuild THEN backup[b] ELSE db
    BY <1>3, <1>8 DEF RestoreBackup, At
  <2>2. ~overlapped => RealPath' /\ Ordered(b)'
    BY <1>1, <1>2, <2>1, Contents DEF Ordered, RealPath
  <2>3. QED
    BY <1>1, <2>2, OrderOfStep
<1>9. QED
  BY <1>4, <1>5, <1>6, <1>7, <1>8

LEMMA OrderOfCommit ==
    ASSUME DiskInv, DiskInv', OrderInv, NEW b \in Builds, UNCHANGED overlapped,
           RemoveBackup(b) \/ RenameManifest(b)
    PROVE  OrderInv'
<1>1. /\ b \in alive /\ alive' = alive /\ UNCHANGED <<files, db>>
      /\ pc[b] \in {"rmBackup", "commit"}
  BY DEF RemoveBackup, RenameManifest, At
<1>2. ~overlapped => RealPath /\ Ordered(b)
  BY <1>1 DEF OrderInv
<1>3. \A to : Goto(b, to) => pc'[b] = to
  BY DEF Goto, DiskInv, TypeOK
<1>4. CASE RemoveBackup(b)
  <2>1. pc'[b] = "commit" /\ UNCHANGED <<man, temp>>
    BY <1>3, <1>4 DEF RemoveBackup
  <2>2. ~overlapped => RealPath' /\ Ordered(b)'
    BY <1>1, <1>2, <2>1 DEF Ordered, RealPath
  <2>3. QED
    BY <1>1, <2>2, OrderOfStep
<1>5. CASE RenameManifest(b)
  <2>1. pc'[b] = "rmTemp" /\ man' = temp[b].man
    BY <1>3, <1>5 DEF RenameManifest
  <2>2. ~overlapped => RealPath' /\ Ordered(b)'
    BY <1>1, <1>2, <2>1, Contents DEF Ordered, RealPath
  <2>3. QED
    BY <1>1, <2>2, OrderOfStep
<1>6. QED
  BY <1>4, <1>5

(* Processes start and die, sweeps run and files are edited.               *)
LEMMA OrderOfOthers ==
    ASSUME DiskInv, DiskInv', OrderInv,
           \/ \E b \in Builds : Spawn(b)
           \/ \E b \in Builds : Kill(b) /\ UNCHANGED overlapped
           \/ (ServeSweeps \/ Edit) /\ UNCHANGED overlapped
    PROVE  OrderInv'
<1>1. ASSUME NEW b \in Builds, Spawn(b), ~overlapped' PROVE OrderInv'
  <2>1. alive = {} /\ ~overlapped /\ alive' = {b} /\ UNCHANGED <<files, db, man>>
    BY <1>1 DEF Spawn
  <2>2. pc'[b] = "sweep"
    BY <1>1 DEF Spawn, Goto, DiskInv, TypeOK
  <2>3. QED
    BY <2>1, <2>2 DEF OrderInv, OneAtATime, RealPath, Ordered
<1>2. ASSUME NEW b \in Builds, Kill(b), UNCHANGED overlapped PROVE OrderInv'
  BY <1>2 DEF Kill, OrderInv, OneAtATime, RealPath, Ordered
<1>3. CASE ServeSweeps /\ UNCHANGED overlapped
  <2>1. \A b \in alive : temp'[b] = temp[b] /\ backup'[b] = backup[b]
    BY <1>3, SweepKeeps DEF ServeSweeps, DiskInv
  <2>2. QED
    BY <1>3, <2>1 DEF ServeSweeps, OrderInv, OneAtATime, RealPath, Ordered
<1>4. CASE Edit /\ UNCHANGED overlapped
  <2>1. files' = files + 1 /\ UNCHANGED <<pc, alive, fingerprint, temp, backup, db, man>>
    BY <1>4 DEF Edit
  <2>2. OneAtATime => OneAtATime'
    BY <2>1 DEF OneAtATime
  <2>3. RealPath => RealPath'
    BY <2>1, Contents DEF RealPath
  <2>4. ASSUME NEW b \in alive, Ordered(b) PROVE Ordered(b)'
    BY <2>1, <2>4, Contents DEF Ordered
  <2>5. QED
    BY <1>4, <2>1, <2>2, <2>3, <2>4 DEF OrderInv
<1>5. QED
  BY <1>1, <1>2, <1>3, <1>4 DEF OrderInv

LEMMA OrderInductive == DiskInv /\ DiskInv' /\ OrderInv /\ [Next]_vars => OrderInv'
<1>1. ASSUME OrderInv, UNCHANGED vars PROVE OrderInv'
  BY <1>1 DEF vars, OrderInv, OneAtATime, RealPath, Ordered
<1>2. ASSUME DiskInv, DiskInv', OrderInv, NEW b \in Builds, Step(b), UNCHANGED overlapped
      PROVE  OrderInv'
  BY <1>2, OrderOfPreparing, OrderOfSwap, OrderOfCommit DEF Step
<1>3. QED
  BY <1>1, <1>2, OrderOfOthers DEF Next

(* While builds do not overlap, contents grow older from the files to the  *)
(* temp directory, the database and the manifest, in that order            *)
(* (glob-index-builder.ts, atomic-build.ts).                               *)
THEOREM OrderInvariant == Spec => []OrderInv
  BY DiskInvariant, OrderInit, OrderInductive, PTL DEF Spec

(* A manifest that matches the files does not vouch for an older database  *)
(* (glob-index-builder.ts: the fingerprints are taken before the files are *)
(* read).                                                                  *)
THEOREM FreshIsAlwaysTrue == Spec => []FreshIsNeverOld
<1>1. DiskInv /\ OrderInv => FreshIsNeverOld
  BY Contents DEF OrderInv, RealPath, FreshIsNeverOld
<1>2. QED
  BY <1>1, DiskInvariant, OrderInvariant, PTL

(* Nothing becomes visible before its database is in place                 *)
(* (glob-index/atomic-build.ts: the manifest is renamed last).             *)
THEOREM FirstBuildIsAtomic == Spec => FirstBuildAllOrNothing
<1>1. ASSUME DiskInv, OrderInv, [Next]_vars, ~overlapped, man = NoBuild, man' # NoBuild
      PROVE  db # NoBuild /\ db' = db
  <2>1. PICK b \in Builds : RenameManifest(b)
    BY <1>1 DEF Next, Step, vars, Spawn, Prepare, SnapshotFiles, Ingest, WriteManifest, RenameDb,
                RenameAside, RenameDbAgain, RestoreBackup, RemoveBackup, RemoveTemp, Kill,
                ServeSweeps, Edit
  <2>2. Ordered(b) /\ pc[b] = "commit" /\ db' = db
    BY <1>1, <2>1 DEF RenameManifest, At, OrderInv
  <2>3. QED
    BY <2>2 DEF Ordered
<1>2. DiskInv /\ OrderInv /\ [Next]_vars =>
        [~overlapped /\ man = NoBuild /\ man' # NoBuild => db # NoBuild /\ db' = db]_vars
  BY <1>1
<1>3. QED
  BY <1>2, DiskInvariant, OrderInvariant, PTL DEF Spec, FirstBuildAllOrNothing

-----------------------------------------------------------------------------
(* A build that swept when it was alone is still alone, so what it cleared *)
(* away stays away.                                                        *)
LEMMA LeftoversInductive ==
    DiskInv /\ OrderInv /\ NothingLeftBehind /\ [Next]_vars => NothingLeftBehind'
<1> SUFFICES ASSUME DiskInv, OrderInv, NothingLeftBehind, [Next]_vars, ~overlapped',
                    NEW b \in Builds, NEW c \in Builds,
                    At(b, "fingerprint")', c \notin alive', pid'[c] # pid'[b]
             PROVE  temp'[c] = NoBuild /\ backup'[c] = NoBuild
  BY DEF NothingLeftBehind
<1>1. b \in alive' /\ pc'[b] = "fingerprint"
  BY DEF At
<1>2. \A d \in alive : d \in Builds
  BY DEF DiskInv, TypeOK
<1>3. ASSUME b \in alive, pc[b] = "fingerprint", c \notin alive, ~overlapped, pid' = pid
      PROVE  temp[c] = NoBuild /\ backup[c] = NoBuild
  BY <1>3 DEF NothingLeftBehind, At
<1>4. CASE UNCHANGED vars
  BY <1>1, <1>3, <1>4 DEF vars
<1>5. ASSUME NEW d \in Builds, Spawn(d) PROVE FALSE
  <2>1. alive = {} /\ pc'[d] = "sweep" /\ alive' = alive \cup {d}
    BY <1>5 DEF Spawn, Goto, DiskInv, TypeOK
  <2>2. QED
    BY <1>1, <2>1
<1>6. ASSUME NEW d \in Builds, Kill(d), UNCHANGED overlapped
      PROVE  temp'[c] = NoBuild /\ backup'[c] = NoBuild
  <2>1. d \in alive /\ alive' = alive \ {d} /\ b # d
        /\ UNCHANGED <<overlapped, pc, pid, temp, backup>>
    BY <1>1, <1>6 DEF Kill
  <2>2. c \notin alive
    BY <1>1, <2>1 DEF OrderInv, OneAtATime
  <2>3. QED
    BY <1>1, <1>3, <2>1, <2>2
<1>7. ASSUME NEW d \in Builds, Step(d), UNCHANGED overlapped
      PROVE  temp'[c] = NoBuild /\ backup'[c] = NoBuild
  <2>1. d \in alive /\ alive' \subseteq alive /\ pid' = pid
    BY <1>7 DEF Step, At, Prepare, SnapshotFiles, Ingest, WriteManifest, RenameDb, RenameAside,
                RenameDbAgain, RestoreBackup, RemoveBackup, RenameManifest, RemoveTemp
  <2>2. d = b /\ OneAtATime
    BY <1>1, <1>7, <2>1 DEF OrderInv, OneAtATime
  <2>3. ASSUME NEW to, Goto(b, to) PROVE to = "fingerprint"
    BY <1>1, <2>3 DEF Goto, DiskInv, TypeOK
  <2>4. Prepare(b)
    BY <1>7, <2>2, <2>3
       DEF Step, SnapshotFiles, Ingest, WriteManifest, RenameDb, RenameAside, RenameDbAgain,
           RestoreBackup, RemoveBackup, RenameManifest, RemoveTemp
  <2>5. ~isPidAlive(pid[c])
    BY <2>1, <2>2 DEF isPidAlive, OneAtATime
  <2>6. QED
    BY <2>4, <2>5, SweepKeeps DEF Prepare, DiskInv
<1>8. CASE ServeSweeps /\ UNCHANGED overlapped
  <2>1. c \notin alive /\ b \in alive /\ UNCHANGED <<pc, pid, alive, overlapped>>
    BY <1>1, <1>8 DEF ServeSweeps
  <2>2. temp[c] = NoBuild /\ backup[c] = NoBuild
    BY <1>1, <1>3, <2>1
  <2>3. QED
    BY <1>8, <2>2 DEF ServeSweeps, sweepStaleTempDirs, sweepReplacedOrphans
<1>9. CASE Edit /\ UNCHANGED overlapped
  BY <1>1, <1>3, <1>9 DEF Edit
<1>10. QED
  BY <1>4, <1>5, <1>6, <1>7, <1>8, <1>9 DEF Next

(* What dead processes left behind is gone when a build has swept          *)
(* (glob-index/atomic-build.ts, sweepStaleTempDirs, sweepReplacedOrphans). *)
THEOREM NothingStaysBehind == Spec => []NothingLeftBehind
<1>1. Init => NothingLeftBehind
  BY DEF Init, NothingLeftBehind, At
<1>2. QED
  BY <1>1, LeftoversInductive, DiskInvariant, OrderInvariant, PTL DEF Spec
=============================================================================
