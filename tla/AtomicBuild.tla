----------------------------- MODULE AtomicBuild -----------------------------
(***************************************************************************)
(* The on-disk Glob index of one source and the processes that build it    *)
(* (libs/core/src/lib/glob-index: atomic-build.ts, glob-index-builder.ts). *)
(*                                                                         *)
(* A build writes a temp directory of its own, `<index>.building-<pid>-*', *)
(* and then promotes it: the database is renamed into place first, the     *)
(* manifest, the marker that makes the index visible, last.  A database    *)
(* that is already there cannot be renamed over: it is renamed aside to    *)
(* `.replaced-<pid>-*' first.  Each file system call is one action, a      *)
(* process can be killed (cancel, shutdown, OOM) between any two of them,  *)
(* and every build begins by sweeping what dead processes left behind.     *)
(*                                                                         *)
(* The matched files are one version number that every edit increases.  A  *)
(* build takes the fingerprints of the version it sees first and ingests   *)
(* the version it reads later.                                             *)
(***************************************************************************)
EXTENDS Naturals, FiniteSets

CONSTANTS
    Builds,    \* the build processes started over the whole run, each once
    Pids,      \* process ids; the OS may reuse the id of a dead process
    NoBuild,   \* stands for an absent version, manifest or database
    MaxLive,   \* builds of this index that run at once (the pool allows one)
    MaxEdits   \* bound: edits of the matched files

ASSUME BoundsAssumption == MaxLive \in Nat \ {0} /\ MaxEdits \in Nat

Versions == 0 .. MaxEdits
Maybe == Versions \cup {NoBuild}

VARIABLES
    files,      \* version of the files the glob matches
    pc,         \* the file system call each build makes next; kept when it dies
    alive,      \* builds whose process runs
    pid,        \* their process ids
    fingerprint,\* version each build took its fingerprints of
    temp,       \* content of each build's temp directory, or NoBuild
    backup,     \* the database each build renamed aside, or NoBuild
    db, man,    \* the database and the manifest at the real path
    overlapped  \* history: two builds have run at once

vars == <<files, pc, alive, pid, fingerprint, temp, backup, db, man, overlapped>>

Steps == {"new", "sweep", "fingerprint", "ingest", "manifest", "rename", "aside",
          "rename2", "restore", "rmBackup", "commit", "rmTemp", "fail", "end"}
TempDir == [db : Maybe, man : Maybe]

ASSUME NoBuildAssumption == NoBuild \notin Nat /\ NoBuild \notin TempDir

TypeOK ==
    /\ files \in Versions
    /\ pc \in [Builds -> Steps]
    /\ alive \in SUBSET Builds
    /\ pid \in [Builds -> Pids]
    /\ fingerprint \in [Builds -> Maybe]
    /\ temp \in [Builds -> TempDir \cup {NoBuild}]
    /\ backup \in [Builds -> Maybe]
    /\ db \in Maybe /\ man \in Maybe
    /\ overlapped \in BOOLEAN

Init ==
    /\ files = 0
    /\ pc = [b \in Builds |-> "new"]
    /\ alive = {}
    /\ pid \in [Builds -> Pids]
    /\ fingerprint = [b \in Builds |-> NoBuild]
    /\ temp = [b \in Builds |-> NoBuild]
    /\ backup = [b \in Builds |-> NoBuild]
    /\ db = NoBuild /\ man = NoBuild
    /\ overlapped = FALSE

-----------------------------------------------------------------------------
NobodyAlive(p) == FALSE
isPidAlive(p) == \E b \in alive : pid[b] = p

(* A sweep removes what belongs to dead processes.  Names are unique and a *)
(* process that died stays dead, so the loop over the entries is one step. *)
ForgetStaleTempDirs ==
    temp' = [b \in {c \in Builds : isPidAlive(pid[c])} |-> temp[b]]
sweepStaleTempDirs ==
    temp' = [b \in Builds |-> IF isPidAlive(pid[b]) THEN temp[b] ELSE NoBuild]
NoReplacedSweep == backup' = backup
sweepReplacedOrphans ==
    backup' = [b \in Builds |-> IF isPidAlive(pid[b]) THEN backup[b] ELSE NoBuild]

(* One call of build b, made when it has got as far as `at'.               *)
At(b, at) == b \in alive /\ pc[b] = at
Goto(b, to) == pc' = [pc EXCEPT ![b] = to]

Spawn(b) ==
    /\ pc[b] = "new"
    /\ Cardinality(alive) < MaxLive
    /\ ~isPidAlive(pid[b])
    /\ alive' = alive \cup {b}
    /\ overlapped' = (overlapped \/ alive # {})
    /\ Goto(b, "sweep")
    /\ UNCHANGED <<files, pid, fingerprint, temp, backup, db, man>>

Prepare(b) ==
    /\ At(b, "sweep")
    /\ sweepStaleTempDirs
    /\ sweepReplacedOrphans
    /\ Goto(b, "fingerprint")
    /\ UNCHANGED <<files, alive, pid, fingerprint, db, man>>

(* snapshotIndexedFiles, before anything is read.  A build that cannot     *)
(* stat or parse a file fails.                                             *)
SnapshotFiles(b) ==
    /\ At(b, "fingerprint")
    /\ fingerprint' = [fingerprint EXCEPT ![b] = files]
    /\ temp' = [temp EXCEPT ![b] = [db |-> NoBuild, man |-> NoBuild]]
    /\ Goto(b, "ingest")
    /\ UNCHANGED <<files, alive, pid, backup, db, man>>

IngestAndRefingerprint(b) ==
    /\ At(b, "ingest")
    /\ temp' = [temp EXCEPT ![b].db = fingerprint[b]]
    /\ fingerprint' = [fingerprint EXCEPT ![b] = files]
    /\ Goto(b, "manifest")
    /\ UNCHANGED <<files, alive, pid, backup, db, man>>
Ingest(b) ==
    /\ At(b, "ingest")
    /\ \/ temp' = [temp EXCEPT ![b].db = files] /\ Goto(b, "manifest")
       \/ Goto(b, "fail") /\ UNCHANGED temp
    /\ UNCHANGED <<files, alive, pid, fingerprint, backup, db, man>>

WriteManifest(b) ==
    /\ At(b, "manifest")
    /\ temp' = [temp EXCEPT ![b].man = fingerprint[b]]
    /\ Goto(b, "rename")
    /\ UNCHANGED <<files, alive, pid, fingerprint, backup, db, man>>

-----------------------------------------------------------------------------
(* promote().  MoveDbIn(b) is rename(temp/db, db) where nothing is there.  *)
MoveDbIn(b) ==
    /\ db' = temp[b].db
    /\ temp' = [temp EXCEPT ![b].db = NoBuild]

CommitFirst(b) ==
    /\ At(b, "rename")
    /\ man' = temp[b].man
    /\ IF db = NoBuild THEN MoveDbIn(b) /\ Goto(b, "rmTemp")
       ELSE Goto(b, "aside") /\ UNCHANGED <<db, temp>>
    /\ UNCHANGED <<files, alive, pid, fingerprint, backup>>
RenameDb(b) ==
    /\ At(b, "rename")
    /\ IF db = NoBuild THEN MoveDbIn(b) /\ Goto(b, "commit")
       ELSE Goto(b, "aside") /\ UNCHANGED <<db, temp>>
    /\ UNCHANGED <<files, alive, pid, fingerprint, backup, man>>

(* ENOTEMPTY: rename the old database aside; another build may have just   *)
(* done so, and then there is nothing to rename.                           *)
RemoveInPlace(b) ==
    /\ At(b, "aside")
    /\ db' = NoBuild
    /\ Goto(b, "rename")
    /\ UNCHANGED <<files, alive, pid, fingerprint, temp, backup, man>>
RenameAside(b) ==
    /\ At(b, "aside")
    /\ IF db # NoBuild
       THEN backup' = [backup EXCEPT ![b] = db] /\ db' = NoBuild /\ Goto(b, "rename2")
       ELSE Goto(b, "fail") /\ UNCHANGED <<backup, db>>
    /\ UNCHANGED <<files, alive, pid, fingerprint, temp, man>>

RenameDbAgain(b) ==
    /\ At(b, "rename2")
    /\ IF db = NoBuild THEN MoveDbIn(b) /\ Goto(b, "rmBackup")
       ELSE Goto(b, "restore") /\ UNCHANGED <<db, temp>>
    /\ UNCHANGED <<files, alive, pid, fingerprint, backup, man>>

(* The second rename failed: put the old database back if that works.      *)
RestoreBackup(b) ==
    /\ At(b, "restore")
    /\ IF db = NoBuild
       THEN db' = backup[b] /\ backup' = [backup EXCEPT ![b] = NoBuild]
       ELSE UNCHANGED <<db, backup>>
    /\ Goto(b, "fail")
    /\ UNCHANGED <<files, alive, pid, fingerprint, temp, man>>

RemoveBackup(b) ==
    /\ At(b, "rmBackup")
    /\ backup' = [backup EXCEPT ![b] = NoBuild]
    /\ Goto(b, "commit")
    /\ UNCHANGED <<files, alive, pid, fingerprint, temp, db, man>>

RenameManifest(b) ==
    /\ At(b, "commit")
    /\ man' = temp[b].man
    /\ temp' = [temp EXCEPT ![b].man = NoBuild]
    /\ Goto(b, "rmTemp")
    /\ UNCHANGED <<files, alive, pid, fingerprint, backup, db>>

(* The temp directory is removed on success and on failure, then the       *)
(* process exits.                                                          *)
RemoveTemp(b) ==
    /\ At(b, "rmTemp") \/ At(b, "fail")
    /\ temp' = [temp EXCEPT ![b] = NoBuild]
    /\ alive' = alive \ {b}
    /\ Goto(b, "end")
    /\ UNCHANGED <<files, pid, fingerprint, backup, db, man>>

-----------------------------------------------------------------------------
(* The process is gone; everything it had on disk stays.                   *)
Kill(b) ==
    /\ alive' = alive \ {b}
    /\ b \in alive
    /\ UNCHANGED <<files, pc, pid, fingerprint, temp, backup, db, man>>

(* sweepGlobIndexTempDirs by `serve' after a cancel, at its own pace.      *)
ServeSweeps ==
    /\ sweepStaleTempDirs
    /\ sweepReplacedOrphans
    /\ UNCHANGED <<files, pc, alive, pid, fingerprint, db, man>>

Edit ==
    /\ files < MaxEdits
    /\ files' = files + 1
    /\ UNCHANGED <<pc, alive, pid, fingerprint, temp, backup, db, man>>

Step(b) ==
    \/ Prepare(b) \/ SnapshotFiles(b) \/ Ingest(b) \/ WriteManifest(b)
    \/ RenameDb(b) \/ RenameAside(b) \/ RenameDbAgain(b) \/ RestoreBackup(b)
    \/ RemoveBackup(b) \/ RenameManifest(b) \/ RemoveTemp(b)

Next ==
    \/ \E b \in Builds : Spawn(b)
    \/ \E b \in Builds : (Step(b) \/ Kill(b)) /\ UNCHANGED overlapped
    \/ (ServeSweeps \/ Edit) /\ UNCHANGED overlapped

Spec == Init /\ [][Next]_vars

-----------------------------------------------------------------------------
Building(b) == b \in alive /\ pc[b] \notin {"new", "sweep", "fingerprint", "end"}
Quiet == alive = {}

(* No sweep, of another build or of `serve', removes the temp directory of *)
(* a build that is still running, whatever died before it.                 *)
LiveTempKept == \A b \in Builds : Building(b) => temp[b] # NoBuild

(* An index that is visible has a database, except inside the swap of a    *)
(* rebuild, or when a build was killed there.                              *)
VisibleHasDb ==
    man # NoBuild /\ db = NoBuild => \E b \in Builds : pc[b] \in {"rename2", "restore"}

(* While builds of an index do not overlap, a manifest that still matches  *)
(* the files never vouches for a database of older content, however the    *)
(* files were edited while a build was reading them.                       *)
FreshIsNeverOld == ~overlapped /\ man = files /\ db # NoBuild => db = files

(* A build that has swept leaves nothing of dead processes behind, unless  *)
(* the id of the dead process was given to the build itself (or another    *)
(* build that ran beside it has died since).                               *)
NothingLeftBehind ==
    ~overlapped => \A b, c \in Builds :
        At(b, "fingerprint") /\ c \notin alive /\ pid[c] # pid[b] =>
            temp[c] = NoBuild /\ backup[c] = NoBuild

(* A first build that is cancelled leaves no index: as long as builds do   *)
(* not overlap, nothing is visible until a build has its database in place.*)
FirstBuildAllOrNothing ==
    [][~overlapped /\ man = NoBuild /\ man' # NoBuild => db # NoBuild /\ db' = db]_vars

(* ADR-0043: "a cancelled rebuild always leaves the previous Glob index    *)
(* intact at the real path": with no build running, a visible index has    *)
(* its database.                                                           *)
PriorIndexIntact == Quiet /\ man # NoBuild => db # NoBuild
=============================================================================
