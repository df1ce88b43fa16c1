--------------------------- MODULE DiskBackedEntry ---------------------------
(***************************************************************************)
(* The disk-backed half of EngineMap (bootstrap/engine-map.ts) on top of   *)
(* its IndexBuildPool: queries open the Glob index of a source or ask the  *)
(* pool to build it, operators rebuild and cancel, and the pool's onSettle *)
(* writes the outcome back into the entry.                                 *)
(*                                                                         *)
(* resolveDiskBacked is asynchronous: a touch is suspended while it stats  *)
(* the manifest and while it opens the database, and everything else can   *)
(* happen meanwhile.  The result of a stat is sampled in one step and acted*)
(* upon in a later one.                                                    *)
(*                                                                         *)
(* The database is an embedded LevelDB: "the dir cannot be reopened while  *)
(* a handle is open" (glob-index-handle.ts:21).  The files and the content *)
(* of an index are left out; what is kept is whether a database and a      *)
(* manifest are at the real path, and whether this process has it open.    *)
(***************************************************************************)
EXTENDS IndexBuildPool

CONSTANT Touches   \* concurrent resolutions, reused once they end

ASSUME TouchAssumption == Touches \cap {"none", "ok", "indexing"} = {}

VARIABLES
    slot,        \* entry.disk: the memoized promise of each source
    lastError,   \* entry.lastError, by what set it
    handle,      \* entry.closeIndex: whether the entry holds an open index
    db, man,     \* whether the real path holds a database and a manifest
    stage,       \* how far each live child has promoted its build
    touch,       \* the resolutions in flight
    announced,   \* sources whose last build event was `build-start'
    closed,      \* close() has released the indexes
    superseded   \* history: sources not opened since a build of theirs ended well

entryVars == <<slot, lastError, handle, db, man, stage, touch, announced, closed, superseded>>
vars == <<poolVars, entryVars>>

(* A promise in flight is named by its touch.  `ok' is a promise resolved  *)
(* with an open index, `indexing' one resolved with the 503 outcome.       *)
Slots == {"none", "ok", "indexing"} \cup Touches
Stages == {"building", "aside", "swapped", "committed"}
TouchSteps == {"idle", "stat", "sampled", "open"}
EndedTouch == [at |-> "ended", src |-> NoSource, man |-> FALSE]
IdleTouch == [at |-> "idle", src |-> NoSource, man |-> FALSE]

EntryTypeOK ==
    /\ TypeOK
    /\ slot \in [Sources -> Slots]
    /\ lastError \in [Sources -> {"none", "build", "load"}]
    /\ handle \in [Sources -> BOOLEAN]
    /\ db \in [Sources -> BOOLEAN] /\ man \in [Sources -> BOOLEAN]
    /\ stage \in [Pids -> Stages]
    /\ touch \in [Touches -> [at : TouchSteps, src : Sources \cup {NoSource}, man : BOOLEAN]]
    /\ announced \in SUBSET Sources
    /\ closed \in BOOLEAN
    /\ superseded \in SUBSET Sources

Init ==
    /\ PoolInit
    /\ slot = [s \in Sources |-> "none"]
    /\ lastError = [s \in Sources |-> "none"]
    /\ handle = [s \in Sources |-> FALSE]
    /\ db \in [Sources -> BOOLEAN] /\ man = db
    /\ stage = [p \in Pids |-> "building"]
    /\ touch = [t \in Touches |-> IdleTouch]
    /\ announced = {}
    /\ closed = FALSE
    /\ superseded = {}

-----------------------------------------------------------------------------
(* A query touches the source.  An open promise is shared.  The sticky     *)
(* outcome is reached before the first await, so its `entry.disk =         *)
(* undefined' comes before ensureDiskBacked assigns the promise.           *)
ensureDiskBackedNotSticky(s) ==
    /\ ~closed /\ slot[s] = "none"
    /\ \E t \in Touches :
          /\ touch[t].at = "idle"
          /\ touch' = [touch EXCEPT ![t] = [at |-> "stat", src |-> s, man |-> FALSE]]
          /\ slot' = [slot EXCEPT ![s] = t]
    /\ UNCHANGED <<poolVars, lastError, handle, db, man, stage, announced, closed, superseded>>
ensureDiskBacked(s) ==
    /\ ~closed /\ slot[s] = "none"
    /\ IF lastError[s] # "none"
       THEN slot' = [slot EXCEPT ![s] = "indexing"] /\ UNCHANGED touch
       ELSE \E t \in Touches :
               /\ touch[t].at = "idle"
               /\ touch' = [touch EXCEPT ![t] = [at |-> "stat", src |-> s, man |-> FALSE]]
               /\ slot' = [slot EXCEPT ![s] = t]
    /\ UNCHANGED <<poolVars, lastError, handle, db, man, stage, announced, closed, superseded>>

(* The file system answers the stat.                                       *)
ManifestSampled(t) ==
    /\ touch[t].at = "stat"
    /\ touch' = [touch EXCEPT ![t].at = "sampled", ![t].man = man[touch[t].src]]
    /\ UNCHANGED <<poolVars, slot, lastError, handle, db, man, stage, announced, closed, superseded>>

(* The manifest is there: loadEntry begins by clearing the last error.     *)
LoadEntry(t) ==
    /\ touch[t].at = "sampled" /\ touch[t].man
    /\ touch' = [touch EXCEPT ![t].at = "open"]
    /\ lastError' = [lastError EXCEPT ![touch[t].src] = "none"]
    /\ superseded' = superseded \ {touch[t].src}
    /\ UNCHANGED <<poolVars, slot, handle, db, man, stage, announced, closed>>

(* It is not: announce a build and ask the pool for one.                   *)
RequestMissing(t) ==
    LET s == touch[t].src IN
    /\ touch[t].at = "sampled" /\ ~touch[t].man
    /\ touch' = [touch EXCEPT ![t] = IdleTouch]
    /\ slot' = [slot EXCEPT ![s] = "none"]
    /\ announced' = announced \cup {s}
    /\ Request(s)
    /\ UNCHANGED <<lastError, handle, db, man, stage, closed, superseded>>

(* The open ends.  It fails while this process still holds a handle, and   *)
(* it may fail for any other reason.  LevelDB creates a database that is   *)
(* missing.  The entry serves it only if it still waits for this promise.  *)
OpenSucceeds(t) ==
    LET s == touch[t].src IN
    /\ touch[t].at = "open"
    /\ ~handle[s]
    /\ handle' = [handle EXCEPT ![s] = TRUE]
    /\ db' = [db EXCEPT ![s] = TRUE]
    /\ slot' = IF slot[s] = t THEN [slot EXCEPT ![s] = "ok"] ELSE slot
    /\ touch' = [touch EXCEPT ![t] = IdleTouch]
    /\ UNCHANGED <<poolVars, lastError, man, stage, announced, closed, superseded>>

OpenFails(t) ==
    LET s == touch[t].src IN
    /\ touch[t].at = "open"
    /\ lastError' = [lastError EXCEPT ![s] = "load"]
    /\ slot' = [slot EXCEPT ![s] = "none"]
    /\ touch' = [touch EXCEPT ![t] = IdleTouch]
    /\ UNCHANGED <<poolVars, handle, db, man, stage, announced, closed, superseded>>

-----------------------------------------------------------------------------
(* requestBuild() of a source that is already building does nothing.       *)
requestBuild(s) ==
    /\ ~closed
    /\ slot' = [slot EXCEPT ![s] = "none"]
    /\ lastError' = [lastError EXCEPT ![s] = "none"]
    /\ announced' = announced \cup {s}
    /\ Retry(s)
    /\ UNCHANGED <<handle, db, man, stage, touch, closed, superseded>>

cancelBuild(s) == ~closed /\ Cancel(s) /\ UNCHANGED entryVars

(* onSettle, which the pool calls when child p settles.                    *)
onSettleKeepsMemo(s, outcome) ==
    /\ announced' = announced \ {s}
    /\ slot' = slot
    /\ lastError' = IF outcome = "cancel" THEN lastError
                    ELSE [lastError EXCEPT ![s] = IF outcome = "failure" THEN "build" ELSE "none"]
onSettleForgetsFailure(s, outcome) ==
    /\ announced' = announced \ {s}
    /\ slot' = IF outcome = "success" THEN [slot EXCEPT ![s] = "none"] ELSE slot
    /\ lastError' = [lastError EXCEPT ![s] = "none"]
onSettle(s, outcome) ==
    /\ announced' = announced \ {s}
    /\ slot' = IF outcome = "success" THEN [slot EXCEPT ![s] = "none"] ELSE slot
    /\ lastError' = IF outcome = "cancel" THEN lastError
                    ELSE [lastError EXCEPT ![s] = IF outcome = "failure" THEN "build" ELSE "none"]

ChildSettles(p) ==
    LET s == proc[p].src
        outcome == Outcome(s, proc[p].os # "exit0")
    IN  /\ OnExit(p) \/ OnError(p)
        /\ onSettle(s, outcome)
        /\ stage' = [stage EXCEPT ![p] = "building"]
        /\ superseded' = IF outcome = "success" THEN superseded \cup {s} ELSE superseded
        /\ UNCHANGED <<handle, db, man, touch, closed>>

LateExit(p) == OnExitAfterError(p) /\ UNCHANGED entryVars

(* close(): the pool is shut down, and once that has resolved every open   *)
(* index is released and the entries are dropped.                          *)
Close == Shutdown /\ UNCHANGED entryVars

CloseIndexes ==
    /\ ShutdownResolved /\ ~closed
    /\ closed' = TRUE
    /\ handle' = [s \in Sources |-> FALSE]
    /\ UNCHANGED <<poolVars, slot, lastError, db, man, stage, touch, announced, superseded>>

-----------------------------------------------------------------------------
(* The child process: it renames a database it finds aside, renames its    *)
(* own in, commits the manifest and exits 0; it may die after any of these.*)
RenameAside(p) ==
    LET s == proc[p].src IN
    /\ proc[p].os = "live" /\ stage[p] = "building" /\ db[s]
    /\ db' = [db EXCEPT ![s] = FALSE]
    /\ stage' = [stage EXCEPT ![p] = "aside"]
    /\ UNCHANGED <<poolVars, slot, lastError, handle, man, touch, announced, closed, superseded>>

RenameIn(p) ==
    LET s == proc[p].src IN
    /\ proc[p].os = "live" /\ stage[p] \in {"building", "aside"} /\ ~db[s]
    /\ db' = [db EXCEPT ![s] = TRUE]
    /\ stage' = [stage EXCEPT ![p] = "swapped"]
    /\ UNCHANGED <<poolVars, slot, lastError, handle, man, touch, announced, closed, superseded>>

CommitManifest(p) ==
    /\ proc[p].os = "live" /\ stage[p] = "swapped"
    /\ man' = [man EXCEPT ![proc[p].src] = TRUE]
    /\ stage' = [stage EXCEPT ![p] = "committed"]
    /\ UNCHANGED <<poolVars, slot, lastError, handle, db, touch, announced, closed, superseded>>

ChildDies(p, os) ==
    /\ ChildExits(p, os)
    /\ os = "exit0" => stage[p] = "committed"
    /\ UNCHANGED entryVars

(* cooldownMs (30 s) outlasts the stat of a manifest.                      *)
CooldownOver(s) ==
    /\ \A t \in Touches : touch[t].src = s => touch[t].at \notin {"stat", "sampled"}
    /\ CooldownElapses(s)
    /\ UNCHANGED entryVars

Next ==
    \/ \E s \in Sources :
          ensureDiskBacked(s) \/ requestBuild(s) \/ cancelBuild(s) \/ CooldownOver(s)
    \/ \E t \in Touches :
          \/ ManifestSampled(t) \/ LoadEntry(t) \/ RequestMissing(t)
          \/ OpenSucceeds(t) \/ OpenFails(t)
    \/ \E p \in Pids : ChildSettles(p) \/ LateExit(p)
    \/ \E p \in Pids : RenameAside(p) \/ RenameIn(p) \/ CommitManifest(p)
    \/ \E p \in Pids, os \in {"exit0", "exitBad"} : ChildDies(p, os)
    \/ Close \/ CloseIndexes

Spec == Init /\ [][Next]_vars

-----------------------------------------------------------------------------
(* Whether s is building or queued after a step.                          *)
BuildingNext(s) == running'[s] # NoPid \/ Contains(queue', s)

(* A successful build is what queries see: until an open of the new index  *)
(* begins, no memo serves the old one, not even that of an open that was   *)
(* in flight when the build ended.                                         *)
ReplacedIndexNotServed == \A s \in superseded : slot[s] # "ok"

(* While the failure of a build stands, nothing starts or queues another   *)
(* one, however many touches had sampled the manifest when the build       *)
(* failed: the pool's cooldown stops those that resume late.               *)
NoSpawnStorm ==
    [][\A s \in Sources :
          lastError[s] = "build" /\ lastError'[s] = "build" /\ ~isBuilding(s)
              => ~BuildingNext(s)]_vars

(* A build that ended well is visible: no settle turns a source that has   *)
(* no manifest into one that is neither building nor failed, except a      *)
(* cancel the operator asked for.                                          *)
SuccessIsVisible ==
    [][\A s \in Sources :
          isBuilding(s) /\ ~BuildingNext(s) /\ lastError'[s] = "none"
              /\ s \notin cancelling /\ ~Contains(queue, s)
              => man'[s]]_vars

(* engine-map-types.ts:148: the failure of a build is sticky, "only Retry  *)
(* clears it".  (A build that succeeds can only follow a Retry, and after  *)
(* shutdown() a Retry is accepted but builds nothing.)                     *)
FailureSticky ==
    [][\A s \in Sources :
          lastError[s] = "build" /\ lastError'[s] # "build" /\ ~shuttingDown =>
              \/ BuildingNext(s) /\ ~isBuilding(s)
              \/ isBuilding(s) /\ ~BuildingNext(s)]_vars
=============================================================================
