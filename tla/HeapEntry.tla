------------------------------ MODULE HeapEntry ------------------------------
(***************************************************************************)
(* A source whose store lives on the heap of `serve' (EngineMap without a  *)
(* query worker pool) and the runner of the file watcher that keeps it and *)
(* the snippet allow-list up to date (libs/server/src/lib/bootstrap:       *)
(* engine-map.ts, engine-map-actions.ts, multi-source-watcher.ts).         *)
(*                                                                         *)
(* The files of the source are a version number; a load or a walk that     *)
(* takes a while sees a version between the one it began with and the one  *)
(* it ends with.  A load makes a LoadedEntry: its engine reads the         *)
(* StoreRef the load created, which has the load's name, and its field     *)
(* storeRef, which reloadEntry() may replace, is refOf.                    *)
(***************************************************************************)
EXTENDS Naturals, FiniteSets

CONSTANTS
    Loads,         \* runs of loadEntry()
    NoLoad,        \* not one of them
    MaxFileEdits,  \* bound: edits of the files
    MaxUnloads     \* bound: Unload actions

VARIABLES
    disk,       \* version of the files
    event,      \* chokidar has still to report an edit
    timer,      \* the debounce timer of the runner is armed
    runner,     \* its rebuild under way
    queued,     \* a trigger came while a rebuild was under way
    disposed,   \* the watcher was closed
    load,       \* every run of loadEntry()
    store,      \* version of the store in each StoreRef
    refOf,      \* LoadedEntry.storeRef
    current,    \* entry.current
    memo,       \* entry.loaded
    lastError,  \* entry.lastError is set
    allowed,    \* version of the file list in the snippet allow-list
    unloads,
    missed,     \* history: an edit came while a load was reading
    failed      \* history: the last rebuild failed and was only logged

watcher == <<event, timer, runner, queued, disposed, allowed, failed>>
entry == <<load, store, refOf, current, memo, lastError, unloads>>
vars == <<disk, watcher, entry, missed>>

Idle == [at |-> "idle", since |-> 0, ref |-> NoLoad]
Walking == [at |-> "walking", since |-> disk, ref |-> NoLoad]
Unused == [at |-> "unused", from |-> 0, again |-> FALSE, prev |-> NoLoad]
Over == [Unused EXCEPT !.at = "over"]
Reading == {l \in Loads : load[l].at = "reading"}

Init ==
    /\ disk = 0 /\ missed = FALSE
    /\ event = FALSE /\ timer = FALSE /\ runner = Idle
    /\ queued = FALSE /\ disposed = FALSE
    /\ allowed = 0 /\ failed = FALSE
    /\ load = [l \in Loads |-> Unused]
    /\ store = [l \in Loads |-> 0] /\ refOf = [l \in Loads |-> l]
    /\ current = NoLoad /\ memo = NoLoad
    /\ lastError = FALSE /\ unloads = 0

-----------------------------------------------------------------------------
(* EngineMap.  loadEntry() up to its await.                                *)
Begin(l, again, prev) ==
    /\ load[l].at = "unused"
    /\ load' = [load EXCEPT ![l] =
                  [at |-> "reading", from |-> disk, again |-> again, prev |-> prev]]
    /\ lastError' = FALSE

ensureEntry(l) ==
    /\ memo = NoLoad
    /\ Begin(l, FALSE, NoLoad)
    /\ memo' = l
    /\ UNCHANGED <<disk, watcher, store, refOf, current, unloads, missed>>

(* Reload remembers the StoreRef that is exposed and forgets the memo.     *)
reloadEntry(l) ==
    /\ Begin(l, TRUE, IF current = NoLoad THEN NoLoad ELSE refOf[current])
    /\ memo' = NoLoad
    /\ UNCHANGED <<disk, watcher, store, refOf, current, unloads, missed>>

(* The store is there: loadEntry() exposes a new LoadedEntry; reloadEntry()*)
(* moves the store into the StoreRef it remembered.                        *)
LoadSucceeds(l) ==
    LET prev == load[l].prev IN
    /\ l \in Reading
    /\ \E v \in load[l].from .. disk :
          store' = [r \in Loads |-> IF r \in {l, prev} THEN v ELSE store[r]]
    /\ refOf' = IF prev = NoLoad THEN refOf ELSE [refOf EXCEPT ![l] = prev]
    /\ load' = [load EXCEPT ![l] = Over]
    /\ current' = l
    /\ memo' = IF load[l].again THEN l ELSE memo
    /\ UNCHANGED <<disk, watcher, lastError, unloads, missed>>

(* A failure clears the memo, whichever load it belongs to.                *)
LoadFails(l) ==
    /\ l \in Reading
    /\ load' = [load EXCEPT ![l] = Over]
    /\ memo' = NoLoad /\ lastError' = TRUE
    /\ UNCHANGED <<disk, watcher, store, refOf, current, unloads, missed>>

unloadEntry ==
    /\ unloads < MaxUnloads
    /\ current # NoLoad \/ memo # NoLoad
    /\ unloads' = unloads + 1
    /\ current' = NoLoad /\ memo' = NoLoad
    /\ UNCHANGED <<disk, watcher, load, store, refOf, lastError, missed>>

-----------------------------------------------------------------------------
(* The watcher.                                                            *)
Edit ==
    /\ disk < MaxFileEdits
    /\ disk' = disk + 1
    /\ event' = ~disposed
    /\ missed' = (Reading # {})
    /\ UNCHANGED <<timer, runner, queued, disposed, allowed, failed, entry>>

onFileEvent ==
    /\ event
    /\ event' = FALSE /\ timer' = TRUE
    /\ UNCHANGED <<disk, runner, queued, disposed, allowed, failed, entry, missed>>

(* rebuild() is called: one at a time, a second trigger waits.             *)
TimerFiresDropped ==
    /\ timer
    /\ timer' = FALSE
    /\ IF runner.at = "idle" THEN runner' = Walking ELSE UNCHANGED runner
    /\ UNCHANGED <<disk, event, queued, disposed, allowed, failed, entry, missed>>
TimerFires ==
    /\ timer
    /\ timer' = FALSE
    /\ IF runner.at = "idle"
       THEN runner' = Walking /\ UNCHANGED queued
       ELSE queued' = TRUE /\ UNCHANGED runner
    /\ UNCHANGED <<disk, event, disposed, allowed, failed, entry, missed>>

(* The finally block: a queued trigger starts the next rebuild.            *)
Ends ==
    IF queued /\ ~disposed THEN queued' = FALSE /\ runner' = Walking
    ELSE runner' = Idle /\ UNCHANGED queued

(* The walk for the allow-list is over: publish it, then look whether      *)
(* there is a store to rebuild.                                            *)
WalkedIfLoaded ==
    /\ runner.at = "walking"
    /\ IF disposed \/ current = NoLoad THEN Ends /\ UNCHANGED <<allowed, failed>>
       ELSE /\ \E v \in runner.since .. disk : allowed' = v
            /\ failed' = FALSE
            /\ runner' = [at |-> "building", since |-> disk, ref |-> refOf[current]]
            /\ UNCHANGED queued
    /\ UNCHANGED <<disk, event, timer, disposed, entry, missed>>
Walked ==
    /\ runner.at = "walking"
    /\ IF disposed THEN Ends /\ UNCHANGED <<allowed, failed>>
       ELSE /\ \E v \in runner.since .. disk : allowed' = v
            /\ failed' = FALSE
            /\ IF current = NoLoad THEN Ends
               ELSE /\ runner' = [at |-> "building", since |-> disk, ref |-> refOf[current]]
                    /\ UNCHANGED queued
    /\ UNCHANGED <<disk, event, timer, disposed, entry, missed>>

(* The store is rebuilt and swapped into the StoreRef found before.        *)
Swap ==
    \E v \in runner.since .. disk :
       /\ store' = [store EXCEPT ![runner.ref] = v]
       /\ allowed' = v
RebuiltAnyway ==
    /\ runner.at = "building"
    /\ Swap
    /\ Ends
    /\ UNCHANGED <<disk, event, timer, disposed, failed, load, refOf, current,
                   memo, lastError, unloads, missed>>
Rebuilt ==
    /\ runner.at = "building"
    /\ IF disposed THEN UNCHANGED <<store, allowed>> ELSE Swap
    /\ Ends
    /\ UNCHANGED <<disk, event, timer, disposed, failed, load, refOf, current,
                   memo, lastError, unloads, missed>>

RebuildFails ==
    /\ runner.at \in {"walking", "building"}
    /\ failed' = TRUE
    /\ Ends
    /\ UNCHANGED <<disk, event, timer, disposed, allowed, entry, missed>>

dispose ==
    /\ ~disposed
    /\ disposed' = TRUE /\ event' = FALSE /\ timer' = FALSE /\ queued' = FALSE
    /\ UNCHANGED <<disk, runner, allowed, failed, entry, missed>>

Next ==
    \/ \E l \in Loads : ensureEntry(l) \/ reloadEntry(l) \/ LoadSucceeds(l) \/ LoadFails(l)
    \/ unloadEntry
    \/ Edit \/ onFileEvent \/ TimerFires
    \/ Walked \/ Rebuilt \/ RebuildFails
    \/ dispose

Spec == Init /\ [][Next]_vars

-----------------------------------------------------------------------------
Quiet == ~event /\ ~timer /\ runner = Idle /\ ~disposed

(* When the runner has nothing left to do and reading the files did not    *)
(* fail, the snippet allow-list lists them as they are, whether or not the *)
(* source was loaded, and the store it keeps up to date has their contents,*)
(* however edits, rebuilds, touches, reloads and unloads overlapped; except *)
(* that an edit which comes while a load reads the files may find nothing  *)
(* to rebuild (missed).                                                    *)
QuietMeansFresh ==
    Quiet /\ ~failed =>
        /\ allowed = disk
        /\ ~missed /\ current # NoLoad => store[refOf[current]] = disk

(* Once the watcher is closed a rebuild that was under way changes nothing:*)
(* "teardown is deterministic" (multi-source-watcher.ts:242-245).          *)
TeardownDeterministic ==
    [][disposed => allowed' = allowed /\ (store' = store \/ load' # load)]_vars

(* After a Reload "old and new holders share the same `current`"           *)
(* (engine-map-actions.ts:108-109): the engine that queries are given and  *)
(* the StoreRef that the watcher swaps have the same store.                *)
HoldersShare == current # NoLoad => store[current] = store[refOf[current]]
=============================================================================
