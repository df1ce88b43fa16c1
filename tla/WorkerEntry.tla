----------------------------- MODULE WorkerEntry -----------------------------
(***************************************************************************)
(* The in-memory entries of EngineMap whose stores live in query workers   *)
(* (bootstrap/engine-map.ts, engine-map-worker-load.ts,                    *)
(* engine-map-actions.ts), on top of QueryWorkers.  The main thread keeps  *)
(* a mirror of each entry: the memoised promise of its load, whether it    *)
(* counts as loaded, its load epoch.  HTTP requests touch an entry, wait   *)
(* for its load and then query; operators reload and unload; the watcher   *)
(* invalidates after an edit.                                              *)
(*                                                                         *)
(* What awaits the load of a source resumes in the same turn of the event  *)
(* loop that settles it.  All loads of a source that overlap share one     *)
(* round trip (ensureLoaded), so they settle together.                     *)
(***************************************************************************)
EXTENDS QueryWorkers

CONSTANT MaxEpoch   \* bound: unloads of each source

ASSUME EpochAssumption == MaxEpoch \in Nat

VARIABLES
    memo,      \* entry.loaded
    current,   \* sources with entry.current, the `loaded' rows
    epoch,     \* entry.loadEpoch
    calls,     \* source -> epochs of the loadEntryViaWorker calls that await its load
    failed,    \* sources with entry.lastError
    client,    \* request -> the HTTP request up to its query
    seen       \* history: version of the files the watcher last reacted to

entryVars == <<memo, current, epoch, calls, failed, client, seen>>
vars == <<poolVars, entryVars>>

UnsetClient == [at |-> "unset", src |-> NoSource, seen |-> 0]
NewClient == [at |-> "idle", src |-> NoSource, seen |-> 0]

EntryTypeOK ==
    /\ memo \in [Sources -> {"none", "inflight", "ok"}]
    /\ current \in SUBSET Sources
    /\ epoch \in [Sources -> 0 .. MaxEpoch]
    /\ calls \in [Sources -> SUBSET (0 .. MaxEpoch)]
    /\ failed \in SUBSET Sources
    /\ client \in [Requests -> [at : {"idle", "waiting", "ready", "refused", "asked"},
                                src : Sources \cup {NoSource},
                                seen : 0 .. MaxEdits]]
    /\ seen \in [Sources -> 0 .. MaxEdits]

Init ==
    /\ PoolInit
    /\ memo = [s \in Sources |-> "none"]
    /\ current = {} /\ failed = {}
    /\ epoch = [s \in Sources |-> 0]
    /\ calls = [s \in Sources |-> {}]
    /\ client = [r \in Requests |-> NewClient]
    /\ seen = [s \in Sources |-> 0]

-----------------------------------------------------------------------------
(* loadEntryViaWorker up to its await.  A load in flight is shared.        *)
BeginLoad(s, before) ==
    /\ memo' = [memo EXCEPT ![s] = "inflight"]
    /\ calls' = [calls EXCEPT ![s] = @ \cup {epoch[s]}]
    /\ failed' = failed \ {s}
    /\ loads' = loads \cup {s}
    /\ Post(s, before \o IF s \in loads THEN <<>> ELSE <<LoadMsg(s)>>)

(* ensureEntry().  The code has no test of shuttingDown here, nor in the   *)
(* operations below: create-server.ts closes the watcher and the HTTP      *)
(* server, which waits for its requests, before it closes the engine map.  *)
(* So ~shuttingDown is what that order gives, an assumption on callers.    *)
Touch(r, s) ==
    /\ ~shuttingDown /\ Room(s)
    /\ client[r].at = "idle"
    /\ client' = [client EXCEPT ![r] =
          [at |-> IF memo[s] = "ok" THEN "ready" ELSE "waiting",
           src |-> s, seen |-> seen[s]]]
    /\ IF memo[s] = "none" THEN BeginLoad(s, <<>>)
       ELSE UNCHANGED <<memo, calls, failed, loads, routed, workers, thread, inbox>>
    /\ UNCHANGED <<query, shuttingDown, outbox, storeVars, files, dropped,
                   current, epoch, seen>>

(* The executor of a ready request posts its query.                        *)
Ask(r, aborted) ==
    /\ ~shuttingDown
    /\ client[r].at = "ready"
    /\ client' = [client EXCEPT ![r].at = "asked"]
    /\ Query(r, client[r].src, aborted)
    /\ UNCHANGED <<memo, current, epoch, calls, failed, seen>>

Disconnect(r) == ~shuttingDown /\ onCancel(r) /\ UNCHANGED entryVars

(* invalidateWorkerResident() only posts for an entry that counts as       *)
(* loaded.                                                                 *)
InvalidateFirst(s) == IF s \in current THEN <<InvalidateMsg(s)>> ELSE <<>>
DropSeen(s) ==
    dropped' = IF s \in current /\ NotBuilding(s) THEN [dropped EXCEPT ![s] = files[s]] ELSE dropped

reload(s) ==
    /\ ~shuttingDown /\ Room(s)
    /\ BeginLoad(s, InvalidateFirst(s))
    /\ DropSeen(s)
    /\ UNCHANGED <<query, shuttingDown, outbox, storeVars, files, current, epoch, client, seen>>

unloadKeepsEpoch(s) ==
    /\ ~shuttingDown /\ Room(s) /\ epoch[s] < MaxEpoch
    /\ s \in current \/ memo[s] # "none"
    /\ memo' = [memo EXCEPT ![s] = "none"]
    /\ current' = current \ {s}
    /\ inbox' = IF s \in current THEN Invalidated(s) ELSE inbox
    /\ DropSeen(s)
    /\ UNCHANGED <<mainVars, thread, outbox, storeVars, files, epoch, calls, failed, client, seen>>
unload(s) ==
    /\ ~shuttingDown /\ Room(s) /\ epoch[s] < MaxEpoch
    /\ s \in current \/ memo[s] # "none"
    /\ epoch' = [epoch EXCEPT ![s] = @ + 1]
    /\ memo' = [memo EXCEPT ![s] = "none"]
    /\ current' = current \ {s}
    /\ inbox' = IF s \in current THEN Invalidated(s) ELSE inbox
    /\ DropSeen(s)
    /\ UNCHANGED <<mainVars, thread, outbox, storeVars, files, calls, failed, client, seen>>

(* The watcher reacts to an edit.                                          *)
watcherFires(s) ==
    /\ ~shuttingDown /\ Room(s) /\ s \in Watched /\ seen[s] # files[s]
    /\ seen' = [seen EXCEPT ![s] = files[s]]
    /\ inbox' = IF s \in current THEN Invalidated(s) ELSE inbox
    /\ DropSeen(s)
    /\ UNCHANGED <<mainVars, thread, outbox, storeVars, files,
                   memo, current, epoch, calls, failed, client>>

-----------------------------------------------------------------------------
(* The loads of the sources in L have settled, those in ok well, and the   *)
(* reset callback has dropped the entries in R.  A call made before the    *)
(* last unload leaves the entry alone.                                     *)
Supersedes(s) == epoch[s] \notin calls[s]

LoadsSettleKeepMemo(L, ok, R) ==
    LET mine == {s \in L : ~Supersedes(s)} IN
    /\ memo' = [s \in Sources |-> IF s \in mine \cap ok THEN "ok" ELSE memo[s]]
    /\ current' = (current \ R) \cup (mine \cap ok)
    /\ failed' = failed \cup (mine \ ok)
    /\ calls' = [s \in Sources |-> IF s \in L THEN {} ELSE calls[s]]
    /\ client' = [r \in Requests |->
                    IF client[r].at = "waiting" /\ client[r].src \in L
                    THEN [client[r] EXCEPT !.at = IF client[r].src \in ok THEN "ready" ELSE "refused"]
                    ELSE client[r]]
    /\ UNCHANGED <<epoch, seen>>
LoadsSettle(L, ok, R) ==
    LET mine == {s \in L : ~Supersedes(s)} IN
    /\ memo' = [s \in Sources |->
                  CASE s \in mine \cap ok -> "ok"
                    [] s \in (mine \ ok) \cup R -> "none"
                    [] OTHER -> memo[s]]
    /\ current' = (current \ R) \cup (mine \cap ok)
    /\ failed' = failed \cup (mine \ ok)
    /\ calls' = [s \in Sources |-> IF s \in L THEN {} ELSE calls[s]]
    /\ client' = [r \in Requests |->
                    IF client[r].at = "waiting" /\ client[r].src \in L
                    THEN [client[r] EXCEPT !.at = IF client[r].src \in ok THEN "ready" ELSE "refused"]
                    ELSE client[r]]
    /\ UNCHANGED <<epoch, seen>>

Message(w) ==
    /\ onMessage(w)
    /\ LET m == Head(outbox[w])
           L == loads \ loads'
       IN  LoadsSettle(L, IF m.type = "load-reply" /\ m.ok THEN L ELSE {}, {})

(* resetWorkerResidency() of the sources ever routed to a reclaimed index. *)
OrphanedNothing(i) == {}
Orphaned(i) == routed[i]

Reset == UNION {Orphaned(i) : i \in {j \in Indexes : workers'[j] # workers[j]}}

Grace(r) == GraceExpires(r) /\ LoadsSettle(loads \ loads', {}, Reset)
Exit(w) == onWorkerExit(w) /\ LoadsSettle(loads \ loads', {}, Reset)

Close == ~shuttingDown /\ shutdown /\ UNCHANGED entryVars

Next ==
    \/ \E r \in Requests, s \in Sources : Touch(r, s)
    \/ \E r \in Requests, aborted \in BOOLEAN : Ask(r, aborted)
    \/ \E r \in Requests : Disconnect(r) \/ Grace(r)
    \/ \E s \in Sources : reload(s) \/ unload(s) \/ watcherFires(s)
    \/ \E w \in Workers : Message(w) \/ Exit(w)
    \/ Close
    \/ \E w \in Workers : (WorkerStep(w) \/ GetsStuck(w) \/ Dies(w)) /\ UNCHANGED entryVars
    \/ \E s \in Sources : Edit(s) /\ UNCHANGED entryVars

Spec == Init /\ [][Next]_vars

-----------------------------------------------------------------------------
(* A touch never shares a promise that nothing will settle: a memoised     *)
(* load is in flight and its outcome will reach the entry, and so will     *)
(* every request that waits for one.                                       *)
MemoIsLive ==
    ~shuttingDown =>
       /\ \A s \in Sources : memo[s] = "inflight" => s \in loads /\ ~Supersedes(s)
       /\ \A r \in Requests : client[r].at = "waiting" => client[r].src \in loads

(* A source that the main thread takes for loaded is known to its worker:  *)
(* after a reclaim, an unload or a late reply of a terminated worker, the  *)
(* current worker still has its recipe or is about to get it.              *)
MirrorHasRecipe ==
    ~shuttingDown => \A s \in current :
        LET w == workers[Assign[s]] IN
        w # NoWorker /\ (\/ thread[w] = "dead"
                         \/ s \in recipes[w]
                         \/ MessageFor(inbox[w], "load", s))

(* An unloaded source stays unloaded until somebody touches or reloads it, *)
(* which puts a new load in flight: the reply of a load that was in flight *)
(* at the unload brings neither the row nor the memo back.                 *)
UnloadStays ==
    [][\A s \in Sources :
          s \notin current /\ memo[s] = "none" /\ memo'[s] # "inflight"
              => s \notin current' /\ memo'[s] = "none"]_vars

(* engine-map.ts:442: the watcher's invalidate makes "the next query       *)
(* rebuild it from disk": a request that comes after the watcher reacted   *)
(* to an edit is answered from a store that has it.                        *)
EditsReachQueries ==
    \A r \in Requests : query[r].out = "ok" => query[r].ver >= client[r].seen
=============================================================================
