--------------------------- MODULE QueryWorkerPool ---------------------------
(***************************************************************************)
(* QueryWorkerPool (libs/server/src/lib/sparql/query-worker-pool.ts) on    *)
(* the main thread and the worker loop it talks to (query-worker.ts), one  *)
(* worker thread per assignment index, with the message ports between them.*)
(*                                                                         *)
(* Both sides are event loops: handling a message, a timer or an exit is   *)
(* one step, and so is what runs up to the next await.  A worker may go    *)
(* into a synchronous stretch from which it never returns (`stuck') and    *)
(* may die of its memory limit at any time.  What it has already posted is *)
(* still delivered, in order, before its `exit' event; what it has not yet *)
(* received is lost.                                                       *)
(*                                                                         *)
(* The content of a source is a version number.  A store built from it     *)
(* holds a version the files had at some point of the build.               *)
(***************************************************************************)
EXTENDS ResidentSet, FiniteSets, Bags

CONSTANTS
    Requests,   \* requestIds, each used once
    Workers,    \* worker threads, reused once their exit was handled
    NoWorker,
    NoSource,
    NoRequest,
    Indexes,    \* 0 .. concurrency - 1
    Assign,     \* AssignmentStrategy.assign
    MaxEdits,   \* bound: edits of each source's files
    Watched,    \* sources whose stores are invalidated
    MaxInbox    \* bound: callers send nothing to a port with that many messages

ASSUME AssignAssumption == Assign \in [Sources -> Indexes]
ASSUME AbsentAssumption ==
    NoWorker \notin Workers /\ NoSource \notin Sources /\ NoRequest \notin Requests
ASSUME BoundsAssumption == MaxEdits \in Nat /\ MaxInbox \in Nat /\ Watched \subseteq Sources

VARIABLES
    workers,      \* index -> its current worker, or NoWorker
    query,        \* request -> its PendingQuery and what became of it
    loads,        \* sources with a load in flight
    routed,       \* sourcesByWorker: the sources ever routed to an index
    shuttingDown,
    thread,       \* worker -> the state of its thread
    inbox,        \* worker -> messages from the main thread, in order
    outbox,       \* worker -> messages to the main thread, in order
    resident,     \* worker -> its ResidentSet
    pins,         \* worker -> source -> running queries
    recipes,      \* worker -> sources it has a recipe of
    jobs,         \* worker -> the bag of its builds in progress
    executing,    \* worker -> the queries it runs, each on the store it holds
    files,        \* source -> version of its files
    dropped       \* history: source -> version its files had at an invalidate

mainVars == <<workers, query, loads, routed, shuttingDown>>
portVars == <<inbox, outbox>>
storeVars == <<resident, pins, recipes, jobs, executing>>
poolVars == <<mainVars, thread, portVars, storeVars, files, dropped>>

Threads == {"free", "up", "stuck", "dead"}
Phases == {"new", "pending", "settled"}
Outs == {"none", "ok", "error", "lost"}
NewQuery == [at |-> "new", src |-> NoSource, armed |-> FALSE, floor |-> 0,
             out |-> "none", ver |-> 0]
NeverAsked == [NewQuery EXCEPT !.out = "error"]

indexOf(r) == Assign[query[r].src]
Pending(r) == query[r].at = "pending"
Free == {w \in Workers : thread[w] = "free"}
Current(w) == \E i \in Indexes : workers[i] = w

(* The server starts with the files in some version.  To bound the queries *)
(* apart from the edits, those outside `asked' are never asked.            *)
PoolStart(asked, version) ==
    /\ workers = [i \in Indexes |-> NoWorker]
    /\ query = [r \in Requests |-> IF r \in asked THEN NewQuery ELSE NeverAsked]
    /\ loads = {}
    /\ routed = [i \in Indexes |-> {}]
    /\ shuttingDown = FALSE
    /\ thread = [w \in Workers |-> "free"]
    /\ inbox = [w \in Workers |-> <<>>] /\ outbox = [w \in Workers |-> <<>>]
    /\ resident = [w \in Workers |-> <<>>]
    /\ pins = [w \in Workers |-> [s \in Sources |-> 0]]
    /\ recipes = [w \in Workers |-> {}]
    /\ jobs = [w \in Workers |-> EmptyBag]
    /\ executing = [w \in Workers |-> {}]
    /\ files = [s \in Sources |-> version]
    /\ dropped = [s \in Sources |-> version]
PoolInit == PoolStart(Requests, 0)

-----------------------------------------------------------------------------
(* Messages.                                                               *)
LoadMsg(s) == [type |-> "load", src |-> s]
QueryMsg(r) == [type |-> "query", req |-> r]
CancelMsg(r) == [type |-> "cancel", req |-> r]
InvalidateMsg(s) == [type |-> "invalidate", src |-> s]
ResultMsg(r, out, v) == [type |-> "query-result", req |-> r, out |-> out, ver |-> v]
LoadReply(s, ok) == [type |-> "load-reply", src |-> s, ok |-> ok]

(* workerFor(s).postMessage: the first message of an index installs its    *)
(* worker.                                                                 *)
Post(s, msgs) ==
    LET i == Assign[s] IN
    /\ routed' = [routed EXCEPT ![i] = @ \cup {s}]
    /\ IF workers[i] # NoWorker
       THEN /\ inbox' = [inbox EXCEPT ![workers[i]] = @ \o msgs]
            /\ UNCHANGED <<workers, thread>>
       ELSE \E w \in Free :
               /\ workers' = [workers EXCEPT ![i] = w]
               /\ thread' = [thread EXCEPT ![w] = "up"]
               /\ inbox' = [inbox EXCEPT ![w] = msgs]

ensureLoaded(s) ==
    /\ IF s \in loads THEN UNCHANGED <<loads, routed, workers, thread, inbox>>
       ELSE loads' = loads \cup {s} /\ Post(s, <<LoadMsg(s)>>)
    /\ UNCHANGED <<query, shuttingDown, outbox, storeVars, files, dropped>>

(* invalidate() never spawns a worker.                                     *)
Invalidated(s) ==
    LET w == workers[Assign[s]] IN
    IF w = NoWorker THEN inbox ELSE [inbox EXCEPT ![w] = Append(@, InvalidateMsg(s))]

(* No build of s is under way on the worker that owns it.                  *)
NotBuilding(s) ==
    LET w == workers[Assign[s]] IN
    w = NoWorker \/ \A j \in BagToSet(jobs[w]) : j.src # s

invalidate(s) ==
    /\ inbox' = Invalidated(s)
    /\ dropped' = IF NotBuilding(s) THEN [dropped EXCEPT ![s] = files[s]] ELSE dropped
    /\ UNCHANGED <<mainVars, thread, outbox, storeVars, files>>

(* query(): an abort signal that has already fired cancels right after the *)
(* post.                                                                   *)
Query(r, s, aborted) ==
    /\ query[r] = NewQuery
    /\ query' = [query EXCEPT ![r] = [@ EXCEPT !.at = "pending", !.src = s,
                                     !.armed = aborted, !.floor = dropped[s]]]
    /\ Post(s, IF aborted THEN <<QueryMsg(r), CancelMsg(r)>> ELSE <<QueryMsg(r)>>)
    /\ UNCHANGED <<loads, shuttingDown, outbox, storeVars, files, dropped>>

onCancel(r) ==
    /\ Pending(r) /\ ~query[r].armed
    /\ query' = [query EXCEPT ![r].armed = TRUE]
    /\ inbox' = [inbox EXCEPT ![workers[indexOf(r)]] = Append(@, CancelMsg(r))]
    /\ UNCHANGED <<workers, loads, routed, shuttingDown, thread, outbox, storeVars, files, dropped>>

(* reclaim(): a fresh worker takes over the index; every query and load in *)
(* flight there fails.                                                     *)
SettledAs(r, out, v) ==
    [query[r] EXCEPT !.at = "settled", !.armed = FALSE, !.out = out, !.ver = v]

reclaimQueriesOnly(i) ==
    /\ \E w \in Free : workers' = [workers EXCEPT ![i] = w]
    /\ query' = [r \in Requests |-> IF Pending(r) /\ indexOf(r) = i
                                    THEN SettledAs(r, "lost", 0) ELSE query[r]]
    /\ UNCHANGED loads
reclaimEverything(i) ==
    /\ \E w \in Free : workers' = [workers EXCEPT ![i] = w]
    /\ query' = [r \in Requests |-> IF Pending(r) THEN SettledAs(r, "lost", 0) ELSE query[r]]
    /\ loads' = {}
reclaimLoadsOnly(i) ==
    /\ \E w \in Free : workers' = [workers EXCEPT ![i] = w]
    /\ UNCHANGED query
    /\ loads' = {s \in loads : Assign[s] # i}
reclaim(i) ==
    /\ \E w \in Free : workers' = [workers EXCEPT ![i] = w]
    /\ query' = [r \in Requests |-> IF Pending(r) /\ indexOf(r) = i
                                    THEN SettledAs(r, "lost", 0) ELSE query[r]]
    /\ loads' = {s \in loads : Assign[s] # i}

(* The grace timer of a cancelled query: terminateWorker() and reclaim().  *)
GraceExpires(r) ==
    /\ Pending(r) /\ query[r].armed
    /\ reclaim(indexOf(r))
    /\ thread' = [w \in Workers |->
                    CASE w = workers[indexOf(r)] -> "dead"
                      [] w = workers'[indexOf(r)] -> "up"
                      [] OTHER -> thread[w]]
    /\ UNCHANGED <<routed, shuttingDown, portVars, storeVars, files, dropped>>

(* The exit event of a dead worker.  Its identity is free again.           *)
Reused(w) ==
    /\ inbox' = [inbox EXCEPT ![w] = <<>>]
    /\ resident' = [resident EXCEPT ![w] = <<>>]
    /\ pins' = [pins EXCEPT ![w] = [s \in Sources |-> 0]]
    /\ recipes' = [recipes EXCEPT ![w] = {}]
    /\ jobs' = [jobs EXCEPT ![w] = EmptyBag]
    /\ executing' = [executing EXCEPT ![w] = {}]

onWorkerExit(w) ==
    /\ thread[w] = "dead" /\ outbox[w] = <<>>
    /\ IF ~shuttingDown /\ Current(w)
       THEN LET i == CHOOSE j \in Indexes : workers[j] = w IN
            /\ reclaim(i)
            /\ thread' = [thread EXCEPT ![w] = "free", ![workers'[i]] = "up"]
       ELSE thread' = [thread EXCEPT ![w] = "free"] /\ UNCHANGED <<workers, query, loads>>
    /\ Reused(w)
    /\ UNCHANGED <<routed, shuttingDown, outbox, files, dropped>>

(* A message arrives on the main thread.  Nothing tells which worker it is *)
(* from: a reply is matched by its request or source alone.                *)
NeverUnknown(r) == FALSE
UnknownRequest(r) == ~Pending(r)

onMessage(w) ==
    /\ outbox[w] # <<>>
    /\ LET m == Head(outbox[w]) IN
       IF m.type = "query-result"
       THEN /\ query' = IF UnknownRequest(m.req) THEN query
                        ELSE [query EXCEPT ![m.req] = SettledAs(m.req, m.out, m.ver)]
            /\ UNCHANGED loads
       ELSE loads' = loads \ {m.src} /\ UNCHANGED query
    /\ outbox' = [outbox EXCEPT ![w] = Tail(@)]
    /\ UNCHANGED <<workers, routed, shuttingDown, thread, inbox, storeVars, files, dropped>>

(* shutdown() runs when the HTTP server has closed: what is still pending  *)
(* belongs to clients that are gone.                                       *)
shutdownKeepsTimers ==
    /\ \A r \in Requests : Pending(r) => query[r].armed
    /\ shuttingDown' = TRUE
    /\ thread' = [w \in Workers |-> IF Current(w) THEN "dead" ELSE thread[w]]
    /\ UNCHANGED <<query, workers, loads, routed, portVars, storeVars, files, dropped>>
shutdown ==
    /\ \A r \in Requests : Pending(r) => query[r].armed
    /\ shuttingDown' = TRUE
    /\ query' = [r \in Requests |-> [query[r] EXCEPT !.armed = FALSE]]
    /\ thread' = [w \in Workers |-> IF Current(w) THEN "dead" ELSE thread[w]]
    /\ UNCHANGED <<workers, loads, routed, portVars, storeVars, files, dropped>>
=============================================================================
