---------------------------- MODULE QueryWorkers ----------------------------
(***************************************************************************)
(* The worker loop (libs/server/src/lib/sparql/query-worker.ts) and its    *)
(* pool together.  A worker handles its messages in order but a build is   *)
(* asynchronous: while one is under way the worker goes on with the next   *)
(* message, so builds overlap, also builds of the same source.             *)
(***************************************************************************)
EXTENDS QueryWorkerPool

TypeOK ==
    /\ workers \in [Indexes -> Workers \cup {NoWorker}]
    /\ query \in [Requests -> [at : Phases, src : Sources \cup {NoSource}, armed : BOOLEAN,
                               floor : 0 .. MaxEdits, out : Outs, ver : 0 .. MaxEdits]]
    /\ loads \in SUBSET Sources
    /\ routed \in [Indexes -> SUBSET Sources]
    /\ shuttingDown \in BOOLEAN
    /\ thread \in [Workers -> Threads]
    /\ resident \in [Workers -> Seq([src : Sources, ver : 0 .. MaxEdits])]
    /\ pins \in [Workers -> [Sources -> Nat]]
    /\ recipes \in [Workers -> SUBSET Sources]
    /\ \A w \in Workers : IsABag(jobs[w]) /\ BagToSet(jobs[w]) \subseteq
          [src : Sources, req : Requests \cup {NoRequest}, from : 0 .. MaxEdits]
    /\ executing \in [Workers -> SUBSET [req : Requests, src : Sources, ver : 0 .. MaxEdits]]
    /\ files \in [Sources -> 0 .. MaxEdits]
    /\ dropped \in [Sources -> 0 .. MaxEdits]

-----------------------------------------------------------------------------
(* Handling the head of the inbox.                                         *)
Receives(w, type) == thread[w] = "up" /\ inbox[w] # <<>> /\ Head(inbox[w]).type = type
Consume(w) == inbox' = [inbox EXCEPT ![w] = Tail(@)]
Reply(w, m) == outbox' = [outbox EXCEPT ![w] = Append(@, m)]
Starts(w, s, r) ==
    jobs' = [jobs EXCEPT ![w] = @ (+) SetToBag({[src |-> s, req |-> r, from |-> files[s]]})]
Finishes(w, j) ==
    /\ thread[w] = "up" /\ j \in BagToSet(jobs[w])
    /\ jobs' = [jobs EXCEPT ![w] = @ (-) SetToBag({j})]

UseStore(w, s) == resident' = [resident EXCEPT ![w] = get(@, s)]
KeepStore(w, s, v) ==
    resident' = [resident EXCEPT ![w] = set(@, pins[w], [src |-> s, ver |-> v])]

(* The query runs on the store it resolved, which it pins by source.       *)
Run(w, r, s, v) ==
    /\ pins' = [pins EXCEPT ![w] = pin(@, s)]
    /\ executing' = [executing EXCEPT ![w] = @ \cup {[req |-> r, src |-> s, ver |-> v]}]

handleLoad(w) ==
    LET s == Head(inbox[w]).src IN
    /\ Receives(w, "load")
    /\ recipes' = [recipes EXCEPT ![w] = @ \cup {s}]
    /\ IF IsResident(resident[w], s)
       THEN UseStore(w, s) /\ Reply(w, LoadReply(s, TRUE)) /\ UNCHANGED jobs
       ELSE /\ Starts(w, s, NoRequest)
            /\ UNCHANGED <<resident, outbox>>
    /\ Consume(w)
    /\ UNCHANGED <<mainVars, thread, pins, executing, files, dropped>>

handleQuery(w) ==
    LET r == Head(inbox[w]).req
        s == query[r].src
    IN  /\ Receives(w, "query")
        /\ CASE IsResident(resident[w], s) ->
                  /\ UseStore(w, s)
                  /\ Run(w, r, s, Entry(resident[w], s).ver)
                  /\ UNCHANGED <<jobs, outbox>>
             [] ~IsResident(resident[w], s) /\ s \notin recipes[w] ->
                  /\ Reply(w, ResultMsg(r, "error", 0))
                  /\ UNCHANGED <<resident, pins, executing, jobs>>
             [] OTHER ->
                  /\ Starts(w, s, r)
                  /\ UNCHANGED <<resident, pins, executing, outbox>>
        /\ Consume(w)
        /\ UNCHANGED <<mainVars, thread, recipes, files, dropped>>

(* An aborted query may end at any time, as every query may.               *)
handleCancel(w) ==
    /\ Receives(w, "cancel")
    /\ Consume(w)
    /\ UNCHANGED <<mainVars, thread, outbox, storeVars, files, dropped>>

handleInvalidate(w) ==
    LET s == Head(inbox[w]).src IN
    /\ Receives(w, "invalidate")
    /\ resident' = [resident EXCEPT ![w] = delete(@, pins[w], s)]
    /\ Consume(w)
    /\ UNCHANGED <<mainVars, thread, outbox, pins, recipes, jobs, executing, files, dropped>>

(* buildStore() of job j is over.                                          *)
Built(w, j) ==
    /\ Finishes(w, j)
    /\ \E v \in j.from .. files[j.src] :
          /\ KeepStore(w, j.src, v)
          /\ IF j.req = NoRequest
             THEN Reply(w, LoadReply(j.src, TRUE)) /\ UNCHANGED <<pins, executing>>
             ELSE Run(w, j.req, j.src, v) /\ UNCHANGED outbox
    /\ UNCHANGED <<mainVars, thread, inbox, recipes, files, dropped>>

BuildFailsSilently(w, j) ==
    /\ Finishes(w, j)
    /\ IF j.req = NoRequest THEN Reply(w, LoadReply(j.src, FALSE)) ELSE UNCHANGED outbox
    /\ UNCHANGED <<mainVars, thread, inbox, resident, pins, recipes, executing, files, dropped>>
BuildFails(w, j) ==
    /\ Finishes(w, j)
    /\ Reply(w, IF j.req = NoRequest THEN LoadReply(j.src, FALSE)
                ELSE ResultMsg(j.req, "error", 0))
    /\ UNCHANGED <<mainVars, thread, inbox, resident, pins, recipes, executing, files, dropped>>

(* The query ends, with an answer or an error: it is answered and unpinned.*)
QueryEnds(w, e, out) ==
    /\ thread[w] = "up" /\ e \in executing[w]
    /\ executing' = [executing EXCEPT ![w] = @ \ {e}]
    /\ pins' = [pins EXCEPT ![w] = unpin(@, e.src)]
    /\ Reply(w, ResultMsg(e.req, out, e.ver))
    /\ UNCHANGED <<mainVars, thread, inbox, resident, recipes, jobs, files, dropped>>

GetsStuck(w) ==
    /\ thread[w] = "up" /\ executing[w] # {}
    /\ thread' = [thread EXCEPT ![w] = "stuck"]
    /\ UNCHANGED <<mainVars, portVars, storeVars, files, dropped>>

Dies(w) ==
    /\ thread[w] \in {"up", "stuck"}
    /\ thread' = [thread EXCEPT ![w] = "dead"]
    /\ UNCHANGED <<mainVars, portVars, storeVars, files, dropped>>

Edit(s) ==
    /\ files[s] < MaxEdits
    /\ files' = [files EXCEPT ![s] = @ + 1]
    /\ UNCHANGED <<mainVars, thread, portVars, storeVars, dropped>>

Handles(w) == handleLoad(w) \/ handleQuery(w) \/ handleCancel(w) \/ handleInvalidate(w)

BuildEnds(w, r) ==
    \E j \in BagToSet(jobs[w]) : j.req = r /\ (Built(w, j) \/ BuildFails(w, j))

RunEnds(w, r) ==
    \E e \in executing[w], out \in {"ok", "error"} : e.req = r /\ QueryEnds(w, e, out)

WorkerStep(w) ==
    \/ Handles(w)
    \/ \E r \in Requests \cup {NoRequest} : BuildEnds(w, r)
    \/ \E r \in Requests : RunEnds(w, r)

-----------------------------------------------------------------------------
(* Callers use the pool as they like until it is shut down (create-server   *)
(* closes it last; the pool does not refuse them later).  To bound them,   *)
(* they invalidate a store for an edit only.                               *)
Room(s) == workers[Assign[s]] # NoWorker => Len(inbox[workers[Assign[s]]]) < MaxInbox

CallerStep ==
    /\ ~shuttingDown
    /\ \/ \E s \in Sources :
             /\ Room(s)
             /\ \/ ensureLoaded(s)
                \/ s \in Watched /\ dropped[s] < files[s] /\ invalidate(s)
                \/ \E r \in Requests, aborted \in BOOLEAN : Query(r, s, aborted)
       \/ \E r \in Requests : onCancel(r)
       \/ shutdown

LoopStep ==
    \/ \E r \in Requests : GraceExpires(r)
    \/ \E w \in Workers : onMessage(w) \/ onWorkerExit(w)

PoolNext ==
    \/ CallerStep
    \/ LoopStep
    \/ \E w \in Workers : WorkerStep(w) \/ GetsStuck(w) \/ Dies(w)
    \/ \E s \in Sources : Edit(s)

(* The main loop always goes on; a worker does unless it is stuck or dead: *)
(* it takes its messages, and every build and every query it runs ends.    *)
PoolFairness ==
    /\ \A r \in Requests : WF_poolVars(GraceExpires(r))
    /\ \A w \in Workers : WF_poolVars(onMessage(w)) /\ WF_poolVars(onWorkerExit(w))
    /\ \A w \in Workers : WF_poolVars(Handles(w))
    /\ \A w \in Workers, r \in Requests : WF_poolVars(BuildEnds(w, r) \/ RunEnds(w, r))
    /\ \A w \in Workers : WF_poolVars(BuildEnds(w, NoRequest))

PoolSpec == PoolInit /\ [][PoolNext]_poolVars
PoolFairSpec == PoolSpec /\ PoolFairness

-----------------------------------------------------------------------------
MessageFor(msgs, type, what) ==
    \E m \in ToSet(msgs) :
        /\ m.type = type
        /\ IF type \in {"query", "query-result"} THEN m.req = what ELSE m.src = what

(* No pending query and no load is forgotten: it is on its way to the      *)
(* current worker of its index, held by it, or on its way back; or that    *)
(* worker is dead and its exit, which fails what was in flight, is to come.*)
HasQuery(w, r) ==
    \/ MessageFor(inbox[w], "query", r) \/ MessageFor(outbox[w], "query-result", r)
    \/ \E j \in BagToSet(jobs[w]) : j.req = r
    \/ \E e \in executing[w] : e.req = r

HasLoad(w, s) ==
    \/ MessageFor(inbox[w], "load", s) \/ MessageFor(outbox[w], "load-reply", s)
    \/ \E j \in BagToSet(jobs[w]) : j.src = s /\ j.req = NoRequest

NothingStranded ==
    ~shuttingDown =>
       /\ \A r \in Requests : Pending(r) =>
             LET w == workers[indexOf(r)] IN thread[w] = "dead" \/ HasQuery(w, r)
       /\ \A s \in loads :
             LET w == workers[Assign[s]] IN thread[w] = "dead" \/ HasLoad(w, s)

(* The books of pool and worker agree: no call of the pool's is stranded,   *)
(* and the pins of a source are the queries that run on it, also when its  *)
(* store was dropped or replaced in the meantime.                          *)
BooksAgree ==
    /\ NothingStranded
    /\ \A w \in Workers, s \in Sources :
           pins[w][s] = Cardinality({e \in executing[w] : e.src = s})

(* The pool keeps the promise of PendingCalls: the late answer of a        *)
(* terminated worker does not change the error its caller already has, and *)
(* what one worker loses does not fail the queries sent to another.        *)
callOwner == [r \in Requests |-> IF query[r].src = NoSource THEN NoSource ELSE indexOf(r)]
callResult == [r \in Requests |-> IF query[r].at = "settled" THEN query[r].out ELSE query[r].at]

Promise == INSTANCE PendingCalls
             WITH Calls <- Requests, NoIndex <- NoSource, owner <- callOwner, result <- callResult
CallsRefined == Promise!Spec

(* The pool starts no worker of its own accord once shutdown() was called, *)
(* though its terminates make workers exit and cancelled queries may still *)
(* be pending.  (A caller that came later would make it start one.)        *)
NoRespawn == [][shuttingDown => workers' = workers]_poolVars

(* A store that a running query has pinned is not evicted for another one; *)
(* only an invalidate takes it out.                                        *)
PinnedNotEvicted ==
    [][\A w \in Workers : \A e \in executing[w] :
          IsResident(resident[w], e.src) /\ ~IsResident(resident'[w], e.src)
              => Receives(w, "invalidate") \/ thread[w] = "dead"]_poolVars

(* Every query asked after an invalidate sees the files as they were then, *)
(* provided no build of the source was under way when it was sent.         *)
FreshAfterQuietInvalidate ==
    \A r \in Requests : query[r].out = "ok" => query[r].ver >= query[r].floor

(* A cancelled query settles even if its worker is stuck.                  *)
CancelSettles == \A r \in Requests :
    Pending(r) /\ query[r].armed ~> ~Pending(r) \/ shuttingDown

(* A query settles unless a worker gets stuck in front of it.              *)
QuerySettles == \A r \in Requests :
    Pending(r) ~> ~Pending(r) \/ shuttingDown \/ (\E w \in Workers : thread[w] = "stuck")
=============================================================================
