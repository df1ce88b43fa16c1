--------------------------- MODULE IndexBuildPool ---------------------------
(***************************************************************************)
(* IndexBuildPool (libs/server/src/lib/bootstrap/index-build-pool.ts): the *)
(* queue of child processes `sparqly index @id --force` that `serve` runs  *)
(* to build the on-disk Glob indexes, at most Concurrency at a time.       *)
(*                                                                         *)
(* The pool lives in the single-threaded event loop of `serve`, so each of *)
(* its methods and listeners is one atomic action.  The children are       *)
(* processes of their own: a child exits whenever it likes, and its `exit' *)
(* event waits in the event loop until the pool's listener runs, so every  *)
(* pool method can run between the death of a child and the listener.      *)
(*                                                                         *)
(* A child that could not be spawned emits `error'; Node may or may not    *)
(* emit `exit' for it afterwards, however late.                            *)
(*                                                                         *)
(* Abstracted: stderr tails and failure messages (display only), and the   *)
(* clock: a source is in coolingDown exactly while its lastFailureAt entry *)
(* exists and is younger than cooldownMs.                                  *)
(***************************************************************************)
EXTENDS Naturals, Sequences, FiniteSets, SequencesExt

CONSTANTS
    Sources,      \* ids of the disk-backed sources
    Pids,         \* identities of child processes, reused once a child is gone
    NoPid,        \* `undefined' in the running map
    NoSource,     \* the source of a child identity not in use
    Concurrency   \* `indexConcurrency', z.number().int().positive()

ASSUME ConcurrencyAssumption == Concurrency \in Nat \ {0}
ASSUME SourcesAssumption == IsFiniteSet(Sources)

ASSUME AbsentAssumption == NoPid \notin Pids /\ NoSource \notin Sources

VARIABLES
    running,       \* source -> its running child, or NoPid
    cancelling,    \* sources whose running child was cancelled
    queue,         \* sources waiting for a slot, oldest first
    coolingDown,   \* sources whose last build failed less than cooldownMs ago
    shuttingDown,  \* shutdown() was called
    proc           \* child -> what the OS and its listeners know of it

poolVars == <<running, cancelling, queue, coolingDown, shuttingDown, proc>>

(***************************************************************************)
(* A child is `live' until it dies; `exit0' and `exitBad' wait for their   *)
(* exit event to be delivered (null, the code of a signalled child, counts *)
(* as bad); `nostart' waits for its error event, after which it is         *)
(* `errored' and may still get a late exit event.  term: SIGTERM was sent. *)
(* settled: the flag of the closure that start() makes for each child.     *)
(***************************************************************************)
OsStates == {"free", "live", "exit0", "exitBad", "nostart", "errored"}

ReusedProc == [os |-> "reused", src |-> NoSource, term |-> FALSE, settled |-> FALSE]
FreeProc == [os |-> "free", src |-> NoSource, term |-> FALSE, settled |-> FALSE]

Alive == {p \in Pids : proc[p].os = "live"}
Running == {s \in Sources : running[s] # NoPid}
SlotFreeOffByOne == Cardinality(Running) <= Concurrency
SlotFree == Cardinality(Running) < Concurrency
isBuilding(s) == running[s] # NoPid \/ Contains(queue, s)

TypeOK ==
    /\ running \in [Sources -> Pids \cup {NoPid}]
    /\ cancelling \in SUBSET Sources
    /\ queue \in Seq(Sources)
    /\ coolingDown \in SUBSET Sources
    /\ shuttingDown \in BOOLEAN
    /\ proc \in [Pids -> [os : OsStates, src : Sources \cup {NoSource},
                          term : BOOLEAN, settled : BOOLEAN]]

PoolInit ==
    /\ running = [s \in Sources |-> NoPid]
    /\ cancelling = {}
    /\ queue = <<>>
    /\ coolingDown = {}
    /\ shuttingDown = FALSE
    /\ proc = [p \in Pids |-> FreeProc]

-----------------------------------------------------------------------------
(* start(): spawn a child for s and occupy a slot.  procs and slots are    *)
(* the maps before it; the spawn itself may fail.                          *)
Spawned(procs, s, p, os) ==
    [procs EXCEPT ![p] = [os |-> os, src |-> s, term |-> FALSE, settled |-> FALSE]]

StartFrom(procs, slots, s) ==
    \E p \in {q \in Pids : procs[q].os = "free"}, os \in {"live", "nostart"} :
        /\ proc' = Spawned(procs, s, p, os)
        /\ running' = [slots EXCEPT ![s] = p]

Terminated(procs, P) ==
    [p \in Pids |-> [procs[p] EXCEPT !.term = @ \/ p \in P]]

-----------------------------------------------------------------------------
SuppressedUnlessQueued(s) ==
    \/ shuttingDown
    \/ running[s] # NoPid
    \/ s \in coolingDown
SuppressedOnlyIfBuilding(s) ==
    \/ running[s] # NoPid
    \/ Contains(queue, s)
    \/ s \in coolingDown
Suppressed(s) ==
    \/ shuttingDown
    \/ running[s] # NoPid
    \/ Contains(queue, s)
    \/ s \in coolingDown

Admit(s) ==
    IF SlotFree THEN StartFrom(proc, running, s) /\ UNCHANGED queue
    ELSE queue' = Append(queue, s) /\ UNCHANGED <<running, proc>>

Request(s) ==
    /\ IF Suppressed(s) THEN UNCHANGED <<running, proc, queue>> ELSE Admit(s)
    /\ UNCHANGED <<cancelling, coolingDown, shuttingDown>>

(* forgetFailure() and then request(): the two calls that requestBuild     *)
(* makes for a source that is not building.                                *)
Retry(s) ==
    /\ ~isBuilding(s)
    /\ coolingDown' = coolingDown \ {s}
    /\ IF shuttingDown THEN UNCHANGED <<running, proc, queue>> ELSE Admit(s)
    /\ UNCHANGED <<cancelling, shuttingDown>>

(* cancel() of a queued source drops it silently; cancel() of a running    *)
(* one marks it and signals the child; otherwise it does nothing.          *)
CancelQueued(s) ==
    /\ \E i \in DOMAIN queue : queue[i] = s /\ queue' = RemoveAt(queue, i)
    /\ UNCHANGED <<running, cancelling, coolingDown, shuttingDown, proc>>

CancelWithoutChild(s) ==
    /\ ~Contains(queue, s)
    /\ cancelling' = cancelling \cup {s}
    /\ proc' = Terminated(proc, {running[s]})
    /\ UNCHANGED <<running, queue, coolingDown, shuttingDown>>
CancelRunning(s) ==
    /\ ~Contains(queue, s)
    /\ running[s] # NoPid
    /\ cancelling' = cancelling \cup {s}
    /\ proc' = Terminated(proc, {running[s]})
    /\ UNCHANGED <<running, queue, coolingDown, shuttingDown>>

Cancel(s) == CancelQueued(s) \/ CancelRunning(s)

CooldownElapses(s) ==
    /\ s \in coolingDown
    /\ coolingDown' = coolingDown \ {s}
    /\ UNCHANGED <<running, cancelling, queue, shuttingDown, proc>>

Shutdown ==
    /\ shuttingDown' = TRUE
    /\ queue' = <<>>
    /\ proc' = Terminated(proc, {running[s] : s \in Running})
    /\ UNCHANGED <<running, cancelling, coolingDown>>

(* shutdown() has resolved: every child it waited for has settled.  No     *)
(* child starts after it, so they are exactly the running ones.            *)
ShutdownResolved == shuttingDown /\ Running = {}

-----------------------------------------------------------------------------
Outcome(s, failed) ==
    IF s \in cancelling THEN "cancel" ELSE IF failed THEN "failure" ELSE "success"

(* A settled build frees its slot, and the next queued source takes it.    *)
NextDropped(procs, slots) ==
    running' = slots /\ proc' = procs /\ UNCHANGED queue
NextFromBack(procs, slots) ==
    IF shuttingDown \/ queue = <<>>
    THEN running' = slots /\ proc' = procs /\ UNCHANGED queue
    ELSE StartFrom(procs, slots, Last(queue)) /\ queue' = Front(queue)
StartNext(procs, slots) ==
    IF shuttingDown \/ queue = <<>>
    THEN running' = slots /\ proc' = procs /\ UNCHANGED queue
    ELSE StartFrom(procs, slots, Head(queue)) /\ queue' = Tail(queue)

NeverSettled(p) == FALSE
AlreadySettled(p) == proc[p].settled

(* settle() in the closure of child p, which leaves the child's record r.  *)
Settle(p, failed, r) ==
    LET s == proc[p].src
        procs == [proc EXCEPT ![p] = r]
    IN  IF AlreadySettled(p)
        THEN proc' = procs /\ UNCHANGED <<running, cancelling, queue, coolingDown>>
        ELSE /\ cancelling' = cancelling \ {s}
             /\ coolingDown' = IF Outcome(s, failed) = "failure"
                               THEN coolingDown \cup {s} ELSE coolingDown \ {s}
             /\ StartNext(procs, [running EXCEPT ![s] = NoPid])

OnExit(p) ==
    /\ proc[p].os \in {"exit0", "exitBad"}
    /\ Settle(p, proc[p].os = "exitBad", FreeProc)
    /\ UNCHANGED shuttingDown

OnErrorUnhandled(p) ==
    /\ proc[p].os = "nostart"
    /\ proc' = [proc EXCEPT ![p].os = "errored"]
    /\ UNCHANGED <<running, cancelling, queue, coolingDown, shuttingDown>>
OnError(p) ==
    /\ proc[p].os = "nostart"
    /\ Settle(p, TRUE, [proc[p] EXCEPT !.os = "errored", !.settled = TRUE])
    /\ UNCHANGED shuttingDown

(* The exit event that Node may deliver after an error event.  The closure *)
(* has settled, so whether it comes or not makes no difference.            *)
OnExitAfterError(p) ==
    /\ proc[p].os = "errored"
    /\ Settle(p, TRUE, FreeProc)
    /\ UNCHANGED shuttingDown

(* The child dies, by itself or of the signal.  A child that was signalled *)
(* may still get to exit(0) first.                                         *)
ChildExits(p, os) ==
    /\ proc[p].os = "live"
    /\ proc' = [proc EXCEPT ![p].os = os]
    /\ UNCHANGED <<running, cancelling, queue, coolingDown, shuttingDown>>

-----------------------------------------------------------------------------
PoolNext ==
    \/ \E s \in Sources :
          Request(s) \/ Retry(s) \/ Cancel(s) \/ CooldownElapses(s)
    \/ Shutdown
    \/ \E p \in Pids : OnExit(p) \/ OnError(p) \/ OnExitAfterError(p)
    \/ \E p \in Pids, os \in {"exit0", "exitBad"} : ChildExits(p, os)

(* A build ends and the event loop delivers its events.  The operator's    *)
(* requests, cancels and the shutdown may never come, nor may the exit     *)
(* event of a child that did not start: nothing the pool promises waits    *)
(* for it.  Only once such a child is settled, when its exit event changes *)
(* nothing but its identity, is that identity used again: Pids stands for  *)
(* an unlimited supply.                                                    *)
PoolFairness ==
    /\ \A p \in Pids : WF_poolVars(\E os \in {"exit0", "exitBad"} : ChildExits(p, os))
    /\ \A p \in Pids : WF_poolVars(OnExit(p) \/ OnError(p))
    /\ \A p \in Pids : WF_poolVars(proc[p].settled /\ OnExitAfterError(p))

PoolSpec == PoolInit /\ [][PoolNext]_poolVars /\ PoolFairness

-----------------------------------------------------------------------------
(* Never more than `indexConcurrency' build processes are alive, whatever  *)
(* the order of cancels, exits, spawn errors and late events.              *)
ConcurrencyBound == Cardinality(Alive) <= Concurrency

(* The pool's map and the operating system agree: every slot holds the     *)
(* child that was started for it and has not settled, and every child      *)
(* whose first event is still to come holds its slot.  A late event of an  *)
(* old child never frees the slot of a new one, and no child is orphaned.  *)
SlotsMatchChildren ==
    /\ \A s \in Running :
          LET r == proc[running[s]]
          IN  r.src = s /\ ~r.settled /\ r.os \notin {"free", "errored"}
    /\ \A p \in Pids :
          proc[p].os \notin {"free", "errored"} =>
             proc[p].src \in Sources /\ running[proc[p].src] = p
    /\ \A p \in Pids : proc[p].os = "errored" => proc[p].settled

(* A source is queued once at most, and never while it is being built:     *)
(* requests coalesce (isBuilding is what requestBuild relies on).          *)
QueueCoalesced ==
    /\ \A i, j \in DOMAIN queue : queue[i] = queue[j] => i = j
    /\ \A i \in DOMAIN queue : queue[i] \notin Running

(* A queued source waits only because every slot is taken: cancels, failed *)
(* spawns and shutdowns never leave a slot idle with work in the queue.    *)
WorkConserving == queue # <<>> => Cardinality(Running) = Concurrency

(* A cancel mark belongs to a running build whose child was signalled: it  *)
(* can neither outlive its build nor turn the outcome of a later build of  *)
(* the same source into `cancel'.                                          *)
CancelMarksRunning ==
    \A s \in cancelling : s \in Running /\ proc[running[s]].term

(* No queued source overtakes one that was queued before it.               *)
NoOvertaking ==
    [][\A i, j \in DOMAIN queue :
          i < j /\ running'[queue[j]] # NoPid => ~Contains(queue', queue[i])]_poolVars

(* After shutdown() no build is queued or started.                         *)
ShutdownIsFinal ==
    [][shuttingDown => queue' = <<>> /\ {s \in Sources : running'[s] # NoPid} \subseteq Running]_poolVars

(* A queued source is started, cancelled or dropped by the shutdown.       *)
QueueDrains == \A s \in Sources : Contains(queue, s) ~> ~Contains(queue, s)

(* shutdown() resolves, even if some spawn failed and never exits.         *)
ShutdownCompletes == shuttingDown ~> ShutdownResolved
=============================================================================
