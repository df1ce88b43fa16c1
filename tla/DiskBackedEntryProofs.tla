------------------------ MODULE DiskBackedEntryProofs ------------------------
(***************************************************************************)
(* The index build pool and EngineMap's disk-backed entries.  First the    *)
(* pool alone, as IndexBuildPool specifies it, for every set of sources,   *)
(* every set of children and every `indexConcurrency'; then the entries,   *)
(* for every set of touches: they use the pool as IndexBuildPool says, so  *)
(* what is proved of the pool holds of it in place, and two of the races   *)
(* between a touch that is suspended and the outcome of a build are        *)
(* harmless.                                                               *)
(***************************************************************************)
EXTENDS DiskBackedEntry, FiniteSetTheorems, SequenceTheorems, TLAPS

(* No more slots are taken than there are.                                 *)
SlotsBounded == Cardinality(Running) <= Concurrency

ShutdownEmptiesQueue == shuttingDown => queue = <<>>

(* The inductive invariant: WorkConserving and the bound on the slots need *)
(* each other across a settle, and both need the queue to be coalesced and *)
(* to be empty once a shutdown keeps a settle from starting the next one.  *)
IInv ==
    /\ TypeOK
    /\ SlotsMatchChildren
    /\ QueueCoalesced
    /\ CancelMarksRunning
    /\ SlotsBounded
    /\ WorkConserving
    /\ ShutdownEmptiesQueue

-----------------------------------------------------------------------------
(* The sources with a slot are finitely many, so Cardinality counts them.  *)
LEMMA RunningFinite ==
    IsFiniteSet(Running) /\ Cardinality(Running) \in Nat
BY SourcesAssumption, FS_Subset, FS_CardinalityType DEF Running

(* RemoveAt(q, i), the model of splice(i, 1), keeps the other elements in  *)
(* their order.                                                            *)
LEMMA RemoveAtElements ==
    ASSUME NEW S, NEW q \in Seq(S), NEW i \in DOMAIN q
    PROVE  /\ RemoveAt(q, i) \in Seq(S)
           /\ Len(RemoveAt(q, i)) = Len(q) - 1
           /\ \A k \in 1 .. Len(q) - 1 :
                 RemoveAt(q, i)[k] = q[IF k < i THEN k ELSE k + 1]
<1>1. i \in 1 .. Len(q) /\ Len(q) \in Nat
  BY LenProperties
<1> DEFINE a == SubSeq(q, 1, i - 1)
           b == SubSeq(q, i + 1, Len(q))
<1>2. a \in Seq(S) /\ Len(a) = i - 1 /\ \A k \in 1 .. i - 1 : a[k] = q[k]
  BY <1>1, SubSeqProperties
<1>3. b \in Seq(S) /\ Len(b) = Len(q) - i /\ \A k \in 1 .. Len(q) - i : b[k] = q[i + k]
  BY <1>1, SubSeqProperties
<1>4. RemoveAt(q, i) = a \o b
  BY DEF RemoveAt
<1> HIDE DEF a, b
<1>5. /\ a \o b \in Seq(S)
      /\ Len(a \o b) = Len(a) + Len(b)
      /\ \A k \in 1 .. Len(a) + Len(b) :
            (a \o b)[k] = IF k <= Len(a) THEN a[k] ELSE b[k - Len(a)]
  BY <1>2, <1>3, ConcatProperties
<1>6. Len(a) = i - 1 /\ Len(b) = Len(q) - i /\ Len(a) + Len(b) = Len(q) - 1
      /\ Len(a \o b) = Len(q) - 1
  BY <1>1, <1>2, <1>3, <1>5
<1>7. \A k \in 1 .. Len(q) - 1 : (a \o b)[k] = q[IF k < i THEN k ELSE k + 1]
  <2> TAKE k \in 1 .. Len(q) - 1
  <2>1. CASE k < i
    <3>1. k \in 1 .. i - 1 /\ k <= Len(a) /\ k \in 1 .. Len(a) + Len(b)
      BY <2>1, <1>1, <1>6
    <3>2. (a \o b)[k] = a[k] /\ a[k] = q[k]
      BY <3>1, <1>2, <1>5
    <3>3. QED
      BY <2>1, <3>2
  <2>2. CASE ~(k < i)
    <3>0. k \in 1 .. Len(a) + Len(b) /\ ~(k <= Len(a)) /\ Len(a) = i - 1
      BY <2>2, <1>1, <1>6
    <3>1. (a \o b)[k] = b[k - (i - 1)]
      <4>1. (a \o b)[k] = b[k - Len(a)]
        BY <3>0, <1>5
      <4>2. QED
        BY <3>0, <4>1
    <3>2. k - (i - 1) \in 1 .. Len(q) - i
      BY <2>2, <1>1
    <3>3. b[k - (i - 1)] = q[i + (k - (i - 1))]
      BY <3>2, <1>3
    <3>4. i + (k - (i - 1)) = k + 1
      BY <1>1
    <3>5. QED
      BY <2>2, <3>1, <3>3, <3>4
  <2>3. QED
    BY <2>1, <2>2
<1>8. QED
  BY <1>4, <1>5, <1>6, <1>7

(* Tail(q), the model of shift(), drops the head and keeps the order.      *)
LEMMA TailElements ==
    ASSUME NEW S, NEW q \in Seq(S), q # <<>>
    PROVE  /\ Head(q) = q[1] /\ Head(q) \in S
           /\ Tail(q) \in Seq(S)
           /\ Len(Tail(q)) = Len(q) - 1 /\ Len(q) \in Nat \ {0}
           /\ \A k \in 1 .. Len(q) - 1 : Tail(q)[k] = q[k + 1]
BY HeadTailProperties, LenProperties, ElementOfSeq, EmptySeq

(* Contains(q, s), the model of includes(), says what it should.           *)
LEMMA ContainsElement ==
    ASSUME NEW S, NEW q \in Seq(S), NEW s
    PROVE  Contains(q, s) <=> \E k \in DOMAIN q : q[k] = s
BY DEF Contains

-----------------------------------------------------------------------------
(* A started child takes the slot of its source and no other.              *)
LEMMA StartTakesSlot ==
    ASSUME NEW slots \in [Sources -> Pids \cup {NoPid}],
           NEW s \in Sources, NEW p \in Pids, slots[s] = NoPid,
           running' = [slots EXCEPT ![s] = p],
           IsFiniteSet({t \in Sources : slots[t] # NoPid})
    PROVE  /\ Running' = {t \in Sources : slots[t] # NoPid} \cup {s}
           /\ Cardinality(Running') = Cardinality({t \in Sources : slots[t] # NoPid}) + 1
<1>1. Running' = {t \in Sources : slots[t] # NoPid} \cup {s}
  BY AbsentAssumption DEF Running
<1>2. QED
  BY <1>1, FS_AddElement

(* A settled child gives its slot back.                                    *)
LEMMA SettleFreesSlot ==
    ASSUME TypeOK, NEW s \in Sources, running[s] # NoPid
    PROVE  LET slots == [running EXCEPT ![s] = NoPid]
               left == {t \in Sources : slots[t] # NoPid}
           IN  /\ left = Running \ {s}
               /\ IsFiniteSet(left)
               /\ Cardinality(left) = Cardinality(Running) - 1
<1>1. {t \in Sources : [running EXCEPT ![s] = NoPid][t] # NoPid} = Running \ {s}
  BY DEF Running, TypeOK
<1>2. s \in Running
  BY DEF Running
<1>3. QED
  BY <1>1, <1>2, RunningFinite, FS_RemoveElement

-----------------------------------------------------------------------------
(* SlotsMatchChildren of the maps that start() and settle() pass along.    *)
ProcType == [os : OsStates, src : Sources \cup {NoSource}, term : BOOLEAN, settled : BOOLEAN]

Matching(slots, procs) ==
    /\ \A s \in Sources : slots[s] # NoPid =>
          /\ procs[slots[s]].src = s
          /\ ~procs[slots[s]].settled
          /\ procs[slots[s]].os \notin {"free", "errored"}
    /\ \A p \in Pids :
          procs[p].os \notin {"free", "errored"} =>
             procs[p].src \in Sources /\ slots[procs[p].src] = p
    /\ \A p \in Pids : procs[p].os = "errored" => procs[p].settled

LEMMA MatchingIsSlotsMatch ==
    ASSUME TypeOK
    PROVE  SlotsMatchChildren <=> Matching(running, proc)
BY DEF SlotsMatchChildren, Matching, Running

LEMMA StartKeepsMatching ==
    ASSUME NEW slots \in [Sources -> Pids \cup {NoPid}],
           NEW procs \in [Pids -> ProcType],
           Matching(slots, procs),
           NEW s \in Sources, slots[s] = NoPid,
           NEW p \in Pids, procs[p].os = "free",
           NEW os \in {"live", "nostart"}
    PROVE  /\ [slots EXCEPT ![s] = p] \in [Sources -> Pids \cup {NoPid}]
           /\ Spawned(procs, s, p, os) \in [Pids -> ProcType]
           /\ Matching([slots EXCEPT ![s] = p], Spawned(procs, s, p, os))
<1>1. Spawned(procs, s, p, os) \in [Pids -> ProcType]
  BY DEF Spawned, ProcType, OsStates
<1>2. \A t \in Sources : slots[t] # p
  BY AbsentAssumption DEF Matching
<1>3. Matching([slots EXCEPT ![s] = p], Spawned(procs, s, p, os))
  BY <1>2, AbsentAssumption DEF Matching, Spawned
<1>4. QED
  BY <1>1, <1>3

LEMMA SettleKeepsMatching ==
    ASSUME TypeOK, SlotsMatchChildren,
           NEW p \in Pids, proc[p].os \notin {"free", "errored"},
           NEW r \in ProcType, r.os = "free" \/ (r.os = "errored" /\ r.settled)
    PROVE  LET s == proc[p].src
               slots == [running EXCEPT ![s] = NoPid]
               procs == [proc EXCEPT ![p] = r]
           IN  /\ s \in Sources /\ running[s] = p
               /\ slots \in [Sources -> Pids \cup {NoPid}]
               /\ procs \in [Pids -> ProcType]
               /\ Matching(slots, procs)
<1> DEFINE s == proc[p].src
           slots == [running EXCEPT ![s] = NoPid]
           procs == [proc EXCEPT ![p] = r]
<1>1. Matching(running, proc)
  BY MatchingIsSlotsMatch
<1>2. s \in Sources /\ running[s] = p
  BY <1>1 DEF Matching
<1>3. slots \in [Sources -> Pids \cup {NoPid}] /\ procs \in [Pids -> ProcType]
  BY DEF TypeOK, ProcType
<1>4. ASSUME NEW t \in Sources, slots[t] # NoPid
      PROVE  /\ procs[slots[t]].src = t
             /\ ~procs[slots[t]].settled
             /\ procs[slots[t]].os \notin {"free", "errored"}
  <2>1. t # s /\ slots[t] = running[t] /\ running[t] \in Pids
    BY <1>2, <1>4 DEF TypeOK
  <2>2. running[t] # p
    BY <2>1, <1>1, AbsentAssumption DEF Matching
  <2>3. procs[slots[t]] = proc[running[t]]
    BY <2>1, <2>2 DEF TypeOK
  <2>4. QED
    BY <2>1, <2>3, <1>1, AbsentAssumption DEF Matching
<1>5. ASSUME NEW q \in Pids, procs[q].os \notin {"free", "errored"}
      PROVE  procs[q].src \in Sources /\ slots[procs[q].src] = q
  <2>1. q # p /\ procs[q] = proc[q]
    BY <1>5 DEF TypeOK
  <2>2. proc[q].src \in Sources /\ running[proc[q].src] = q
    BY <1>1, <1>5, <2>1 DEF Matching
  <2>3. proc[q].src # s
    BY <1>2, <2>1, <2>2
  <2>4. QED
    BY <2>1, <2>2, <2>3 DEF TypeOK
<1>6. ASSUME NEW q \in Pids, procs[q].os = "errored" PROVE procs[q].settled
  BY <1>1, <1>6 DEF TypeOK, Matching
<1>7. QED
  BY <1>2, <1>3, <1>4, <1>5, <1>6 DEF Matching

-----------------------------------------------------------------------------
LEMMA InitInv == PoolInit => IInv
<1> SUFFICES ASSUME PoolInit PROVE IInv
  OBVIOUS
<1>1. TypeOK
  <2>1. FreeProc \in ProcType
    BY DEF FreeProc, ProcType, OsStates
  <2>2. queue \in Seq(Sources)
    BY EmptySeq DEF PoolInit
  <2>3. QED
    BY <2>1, <2>2 DEF PoolInit, TypeOK, ProcType
<1>2. Running = {}
  BY DEF PoolInit, Running
<1>3. SlotsMatchChildren
  BY <1>2 DEF PoolInit, SlotsMatchChildren, FreeProc
<1>4. QueueCoalesced /\ WorkConserving /\ ShutdownEmptiesQueue
  BY DEF PoolInit, QueueCoalesced, WorkConserving, ShutdownEmptiesQueue
<1>5. CancelMarksRunning
  BY DEF PoolInit, CancelMarksRunning
<1>6. SlotsBounded
  BY <1>2, FS_EmptySet, ConcurrencyAssumption DEF SlotsBounded
<1>7. QED
  BY <1>1, <1>3, <1>4, <1>5, <1>6 DEF IInv

(* A source that is neither building nor queued takes a free slot, or goes *)
(* to the end of the queue.                                                *)
LEMMA AdmitInv ==
    ASSUME IInv, NEW s \in Sources, ~isBuilding(s), ~shuttingDown, Admit(s),
           coolingDown' \in SUBSET Sources, UNCHANGED <<cancelling, shuttingDown>>
    PROVE  IInv'
<1> USE DEF IInv
<1>2. CASE SlotFree /\ StartFrom(proc, running, s) /\ UNCHANGED queue
  <2>1. PICK p \in Pids, os \in {"live", "nostart"} :
          /\ proc[p].os = "free"
          /\ proc' = Spawned(proc, s, p, os)
          /\ running' = [running EXCEPT ![s] = p]
    BY <1>2 DEF StartFrom
  <2>2. running[s] = NoPid /\ ~Contains(queue, s)
    BY DEF isBuilding
  <2>3. /\ running' \in [Sources -> Pids \cup {NoPid}]
        /\ proc' \in [Pids -> ProcType]
        /\ Matching(running, proc)'
    <3>1. Matching(running, proc)
      BY MatchingIsSlotsMatch
    <3>2. running \in [Sources -> Pids \cup {NoPid}] /\ proc \in [Pids -> ProcType]
      BY DEF TypeOK, ProcType
    <3>3. /\ [running EXCEPT ![s] = p] \in [Sources -> Pids \cup {NoPid}]
          /\ Spawned(proc, s, p, os) \in [Pids -> ProcType]
          /\ Matching([running EXCEPT ![s] = p], Spawned(proc, s, p, os))
      BY <2>1, <2>2, <3>1, <3>2, StartKeepsMatching
    <3>4. QED
      BY <2>1, <3>3 DEF Matching
  <2>4. TypeOK'
    BY <1>2, <2>3 DEF TypeOK, ProcType
  <2>5. SlotsMatchChildren'
    BY <2>3 DEF Matching, SlotsMatchChildren, Running
  <2>6. Running' = Running \cup {s} /\ Cardinality(Running') = Cardinality(Running) + 1
    <3>1. Running = {t \in Sources : running[t] # NoPid}
      BY DEF Running
    <3>2. QED
      BY <2>1, <2>2, <3>1, StartTakesSlot, RunningFinite DEF TypeOK
  <2>7. QueueCoalesced'
    <3>1. \A i \in DOMAIN queue : queue[i] # s
      BY <2>2, ContainsElement DEF TypeOK
    <3>2. QED
      BY <1>2, <2>6, <3>1 DEF QueueCoalesced
  <2>8. CancelMarksRunning'
    <3>1. \A t \in cancelling : t \in Running /\ t # s /\ running[t] # p
      BY <2>1, <2>2 DEF CancelMarksRunning, SlotsMatchChildren, Running
    <3>2. QED
      BY <1>2, <2>1, <2>6, <3>1 DEF CancelMarksRunning, Spawned, Running, TypeOK
  <2>9. SlotsBounded' /\ WorkConserving'
    BY <1>2, <2>6, RunningFinite, ConcurrencyAssumption DEF SlotFree, SlotsBounded, WorkConserving
  <2>10. ShutdownEmptiesQueue'
    BY <1>2 DEF ShutdownEmptiesQueue
  <2>11. QED
    BY <2>4, <2>5, <2>7, <2>8, <2>9, <2>10
<1>3. CASE ~SlotFree /\ queue' = Append(queue, s) /\ UNCHANGED <<running, proc>>
  <2>1. running[s] = NoPid /\ ~Contains(queue, s)
    BY DEF isBuilding
  <2>2. /\ queue' \in Seq(Sources)
        /\ Len(queue') = Len(queue) + 1
        /\ \A i \in 1 .. Len(queue) : queue'[i] = queue[i]
        /\ queue'[Len(queue) + 1] = s
    BY <1>3, AppendProperties DEF TypeOK
  <2>3. TypeOK'
    BY <1>3, <2>2 DEF TypeOK
  <2>4. Running' = Running
    BY <1>3 DEF Running
  <2>5. SlotsMatchChildren' /\ CancelMarksRunning' /\ SlotsBounded'
    BY <1>3, <2>4 DEF SlotsMatchChildren, CancelMarksRunning, SlotsBounded
  <2>6. QueueCoalesced'
    <3>1. \A i \in 1 .. Len(queue) : queue[i] # s /\ queue[i] \notin Running
      BY <2>1, ContainsElement, LenProperties DEF TypeOK, QueueCoalesced
    <3>2. s \notin Running
      BY <2>1 DEF Running
    <3>3. DOMAIN queue' = 1 .. Len(queue) + 1 /\ DOMAIN queue = 1 .. Len(queue) /\ Len(queue) \in Nat
      BY <2>2, LenProperties DEF TypeOK
    <3>4. QED
      BY <2>2, <2>4, <3>1, <3>2, <3>3 DEF QueueCoalesced
  <2>7. WorkConserving'
    BY <1>3, <2>4, RunningFinite, ConcurrencyAssumption DEF SlotFree, SlotsBounded, WorkConserving
  <2>8. ShutdownEmptiesQueue'
    BY <1>3 DEF ShutdownEmptiesQueue
  <2>9. QED
    BY <2>3, <2>5, <2>6, <2>7, <2>8
<1>4. QED
  BY <1>2, <1>3 DEF Admit

LEMMA CooldownInv ==
    ASSUME IInv, coolingDown' \in SUBSET Sources,
           UNCHANGED <<running, cancelling, queue, shuttingDown, proc>>
    PROVE  IInv'
BY DEF IInv, TypeOK, SlotsMatchChildren, QueueCoalesced, CancelMarksRunning,
       SlotsBounded, WorkConserving, ShutdownEmptiesQueue, Running

LEMMA RequestInv ==
    ASSUME IInv, NEW s \in Sources, Request(s) \/ Retry(s)
    PROVE  IInv'
<1>1. coolingDown' \in SUBSET Sources /\ UNCHANGED <<cancelling, shuttingDown>>
  BY DEF Request, Retry, IInv, TypeOK
<1>2. \/ UNCHANGED <<running, proc, queue>>
      \/ ~isBuilding(s) /\ ~shuttingDown /\ Admit(s)
  BY DEF Request, Retry, Suppressed, isBuilding
<1>3. QED
  BY <1>1, <1>2, AdmitInv, CooldownInv

LEMMA CancelQueuedInv ==
    ASSUME IInv, NEW s \in Sources, CancelQueued(s)
    PROVE  IInv'
<1> USE DEF IInv
<1>1. PICK i \in DOMAIN queue : queue[i] = s /\ queue' = RemoveAt(queue, i)
  BY DEF CancelQueued
<1>2. /\ queue' \in Seq(Sources)
      /\ Len(queue') = Len(queue) - 1
      /\ \A k \in 1 .. Len(queue) - 1 : queue'[k] = queue[IF k < i THEN k ELSE k + 1]
  BY <1>1, RemoveAtElements DEF TypeOK
<1>3. /\ DOMAIN queue = 1 .. Len(queue) /\ DOMAIN queue' = 1 .. Len(queue) - 1
      /\ Len(queue) \in Nat /\ i \in 1 .. Len(queue)
  BY <1>1, <1>2, LenProperties DEF TypeOK
<1>4. Running' = Running
  BY DEF CancelQueued, Running
<1>5. TypeOK'
  BY <1>2 DEF TypeOK, CancelQueued
<1>6. SlotsMatchChildren' /\ CancelMarksRunning' /\ SlotsBounded'
  BY <1>4 DEF SlotsMatchChildren, CancelMarksRunning, SlotsBounded, CancelQueued
<1>7. QueueCoalesced'
  <2> DEFINE old(k) == IF k < i THEN k ELSE k + 1
  <2>1. \A k \in DOMAIN queue' : old(k) \in DOMAIN queue /\ queue'[k] = queue[old(k)]
    BY <1>2, <1>3
  <2>2. \A k, l \in DOMAIN queue' : old(k) = old(l) => k = l
    BY <1>3
  <2> HIDE DEF old
  <2>3. QED
    BY <1>4, <2>1, <2>2 DEF QueueCoalesced
<1>8. WorkConserving'
  BY <1>1, <1>4, EmptySeq DEF WorkConserving, TypeOK
<1>9. ShutdownEmptiesQueue'
  BY <1>1, EmptySeq DEF ShutdownEmptiesQueue, CancelQueued
<1>10. QED
  BY <1>5, <1>6, <1>7, <1>8, <1>9

(* Sending SIGTERM moves no slot.                                          *)
LEMMA SignalInv ==
    ASSUME IInv, NEW P, proc' = Terminated(proc, P), UNCHANGED running
    PROVE  /\ proc' \in [Pids -> ProcType]
           /\ SlotsMatchChildren'
           /\ Running' = Running
           /\ \A p \in Pids : proc[p].term \/ p \in P => proc'[p].term
<1>1. \A p \in Pids : /\ proc'[p] \in ProcType
                      /\ proc'[p].os = proc[p].os /\ proc'[p].src = proc[p].src
                      /\ proc'[p].settled = proc[p].settled
                      /\ proc'[p].term = (proc[p].term \/ p \in P)
  BY DEF IInv, TypeOK, Terminated, ProcType
<1>2. proc' \in [Pids -> ProcType]
  BY <1>1 DEF Terminated
<1>3. Running' = Running
  BY DEF Running
<1>4. SlotsMatchChildren'
  BY <1>1, <1>3, AbsentAssumption DEF IInv, SlotsMatchChildren, Running, TypeOK
<1>5. QED
  BY <1>1, <1>2, <1>3, <1>4

LEMMA CancelRunningInv ==
    ASSUME IInv, NEW s \in Sources, CancelRunning(s)
    PROVE  IInv'
<1> USE DEF IInv
<1>1. running[s] \in Pids /\ s \in Running
  BY DEF CancelRunning, TypeOK, Running
<1>2. /\ proc' \in [Pids -> ProcType]
      /\ SlotsMatchChildren'
      /\ Running' = Running
      /\ \A p \in Pids : proc[p].term \/ p \in {running[s]} => proc'[p].term
  <2>1. proc' = Terminated(proc, {running[s]}) /\ UNCHANGED running
    BY DEF CancelRunning
  <2>2. QED
    BY <2>1, SignalInv
<1>3. TypeOK'
  BY <1>2 DEF TypeOK, ProcType, CancelRunning
<1>4. CancelMarksRunning'
  BY <1>1, <1>2 DEF CancelRunning, CancelMarksRunning, TypeOK, Running
<1>5. QueueCoalesced' /\ SlotsBounded' /\ WorkConserving' /\ ShutdownEmptiesQueue'
  BY <1>2 DEF CancelRunning, QueueCoalesced, SlotsBounded, WorkConserving, ShutdownEmptiesQueue
<1>6. QED
  BY <1>2, <1>3, <1>4, <1>5

LEMMA ShutdownInv ==
    ASSUME IInv, Shutdown
    PROVE  IInv'
<1> USE DEF IInv
<1> DEFINE P == {running[s] : s \in Running}
<1>1. /\ proc' \in [Pids -> ProcType]
      /\ SlotsMatchChildren'
      /\ Running' = Running
      /\ \A p \in Pids : proc[p].term \/ p \in P => proc'[p].term
  <2>1. proc' = Terminated(proc, P) /\ UNCHANGED running
    BY DEF Shutdown
  <2>2. QED
    BY <2>1, SignalInv
<1>2. TypeOK'
  BY <1>1, EmptySeq DEF TypeOK, ProcType, Shutdown
<1>3. CancelMarksRunning'
  BY <1>1 DEF Shutdown, CancelMarksRunning, TypeOK, Running
<1>4. QueueCoalesced' /\ SlotsBounded' /\ WorkConserving' /\ ShutdownEmptiesQueue'
  BY <1>1 DEF Shutdown, QueueCoalesced, SlotsBounded, WorkConserving, ShutdownEmptiesQueue
<1>5. QED
  BY <1>1, <1>2, <1>3, <1>4

(* A settle gives a slot back and takes it again if a source is waiting.   *)
LEMMA SettleInv ==
    ASSUME IInv, NEW p \in Pids, proc[p].os \notin {"free", "errored"},
           NEW failed \in BOOLEAN, NEW r \in ProcType, r.os = "free" \/ (r.os = "errored" /\ r.settled),
           Settle(p, failed, r), UNCHANGED shuttingDown
    PROVE  IInv'
<1> USE DEF IInv
<1> DEFINE s == proc[p].src
           procs == [proc EXCEPT ![p] = r]
           slots == [running EXCEPT ![s] = NoPid]
           left == {t \in Sources : slots[t] # NoPid}
<1>1. /\ s \in Sources /\ running[s] = p
      /\ slots \in [Sources -> Pids \cup {NoPid}]
      /\ procs \in [Pids -> ProcType]
      /\ Matching(slots, procs)
  BY SettleKeepsMatching
<1>2. running[s] # NoPid
  BY <1>1, AbsentAssumption
<1>3. /\ left = Running \ {s} /\ IsFiniteSet(left)
      /\ Cardinality(left) = Cardinality(Running) - 1
  BY <1>1, <1>2, SettleFreesSlot
<1>4. ~proc[p].settled
  BY <1>1, <1>2 DEF SlotsMatchChildren, Running
<1>5. /\ cancelling' = cancelling \ {s}
      /\ coolingDown' \in SUBSET Sources
      /\ StartNext(procs, slots)
  BY <1>1, <1>4 DEF Settle, AlreadySettled, TypeOK
<1>6. \A t \in cancelling' :
         /\ t \in left /\ slots[t] = running[t]
         /\ running[t] \in Pids /\ procs[running[t]].term
  <2> SUFFICES ASSUME NEW t \in cancelling'
               PROVE  /\ t \in left /\ slots[t] = running[t]
                      /\ running[t] \in Pids /\ procs[running[t]].term
    OBVIOUS
  <2>1. t \in Running /\ t # s /\ t \in Sources /\ proc[running[t]].term
    BY <1>5 DEF CancelMarksRunning, TypeOK
  <2>2. slots[t] = running[t] /\ running[t] \in Pids
    BY <2>1 DEF Running, TypeOK
  <2>3. running[t] # p
    BY <1>1, <2>1 DEF SlotsMatchChildren
  <2>4. QED
    BY <1>3, <2>1, <2>2, <2>3 DEF TypeOK
<1> HIDE DEF s, procs, slots, left
<1>7. CASE running' = slots /\ proc' = procs /\ UNCHANGED queue /\ (shuttingDown \/ queue = <<>>)
  <2>1. Running' = left
    BY <1>7 DEF Running, left
  <2>2. TypeOK'
    BY <1>1, <1>5, <1>7 DEF TypeOK, ProcType
  <2>3. SlotsMatchChildren'
    BY <1>1, <1>7 DEF SlotsMatchChildren, Matching, Running
  <2>4. CancelMarksRunning'
    BY <1>6, <1>7, <2>1 DEF CancelMarksRunning
  <2>5. QueueCoalesced'
    BY <1>3, <1>7, <2>1 DEF QueueCoalesced
  <2>6. SlotsBounded'
    BY <1>3, <2>1, RunningFinite, ConcurrencyAssumption DEF SlotsBounded
  <2>7. WorkConserving'
    BY <1>7 DEF WorkConserving, ShutdownEmptiesQueue
  <2>8. ShutdownEmptiesQueue'
    BY <1>7 DEF ShutdownEmptiesQueue
  <2>9. QED
    BY <2>2, <2>3, <2>4, <2>5, <2>6, <2>7, <2>8
<1>8. CASE queue # <<>> /\ StartFrom(procs, slots, Head(queue)) /\ queue' = Tail(queue)
  <2> DEFINE n == Head(queue)
  <2>1. /\ n = queue[1] /\ n \in Sources
        /\ queue' \in Seq(Sources) /\ Len(queue) \in Nat \ {0}
        /\ Len(queue') = Len(queue) - 1
        /\ \A k \in 1 .. Len(queue) - 1 : queue'[k] = queue[k + 1]
    BY <1>8, TailElements DEF TypeOK
  <2>2. DOMAIN queue = 1 .. Len(queue) /\ DOMAIN queue' = 1 .. Len(queue) - 1
    BY <2>1, LenProperties DEF TypeOK
  <2>3. n \notin Running
    BY <2>1, <2>2 DEF QueueCoalesced
  <2>4. PICK q \in Pids, os \in {"live", "nostart"} :
          /\ procs[q].os = "free"
          /\ proc' = Spawned(procs, n, q, os)
          /\ running' = [slots EXCEPT ![n] = q]
    BY <1>8 DEF StartFrom
  <2>5. slots[n] = NoPid
    BY <1>3, <2>1, <2>3 DEF left
  <2>6. /\ running' \in [Sources -> Pids \cup {NoPid}]
        /\ proc' \in [Pids -> ProcType]
        /\ Matching(running', proc')
    BY <1>1, <2>1, <2>4, <2>5, StartKeepsMatching
  <2>7. Running' = left \cup {n} /\ Cardinality(Running') = Cardinality(left) + 1
    <3>1. left = {t \in Sources : slots[t] # NoPid}
      BY DEF left
    <3>2. IsFiniteSet({t \in Sources : slots[t] # NoPid})
      BY <1>3, <3>1
    <3>3. slots \in [Sources -> Pids \cup {NoPid}]
      BY <1>1
    <3>4. /\ Running' = {t \in Sources : slots[t] # NoPid} \cup {n}
          /\ Cardinality(Running') = Cardinality({t \in Sources : slots[t] # NoPid}) + 1
      BY <2>1, <2>4, <2>5, <3>2, <3>3, StartTakesSlot
    <3>5. QED
      BY <3>1, <3>4
  <2>8. TypeOK'
    BY <1>5, <2>1, <2>6 DEF TypeOK, ProcType
  <2>9. SlotsMatchChildren'
    BY <2>6 DEF SlotsMatchChildren, Matching, Running
  <2>10. CancelMarksRunning'
    <3>1. \A t \in cancelling' : t # n /\ running[t] # q
      <4>1. \A t \in cancelling' : procs[running[t]].os # "free"
        BY <1>1, <1>6 DEF Matching, left
      <4>2. QED
        BY <1>3, <1>6, <2>3, <2>4, <4>1
    <3>2. \A t \in cancelling' : running'[t] = running[t] /\ proc'[running[t]] = procs[running[t]]
      BY <1>1, <1>6, <2>4, <3>1 DEF Spawned, left
    <3>3. QED
      BY <1>6, <2>7, <3>2 DEF CancelMarksRunning
  <2>11. QueueCoalesced'
    <3>1. \A k \in DOMAIN queue' : k + 1 \in DOMAIN queue /\ k + 1 # 1 /\ queue'[k] = queue[k + 1]
      BY <2>1, <2>2
    <3>2. \A k \in DOMAIN queue' : queue'[k] # n /\ queue'[k] \notin Running
      BY <2>1, <2>2, <3>1 DEF QueueCoalesced
    <3>3. \A k \in DOMAIN queue' : queue'[k] \notin Running'
      BY <1>3, <2>7, <3>2
    <3>4. \A k, l \in DOMAIN queue' : k + 1 = l + 1 => k = l
      BY <2>2
    <3>5. QED
      BY <3>1, <3>3, <3>4 DEF QueueCoalesced
  <2>12. SlotsBounded' /\ WorkConserving'
    BY <1>3, <1>8, <2>7, RunningFinite, ConcurrencyAssumption DEF SlotsBounded, WorkConserving
  <2>13. ShutdownEmptiesQueue'
    BY <1>8 DEF ShutdownEmptiesQueue
  <2>14. QED
    BY <2>8, <2>9, <2>10, <2>11, <2>12, <2>13
<1>9. QED
  BY <1>5, <1>7, <1>8 DEF StartNext, s, procs, slots

LEMMA OnExitInv ==
    ASSUME IInv, NEW p \in Pids, OnExit(p)
    PROVE  IInv'
<1>1. FreeProc \in ProcType /\ FreeProc.os = "free"
  BY DEF FreeProc, ProcType, OsStates
<1>2. /\ proc[p].os \notin {"free", "errored"}
      /\ Settle(p, proc[p].os = "exitBad", FreeProc)
      /\ UNCHANGED shuttingDown
  BY DEF OnExit
<1>3. QED
  BY <1>1, <1>2, SettleInv

LEMMA OnErrorInv ==
    ASSUME IInv, NEW p \in Pids, OnError(p)
    PROVE  IInv'
<1> DEFINE r == [proc[p] EXCEPT !.os = "errored", !.settled = TRUE]
<1>1. r \in ProcType /\ r.os = "errored" /\ r.settled
  BY DEF IInv, TypeOK, ProcType, OsStates
<1>2. /\ proc[p].os \notin {"free", "errored"}
      /\ Settle(p, TRUE, r)
      /\ UNCHANGED shuttingDown
  BY DEF OnError
<1> HIDE DEF r
<1>3. QED
  BY <1>1, <1>2, SettleInv

(* A child that has settled changes nothing of the pool when its late exit *)
(* event arrives, and neither does a child that dies.                      *)
LEMMA ProcOnlyInv ==
    ASSUME IInv, NEW p \in Pids, NEW r \in ProcType,
           proc' = [proc EXCEPT ![p] = r],
           \/ proc[p].os = "errored" /\ r.os = "free"
           \/ /\ proc[p].os = "live" /\ r.os \in {"exit0", "exitBad"}
              /\ r.src = proc[p].src /\ r.settled = proc[p].settled /\ r.term = proc[p].term,
           UNCHANGED <<running, cancelling, queue, coolingDown, shuttingDown>>
    PROVE  IInv'
<1> USE DEF IInv
<1>1. Running' = Running
  BY DEF Running
<1>2. TypeOK'
  BY DEF TypeOK, ProcType
<1>3. \A q \in Pids : q # p => proc'[q] = proc[q]
  BY DEF TypeOK
<1>4. proc'[p] = r
  BY DEF TypeOK
<1>5. SlotsMatchChildren'
  BY <1>1, <1>3, <1>4 DEF SlotsMatchChildren, Running, TypeOK
<1>6. CancelMarksRunning'
  BY <1>1, <1>3, <1>4 DEF CancelMarksRunning, SlotsMatchChildren, Running, TypeOK
<1>7. QueueCoalesced' /\ SlotsBounded' /\ WorkConserving' /\ ShutdownEmptiesQueue'
  BY <1>1 DEF QueueCoalesced, SlotsBounded, WorkConserving, ShutdownEmptiesQueue
<1>8. QED
  BY <1>2, <1>5, <1>6, <1>7

LEMMA OnExitAfterErrorInv ==
    ASSUME IInv, NEW p \in Pids, OnExitAfterError(p)
    PROVE  IInv'
<1>1. FreeProc \in ProcType /\ FreeProc.os = "free"
  BY DEF FreeProc, ProcType, OsStates
<1>2. proc[p].os = "errored" /\ proc[p].settled
  BY DEF OnExitAfterError, IInv, SlotsMatchChildren
<1>3. /\ proc' = [proc EXCEPT ![p] = FreeProc]
      /\ UNCHANGED <<running, cancelling, queue, coolingDown, shuttingDown>>
  BY <1>2 DEF OnExitAfterError, Settle, AlreadySettled
<1>4. QED
  BY <1>1, <1>2, <1>3, ProcOnlyInv

LEMMA ChildExitsInv ==
    ASSUME IInv, NEW p \in Pids, NEW os \in {"exit0", "exitBad"}, ChildExits(p, os)
    PROVE  IInv'
<1> DEFINE r == [proc[p] EXCEPT !.os = os]
<1>1. /\ r \in ProcType /\ r.os = os
      /\ r.src = proc[p].src /\ r.settled = proc[p].settled /\ r.term = proc[p].term
  BY DEF IInv, TypeOK, ProcType, OsStates
<1>2. /\ proc[p].os = "live"
      /\ proc' = [proc EXCEPT ![p] = r]
      /\ UNCHANGED <<running, cancelling, queue, coolingDown, shuttingDown>>
  BY DEF ChildExits
<1> HIDE DEF r
<1>3. QED
  BY <1>1, <1>2, ProcOnlyInv

-----------------------------------------------------------------------------
(* Every step of the pool preserves IInv.                                  *)
LEMMA StepInv ==
    ASSUME IInv, [PoolNext]_poolVars
    PROVE  IInv'
<1>1. CASE UNCHANGED poolVars
  BY <1>1 DEF poolVars, IInv, TypeOK, SlotsMatchChildren, QueueCoalesced, CancelMarksRunning,
              SlotsBounded, WorkConserving, ShutdownEmptiesQueue, Running
<1>2. ASSUME NEW s \in Sources, Request(s) \/ Retry(s) PROVE IInv'
  BY <1>2, RequestInv
<1>3. ASSUME NEW s \in Sources, Cancel(s) PROVE IInv'
  BY <1>3, CancelQueuedInv, CancelRunningInv DEF Cancel
<1>4. ASSUME NEW s \in Sources, CooldownElapses(s) PROVE IInv'
  <2>1. /\ coolingDown' \in SUBSET Sources
        /\ UNCHANGED <<running, cancelling, queue, shuttingDown, proc>>
    BY <1>4 DEF CooldownElapses, IInv, TypeOK
  <2>2. QED
    BY <2>1, CooldownInv
<1>5. CASE Shutdown
  BY <1>5, ShutdownInv
<1>6. ASSUME NEW p \in Pids, OnExit(p) \/ OnError(p) \/ OnExitAfterError(p) PROVE IInv'
  BY <1>6, OnExitInv, OnErrorInv, OnExitAfterErrorInv
<1>7. ASSUME NEW p \in Pids, NEW os \in {"exit0", "exitBad"}, ChildExits(p, os) PROVE IInv'
  BY <1>7, ChildExitsInv
<1>8. QED
  BY <1>1, <1>2, <1>3, <1>4, <1>5, <1>6, <1>7 DEF PoolNext

(* IInv holds in every reachable state.                                    *)
THEOREM Inductive == PoolSpec => []IInv
BY InitInv, StepInv, PTL DEF PoolSpec

(* The pool's variables stay in their types.                               *)
THEOREM TypeCorrect == PoolSpec => []TypeOK
<1>1. IInv => TypeOK
  BY DEF IInv
<1>2. QED
  BY <1>1, Inductive, PTL

(* The live children map one to one to sources that hold a slot.           *)
LEMMA BoundOfInv == IInv => ConcurrencyBound
<1>1. ASSUME IInv PROVE ConcurrencyBound
  <2> DEFINE f == [p \in Alive |-> proc[p].src]
  <2>1. \A p \in Alive : p \in Pids /\ f[p] \in Running /\ running[f[p]] = p
    BY <1>1, AbsentAssumption DEF IInv, SlotsMatchChildren, Alive, Running
  <2>2. f \in Injection(Alive, Running)
    BY <2>1 DEF Injection, IsInjective
  <2>3. Cardinality(Alive) <= Cardinality(Running) /\ Cardinality(Alive) \in Nat
    BY <2>2, RunningFinite, FS_Injection, FS_CardinalityType
  <2>4. QED
    BY <1>1, <2>3, RunningFinite, ConcurrencyAssumption DEF IInv, SlotsBounded, ConcurrencyBound
<1>2. QED
  BY <1>1

(* Never more build processes alive than `indexConcurrency'.               *)
THEOREM NeverTooManyBuilds == PoolSpec => []ConcurrencyBound
BY BoundOfInv, Inductive, PTL

(* The pool's map and the operating system agree on every child.           *)
THEOREM SlotsAndChildrenAgree == PoolSpec => []SlotsMatchChildren
<1>1. IInv => SlotsMatchChildren
  BY DEF IInv
<1>2. QED
  BY <1>1, Inductive, PTL

(* A slot is never idle while a source waits for one.                      *)
THEOREM NoIdleSlot == PoolSpec => []WorkConserving
<1>1. IInv => WorkConserving
  BY DEF IInv
<1>2. QED
  BY <1>1, Inductive, PTL

(* Requests coalesce, and a cancel mark never outlives its build.          *)
THEOREM RequestsCoalesce == PoolSpec => [](QueueCoalesced /\ CancelMarksRunning)
<1>1. IInv => QueueCoalesced /\ CancelMarksRunning
  BY DEF IInv
<1>2. QED
  BY <1>1, Inductive, PTL

-----------------------------------------------------------------------------
(* What the step that frees a slot does to the slots of other sources.     *)
LEMMA SettleSlots ==
    ASSUME IInv, NEW p \in Pids, OnExit(p) \/ OnError(p) \/ OnExitAfterError(p),
           NEW s \in Sources, running[s] = NoPid, running'[s] # NoPid
    PROVE  ~shuttingDown /\ queue # <<>> /\ s = Head(queue)
<1>1. PICK failed, r : Settle(p, failed, r)
  BY DEF OnExit, OnError, OnExitAfterError
<1>2. running \in [Sources -> Pids \cup {NoPid}]
  BY DEF IInv, TypeOK
<1> DEFINE slots == [running EXCEPT ![proc[p].src] = NoPid]
<1>3. slots[s] = NoPid
  BY <1>2
<1>4. CASE AlreadySettled(p)
  BY <1>1, <1>4 DEF Settle
<1>5. CASE ~AlreadySettled(p)
  <2>1. StartNext([proc EXCEPT ![p] = r], slots)
    BY <1>1, <1>5 DEF Settle
  <2>2. CASE shuttingDown \/ queue = <<>>
    BY <1>3, <2>1, <2>2 DEF StartNext
  <2>3. CASE ~(shuttingDown \/ queue = <<>>)
    <3>1. PICK q \in Pids : running' = [slots EXCEPT ![Head(queue)] = q]
      BY <2>1, <2>3 DEF StartNext, StartFrom
    <3>2. QED
      BY <1>2, <1>3, <2>3, <3>1
  <2>4. QED
    BY <2>2, <2>3
<1>6. QED
  BY <1>4, <1>5

(* No queued source overtakes one that was queued before it: only the head *)
(* of the queue ever takes a slot.                                         *)
THEOREM FirstComeFirstServed == PoolSpec => NoOvertaking
<1> DEFINE Fair == \A i, j \in DOMAIN queue :
                      i < j /\ running'[queue[j]] # NoPid => ~Contains(queue', queue[i])
<1>1. ASSUME IInv, [PoolNext]_poolVars PROVE Fair
  <2> SUFFICES ASSUME NEW i \in DOMAIN queue, NEW j \in DOMAIN queue, i < j,
                      running'[queue[j]] # NoPid
               PROVE  FALSE
    OBVIOUS
  <2> DEFINE s == queue[j]
  <2>1. /\ s \in Sources /\ queue # <<>> /\ s # Head(queue) /\ Contains(queue, s)
        /\ running[s] = NoPid
    <3>1. queue \in Seq(Sources) /\ i \in 1 .. Len(queue) /\ j \in 1 .. Len(queue) /\ Len(queue) \in Nat
      BY <1>1, LenProperties DEF IInv, TypeOK
    <3>2. s \in Sources /\ queue # <<>>
      BY <3>1, ElementOfSeq, EmptySeq
    <3>3. 1 \in DOMAIN queue /\ Head(queue) = queue[1] /\ j # 1
      BY <3>1, <3>2, TailElements, LenProperties
    <3>4. s # queue[1] /\ s \notin Running
      BY <1>1, <3>3 DEF IInv, QueueCoalesced
    <3>5. QED
      BY <3>1, <3>2, <3>3, <3>4, ContainsElement DEF Running
  <2>2. running'[s] # running[s] /\ running \in [Sources -> Pids \cup {NoPid}]
    BY <1>1, <2>1 DEF IInv, TypeOK
  <2>3. PICK p \in Pids : OnExit(p) \/ OnError(p) \/ OnExitAfterError(p)
    <3>1. ASSUME NEW t \in Sources, Request(t) \/ Retry(t) PROVE FALSE
      <4>1. ~Contains(queue, t) /\ Admit(t)
        BY <2>2, <3>1 DEF Request, Retry, Suppressed, isBuilding
      <4>2. PICK q \in Pids : running' = [running EXCEPT ![t] = q]
        BY <2>2, <4>1 DEF Admit, StartFrom
      <4>3. QED
        BY <2>1, <2>2, <4>1, <4>2
    <3>2. running' # running /\ PoolNext
      BY <1>1, <2>2 DEF poolVars
    <3>3. QED
      BY <3>1, <3>2 DEF PoolNext, Cancel, CancelQueued, CancelRunning, CooldownElapses,
                        Shutdown, ChildExits
  <2>4. QED
    BY <1>1, <2>1, <2>3, SettleSlots
<1>2. QED
  BY <1>1, Inductive, PTL DEF PoolSpec, NoOvertaking

(* After shutdown() nothing is queued or started.                          *)
THEOREM ShutdownStartsNothing == PoolSpec => ShutdownIsFinal
<1> DEFINE Final == shuttingDown => /\ queue' = <<>>
                                    /\ {s \in Sources : running'[s] # NoPid} \subseteq Running
<1>1. ASSUME IInv, [PoolNext]_poolVars PROVE Final
  <2> SUFFICES ASSUME shuttingDown PROVE Final
    OBVIOUS
  <2>1. queue' = <<>>
    <3>1. IInv' /\ shuttingDown'
      BY <1>1, StepInv DEF PoolNext, poolVars, Request, Retry, Cancel, CancelQueued, CancelRunning,
         CooldownElapses, Shutdown, OnExit, OnError, OnExitAfterError, ChildExits
    <3>2. QED
      BY <3>1 DEF IInv, ShutdownEmptiesQueue
  <2>2. ASSUME NEW s \in Sources, running'[s] # NoPid, running[s] = NoPid PROVE FALSE
    <3>1. ASSUME NEW t \in Sources, Request(t) \/ Retry(t) PROVE FALSE
      BY <2>2, <3>1 DEF Request, Retry, Suppressed
    <3>2. ASSUME NEW p \in Pids, OnExit(p) \/ OnError(p) \/ OnExitAfterError(p) PROVE FALSE
      BY <1>1, <2>2, <3>2, SettleSlots
    <3>3. running' # running /\ PoolNext
      BY <1>1, <2>2 DEF poolVars
    <3>4. QED
      BY <3>1, <3>2, <3>3 DEF PoolNext, Cancel, CancelQueued, CancelRunning, CooldownElapses,
                              Shutdown, ChildExits
  <2>3. QED
    BY <2>1, <2>2 DEF Running
<1>2. QED
  BY <1>1, Inductive, PTL DEF PoolSpec, ShutdownIsFinal

-----------------------------------------------------------------------------
(* The entries on top of the pool.                                         *)
TouchHasSource == \A t \in Touches : touch[t].at # "idle" => touch[t].src \in Sources

(* A memoized promise in flight is that of a touch of the same source.     *)
SlotOwned ==
    \A s \in Sources, t \in Touches :
        slot[s] = t => touch[t].at # "idle" /\ touch[t].src = s

(* No open that began before a build ended well is memoized afterwards.    *)
OldOpenDropped ==
    \A s \in superseded :
        slot[s] # "ok" /\ \A t \in Touches : slot[s] = t => touch[t].at # "open"

FailedNotBuilding == \A s \in Sources : isBuilding(s) => lastError[s] # "build"

(* A touch that had sampled the manifest when the build failed runs into   *)
(* the cooldown.                                                           *)
LateTouchCoolsDown ==
    \A t \in Touches :
        touch[t].at \in {"stat", "sampled"} /\ lastError[touch[t].src] = "build"
            => touch[t].src \in coolingDown \/ shuttingDown

(* The inductive invariant, beside that of the pool.                       *)
EntryInv ==
    /\ EntryTypeOK
    /\ TouchHasSource
    /\ SlotOwned
    /\ OldOpenDropped
    /\ FailedNotBuilding
    /\ LateTouchCoolsDown

-----------------------------------------------------------------------------
(* Every step of EngineMap is a step of the pool or leaves it alone.       *)
LEMMA StepOfPool ==
    ASSUME TouchHasSource, [Next]_vars
    PROVE  [PoolNext]_poolVars
<1>1. CASE UNCHANGED vars
  BY <1>1 DEF vars
<1>2. ASSUME NEW s \in Sources,
             ensureDiskBacked(s) \/ requestBuild(s) \/ cancelBuild(s) \/ CooldownOver(s)
      PROVE  [PoolNext]_poolVars
  BY <1>2 DEF ensureDiskBacked, requestBuild, cancelBuild, CooldownOver, PoolNext
<1>3. ASSUME NEW t \in Touches,
             \/ ManifestSampled(t) \/ LoadEntry(t)
             \/ OpenSucceeds(t) \/ OpenFails(t)
      PROVE  UNCHANGED poolVars
  BY <1>3 DEF ManifestSampled, LoadEntry, OpenSucceeds, OpenFails
<1>4. ASSUME NEW t \in Touches, RequestMissing(t) PROVE PoolNext
  <2>1. touch[t].src \in Sources /\ Request(touch[t].src)
    BY <1>4 DEF RequestMissing, TouchHasSource
  <2>2. QED
    BY <2>1 DEF PoolNext
<1>5. ASSUME NEW p \in Pids, ChildSettles(p) \/ LateExit(p) PROVE PoolNext
  BY <1>5 DEF ChildSettles, LateExit, PoolNext
<1>6. ASSUME NEW p \in Pids, RenameAside(p) \/ RenameIn(p) \/ CommitManifest(p)
      PROVE  UNCHANGED poolVars
  BY <1>6 DEF RenameAside, RenameIn, CommitManifest
<1>7. ASSUME NEW p \in Pids, NEW os \in {"exit0", "exitBad"}, ChildDies(p, os) PROVE PoolNext
  BY <1>7 DEF ChildDies, PoolNext
<1>8. ASSUME Close \/ CloseIndexes PROVE [PoolNext]_poolVars
  BY <1>8 DEF Close, CloseIndexes, PoolNext
<1>9. QED
  BY <1>1, <1>2, <1>3, <1>4, <1>5, <1>6, <1>7, <1>8 DEF Next

-----------------------------------------------------------------------------
(* What the steps of the pool do to the sources that are building.         *)

(* The queue after append, shift and splice holds what it should.          *)
LEMMA QueueElements ==
    ASSUME NEW q \in Seq(Sources), NEW u \in Sources
    PROVE  /\ \A s \in Sources : Contains(Append(q, s), u) => u = s \/ Contains(q, u)
           /\ q # <<>> => (Contains(Tail(q), u) => Contains(q, u)) /\ Contains(q, Head(q))
           /\ \A i \in DOMAIN q : Contains(RemoveAt(q, i), u) => Contains(q, u)
<1>1. ASSUME NEW s \in Sources, Contains(Append(q, s), u) PROVE u = s \/ Contains(q, u)
  <2>1. /\ Append(q, s) \in Seq(Sources) /\ Len(Append(q, s)) = Len(q) + 1
        /\ \A k \in 1 .. Len(q) : Append(q, s)[k] = q[k]
        /\ Append(q, s)[Len(q) + 1] = s
    BY AppendProperties
  <2>2. PICK k \in 1 .. Len(q) + 1 : Append(q, s)[k] = u
    <3>1. PICK k \in DOMAIN Append(q, s) : Append(q, s)[k] = u
      BY <1>1, <2>1, ContainsElement
    <3>2. DOMAIN Append(q, s) = 1 .. Len(q) + 1
      BY <2>1, LenProperties
    <3>3. QED
      BY <3>1, <3>2
  <2>3. Len(q) \in Nat /\ DOMAIN q = 1 .. Len(q)
    BY LenProperties
  <2>4. CASE k = Len(q) + 1
    BY <2>1, <2>2, <2>4
  <2>5. CASE k \in 1 .. Len(q)
    BY <2>1, <2>2, <2>3, <2>5, ContainsElement
  <2>6. QED
    BY <2>3, <2>4, <2>5
<1>2. ASSUME q # <<>> PROVE (Contains(Tail(q), u) => Contains(q, u)) /\ Contains(q, Head(q))
  <2>1. /\ Head(q) = q[1] /\ Tail(q) \in Seq(Sources)
        /\ Len(Tail(q)) = Len(q) - 1 /\ Len(q) \in Nat \ {0}
        /\ \A k \in 1 .. Len(q) - 1 : Tail(q)[k] = q[k + 1]
    BY <1>2, TailElements
  <2>2. Contains(q, Head(q))
    BY <2>1, LenProperties, ContainsElement
  <2>3. ASSUME Contains(Tail(q), u) PROVE Contains(q, u)
    <3>0. PICK k \in DOMAIN Tail(q) : Tail(q)[k] = u
      <4>1. Tail(q) \in Seq(Sources)
        BY <2>1
      <4>2. Contains(Tail(q), u) <=> \E k \in DOMAIN Tail(q) : Tail(q)[k] = u
        BY <4>1, ContainsElement
      <4>3. QED
        BY <2>3, <4>2
    <3>1. k \in 1 .. Len(q) - 1 /\ q[k + 1] = u
      <4>1. DOMAIN Tail(q) = 1 .. Len(q) - 1
        BY <2>1, LenProperties
      <4>2. QED
        BY <2>1, <3>0, <4>1
    <3>2. k + 1 \in DOMAIN q
      BY <2>1, LenProperties
    <3>3. QED
      BY <3>1, <3>2, ContainsElement
  <2>4. QED
    BY <2>2, <2>3
<1>3. ASSUME NEW i \in DOMAIN q, Contains(RemoveAt(q, i), u) PROVE Contains(q, u)
  <2>1. /\ RemoveAt(q, i) \in Seq(Sources)
        /\ Len(RemoveAt(q, i)) = Len(q) - 1
        /\ \A k \in 1 .. Len(q) - 1 : RemoveAt(q, i)[k] = q[IF k < i THEN k ELSE k + 1]
    BY RemoveAtElements
  <2>2. PICK k \in 1 .. Len(q) - 1 : q[IF k < i THEN k ELSE k + 1] = u
    BY <1>3, <2>1, LenProperties, ContainsElement
  <2>3. (IF k < i THEN k ELSE k + 1) \in DOMAIN q
    BY LenProperties
  <2>4. QED
    BY <2>2, <2>3, ContainsElement
<1>4. QED
  BY <1>1, <1>2, <1>3

(* A request may start or queue a build of its own source and of no other, *)
(* and not even of its own during a cooldown.                              *)
LEMMA RequestBuilds ==
    ASSUME IInv, NEW s \in Sources, Request(s) \/ Retry(s),
           NEW u \in Sources, isBuilding(u)', ~isBuilding(u)
    PROVE  u = s /\ ~shuttingDown /\ (Request(s) => s \notin coolingDown)
<1>1. running' # running \/ queue' # queue
  BY DEF isBuilding
<1>2. Admit(s) /\ ~shuttingDown /\ (Request(s) => s \notin coolingDown)
  BY <1>1 DEF Request, Retry, Suppressed
<1>3. queue \in Seq(Sources) /\ running \in [Sources -> Pids \cup {NoPid}]
  BY DEF IInv, TypeOK
<1>4. CASE SlotFree /\ StartFrom(proc, running, s) /\ UNCHANGED queue
  <2>1. PICK p \in Pids : running' = [running EXCEPT ![s] = p]
    BY <1>4 DEF StartFrom
  <2>2. QED
    BY <1>2, <1>3, <1>4, <2>1 DEF isBuilding
<1>5. CASE queue' = Append(queue, s) /\ UNCHANGED <<running, proc>>
  <2>1. Contains(queue', u) /\ ~Contains(queue, u)
    BY <1>5 DEF isBuilding
  <2>2. QED
    BY <1>2, <1>3, <1>5, <2>1, QueueElements
<1>6. QED
  BY <1>2, <1>4, <1>5 DEF Admit

(* A settle ends the build of its source and begins none that was not      *)
(* queued; a failure begins a cooldown.                                    *)
LEMMA SettleBuilds ==
    ASSUME IInv, NEW p \in Pids, OnExit(p) \/ OnError(p), NEW s, s = proc[p].src
    PROVE  LET outcome == Outcome(s, proc[p].os # "exit0")
           IN  /\ s \in Sources /\ isBuilding(s) /\ ~isBuilding(s)'
               /\ coolingDown' = IF outcome = "failure" THEN coolingDown \cup {s}
                                                       ELSE coolingDown \ {s}
               /\ \A u \in Sources : isBuilding(u)' => isBuilding(u)
<1> DEFINE failed == proc[p].os # "exit0"
           slots == [running EXCEPT ![s] = NoPid]
<1>1. /\ s \in Sources /\ running[s] = p /\ ~proc[p].settled /\ s \in Running
      /\ running \in [Sources -> Pids \cup {NoPid}] /\ queue \in Seq(Sources)
  <2>1. proc[p].os \notin {"free", "errored"}
    BY DEF OnExit, OnError
  <2>2. s \in Sources /\ running[s] = p /\ s \in Running
    BY <2>1, AbsentAssumption DEF IInv, SlotsMatchChildren, Running
  <2>3. ~proc[p].settled
    BY <2>2 DEF IInv, SlotsMatchChildren
  <2>4. QED
    BY <2>2, <2>3 DEF IInv, TypeOK
<1>2. PICK r : Settle(p, failed, r)
  BY DEF OnExit, OnError
<1>3. /\ coolingDown' = IF Outcome(s, failed) = "failure" THEN coolingDown \cup {s}
                                                         ELSE coolingDown \ {s}
      /\ StartNext([proc EXCEPT ![p] = r], slots)
  BY <1>1, <1>2 DEF Settle, AlreadySettled
<1>4. ~Contains(queue, s) /\ slots[s] = NoPid /\ isBuilding(s)
  BY <1>1, ContainsElement, AbsentAssumption DEF IInv, QueueCoalesced, isBuilding
<1>5. \A u \in Sources : slots[u] # NoPid => running[u] # NoPid
  BY <1>1
<1>6. CASE running' = slots /\ UNCHANGED queue
  BY <1>1, <1>3, <1>4, <1>5, <1>6 DEF isBuilding
<1>7. ASSUME queue # <<>>, StartFrom([proc EXCEPT ![p] = r], slots, Head(queue)), queue' = Tail(queue)
      PROVE  ~isBuilding(s)' /\ \A u \in Sources : isBuilding(u)' => isBuilding(u)
  <2>1. PICK q \in Pids : running' = [slots EXCEPT ![Head(queue)] = q]
    BY <1>7 DEF StartFrom
  <2>2. Contains(queue, Head(queue)) /\ Head(queue) # s
    BY <1>1, <1>4, <1>7, QueueElements
  <2>3. \A u \in Sources : Contains(queue', u) => Contains(queue, u)
    BY <1>1, <1>7, QueueElements
  <2>4. \A u \in Sources : running'[u] # NoPid => u = Head(queue) \/ slots[u] # NoPid
    BY <1>1, <2>1
  <2>5. QED
    BY <1>1, <1>4, <1>5, <2>2, <2>3, <2>4 DEF isBuilding
<1>8. QED
  BY <1>1, <1>3, <1>4, <1>6, <1>7 DEF StartNext

(* Nothing else begins a build.                                            *)
LEMMA OthersBuildNothing ==
    ASSUME IInv, NEW u \in Sources, isBuilding(u)',
           \/ \E s \in Sources : Cancel(s) \/ CooldownElapses(s)
           \/ \E p \in Pids : OnExitAfterError(p)
           \/ \E p \in Pids, os \in {"exit0", "exitBad"} : ChildExits(p, os)
           \/ Shutdown \/ UNCHANGED poolVars
    PROVE  isBuilding(u)
<1>1. queue \in Seq(Sources)
  BY DEF IInv, TypeOK
<1>2. CASE \E s \in Sources : Cancel(s) \/ CooldownElapses(s)
  BY <1>1, <1>2, QueueElements DEF Cancel, CancelQueued, CancelRunning, CooldownElapses, isBuilding
<1>3. CASE \E p \in Pids : OnExitAfterError(p)
  BY <1>3 DEF OnExitAfterError, Settle, AlreadySettled, IInv, SlotsMatchChildren, isBuilding
<1>4. CASE \E p \in Pids, os \in {"exit0", "exitBad"} : ChildExits(p, os)
  BY <1>4 DEF ChildExits, isBuilding
<1>5. CASE Shutdown
  BY <1>5 DEF Shutdown, isBuilding, Contains
<1>6. CASE UNCHANGED poolVars
  BY <1>6 DEF poolVars, isBuilding
<1>7. QED
  BY <1>2, <1>3, <1>4, <1>5, <1>6

-----------------------------------------------------------------------------
(* EntryInv is inductive.                                                  *)
TouchType == [at : TouchSteps, src : Sources \cup {NoSource}, man : BOOLEAN]

LEMMA EntryInitInv == Init => IInv /\ EntryInv
<1> SUFFICES ASSUME Init PROVE IInv /\ EntryInv
  OBVIOUS
<1>1. IInv
  BY InitInv DEF Init
<1>2. IdleTouch \in TouchType /\ IdleTouch.at = "idle"
  BY DEF IdleTouch, TouchType, TouchSteps
<1>3. EntryTypeOK
  BY <1>1, <1>2 DEF Init, EntryTypeOK, TouchType, Slots, Stages, IInv
<1>4. \A t \in Touches : touch[t].at = "idle"
  BY <1>2 DEF Init
<1>5. \A s \in Sources : slot[s] = "none" /\ lastError[s] = "none" /\ slot[s] \notin Touches
  BY TouchAssumption DEF Init
<1>6. SlotOwned
  BY <1>5 DEF SlotOwned
<1>7. TouchHasSource /\ OldOpenDropped /\ FailedNotBuilding /\ LateTouchCoolsDown
  BY <1>4, <1>5 DEF Init, TouchHasSource, OldOpenDropped, FailedNotBuilding, LateTouchCoolsDown
<1>8. QED
  BY <1>1, <1>3, <1>6, <1>7 DEF EntryInv

(* Types, step by step.                                                    *)
LEMMA TypesStep ==
    ASSUME IInv, EntryInv, [Next]_vars
    PROVE  EntryTypeOK' /\ TouchHasSource'
<1>1. TypeOK'
  BY StepOfPool, StepInv DEF EntryInv, IInv
<1>2. /\ slot \in [Sources -> Slots]
      /\ lastError \in [Sources -> {"none", "build", "load"}]
      /\ handle \in [Sources -> BOOLEAN]
      /\ db \in [Sources -> BOOLEAN] /\ man \in [Sources -> BOOLEAN]
      /\ stage \in [Pids -> Stages]
      /\ touch \in [Touches -> TouchType]
      /\ announced \in SUBSET Sources
      /\ closed \in BOOLEAN
      /\ superseded \in SUBSET Sources
      /\ \A t \in Touches : touch[t].at # "idle" => touch[t].src \in Sources
  BY DEF EntryInv, EntryTypeOK, TouchHasSource, TouchType
<1>3. IdleTouch \in TouchType /\ IdleTouch.at = "idle"
  BY DEF IdleTouch, TouchType, TouchSteps
<1> USE DEF EntryTypeOK, TouchHasSource
<1>4. CASE UNCHANGED vars
  BY <1>1, <1>2, <1>4 DEF vars, entryVars, TouchType
<1>5. ASSUME NEW s \in Sources, ensureDiskBacked(s) PROVE EntryTypeOK' /\ TouchHasSource'
  <2>1. [at |-> "stat", src |-> s, man |-> FALSE] \in TouchType
    BY DEF TouchType, TouchSteps
  <2>2. touch' \in [Touches -> TouchType] /\ TouchHasSource'
    <3>1. CASE UNCHANGED touch
      BY <1>2, <3>1
    <3>2. ASSUME NEW t \in Touches,
                 touch' = [touch EXCEPT ![t] = [at |-> "stat", src |-> s, man |-> FALSE]]
          PROVE  touch' \in [Touches -> TouchType] /\ TouchHasSource'
      BY <1>2, <2>1, <3>2
    <3>3. QED
      BY <1>5, <3>1, <3>2 DEF ensureDiskBacked
  <2>3. slot' \in [Sources -> Slots]
    BY <1>2, <1>5 DEF ensureDiskBacked, Slots
  <2>4. QED
    BY <1>1, <1>2, <1>5, <2>2, <2>3 DEF ensureDiskBacked, TouchType
<1>6. ASSUME NEW t \in Touches,
             ManifestSampled(t) \/ LoadEntry(t) \/ RequestMissing(t) \/ OpenSucceeds(t) \/ OpenFails(t)
      PROVE  EntryTypeOK' /\ TouchHasSource'
  <2>1. touch[t].src \in Sources
    BY <1>2, <1>6 DEF ManifestSampled, LoadEntry, RequestMissing, OpenSucceeds, OpenFails
  <2>2. touch' \in [Touches -> TouchType] /\ TouchHasSource'
    <3>1. \A m \in BOOLEAN : /\ [[touch[t] EXCEPT !.at = "sampled"] EXCEPT !.man = m] \in TouchType
                              /\ [touch[t] EXCEPT !.at = "open"] \in TouchType
      BY <1>2 DEF TouchType, TouchSteps
    <3>2. CASE ManifestSampled(t)
      BY <1>2, <2>1, <3>1, <3>2 DEF ManifestSampled, TouchType, TouchSteps
    <3>3. CASE LoadEntry(t)
      BY <1>2, <2>1, <3>1, <3>3 DEF LoadEntry, TouchType, TouchSteps
    <3>4. CASE RequestMissing(t) \/ OpenSucceeds(t) \/ OpenFails(t)
      BY <1>2, <1>3, <3>4 DEF RequestMissing, OpenSucceeds, OpenFails
    <3>5. QED
      BY <1>6, <3>2, <3>3, <3>4
  <2>3. slot' \in [Sources -> Slots]
    BY <1>2, <1>6 DEF ManifestSampled, LoadEntry, RequestMissing, OpenSucceeds, OpenFails, Slots
  <2>4. lastError' \in [Sources -> {"none", "build", "load"}] /\ handle' \in [Sources -> BOOLEAN]
    BY <1>2, <1>6 DEF ManifestSampled, LoadEntry, RequestMissing, OpenSucceeds, OpenFails
  <2>5. /\ db' \in [Sources -> BOOLEAN] /\ UNCHANGED <<man, stage, closed>>
        /\ announced' \in SUBSET Sources /\ superseded' \in SUBSET Sources
    BY <1>2, <1>6, <2>1 DEF ManifestSampled, LoadEntry, RequestMissing, OpenSucceeds, OpenFails
  <2>6. QED
    BY <1>1, <1>2, <2>2, <2>3, <2>4, <2>5 DEF TouchType
<1>7. ASSUME NEW s \in Sources, requestBuild(s) PROVE EntryTypeOK' /\ TouchHasSource'
  <2>1. slot' \in [Sources -> Slots] /\ lastError' \in [Sources -> {"none", "build", "load"}]
    BY <1>2, <1>7 DEF requestBuild, Slots
  <2>2. QED
    BY <1>1, <1>2, <1>7, <2>1 DEF requestBuild, TouchType
<1>8. ASSUME NEW p \in Pids, ChildSettles(p) PROVE EntryTypeOK' /\ TouchHasSource'
  <2>1. proc[p].src \in Sources
    BY <1>8, SettleBuilds DEF ChildSettles
  <2>2. slot' \in [Sources -> Slots]
    BY <1>2, <1>8 DEF ChildSettles, onSettle, Slots
  <2>3. lastError' \in [Sources -> {"none", "build", "load"}]
    BY <1>2, <1>8 DEF ChildSettles, onSettle, Outcome
  <2>4. stage' \in [Pids -> Stages]
    BY <1>2, <1>8 DEF ChildSettles, Stages
  <2>5. announced' \in SUBSET Sources /\ superseded' \in SUBSET Sources
    BY <1>2, <1>8, <2>1 DEF ChildSettles, onSettle
  <2>6. QED
    BY <1>1, <1>2, <1>8, <2>2, <2>3, <2>4, <2>5 DEF ChildSettles, TouchType
<1>9. ASSUME NEW p \in Pids, RenameAside(p) \/ RenameIn(p) \/ CommitManifest(p)
      PROVE  EntryTypeOK' /\ TouchHasSource'
  <2>1. db' \in [Sources -> BOOLEAN] /\ man' \in [Sources -> BOOLEAN] /\ stage' \in [Pids -> Stages]
    BY <1>2, <1>9 DEF RenameAside, RenameIn, CommitManifest, Stages
  <2>2. UNCHANGED <<slot, lastError, handle, touch, announced, closed, superseded>>
    BY <1>9 DEF RenameAside, RenameIn, CommitManifest
  <2>3. QED
    BY <1>1, <1>2, <2>1, <2>2 DEF TouchType
<1>10. ASSUME UNCHANGED entryVars PROVE EntryTypeOK' /\ TouchHasSource'
  BY <1>1, <1>2, <1>10 DEF entryVars, TouchType
<1>11. CASE CloseIndexes
  BY <1>1, <1>2, <1>11 DEF CloseIndexes, TouchType
<1>12. QED
  BY <1>4, <1>5, <1>6, <1>7, <1>8, <1>9, <1>10, <1>11
     DEF Next, cancelBuild, CooldownOver, LateExit, ChildDies, Close

(* A memoized promise is that of its own touch, and none is older than the *)
(* build that last ended well.                                             *)
LEMMA MemoStep ==
    ASSUME IInv, EntryInv, [Next]_vars
    PROVE  SlotOwned' /\ OldOpenDropped'
<1>1. /\ slot \in [Sources -> Slots]
      /\ touch \in [Touches -> TouchType]
      /\ superseded \in SUBSET Sources
      /\ \A t \in Touches : t # "none" /\ t # "ok" /\ t # "indexing"
  BY TouchAssumption DEF EntryInv, EntryTypeOK, TouchType
<1>2. /\ \A s \in Sources, t \in Touches :
            slot[s] = t => touch[t].at # "idle" /\ touch[t].src = s
      /\ \A s \in superseded :
            slot[s] # "ok" /\ \A t \in Touches : slot[s] = t => touch[t].at # "open"
      /\ \A t \in Touches : touch[t].at # "idle" => touch[t].src \in Sources
  BY DEF EntryInv, SlotOwned, OldOpenDropped, TouchHasSource
<1> USE DEF SlotOwned, OldOpenDropped
<1>3. ASSUME UNCHANGED <<slot, touch, superseded>> PROVE SlotOwned' /\ OldOpenDropped'
  BY <1>2, <1>3
<1>4. ASSUME NEW s \in Sources, ensureDiskBacked(s) PROVE SlotOwned' /\ OldOpenDropped'
  <2>1. CASE slot' = [slot EXCEPT ![s] = "indexing"] /\ UNCHANGED <<touch, superseded>>
    BY <1>1, <1>2, <2>1
  <2>2. ASSUME NEW t \in Touches, touch[t].at = "idle",
               touch' = [touch EXCEPT ![t] = [at |-> "stat", src |-> s, man |-> FALSE]],
               slot' = [slot EXCEPT ![s] = t], UNCHANGED superseded
        PROVE  SlotOwned' /\ OldOpenDropped'
    BY <1>1, <1>2, <2>2
  <2>3. QED
    BY <1>4, <2>1, <2>2 DEF ensureDiskBacked
<1>5. ASSUME NEW t \in Touches, ManifestSampled(t) PROVE SlotOwned' /\ OldOpenDropped'
  <2>1. /\ \A u \in Touches : touch'[u].src = touch[u].src
        /\ \A u \in Touches : u # t => touch'[u] = touch[u]
        /\ touch[t].at = "stat" /\ touch'[t].at = "sampled"
    BY <1>1, <1>5 DEF ManifestSampled, TouchType
  <2>2. UNCHANGED <<slot, superseded>>
    BY <1>5 DEF ManifestSampled
  <2>3. QED
    BY <1>2, <2>1, <2>2
<1>6. ASSUME NEW t \in Touches, LoadEntry(t) PROVE SlotOwned' /\ OldOpenDropped'
  <2>1. /\ \A u \in Touches : touch'[u].src = touch[u].src
        /\ \A u \in Touches : u # t => touch'[u] = touch[u]
        /\ touch[t].at = "sampled" /\ touch'[t].at = "open"
    BY <1>1, <1>6 DEF LoadEntry, TouchType
  <2>2. UNCHANGED slot /\ superseded' = superseded \ {touch[t].src}
    BY <1>6 DEF LoadEntry
  <2>3. QED
    BY <1>1, <1>2, <2>1, <2>2
<1>7. ASSUME NEW t \in Touches, RequestMissing(t) \/ OpenFails(t)
      PROVE  SlotOwned' /\ OldOpenDropped'
  <2>1. /\ touch[t].src \in Sources
        /\ touch' = [touch EXCEPT ![t] = IdleTouch]
        /\ slot' = [slot EXCEPT ![touch[t].src] = "none"]
        /\ UNCHANGED superseded
    BY <1>2, <1>7 DEF RequestMissing, OpenFails
  <2>2. IdleTouch.at = "idle"
    BY DEF IdleTouch
  <2>3. QED
    BY <1>1, <1>2, <2>1, <2>2
<1>8. ASSUME NEW t \in Touches, OpenSucceeds(t) PROVE SlotOwned' /\ OldOpenDropped'
  <2>1. /\ touch[t].at = "open" /\ touch[t].src \in Sources
        /\ touch' = [touch EXCEPT ![t] = IdleTouch]
        /\ slot' = IF slot[touch[t].src] = t THEN [slot EXCEPT ![touch[t].src] = "ok"] ELSE slot
        /\ UNCHANGED superseded
    BY <1>2, <1>8 DEF OpenSucceeds
  <2>2. IdleTouch.at = "idle"
    BY DEF IdleTouch
  <2>3. QED
    BY <1>1, <1>2, <2>1, <2>2
<1>9. ASSUME NEW s \in Sources, requestBuild(s) PROVE SlotOwned' /\ OldOpenDropped'
  BY <1>1, <1>2, <1>9 DEF requestBuild
<1>10. ASSUME NEW p \in Pids, ChildSettles(p) PROVE SlotOwned' /\ OldOpenDropped'
  <2>1. UNCHANGED touch
    BY <1>10 DEF ChildSettles
  <2>2. CASE UNCHANGED <<slot, superseded>>
    BY <1>3, <2>1, <2>2
  <2>3. ASSUME NEW s \in Sources, slot' = [slot EXCEPT ![s] = "none"], superseded' = superseded \cup {s}
        PROVE  SlotOwned' /\ OldOpenDropped'
    BY <1>1, <1>2, <2>1, <2>3
  <2>4. proc[p].src \in Sources
    BY <1>10, SettleBuilds DEF ChildSettles
  <2>5. QED
    BY <1>10, <2>2, <2>3, <2>4 DEF ChildSettles, onSettle
<1>11. QED
  BY <1>3, <1>4, <1>5, <1>6, <1>7, <1>8, <1>9, <1>10
     DEF Next, vars, entryVars, cancelBuild, CooldownOver, LateExit, RenameAside, RenameIn,
         CommitManifest, ChildDies, Close, CloseIndexes

(* A source whose build failed is not built again behind the operator's    *)
(* back.                                                                   *)
LEMMA FailedStep ==
    ASSUME IInv, EntryInv, [Next]_vars
    PROVE  FailedNotBuilding' /\ LateTouchCoolsDown'
<1>1. /\ lastError \in [Sources -> {"none", "build", "load"}]
      /\ touch \in [Touches -> TouchType]
      /\ coolingDown \in SUBSET Sources
      /\ \A s \in Sources : isBuilding(s) => lastError[s] # "build"
      /\ \A t \in Touches :
            touch[t].at \in {"stat", "sampled"} /\ lastError[touch[t].src] = "build"
                => touch[t].src \in coolingDown \/ shuttingDown
      /\ \A t \in Touches : touch[t].at # "idle" => touch[t].src \in Sources
  BY DEF EntryInv, EntryTypeOK, TypeOK, TouchType, FailedNotBuilding, LateTouchCoolsDown, TouchHasSource
<1> DEFINE Same == /\ \A u \in Sources : isBuilding(u)' => isBuilding(u)
                   /\ \A u \in Sources : u \in coolingDown => u \in coolingDown'
                   /\ shuttingDown => shuttingDown'
           NoNewTouch == \A t \in Touches :
                            touch'[t].at \in {"stat", "sampled"} =>
                               touch[t].at \in {"stat", "sampled"} /\ touch'[t].src = touch[t].src
           NoNewFailure == \A s \in Sources : lastError'[s] = "build" => lastError[s] = "build"
<1>2. ASSUME Same, NoNewTouch, NoNewFailure PROVE FailedNotBuilding' /\ LateTouchCoolsDown'
  BY <1>1, <1>2 DEF FailedNotBuilding, LateTouchCoolsDown
<1>3. ASSUME UNCHANGED poolVars PROVE Same
  BY <1>3, OthersBuildNothing DEF poolVars
<1>4. ASSUME NEW s \in Sources, ensureDiskBacked(s)
      PROVE  FailedNotBuilding' /\ LateTouchCoolsDown'
  <2>1. Same /\ UNCHANGED lastError
    BY <1>3, <1>4 DEF ensureDiskBacked
  <2>2. CASE UNCHANGED touch
    BY <1>2, <2>1, <2>2
  <2>3. ASSUME lastError[s] = "none", NEW t \in Touches,
               touch' = [touch EXCEPT ![t] = [at |-> "stat", src |-> s, man |-> FALSE]]
        PROVE  FailedNotBuilding' /\ LateTouchCoolsDown'
    BY <1>1, <2>1, <2>3 DEF FailedNotBuilding, LateTouchCoolsDown
  <2>4. QED
    BY <1>4, <2>2, <2>3 DEF ensureDiskBacked
<1>5. ASSUME NEW t \in Touches, ManifestSampled(t) \/ LoadEntry(t) \/ OpenSucceeds(t) \/ OpenFails(t)
      PROVE  FailedNotBuilding' /\ LateTouchCoolsDown'
  <2>1. Same
    BY <1>3, <1>5 DEF ManifestSampled, LoadEntry, OpenSucceeds, OpenFails
  <2>2. NoNewFailure
    BY <1>1, <1>5 DEF ManifestSampled, LoadEntry, OpenSucceeds, OpenFails
  <2>3. NoNewTouch
    <3>1. touch[t].at # "idle" /\ \A u \in Touches : u # t => touch'[u] = touch[u]
      BY <1>1, <1>5 DEF ManifestSampled, LoadEntry, OpenSucceeds, OpenFails
    <3>2. touch'[t].at \in {"stat", "sampled"} =>
             touch[t].at \in {"stat", "sampled"} /\ touch'[t].src = touch[t].src
      BY <1>1, <1>5 DEF ManifestSampled, LoadEntry, OpenSucceeds, OpenFails, TouchType, IdleTouch
    <3>3. QED
      BY <3>1, <3>2
  <2>4. QED
    BY <1>2, <2>1, <2>2, <2>3
<1>6. ASSUME NEW t \in Touches, RequestMissing(t) PROVE FailedNotBuilding' /\ LateTouchCoolsDown'
  <2>1. /\ touch[t].src \in Sources /\ touch[t].at = "sampled"
        /\ Request(touch[t].src) /\ UNCHANGED lastError
        /\ touch' = [touch EXCEPT ![t] = IdleTouch]
    BY <1>1, <1>6 DEF RequestMissing
  <2>2. NoNewTouch
    BY <1>1, <2>1 DEF IdleTouch
  <2>3. UNCHANGED <<coolingDown, shuttingDown>>
    BY <2>1 DEF Request
  <2>4. ASSUME NEW u \in Sources, isBuilding(u)', ~isBuilding(u) PROVE lastError[u] # "build"
    BY <1>1, <2>1, <2>4, RequestBuilds
  <2>5. QED
    BY <1>1, <2>1, <2>2, <2>3, <2>4 DEF FailedNotBuilding, LateTouchCoolsDown
<1>7. ASSUME NEW s \in Sources, requestBuild(s) PROVE FailedNotBuilding' /\ LateTouchCoolsDown'
  <2>1. /\ Retry(s) /\ UNCHANGED <<touch, shuttingDown>>
        /\ lastError' = [lastError EXCEPT ![s] = "none"]
        /\ coolingDown' = coolingDown \ {s}
    BY <1>7 DEF requestBuild, Retry
  <2>2. ASSUME NEW u \in Sources, isBuilding(u)', ~isBuilding(u) PROVE u = s
    BY <2>1, <2>2, RequestBuilds
  <2>3. QED
    BY <1>1, <2>1, <2>2 DEF FailedNotBuilding, LateTouchCoolsDown
<1>8. ASSUME NEW s \in Sources, CooldownOver(s) PROVE FailedNotBuilding' /\ LateTouchCoolsDown'
  <2>1. /\ \A t \in Touches : touch[t].src = s => touch[t].at \notin {"stat", "sampled"}
        /\ CooldownElapses(s) /\ coolingDown' = coolingDown \ {s}
        /\ UNCHANGED <<lastError, touch, shuttingDown>>
    BY <1>8 DEF CooldownOver, CooldownElapses, entryVars
  <2>2. \A u \in Sources : isBuilding(u)' => isBuilding(u)
    BY <2>1, OthersBuildNothing
  <2>3. QED
    BY <1>1, <2>1, <2>2 DEF FailedNotBuilding, LateTouchCoolsDown
<1>9. ASSUME NEW p \in Pids, ChildSettles(p) PROVE FailedNotBuilding' /\ LateTouchCoolsDown'
  <2> DEFINE outcome == Outcome(proc[p].src, proc[p].os # "exit0")
  <2>1. PICK s : s = proc[p].src
    OBVIOUS
  <2>2. /\ s \in Sources /\ isBuilding(s) /\ ~isBuilding(s)'
        /\ coolingDown' = IF outcome = "failure" THEN coolingDown \cup {s} ELSE coolingDown \ {s}
        /\ \A u \in Sources : isBuilding(u)' => isBuilding(u)
    BY <1>9, <2>1, SettleBuilds DEF ChildSettles
  <2>3. /\ lastError' = IF outcome = "cancel" THEN lastError
                        ELSE [lastError EXCEPT ![s] = IF outcome = "failure" THEN "build" ELSE "none"]
        /\ UNCHANGED <<touch, shuttingDown>>
    BY <1>9, <2>1 DEF ChildSettles, onSettle, OnExit, OnError
  <2> HIDE DEF outcome
  <2>4. lastError[s] # "build"
    BY <1>1, <2>2
  <2>5. QED
    BY <1>1, <2>2, <2>3, <2>4 DEF FailedNotBuilding, LateTouchCoolsDown
<1>10. ASSUME UNCHANGED <<lastError, touch>>,
              \/ \E s \in Sources : Cancel(s)
              \/ \E p \in Pids : OnExitAfterError(p)
              \/ \E p \in Pids, os \in {"exit0", "exitBad"} : ChildExits(p, os)
              \/ Shutdown \/ UNCHANGED poolVars
       PROVE  FailedNotBuilding' /\ LateTouchCoolsDown'
  <2>1. coolingDown' = coolingDown /\ shuttingDown' \in {shuttingDown, TRUE}
    <3>1. ASSUME NEW p \in Pids, OnExitAfterError(p)
          PROVE  coolingDown' = coolingDown /\ shuttingDown' = shuttingDown
      <4>1. proc[p].settled
        BY <3>1 DEF OnExitAfterError, IInv, SlotsMatchChildren
      <4>2. QED
        BY <3>1, <4>1 DEF OnExitAfterError, Settle, AlreadySettled
    <3>2. ASSUME NEW s \in Sources, Cancel(s)
          PROVE  coolingDown' = coolingDown /\ shuttingDown' = shuttingDown
      BY <3>2 DEF Cancel, CancelQueued, CancelRunning
    <3>3. QED
      BY <1>10, <3>1, <3>2 DEF ChildExits, Shutdown, poolVars
  <2>2. Same
    <3>1. \A u \in Sources : isBuilding(u)' => isBuilding(u)
      BY <1>10, OthersBuildNothing
    <3>2. shuttingDown \in BOOLEAN
      BY DEF IInv, TypeOK
    <3>3. shuttingDown => shuttingDown'
      BY <2>1, <3>2
    <3>4. QED
      BY <2>1, <3>1, <3>3
  <2>3. QED
    BY <1>2, <1>10, <2>2
<1>11. QED
  BY <1>4, <1>5, <1>6, <1>7, <1>8, <1>9, <1>10
     DEF Next, vars, entryVars, cancelBuild, LateExit, RenameAside, RenameIn, CommitManifest,
         ChildDies, Close, CloseIndexes

-----------------------------------------------------------------------------
(* Both invariants hold in every reachable state.                          *)
THEOREM EntryInductive == Spec => [](IInv /\ EntryInv)
<1>1. ASSUME IInv, EntryInv, [Next]_vars PROVE IInv' /\ EntryInv'
  <2>1. IInv'
    BY <1>1, StepOfPool, StepInv DEF EntryInv
  <2>2. QED
    BY <1>1, <2>1, TypesStep, MemoStep, FailedStep DEF EntryInv
<1>2. QED
  BY <1>1, EntryInitInv, PTL DEF Spec

(* The bound on the build processes holds of the server as it is wired,    *)
(* and the pool's books agree with the operating system.                   *)
THEOREM ServerBuildsBounded == Spec => [](ConcurrencyBound /\ SlotsMatchChildren)
<1>1. IInv => ConcurrencyBound /\ SlotsMatchChildren
  BY BoundOfInv DEF IInv
<1>2. QED
  BY <1>1, EntryInductive, PTL

(* The entries' variables stay in their types.                             *)
THEOREM EntryTypeCorrect == Spec => []EntryTypeOK
<1>1. EntryInv => EntryTypeOK
  BY DEF EntryInv
<1>2. QED
  BY <1>1, EntryInductive, PTL

(* After a build ended well no memo serves the index it replaced.          *)
THEOREM NewIndexIsServed == Spec => []ReplacedIndexNotServed
<1>1. EntryInv => ReplacedIndexNotServed
  BY DEF EntryInv, OldOpenDropped, ReplacedIndexNotServed
<1>2. QED
  BY <1>1, EntryInductive, PTL

(* No touch starts or queues a build of a source whose build has failed.   *)
THEOREM FailureStopsBuilds == Spec => NoSpawnStorm
<1>1. EntryInv' => \A s \in Sources :
          lastError[s] = "build" /\ lastError'[s] = "build" /\ ~isBuilding(s) => ~BuildingNext(s)
  BY DEF EntryInv, FailedNotBuilding, isBuilding, BuildingNext
<1>2. QED
  BY <1>1, EntryInductive, PTL DEF NoSpawnStorm

-----------------------------------------------------------------------------
(* A build that ends well is visible.                                      *)

(* A child that exits 0 has committed its manifest, and a child identity   *)
(* not in use, or one that never ran, has promoted nothing.                *)
CommitsSeen ==
    /\ \A p \in Pids : proc[p].os \in {"free", "nostart", "errored"} => stage[p] = "building"
    /\ \A p \in Pids : proc[p].os = "exit0" => stage[p] = "committed"
    /\ \A p \in Pids : stage[p] = "committed" => man[proc[p].src]

(* What a step may do to the child p while nobody promotes or commits.     *)
Progress(p) ==
    \/ proc'[p].os = proc[p].os /\ proc'[p].src = proc[p].src
    \/ proc[p].os = "free" /\ proc'[p].os \in {"live", "nostart"}
    \/ proc[p].os = "errored" /\ proc'[p].os = "free"

LEMMA ProgressKeeps ==
    ASSUME CommitsSeen, UNCHANGED <<stage, man>>, \A p \in Pids : Progress(p)
    PROVE  CommitsSeen'
<1>1. ASSUME NEW p \in Pids
      PROVE  /\ proc'[p].os \in {"free", "nostart", "errored"} => stage[p] = "building"
             /\ proc'[p].os = "exit0" => stage[p] = "committed"
             /\ stage[p] = "committed" => man[proc'[p].src]
  BY <1>1 DEF CommitsSeen, Progress
<1>2. QED
  BY <1>1 DEF CommitsSeen

LEMMA RequestProgress ==
    ASSUME IInv, NEW s \in Sources, Request(s) \/ Retry(s)
    PROVE  \A p \in Pids : Progress(p)
<1>1. CASE UNCHANGED proc
  BY <1>1 DEF Progress
<1>2. ASSUME NEW q \in Pids, NEW os \in {"live", "nostart"}, proc[q].os = "free",
             proc' = Spawned(proc, s, q, os)
      PROVE  \A p \in Pids : Progress(p)
  BY <1>2 DEF Spawned, Progress, IInv, TypeOK
<1>3. QED
  BY <1>1, <1>2 DEF Request, Retry, Admit, StartFrom

LEMMA OthersProgress ==
    ASSUME IInv,
           \/ \E s \in Sources : Cancel(s) \/ CooldownElapses(s)
           \/ \E p \in Pids : OnExitAfterError(p)
           \/ Shutdown \/ UNCHANGED poolVars
    PROVE  \A p \in Pids : Progress(p)
<1>1. CASE UNCHANGED proc
  BY <1>1 DEF Progress
<1>2. ASSUME NEW P, proc' = Terminated(proc, P) PROVE \A p \in Pids : Progress(p)
  BY <1>2 DEF Terminated, Progress, IInv, TypeOK
<1>3. ASSUME NEW q \in Pids, OnExitAfterError(q) PROVE \A p \in Pids : Progress(p)
  <2>1. proc[q].settled /\ proc[q].os = "errored"
    BY <1>3 DEF OnExitAfterError, IInv, SlotsMatchChildren
  <2>2. proc' = [proc EXCEPT ![q] = FreeProc]
    BY <1>3, <2>1 DEF OnExitAfterError, Settle, AlreadySettled
  <2>3. QED
    BY <2>1, <2>2 DEF Progress, FreeProc, IInv, TypeOK
<1>4. QED
  BY <1>1, <1>2, <1>3 DEF Cancel, CancelQueued, CancelRunning, CooldownElapses, Shutdown, poolVars

LEMMA SettleCommits ==
    ASSUME IInv, EntryInv, CommitsSeen, NEW p \in Pids, ChildSettles(p)
    PROVE  CommitsSeen'
<1>1. /\ proc \in [Pids -> [os : OsStates, src : Sources \cup {NoSource},
                            term : BOOLEAN, settled : BOOLEAN]]
      /\ stage \in [Pids -> Stages]
      /\ stage' = [stage EXCEPT ![p] = "building"] /\ UNCHANGED man
  BY DEF IInv, TypeOK, EntryInv, EntryTypeOK, ChildSettles
<1>2. ~proc[p].settled
  <2>1. proc[p].os \notin {"free", "errored"}
    BY DEF ChildSettles, OnExit, OnError
  <2>2. proc[p].src \in Running /\ running[proc[p].src] = p
    BY <2>1, AbsentAssumption DEF IInv, SlotsMatchChildren, Running
  <2>3. QED
    BY <2>2 DEF IInv, SlotsMatchChildren
<1>3. PICK failed, r : /\ Settle(p, failed, r)
                       /\ r.os \in {"free", "errored"}
  <2>1. CASE OnExit(p)
    <3>1. Settle(p, proc[p].os = "exitBad", FreeProc) /\ FreeProc.os = "free"
      BY <2>1 DEF OnExit, FreeProc
    <3>2. QED
      BY <3>1
  <2>2. CASE OnError(p)
    <3>1. PICK r : r = [proc[p] EXCEPT !.os = "errored", !.settled = TRUE]
      OBVIOUS
    <3>2. Settle(p, TRUE, r) /\ r.os = "errored"
      BY <1>1, <2>2, <3>1 DEF OnError
    <3>3. QED
      BY <3>2
  <2>3. QED
    BY <2>1, <2>2 DEF ChildSettles
<1> DEFINE procs == [proc EXCEPT ![p] = r]
<1>4. \/ proc' = procs
      \/ \E q \in Pids : \E s : \E os \in {"live", "nostart"} :
             procs[q].os = "free" /\ proc' = Spawned(procs, s, q, os)
  BY <1>2, <1>3 DEF Settle, AlreadySettled, StartNext, StartFrom
<1>5. ASSUME NEW u \in Pids, u # p
      PROVE  \/ proc'[u].os = proc[u].os /\ proc'[u].src = proc[u].src
             \/ proc[u].os = "free" /\ proc'[u].os \in {"live", "nostart"}
  BY <1>1, <1>4, <1>5 DEF Spawned
<1>6. proc'[p].os \in {"free", "errored", "live", "nostart"}
  BY <1>1, <1>3, <1>4 DEF Spawned
<1>7. ASSUME NEW u \in Pids
      PROVE  /\ proc'[u].os \in {"free", "nostart", "errored"} => stage'[u] = "building"
             /\ proc'[u].os = "exit0" => stage'[u] = "committed"
             /\ stage'[u] = "committed" => man'[proc'[u].src]
  BY <1>1, <1>5, <1>6 DEF CommitsSeen
<1>8. QED
  BY <1>7 DEF CommitsSeen

LEMMA CommitsStep ==
    ASSUME IInv, EntryInv, CommitsSeen, [Next]_vars
    PROVE  CommitsSeen'
<1>1. /\ proc \in [Pids -> [os : OsStates, src : Sources \cup {NoSource},
                            term : BOOLEAN, settled : BOOLEAN]]
      /\ stage \in [Pids -> Stages] /\ man \in [Sources -> BOOLEAN]
      /\ \A p \in Pids : proc[p].os = "live" => proc[p].src \in Sources
  BY DEF IInv, TypeOK, SlotsMatchChildren, EntryInv, EntryTypeOK
<1>2. ASSUME UNCHANGED <<stage, man>>,
             \/ \E s \in Sources : Request(s) \/ Retry(s) \/ Cancel(s) \/ CooldownElapses(s)
             \/ \E p \in Pids : OnExitAfterError(p)
             \/ Shutdown \/ UNCHANGED poolVars
      PROVE  CommitsSeen'
  BY <1>2, RequestProgress, OthersProgress, ProgressKeeps
<1>3. ASSUME NEW p \in Pids, RenameAside(p) \/ RenameIn(p) PROVE CommitsSeen'
  <2>1. PICK x \in {"aside", "swapped"} :
           stage' = [stage EXCEPT ![p] = x] /\ proc[p].os = "live" /\ UNCHANGED <<proc, man>>
    BY <1>3 DEF RenameAside, RenameIn, poolVars
  <2>2. QED
    BY <1>1, <2>1 DEF CommitsSeen
<1>4. ASSUME NEW p \in Pids, CommitManifest(p) PROVE CommitsSeen'
  BY <1>1, <1>4 DEF CommitManifest, poolVars, CommitsSeen
<1>5. ASSUME NEW p \in Pids, NEW os \in {"exit0", "exitBad"}, ChildDies(p, os) PROVE CommitsSeen'
  BY <1>1, <1>5 DEF ChildDies, ChildExits, entryVars, CommitsSeen
<1>6. ASSUME NEW t \in Touches, RequestMissing(t) PROVE CommitsSeen'
  <2>1. touch[t].src \in Sources /\ Request(touch[t].src) /\ UNCHANGED <<stage, man>>
    BY <1>6 DEF RequestMissing, EntryInv, TouchHasSource
  <2>2. QED
    BY <1>2, <2>1
<1>7. QED
  BY <1>2, <1>3, <1>4, <1>5, <1>6, SettleCommits
     DEF Next, vars, entryVars, ensureDiskBacked, requestBuild, cancelBuild, CooldownOver,
         ManifestSampled, LoadEntry, OpenSucceeds, OpenFails, LateExit, Close, CloseIndexes

(* A settle moves no build but its own out of the pool: a source that was  *)
(* queued is queued still, or has taken the slot.                          *)
LEMMA SettleEndsOne ==
    ASSUME IInv, NEW p \in Pids, OnExit(p) \/ OnError(p),
           NEW u \in Sources, u # proc[p].src, isBuilding(u)
    PROVE  isBuilding(u)'
<1> DEFINE s == proc[p].src
           slots == [running EXCEPT ![s] = NoPid]
<1>1. /\ running \in [Sources -> Pids \cup {NoPid}] /\ queue \in Seq(Sources)
      /\ NoPid \notin Pids
  BY AbsentAssumption DEF IInv, TypeOK
<1>2. ~proc[p].settled
  <2>1. proc[p].os \notin {"free", "errored"}
    BY DEF OnExit, OnError
  <2>2. s \in Running /\ running[s] = p
    BY <2>1, AbsentAssumption DEF IInv, SlotsMatchChildren, Running
  <2>3. QED
    BY <2>2 DEF IInv, SlotsMatchChildren
<1>3. PICK procs : StartNext(procs, slots)
  BY <1>2 DEF OnExit, OnError, Settle, AlreadySettled
<1>4. slots[u] = running[u] /\ slots \in [Sources -> Pids \cup {NoPid}]
  BY <1>1
<1> HIDE DEF slots
<1>5. CASE running' = slots /\ UNCHANGED queue
  BY <1>4, <1>5 DEF isBuilding
<1>6. ASSUME queue # <<>>, StartFrom(procs, slots, Head(queue)), queue' = Tail(queue)
      PROVE  isBuilding(u)'
  <2>1. PICK q \in Pids : running' = [slots EXCEPT ![Head(queue)] = q]
    BY <1>6 DEF StartFrom
  <2>2. CASE u = Head(queue)
    BY <1>1, <1>4, <2>1, <2>2 DEF isBuilding
  <2>3. CASE u # Head(queue) /\ running[u] # NoPid
    BY <1>4, <2>1, <2>3 DEF isBuilding
  <2>4. CASE u # Head(queue) /\ Contains(queue, u)
    <3>1. /\ Head(queue) = queue[1] /\ Tail(queue) \in Seq(Sources)
          /\ Len(Tail(queue)) = Len(queue) - 1 /\ Len(queue) \in Nat \ {0}
          /\ \A k \in 1 .. Len(queue) - 1 : Tail(queue)[k] = queue[k + 1]
      BY <1>1, <1>6, TailElements
    <3>2. PICK k \in DOMAIN queue : queue[k] = u
      BY <1>1, <2>4, ContainsElement
    <3>3. k \in 1 .. Len(queue) /\ k # 1
      BY <1>1, <2>4, <3>1, <3>2, LenProperties
    <3>4. k - 1 \in 1 .. Len(queue) - 1 /\ (k - 1) + 1 = k
      BY <3>1, <3>3
    <3>5. k - 1 \in DOMAIN Tail(queue) /\ Tail(queue)[k - 1] = u
      BY <3>1, <3>2, <3>4, LenProperties
    <3>6. Contains(Tail(queue), u)
      BY <3>1, <3>5, ContainsElement
    <3>7. QED
      BY <1>6, <3>6 DEF isBuilding
  <2>5. QED
    BY <2>2, <2>3, <2>4 DEF isBuilding
<1>7. QED
  BY <1>3, <1>5, <1>6 DEF StartNext

(* Nothing else ends the build of a source that was not merely queued.     *)
LEMMA OthersEndNothing ==
    ASSUME IInv, NEW u \in Sources, isBuilding(u), ~Contains(queue, u),
           \/ \E s \in Sources : Request(s) \/ Retry(s) \/ Cancel(s) \/ CooldownElapses(s)
           \/ \E p \in Pids : OnExitAfterError(p)
           \/ \E p \in Pids, os \in {"exit0", "exitBad"} : ChildExits(p, os)
           \/ Shutdown \/ UNCHANGED poolVars
    PROVE  running'[u] # NoPid
<1>1. running[u] # NoPid /\ running \in [Sources -> Pids \cup {NoPid}] /\ NoPid \notin Pids
  BY AbsentAssumption DEF isBuilding, IInv, TypeOK
<1>2. CASE UNCHANGED running
  BY <1>1, <1>2
<1>3. ASSUME NEW s \in Sources, NEW q \in Pids, running' = [running EXCEPT ![s] = q]
      PROVE  running'[u] # NoPid
  BY <1>1, <1>3
<1>4. ASSUME NEW s \in Sources, Request(s) \/ Retry(s) PROVE running'[u] # NoPid
  BY <1>2, <1>3, <1>4 DEF Request, Retry, Admit, StartFrom
<1>5. ASSUME NEW p \in Pids, OnExitAfterError(p) PROVE UNCHANGED running
  BY <1>5 DEF OnExitAfterError, Settle, AlreadySettled, IInv, SlotsMatchChildren
<1>6. QED
  BY <1>2, <1>4, <1>5 DEF Cancel, CancelQueued, CancelRunning, CooldownElapses, ChildExits,
                          Shutdown, poolVars

LEMMA EndIsVisible ==
    ASSUME IInv, EntryInv, CommitsSeen, [Next]_vars, NEW s \in Sources,
           isBuilding(s), ~BuildingNext(s), lastError'[s] = "none",
           s \notin cancelling, ~Contains(queue, s)
    PROVE  man'[s]
<1>1. PICK p \in Pids : ChildSettles(p)
  <2>1. ASSUME \/ \E u \in Sources : Request(u) \/ Retry(u) \/ Cancel(u) \/ CooldownElapses(u)
               \/ \E p \in Pids : OnExitAfterError(p)
               \/ \E p \in Pids, os \in {"exit0", "exitBad"} : ChildExits(p, os)
               \/ Shutdown \/ UNCHANGED poolVars
        PROVE  FALSE
    BY <2>1, OthersEndNothing DEF BuildingNext
  <2>2. ASSUME NEW t \in Touches, RequestMissing(t) PROVE FALSE
    <3>1. touch[t].src \in Sources /\ Request(touch[t].src)
      BY <2>2 DEF RequestMissing, EntryInv, TouchHasSource
    <3>2. QED
      BY <2>1, <3>1
  <2>3. QED
    BY <2>1, <2>2
       DEF Next, vars, ensureDiskBacked, requestBuild, cancelBuild, CooldownOver, ManifestSampled,
           LoadEntry, OpenSucceeds, OpenFails, LateExit, RenameAside, RenameIn, CommitManifest,
           ChildDies, Close, CloseIndexes
<1>2. (OnExit(p) \/ OnError(p)) /\ onSettle(proc[p].src, Outcome(proc[p].src, proc[p].os # "exit0"))
      /\ UNCHANGED man
  BY <1>1 DEF ChildSettles
<1>3. s = proc[p].src
  BY <1>2, SettleEndsOne DEF BuildingNext, isBuilding
<1>4. proc[p].os = "exit0"
  BY <1>2, <1>3 DEF onSettle, Outcome, EntryInv, EntryTypeOK
<1>5. QED
  BY <1>2, <1>3, <1>4 DEF CommitsSeen

(* The end of a build that nobody cancelled and that did not fail leaves   *)
(* its source with a manifest.                                             *)
THEOREM GoodBuildsAreVisible == Spec => SuccessIsVisible
<1>1. Init => CommitsSeen
  BY DEF Init, PoolInit, FreeProc, CommitsSeen
<1>2. IInv /\ EntryInv /\ CommitsSeen /\ [Next]_vars => CommitsSeen'
  BY CommitsStep
<1>3. IInv /\ EntryInv /\ CommitsSeen /\ [Next]_vars =>
        \A s \in Sources :
          isBuilding(s) /\ ~BuildingNext(s) /\ lastError'[s] = "none"
              /\ s \notin cancelling /\ ~Contains(queue, s)
              => man'[s]
  BY EndIsVisible
<1>4. QED
  BY <1>1, <1>2, <1>3, EntryInductive, PTL DEF Spec, SuccessIsVisible
=============================================================================
