------------------------- MODULE WorkerEntryProofs --------------------------
(***************************************************************************)
(* The main thread's mirror of its worker-resident entries never waits for *)
(* a load that nobody will settle, and an unload is final, for every set   *)
(* of sources, requests and workers.                                       *)
(*                                                                         *)
(* The argument is about the epochs: a memoised load is one whose call was *)
(* made in the current epoch and is still awaited, so its outcome is not   *)
(* taken for one that an unload superseded; and what a reclaim drops from  *)
(* the mirror (the sources ever routed to the index) covers what the pool  *)
(* drops from its loads (those the index is assigned).                     *)
(***************************************************************************)
EXTENDS WorkerEntry, QueryFreshProofs

Shapes ==
    /\ memo = [s \in Sources |-> memo[s]]
    /\ epoch = [s \in Sources |-> epoch[s]]
    /\ calls = [s \in Sources |-> calls[s]]
    /\ client = [r \in Requests |-> client[r]]
    /\ \A r \in Requests :
          client[r] = [at |-> client[r].at, src |-> client[r].src, seen |-> client[r].seen]
    /\ workers = [i \in Indexes |-> workers[i]]
    /\ routed = [i \in Indexes |-> routed[i]]

(* The load that the memo of s stands for.                                 *)
Awaited(s) ==
    /\ memo[s] \in {"none", "inflight", "ok"}
    /\ epoch[s] \in Nat
    /\ \A n \in calls[s] : n \in Nat /\ n <= epoch[s]
    /\ calls[s] # {} => s \in loads
    /\ memo[s] = "inflight" <=> epoch[s] \in calls[s]

EntryInv ==
    /\ Shapes
    /\ \A s \in Sources : Awaited(s)
    /\ \A r \in Requests :
          /\ client[r].at = "waiting" => client[r].src \in loads
          /\ client[r].at \in {"waiting", "ready"} => client[r].src \in Sources
    /\ \A i \in Indexes : \A s \in routed[i] : Assign[s] = i

-----------------------------------------------------------------------------
LEMMA PostRoutes ==
    ASSUME EntryInv, NEW s \in Sources, NEW msgs, Post(s, msgs)
    PROVE  /\ workers' = [i \in Indexes |-> workers'[i]]
           /\ routed' = [i \in Indexes |-> routed'[i]]
           /\ \A i \in Indexes : \A x \in routed'[i] : Assign[x] = i
<1>1. /\ workers = [i \in Indexes |-> workers[i]] /\ routed = [i \in Indexes |-> routed[i]]
      /\ \A i \in Indexes : \A x \in routed[i] : Assign[x] = i
  BY DEF EntryInv, Shapes
<1>2. routed' = [routed EXCEPT ![Assign[s]] = @ \cup {s}]
  BY DEF Post
<1>3. workers' = workers \/ \E w : workers' = [workers EXCEPT ![Assign[s]] = w]
  BY DEF Post
<1>4. workers' = [i \in Indexes |-> workers'[i]]
  BY <1>1, <1>3
<1>5. routed' = [i \in Indexes |-> IF i = Assign[s] THEN routed[i] \cup {s} ELSE routed[i]]
  BY <1>1, <1>2
<1>6. QED
  BY <1>1, <1>4, <1>5

(* A load that is begun is in flight in the current epoch.                 *)
LEMMA BeginKeeps ==
    ASSUME EntryInv, NEW s \in Sources, NEW before, BeginLoad(s, before), UNCHANGED epoch
    PROVE  /\ memo' = [x \in Sources |-> memo'[x]] /\ calls' = [x \in Sources |-> calls'[x]]
           /\ \A x \in Sources : Awaited(x)'
           /\ loads \subseteq loads' /\ s \in loads' /\ memo'[s] = "inflight"
<1>1. /\ memo = [x \in Sources |-> memo[x]] /\ calls = [x \in Sources |-> calls[x]]
      /\ \A x \in Sources : Awaited(x)
  BY DEF EntryInv, Shapes
<1>2. /\ memo' = [memo EXCEPT ![s] = "inflight"]
      /\ calls' = [calls EXCEPT ![s] = @ \cup {epoch[s]}]
      /\ loads' = loads \cup {s}
  BY DEF BeginLoad
<1>3. /\ memo' = [x \in Sources |-> IF x = s THEN "inflight" ELSE memo[x]]
      /\ calls' = [x \in Sources |-> IF x = s THEN calls[s] \cup {epoch[s]} ELSE calls[x]]
  BY <1>1, <1>2
<1>4. \A x \in Sources : Awaited(x)'
  BY <1>1, <1>2, <1>3 DEF Awaited
<1>5. QED
  BY <1>2, <1>3, <1>4

(* The loads that settle leave the mirror together with their calls.       *)
LEMMA SettleKeeps ==
    ASSUME EntryInv, NEW ok, NEW R, LoadsSettle(loads \ loads', ok, R), loads' \subseteq loads,
           \A s \in R : s \in loads => s \notin loads',
           UNCHANGED routed, workers' = [i \in Indexes |-> workers'[i]]
    PROVE  /\ EntryInv'
           /\ \A s \in Sources : s \notin current /\ memo[s] = "none"
                                  => s \notin current' /\ memo'[s] = "none"
<1> DEFINE L == loads \ loads'
           mine == {s \in L : ~Supersedes(s)}
<1>1. /\ \A s \in Sources : Awaited(s)
      /\ \A r \in Requests : client[r].at = "waiting" =>
            client[r].src \in loads /\ client[r].src \in Sources
  BY DEF EntryInv
<1>2. /\ epoch' = epoch
      /\ calls' = [s \in Sources |-> IF s \in L THEN {} ELSE calls[s]]
      /\ memo' = [s \in Sources |->
                    CASE s \in mine \cap ok -> "ok"
                      [] s \in (mine \ ok) \cup R -> "none"
                      [] OTHER -> memo[s]]
      /\ current' = (current \ R) \cup (mine \cap ok)
  BY DEF LoadsSettle
<1>3. \A s \in Sources : Awaited(s)'
  <2>1. SUFFICES ASSUME NEW s \in Sources PROVE Awaited(s)'
    OBVIOUS
  <2>2. Awaited(s) /\ memo'[s] \in {"ok", "none", memo[s]}
    BY <1>1, <1>2
  <2>3. CASE s \in L
    <3>1. calls'[s] = {}
      BY <1>2, <2>3
    <3>2. memo'[s] # "inflight"
      BY <1>2, <2>2, <2>3 DEF Awaited, Supersedes
    <3>3. QED
      BY <1>2, <2>2, <3>1, <3>2 DEF Awaited
  <2>4. CASE s \notin L
    <3>1. calls'[s] = calls[s] /\ memo'[s] = IF s \in R THEN "none" ELSE memo[s]
      BY <1>2, <2>4
    <3>2. s \in R => s \notin loads
      BY <2>4
    <3>3. QED
      BY <1>2, <2>2, <2>4, <3>1, <3>2 DEF Awaited
  <2>5. QED
    BY <2>3, <2>4
<1>4. /\ client' = [r \in Requests |-> client'[r]]
      /\ \A r \in Requests :
            /\ client'[r] = [at |-> client'[r].at, src |-> client'[r].src, seen |-> client'[r].seen]
            /\ client'[r].at = "waiting" => client'[r].src \in loads'
            /\ client'[r].at \in {"waiting", "ready"} => client'[r].src \in Sources
  <2> DEFINE settled(r) == [client[r] EXCEPT !.at = IF client[r].src \in ok THEN "ready" ELSE "refused"]
  <2>1. client' = [r \in Requests |->
                     IF client[r].at = "waiting" /\ client[r].src \in L THEN settled(r) ELSE client[r]]
    BY DEF LoadsSettle
  <2>2. \A r \in Requests :
          /\ settled(r) = [at |-> settled(r).at, src |-> settled(r).src, seen |-> settled(r).seen]
          /\ settled(r).at # "waiting" /\ settled(r).src = client[r].src
    BY DEF EntryInv, Shapes
  <2>3. \A r \in Requests :
          /\ client[r] = [at |-> client[r].at, src |-> client[r].src, seen |-> client[r].seen]
          /\ client[r].at \in {"waiting", "ready"} => client[r].src \in Sources
    BY DEF EntryInv, Shapes
  <2> HIDE DEF settled
  <2>4. QED
    BY <1>1, <2>1, <2>2, <2>3
<1>5. Shapes'
  BY <1>2, <1>4 DEF EntryInv, Shapes
<1>6. EntryInv'
  BY <1>3, <1>4, <1>5 DEF EntryInv
<1>7. ASSUME NEW s \in Sources, s \notin current, memo[s] = "none"
      PROVE  s \notin current' /\ memo'[s] = "none"
  <2>1. s \notin mine
    BY <1>1, <1>7 DEF Awaited, Supersedes
  <2>2. QED
    <3> HIDE DEF mine
    <3>1. QED
      BY <1>2, <1>7, <2>1
<1>8. QED
  BY <1>6, <1>7

-----------------------------------------------------------------------------
(* A source that is unloaded stays unloaded, unless it is loaded again.     *)
Stays(s) ==
    s \notin current /\ memo[s] = "none" /\ memo'[s] # "inflight"
        => s \notin current' /\ memo'[s] = "none"

LEMMA NoEntryChange ==
    ASSUME EntryInv, UNCHANGED <<memo, current, epoch, calls, client, loads, routed>>,
           workers' = [i \in Indexes |-> workers'[i]]
    PROVE  EntryInv' /\ \A s \in Sources : Stays(s)
<1>1. Shapes'
  BY DEF EntryInv, Shapes
<1>2. \A s \in Sources : Awaited(s)'
  BY DEF EntryInv, Awaited
<1>3. QED
  BY <1>1, <1>2 DEF EntryInv, Stays

LEMMA TouchKeeps ==
    ASSUME EntryInv, NEW r \in Requests, NEW s \in Sources, Touch(r, s)
    PROVE  EntryInv' /\ \A x \in Sources : Stays(x)
<1> DEFINE phase == IF memo[s] = "ok" THEN "ready" ELSE "waiting"
           asking == [at |-> phase, src |-> s, seen |-> seen[s]]
<1>1. client' = [client EXCEPT ![r] = asking] /\ UNCHANGED <<epoch, current>>
  BY DEF Touch
<1>2. asking.at = phase /\ asking.src = s
      /\ asking = [at |-> asking.at, src |-> asking.src, seen |-> asking.seen]
  OBVIOUS
<1>3. client' = [x \in Requests |-> IF x = r THEN asking ELSE client[x]]
  BY <1>1 DEF EntryInv, Shapes
<1>4. CASE memo[s] = "none"
  <2>1. BeginLoad(s, <<>>)
    BY <1>4 DEF Touch
  <2>2. /\ memo' = [x \in Sources |-> memo'[x]] /\ calls' = [x \in Sources |-> calls'[x]]
        /\ \A x \in Sources : Awaited(x)'
        /\ loads \subseteq loads' /\ s \in loads' /\ memo'[s] = "inflight"
    BY <1>1, <2>1, BeginKeeps
  <2>3. \E msgs : Post(s, msgs)
    BY <2>1 DEF BeginLoad
  <2>4. /\ workers' = [i \in Indexes |-> workers'[i]] /\ routed' = [i \in Indexes |-> routed'[i]]
        /\ \A i \in Indexes : \A x \in routed'[i] : Assign[x] = i
    BY <2>3, PostRoutes
  <2>5. \A x \in Sources : x # s => memo'[x] = memo[x]
    BY <2>1 DEF BeginLoad, EntryInv, Shapes
  <2> HIDE DEF asking
  <2>6. EntryInv'
    BY <1>1, <1>2, <1>3, <2>2, <2>4 DEF EntryInv, Shapes
  <2>7. QED
    BY <1>1, <2>2, <2>5, <2>6 DEF Stays
<1>5. CASE memo[s] # "none"
  <2>1. UNCHANGED <<memo, calls, loads, routed, workers>>
    BY <1>5 DEF Touch
  <2>2. phase = "waiting" => s \in loads
    BY <1>5 DEF EntryInv, Awaited
  <2> HIDE DEF asking
  <2>3. \A x \in Sources : Awaited(x)'
    BY <1>1, <2>1 DEF EntryInv, Awaited
  <2>4. Shapes'
    BY <1>1, <1>2, <1>3, <2>1 DEF EntryInv, Shapes
  <2>5. \A x \in Requests :
          /\ client'[x].at = "waiting" => client'[x].src \in loads'
          /\ client'[x].at \in {"waiting", "ready"} => client'[x].src \in Sources
    BY <1>2, <1>3, <2>1, <2>2 DEF EntryInv
  <2>6. QED
    BY <1>1, <2>1, <2>3, <2>4, <2>5 DEF EntryInv, Stays
<1>6. QED
  BY <1>4, <1>5

LEMMA AskKeeps ==
    ASSUME EntryInv, NEW r \in Requests, NEW aborted \in BOOLEAN, Ask(r, aborted)
    PROVE  EntryInv' /\ \A x \in Sources : Stays(x)
<1> DEFINE asked == [client[r] EXCEPT !.at = "asked"]
<1>1. client' = [client EXCEPT ![r] = asked] /\ UNCHANGED <<memo, current, epoch, calls, loads>>
  BY DEF Ask, Query
<1>2. asked = [at |-> asked.at, src |-> asked.src, seen |-> asked.seen] /\ asked.at = "asked"
  BY DEF EntryInv, Shapes
<1> HIDE DEF asked
<1>3. client' = [x \in Requests |-> IF x = r THEN asked ELSE client[x]]
  BY <1>1 DEF EntryInv, Shapes
<1>4. client[r].src \in Sources /\ \E msgs : Post(client[r].src, msgs)
  BY DEF Ask, Query, EntryInv
<1>5. /\ workers' = [i \in Indexes |-> workers'[i]] /\ routed' = [i \in Indexes |-> routed'[i]]
      /\ \A i \in Indexes : \A x \in routed'[i] : Assign[x] = i
  BY <1>4, PostRoutes
<1>6. \A x \in Sources : Awaited(x)'
  BY <1>1 DEF EntryInv, Awaited
<1>7. QED
  BY <1>1, <1>2, <1>3, <1>5, <1>6 DEF EntryInv, Shapes, Stays

LEMMA OperatorKeeps ==
    ASSUME EntryInv, NEW s \in Sources, reload(s) \/ unload(s) \/ watcherFires(s)
    PROVE  EntryInv' /\ \A x \in Sources : Stays(x)
<1>1. CASE reload(s)
  <2>1. BeginLoad(s, InvalidateFirst(s)) /\ UNCHANGED <<epoch, current, client>>
    BY <1>1 DEF reload
  <2>2. /\ memo' = [x \in Sources |-> memo'[x]] /\ calls' = [x \in Sources |-> calls'[x]]
        /\ \A x \in Sources : Awaited(x)'
        /\ loads \subseteq loads' /\ memo'[s] = "inflight"
    BY <2>1, BeginKeeps
  <2>3. \E msgs : Post(s, msgs)
    BY <2>1 DEF BeginLoad
  <2>4. /\ workers' = [i \in Indexes |-> workers'[i]] /\ routed' = [i \in Indexes |-> routed'[i]]
        /\ \A i \in Indexes : \A x \in routed'[i] : Assign[x] = i
    BY <2>3, PostRoutes
  <2>5. \A x \in Sources : x # s => memo'[x] = memo[x]
    BY <2>1 DEF BeginLoad, EntryInv, Shapes
  <2>6. EntryInv'
    BY <2>1, <2>2, <2>4 DEF EntryInv, Shapes
  <2>7. QED
    BY <2>1, <2>2, <2>5, <2>6 DEF Stays
<1>2. CASE unload(s)
  <2>1. /\ memo' = [memo EXCEPT ![s] = "none"] /\ epoch' = [epoch EXCEPT ![s] = @ + 1]
        /\ current' = current \ {s} /\ UNCHANGED <<calls, client, loads, routed, workers>>
    BY <1>2 DEF unload, mainVars
  <2>2. /\ memo' = [x \in Sources |-> IF x = s THEN "none" ELSE memo[x]]
        /\ epoch' = [x \in Sources |-> IF x = s THEN epoch[s] + 1 ELSE epoch[x]]
    BY <2>1 DEF EntryInv, Shapes
  <2>3. \A x \in Sources : Awaited(x)
    BY DEF EntryInv
  <2>4. \A x \in Sources : Awaited(x)'
    BY <2>1, <2>2, <2>3 DEF Awaited
  <2>5. Shapes'
    BY <2>1, <2>2 DEF EntryInv, Shapes
  <2>6. QED
    BY <2>1, <2>2, <2>4, <2>5 DEF EntryInv, Stays
<1>3. CASE watcherFires(s)
  <2>1. UNCHANGED <<memo, current, epoch, calls, client, loads, routed, workers>>
    BY <1>3 DEF watcherFires, mainVars
  <2>2. QED
    BY <2>1, NoEntryChange DEF EntryInv, Shapes
<1>4. QED
  BY <1>1, <1>2, <1>3

(* A message, the grace timer and an exit settle what they take out of the *)
(* pool's loads.                                                           *)
LEMMA LoopKeeps ==
    ASSUME EntryInv, \/ \E r \in Requests : Grace(r)
                     \/ \E w \in Workers : Message(w) \/ Exit(w)
    PROVE  EntryInv' /\ \A x \in Sources : Stays(x)
<1>1. ASSUME NEW w \in Workers, Message(w)
      PROVE  EntryInv' /\ \A x \in Sources : Stays(x)
  <2>1. loads' \subseteq loads /\ UNCHANGED <<routed, workers>>
    BY <1>1 DEF Message, onMessage
  <2>2. \E ok : LoadsSettle(loads \ loads', ok, {})
    BY <1>1 DEF Message
  <2>3. workers' = [i \in Indexes |-> workers'[i]]
    BY <2>1 DEF EntryInv, Shapes
  <2>4. QED
    BY <2>1, <2>2, <2>3, SettleKeeps DEF Stays
<1>2. ASSUME NEW i, reclaim(i), UNCHANGED routed, LoadsSettle(loads \ loads', {}, Reset)
      PROVE  EntryInv' /\ \A x \in Sources : Stays(x)
  <2>1. loads' = {s \in loads : Assign[s] # i}
    BY <1>2 DEF reclaim
  <2>2. PICK w : workers' = [workers EXCEPT ![i] = w]
    BY <1>2 DEF reclaim
  <2>3. /\ workers' = [j \in Indexes |-> workers'[j]]
        /\ \A j \in Indexes : j # i => workers'[j] = workers[j]
    BY <2>2 DEF EntryInv, Shapes
  <2>4. \A s \in Reset : Assign[s] = i
    BY <2>3 DEF Reset, Orphaned, EntryInv
  <2>5. QED
    BY <1>2, <2>1, <2>3, <2>4, SettleKeeps DEF Stays
<1>3. ASSUME NEW r \in Requests, Grace(r)
      PROVE  EntryInv' /\ \A x \in Sources : Stays(x)
  BY <1>2, <1>3 DEF Grace, GraceExpires
<1>4. ASSUME NEW w \in Workers, Exit(w)
      PROVE  EntryInv' /\ \A x \in Sources : Stays(x)
  <2>1. UNCHANGED routed /\ LoadsSettle(loads \ loads', {}, Reset)
    BY <1>4 DEF Exit, onWorkerExit
  <2>2. CASE \E i : reclaim(i)
    BY <1>2, <2>1, <2>2
  <2>3. CASE UNCHANGED <<workers, loads>>
    <3>1. Reset = {}
      BY <2>3 DEF Reset
    <3>2. workers' = [i \in Indexes |-> workers'[i]] /\ loads' \subseteq loads
      BY <2>3 DEF EntryInv, Shapes
    <3>3. QED
      BY <2>1, <3>1, <3>2, SettleKeeps DEF Stays
  <2>4. QED
    BY <1>4, <2>2, <2>3 DEF Exit, onWorkerExit
<1>5. QED
  BY <1>1, <1>3, <1>4

-----------------------------------------------------------------------------
LEMMA StepKeepsEntry ==
    ASSUME EntryInv, [Next]_vars
    PROVE  EntryInv' /\ \A s \in Sources : Stays(s)
<1>1. ASSUME UNCHANGED entryVars, UNCHANGED mainVars
      PROVE  EntryInv' /\ \A s \in Sources : Stays(s)
  BY <1>1, NoEntryChange DEF entryVars, mainVars, EntryInv, Shapes
<1>2. ASSUME NEW r \in Requests, Disconnect(r)
      PROVE  EntryInv' /\ \A s \in Sources : Stays(s)
  BY <1>2, NoEntryChange DEF Disconnect, onCancel, entryVars, EntryInv, Shapes
<1>3. ASSUME Close
      PROVE  EntryInv' /\ \A s \in Sources : Stays(s)
  BY <1>3, NoEntryChange DEF Close, shutdown, entryVars, EntryInv, Shapes
<1>4. ASSUME NEW w \in Workers, WorkerStep(w) \/ GetsStuck(w) \/ Dies(w)
      PROVE  UNCHANGED mainVars
  BY <1>4 DEF WorkerStep, Handles, handleLoad, handleQuery, handleCancel, handleInvalidate,
              BuildEnds, Built, BuildFails, RunEnds, QueryEnds, GetsStuck, Dies
<1>5. ASSUME NEW s \in Sources, Edit(s)
      PROVE  UNCHANGED mainVars
  BY <1>5 DEF Edit
<1>6. CASE Next
  BY <1>1, <1>2, <1>3, <1>4, <1>5, <1>6, TouchKeeps, AskKeeps, OperatorKeeps, LoopKeeps DEF Next
<1>7. CASE UNCHANGED vars
  BY <1>1, <1>7 DEF vars, poolVars
<1>8. QED
  BY <1>6, <1>7

(* The epochs, the calls that await a load and the pool's loads agree.     *)
THEOREM EntryInvariant == Spec => []EntryInv
<1>1. Init => EntryInv
  <2>1. SUFFICES ASSUME Init PROVE EntryInv
    OBVIOUS
  <2>2. NewClient = [at |-> NewClient.at, src |-> NewClient.src, seen |-> NewClient.seen]
        /\ NewClient.at = "idle"
    BY DEF NewClient
  <2>3. Shapes
    BY <2>1, <2>2 DEF Init, PoolInit, PoolStart, Shapes
  <2>4. QED
    BY <2>1, <2>2, <2>3 DEF Init, PoolInit, PoolStart, EntryInv, Awaited
<1>2. EntryInv /\ [Next]_vars => EntryInv'
  BY StepKeepsEntry
<1>3. QED
  BY <1>1, <1>2, PTL DEF Spec

(* A request never shares a promise that nothing will settle: not after an *)
(* unload during the load, a crash of the worker, a late reply of the one  *)
(* that was terminated.                                                    *)
THEOREM MemoAlwaysLive == Spec => []MemoIsLive
<1>1. EntryInv => MemoIsLive
  BY DEF EntryInv, Awaited, MemoIsLive, Supersedes
<1>2. QED
  BY <1>1, EntryInvariant, PTL

(* An unload is final until somebody asks for the source again: the reply  *)
(* of a load that was in flight brings back neither row nor memo.          *)
THEOREM UnloadIsFinal == Spec => UnloadStays
<1>1. EntryInv /\ [Next]_vars
        => [\A s \in Sources :
              s \notin current /\ memo[s] = "none" /\ memo'[s] # "inflight"
                  => s \notin current' /\ memo'[s] = "none"]_vars
  BY StepKeepsEntry DEF Stays
<1>2. QED
  BY <1>1, EntryInvariant, PTL DEF Spec, UnloadStays

-----------------------------------------------------------------------------
(***************************************************************************)
(* What the mirror takes for loaded is known to the worker.  The steps of  *)
(* the entries keep the pool's own invariants (PoolInv, CallsInv): a load  *)
(* in flight is carried by the current worker of its index.  So a reply,   *)
(* also the late one of a worker that was given up, settles a load whose   *)
(* recipe that current worker has (MirrorInv).                             *)
(***************************************************************************)
(* What loadEntryViaWorker posts.                                          *)
Begins(s, before) == before \o IF s \in loads THEN <<>> ELSE <<LoadMsg(s)>>

LEMMA BeginAsks ==
    ASSUME NEW s \in Sources, NEW before \in {<<>>, <<InvalidateMsg(s)>>}
    PROVE  /\ GoodIn(Begins(s, before)) /\ Begins(s, before) \in Seq({LoadMsg(s), InvalidateMsg(s)})
           /\ s \in loads \/ MessageFor(Begins(s, before), "load", s)
<1> DEFINE l == LoadMsg(s)
           v == InvalidateMsg(s)
<1>1. GoodAsk(l) /\ GoodAsk(v) /\ IsFor(l, "load", s)
  BY DEF GoodAsk, LoadMsg, InvalidateMsg, IsFor
<1> HIDE DEF l, v
<1>2. /\ <<>> \in Seq({l, v}) /\ <<l>> \in Seq({l, v})
      /\ <<v>> \in Seq({l, v}) /\ <<v>> \o <<l>> \in Seq({l, v})
  OBVIOUS
<1>3. <<>> \o <<>> = <<>> /\ <<>> \o <<l>> = <<l>> /\ <<v>> \o <<>> = <<v>>
  BY <1>2, ConcatEmptySeq
<1>4. GoodIn(<<>>) /\ GoodIn(<<l>>) /\ GoodIn(<<v>>) /\ GoodIn(<<v>> \o <<l>>)
  BY <1>1, AskSequences, ConcatAsks
<1>5. MessageFor(<<l>>, "load", s) /\ MessageFor(<<v>> \o <<l>>, "load", s)
  BY <1>1, <1>2, ForOne, ForConcat
<1>6. Begins(s, before) \in {<<>>, <<l>>, <<v>>, <<v>> \o <<l>>}
      /\ (s \notin loads => Begins(s, before) \in {<<l>>, <<v>> \o <<l>>})
  BY <1>3 DEF Begins, l, v
<1>7. QED
  BY <1>2, <1>4, <1>5, <1>6 DEF l, v

(* Loads and invalidates leave the pool's invariants in place.             *)
LEMMA BeginWires ==
    ASSUME PoolInv, CallsInv, ~shuttingDown, NEW s \in Sources,
           NEW before \in {<<>>, <<InvalidateMsg(s)>>}, BeginLoad(s, before),
           UNCHANGED <<query, shuttingDown, outbox, jobs, executing>>
    PROVE  PoolInv' /\ CallsInv'
<1> DEFINE msgs == Begins(s, before)
<1>1. /\ GoodIn(msgs) /\ msgs \in Seq({LoadMsg(s), InvalidateMsg(s)})
      /\ s \in loads \/ MessageFor(msgs, "load", s)
  BY BeginAsks
<1>2. loads' = loads \cup {s} /\ Post(s, msgs)
  BY DEF BeginLoad, Begins
<1> HIDE DEF msgs
<1>3. PoolInv'
  BY <1>1, <1>2, PostKeeps DEF PoolInv, BooksInv
<1>4. CallsInv'
  BY <1>1, <1>2, LoadWires
<1>5. QED
  BY <1>3, <1>4

(* The actions of the entries, as the pool sees them.                      *)
LEMMA EntryWires ==
    ASSUME PoolInv, CallsInv, EntryInv, [Next]_vars
    PROVE  PoolInv' /\ CallsInv'
<1>1. CASE [PoolNext]_poolVars
  BY <1>1, StepKeeps, StepWires DEF Good
<1>2. ASSUME NEW s \in Sources, NEW before \in {<<>>, <<InvalidateMsg(s)>>}, BeginLoad(s, before),
             UNCHANGED <<query, shuttingDown, outbox, storeVars>>, ~shuttingDown
      PROVE  PoolInv' /\ CallsInv'
  BY <1>2, BeginWires DEF storeVars
<1>3. ASSUME NEW s \in Sources, inbox' = Invalidated(s) \/ inbox' = inbox,
             UNCHANGED <<mainVars, thread, outbox, storeVars>>
      PROVE  PoolInv' /\ CallsInv'
  <2>1. UNCHANGED <<workers, query, loads, shuttingDown, thread, outbox, jobs, executing>>
    BY <1>3 DEF mainVars, storeVars
  <2>2. QED
    BY <1>3, <2>1, InvalidatedKeeps, InvalidatedWires
<1>4. ASSUME NEW r \in Requests, NEW s \in Sources, Touch(r, s)
      PROVE  PoolInv' /\ CallsInv'
  <2>1. CASE memo[s] = "none"
    BY <1>2, <1>4, <2>1 DEF Touch
  <2>2. CASE memo[s] # "none"
    BY <1>1, <1>4, <2>2 DEF Touch, poolVars, mainVars, portVars
  <2>3. QED
    BY <2>1, <2>2
<1>5. ASSUME NEW r \in Requests, NEW aborted \in BOOLEAN, Ask(r, aborted)
      PROVE  PoolInv' /\ CallsInv'
  <2>1. client[r].src \in Sources /\ ~shuttingDown /\ Query(r, client[r].src, aborted)
    BY <1>5 DEF Ask, EntryInv
  <2>2. QED
    BY <2>1, QueryKeeps, QueryWires
<1>6. ASSUME NEW s \in Sources, reload(s)
      PROVE  PoolInv' /\ CallsInv'
  <2>1. InvalidateFirst(s) \in {<<>>, <<InvalidateMsg(s)>>}
    BY DEF InvalidateFirst
  <2>2. QED
    BY <1>2, <1>6, <2>1 DEF reload
<1>7. ASSUME NEW s \in Sources, unload(s) \/ watcherFires(s)
      PROVE  PoolInv' /\ CallsInv'
  BY <1>3, <1>7 DEF unload, watcherFires
<1>8. ASSUME NEW r \in Requests, Disconnect(r) \/ Grace(r)
      PROVE  PoolInv' /\ CallsInv'
  BY <1>8, CancelKeeps, CancelWires, GraceKeeps, GraceWires DEF Disconnect, Grace
<1>9. ASSUME NEW w \in Workers, Message(w) \/ Exit(w)
      PROVE  PoolInv' /\ CallsInv'
  BY <1>9, MessageKeeps, MessageWires, ExitKeeps, ExitWires DEF Message, Exit
<1>10. CASE Close
  BY <1>10, ShutdownKeeps, ShutdownWires DEF Close
<1>11. ASSUME NEW w \in Workers, WorkerStep(w) \/ GetsStuck(w) \/ Dies(w)
       PROVE  PoolInv' /\ CallsInv'
  BY <1>1, <1>11 DEF PoolNext
<1>12. ASSUME NEW s \in Sources, Edit(s)
       PROVE  PoolInv' /\ CallsInv'
  BY <1>1, <1>12 DEF PoolNext
<1>13. CASE UNCHANGED vars
  BY <1>1, <1>13 DEF vars
<1>14. CASE Next
  BY <1>4, <1>5, <1>6, <1>7, <1>8, <1>9, <1>10, <1>11, <1>12, <1>14 DEF Next
<1>15. QED
  BY <1>13, <1>14

-----------------------------------------------------------------------------
(* A worker that builds a source, or has answered its load, has its recipe.*)
HasRecipes(w) ==
    /\ \A j \in DOMAIN jobs[w] : j.src \in recipes[w]
    /\ \A s : MessageFor(outbox[w], "load-reply", s) => s \in recipes[w]

RecipesInv == recipes = [w \in Workers |-> recipes[w]] /\ \A w \in Workers : HasRecipes(w)

(* The source is known to w, or about to be, or w is gone.                 *)
Known(w, s) == thread[w] = "dead" \/ s \in recipes[w] \/ MessageFor(inbox[w], "load", s)

(* What the main thread takes for loaded is known to the worker.           *)
MirrorInv ==
    /\ RecipesInv
    /\ current \subseteq Sources
    /\ \A s \in current \cup loads : s \in routed[Assign[s]]
    /\ ~shuttingDown =>
          \A s \in current : /\ workers[Assign[s]] \in Workers
                             /\ \A w \in Workers : w = workers[Assign[s]] => Known(w, s)

(* A worker that gets no more jobs and answers than it has recipes of.     *)
LEMMA RecipesStay ==
    ASSUME RecipesInv, recipes' = [w \in Workers |-> recipes'[w]],
           \A w \in Workers : recipes[w] \subseteq recipes'[w],
           \A w \in Workers : \A j \in DOMAIN jobs'[w] : j \in DOMAIN jobs[w] \/ j.src \in recipes'[w],
           \A w \in Workers : \A s : MessageFor(outbox'[w], "load-reply", s) =>
              MessageFor(outbox[w], "load-reply", s) \/ s \in recipes'[w]
    PROVE  RecipesInv'
<1>1. ASSUME NEW w \in Workers PROVE HasRecipes(w)'
  BY DEF RecipesInv, HasRecipes, MessageFor
<1>2. QED
  BY <1>1 DEF RecipesInv

(* A worker's step keeps what the source needs.                            *)
KeepsKnown == \A w \in Workers, s \in Sources : Known(w, s) => Known(w, s)'

LEMMA WorkerRecipes ==
    ASSUME PoolInv, CallsInv, RecipesInv, NEW w \in Workers, WorkerStep(w)
    PROVE  RecipesInv' /\ KeepsKnown
<1>0. \A x \in Workers : IsABag(jobs[x])
  BY DEF CallsInv, Wired
<1>1. thread' = thread /\ recipes = [x \in Workers |-> recipes[x]]
  BY DEF WorkerStep, Handles, handleLoad, handleQuery, handleCancel, handleInvalidate,
         BuildEnds, Built, BuildFails, RunEnds, QueryEnds, RecipesInv
<1>2. CASE handleLoad(w)
  <2> DEFINE m == Head(inbox[w])
             k == m.src
  <2>1. /\ m.type = "load" /\ Consume(w) /\ inbox[w] # <<>>
        /\ recipes' = [recipes EXCEPT ![w] = @ \cup {k}]
        /\ \/ Reply(w, LoadReply(k, TRUE)) /\ jobs' = jobs
           \/ Starts(w, k, NoRequest) /\ outbox' = outbox
    BY <1>2 DEF handleLoad, Receives
  <2>2. \A x \in Workers : \A type, what : MessageFor(inbox[x], type, what) =>
           MessageFor(inbox'[x], type, what) \/ (x = w /\ IsFor(m, type, what))
    BY <2>1, Consumes
  <2>3. \A what : IsFor(m, "load", what) => what = k
    BY DEF IsFor
  <2>4. \A what : IsFor(LoadReply(k, TRUE), "load-reply", what) => what = k
    BY DEF IsFor, LoadReply
  <2> HIDE DEF m, k
  <2>5. /\ recipes' = [x \in Workers |-> recipes'[x]] /\ k \in recipes'[w]
        /\ \A x \in Workers : recipes[x] \subseteq recipes'[x]
    BY <1>1, <2>1
  <2>6. /\ \A x \in Workers : \A j \in DOMAIN jobs'[x] : j \in DOMAIN jobs[x] \/ j.src \in recipes'[x]
        /\ \A x \in Workers : \A s : MessageFor(outbox'[x], "load-reply", s) =>
              MessageFor(outbox[x], "load-reply", s) \/ s \in recipes'[x]
    <3>1. CASE Reply(w, LoadReply(k, TRUE)) /\ jobs' = jobs
      <4>1. \A x \in Workers : \A type, what : MessageFor(outbox'[x], type, what)
               => MessageFor(outbox[x], type, what) \/ (x = w /\ IsFor(LoadReply(k, TRUE), type, what))
        BY <3>1, Replies
      <4>2. QED
        BY <2>4, <2>5, <3>1, <4>1
    <3>2. CASE Starts(w, k, NoRequest) /\ outbox' = outbox
      <4>1. \A x \in Workers : \A j \in DOMAIN jobs'[x] : j \in DOMAIN jobs[x] \/ (x = w /\ j.src = k)
        BY <1>0, <3>2, StartsOnly
      <4>2. QED
        BY <2>5, <3>2, <4>1
    <3>3. QED
      BY <2>1, <3>1, <3>2
  <2>7. RecipesInv'
    BY <2>5, <2>6, RecipesStay
  <2>8. KeepsKnown
    BY <1>1, <2>2, <2>3, <2>5 DEF KeepsKnown, Known
  <2>9. QED
    BY <2>7, <2>8
<1>3. ASSUME recipes' = recipes,
             \/ UNCHANGED inbox
             \/ Consume(w) /\ inbox[w] # <<>> /\ Head(inbox[w]).type # "load"
      PROVE  KeepsKnown
  <2>1. \A what : Head(inbox[w]).type # "load" => ~IsFor(Head(inbox[w]), "load", what)
    BY DEF IsFor
  <2>2. \A x \in Workers : \A what : MessageFor(inbox[x], "load", what) => MessageFor(inbox'[x], "load", what)
    BY <1>3, <2>1, Consumes
  <2>3. QED
    BY <1>1, <1>3, <2>2 DEF KeepsKnown, Known
<1>4. \A q, out, v, what : ~IsFor(ResultMsg(q, out, v), "load-reply", what)
  BY DEF IsFor, ResultMsg
<1>5. CASE handleQuery(w)
  <2> DEFINE c == Head(inbox[w]).req
             s == query[c].src
  <2>1. Head(inbox[w]).type = "query" /\ Consume(w) /\ inbox[w] # <<>> /\ recipes' = recipes
    BY <1>5 DEF handleQuery, Receives
  <2>2. \/ UNCHANGED <<jobs, outbox>>
        \/ Reply(w, ResultMsg(c, "error", 0)) /\ jobs' = jobs
        \/ s \in recipes[w] /\ Starts(w, s, c) /\ outbox' = outbox
    BY <1>5 DEF handleQuery
  <2> HIDE DEF c, s
  <2>3. RecipesInv'
    BY <1>0, <1>1, <1>4, <2>1, <2>2, Replies, StartsOnly, RecipesStay
  <2>4. QED
    BY <1>3, <2>1, <2>3
<1>6. CASE handleCancel(w) \/ handleInvalidate(w)
  <2>1. /\ Head(inbox[w]).type # "load" /\ Consume(w) /\ inbox[w] # <<>>
        /\ UNCHANGED <<recipes, jobs, outbox>>
    BY <1>6 DEF handleCancel, handleInvalidate, Receives, storeVars
  <2>2. RecipesInv'
    BY <1>1, <2>1, RecipesStay
  <2>3. QED
    BY <1>3, <2>1, <2>2
<1>7. ASSUME NEW j, Built(w, j) \/ BuildFails(w, j)
      PROVE  RecipesInv' /\ KeepsKnown
  <2>1. Finishes(w, j) /\ UNCHANGED <<inbox, recipes>>
    BY <1>7 DEF Built, BuildFails
  <2>2. j \in DOMAIN jobs[w] /\ \A x \in Workers : DOMAIN jobs'[x] \subseteq DOMAIN jobs[x]
    BY <1>0, <2>1, FinishesOnly
  <2>3. \/ outbox' = outbox
        \/ \E ok : Reply(w, LoadReply(j.src, ok))
        \/ Reply(w, ResultMsg(j.req, "error", 0))
    BY <1>7 DEF Built, BuildFails
  <2>4. \A ok, what : IsFor(LoadReply(j.src, ok), "load-reply", what) => what = j.src
    BY DEF IsFor, LoadReply
  <2>5. j.src \in recipes'[w]
    BY <2>1, <2>2 DEF RecipesInv, HasRecipes
  <2>6. RecipesInv'
    <3>1. \A x \in Workers : \A what : MessageFor(outbox'[x], "load-reply", what) =>
             MessageFor(outbox[x], "load-reply", what) \/ what \in recipes'[x]
      <4>1. CASE outbox' = outbox
        BY <4>1
      <4>2. ASSUME NEW ok, Reply(w, LoadReply(j.src, ok))
            PROVE  \A x \in Workers : \A what : MessageFor(outbox'[x], "load-reply", what) =>
                      MessageFor(outbox[x], "load-reply", what) \/ what \in recipes'[x]
        BY <2>4, <2>5, <4>2, Replies
      <4>3. CASE Reply(w, ResultMsg(j.req, "error", 0))
        BY <1>4, <4>3, Replies
      <4>4. QED
        BY <2>3, <4>1, <4>2, <4>3
    <3>2. \A x \in Workers : \A i \in DOMAIN jobs'[x] : i \in DOMAIN jobs[x]
      BY <2>2
    <3>3. recipes' = [x \in Workers |-> recipes'[x]] /\ \A x \in Workers : recipes[x] \subseteq recipes'[x]
      BY <2>1 DEF RecipesInv
    <3>4. QED
      BY <3>1, <3>2, <3>3, RecipesStay
  <2>7. QED
    BY <1>3, <2>1, <2>6
<1>8. ASSUME NEW e, NEW out, QueryEnds(w, e, out)
      PROVE  RecipesInv' /\ KeepsKnown
  <2>1. UNCHANGED <<inbox, recipes, jobs>> /\ Reply(w, ResultMsg(e.req, out, e.ver))
    BY <1>8 DEF QueryEnds
  <2>2. RecipesInv'
    BY <1>1, <1>4, <2>1, Replies, RecipesStay
  <2>3. QED
    BY <1>3, <2>1, <2>2
<1>9. QED
  BY <1>2, <1>5, <1>6, <1>7, <1>8 DEF WorkerStep, Handles, BuildEnds, RunEnds

-----------------------------------------------------------------------------
(* A step that drops no worker and adds no source to the mirror.           *)
LEMMA MirrorKept ==
    ASSUME MirrorInv, RecipesInv', current' \subseteq current,
           \A s \in loads' : s \in routed'[Assign[s]],
           \A s \in current : s \in routed'[Assign[s]],
           ~shuttingDown' => ~shuttingDown,
           \A i \in Indexes : workers[i] \in Workers => workers'[i] = workers[i],
           \A w \in Workers, s \in Sources :
              (\E i \in Indexes : w = workers[i]) /\ Known(w, s) => Known(w, s)'
    PROVE  MirrorInv'
<1>1. ASSUME ~shuttingDown', NEW s \in current'
      PROVE  /\ workers'[Assign[s]] \in Workers
             /\ \A w \in Workers : w = workers'[Assign[s]] => Known(w, s)'
  <2>1. s \in current /\ s \in Sources /\ ~shuttingDown /\ Assign[s] \in Indexes
    BY <1>1, AssignAssumption DEF MirrorInv
  <2>2. workers[Assign[s]] \in Workers /\ workers'[Assign[s]] = workers[Assign[s]]
    BY <2>1 DEF MirrorInv
  <2>3. \A w \in Workers : w = workers[Assign[s]] => Known(w, s) /\ \E i \in Indexes : w = workers[i]
    BY <2>1 DEF MirrorInv
  <2>4. QED
    BY <2>1, <2>2, <2>3
<1>2. QED
  BY <1>1 DEF MirrorInv

(* Nothing is lost from the inboxes when more is posted.                   *)
LEMMA PostKnows ==
    ASSUME PoolInv, CallsInv, ~shuttingDown, NEW s \in Sources,
           NEW S, NEW msgs \in Seq(S), Post(s, msgs), recipes' = recipes
    PROVE  /\ \A i \in Indexes : workers[i] \in Workers => workers'[i] = workers[i]
           /\ \A w \in Workers, x \in Sources :
                 (\E i \in Indexes : w = workers[i]) /\ Known(w, x) => Known(w, x)'
<1>1. \A i \in Indexes : workers[i] # NoWorker =>
         /\ workers'[i] = workers[i] /\ thread'[workers[i]] = thread[workers[i]]
         /\ \A type, what : MessageFor(inbox[workers[i]], type, what)
               => MessageFor(inbox'[workers[i]], type, what)
  BY PostWires
<1>2. QED
  BY <1>1, AbsentAssumption DEF Known

LEMMA PostRoutesIt ==
    ASSUME EntryInv, NEW s \in Sources, NEW msgs, Post(s, msgs)
    PROVE  s \in routed'[Assign[s]] /\ \A i \in Indexes : routed[i] \subseteq routed'[i]
<1>1. routed' = [routed EXCEPT ![Assign[s]] = @ \cup {s}] /\ routed = [i \in Indexes |-> routed[i]]
  BY DEF Post, EntryInv, Shapes
<1>2. QED
  BY <1>1, AssignAssumption

(* The callers of the pool and the operators.                              *)
LEMMA PostMirrors ==
    ASSUME PoolInv, CallsInv, EntryInv, MirrorInv, ~shuttingDown, NEW s \in Sources,
           NEW S, NEW msgs \in Seq(S), Post(s, msgs), loads' = loads \/ loads' = loads \cup {s},
           UNCHANGED <<shuttingDown, current, outbox, storeVars>>
    PROVE  MirrorInv'
<1>1. recipes' = recipes /\ jobs' = jobs
  BY DEF storeVars
<1>2. RecipesInv'
  BY <1>1 DEF MirrorInv, RecipesInv, HasRecipes, MessageFor
<1>3. /\ s \in routed'[Assign[s]] /\ \A i \in Indexes : routed[i] \subseteq routed'[i]
      /\ loads \subseteq Sources
  BY PostRoutesIt DEF CallsInv, Wired
<1>4. /\ \A x \in loads' : x \in routed'[Assign[x]]
      /\ \A x \in current : x \in routed'[Assign[x]]
  BY <1>3, AssignAssumption DEF MirrorInv
<1>5. /\ \A i \in Indexes : workers[i] \in Workers => workers'[i] = workers[i]
      /\ \A w \in Workers, x \in Sources :
            (\E i \in Indexes : w = workers[i]) /\ Known(w, x) => Known(w, x)'
  BY <1>1, PostKnows
<1>6. QED
  BY <1>2, <1>4, <1>5, MirrorKept

LEMMA BeginMirrors ==
    ASSUME PoolInv, CallsInv, EntryInv, MirrorInv, ~shuttingDown, NEW s \in Sources,
           NEW before \in {<<>>, <<InvalidateMsg(s)>>}, BeginLoad(s, before),
           UNCHANGED <<shuttingDown, current, outbox, storeVars>>
    PROVE  MirrorInv'
<1> DEFINE msgs == Begins(s, before)
           S == {LoadMsg(s), InvalidateMsg(s)}
<1>1. msgs \in Seq(S)
  BY BeginAsks
<1>2. loads' = loads \cup {s} /\ Post(s, msgs)
  BY DEF BeginLoad, Begins
<1> HIDE DEF msgs, S
<1>3. QED
  BY <1>1, <1>2, PostMirrors

LEMMA QueryMirrors ==
    ASSUME PoolInv, CallsInv, EntryInv, MirrorInv, ~shuttingDown, NEW r \in Requests,
           NEW s \in Sources, NEW aborted \in BOOLEAN, Query(r, s, aborted), UNCHANGED current
    PROVE  MirrorInv'
<1> DEFINE m == QueryMsg(r)
           n == CancelMsg(r)
           msgs == IF aborted THEN <<m, n>> ELSE <<m>>
<1>1. msgs \in Seq({m, n})
  <2>1. <<m>> \in Seq({m, n}) /\ <<m, n>> \in Seq({m, n})
    OBVIOUS
  <2>2. QED
    BY <2>1
<1>2. Post(s, msgs) /\ UNCHANGED <<loads, shuttingDown, outbox, storeVars>>
  BY DEF Query
<1> HIDE DEF msgs, m, n
<1>3. QED
  BY <1>1, <1>2, PostMirrors

(* A step that keeps the workers, their stores and their messages, or      *)
(* appends one.                                                            *)
LEMMA MoreMirrors ==
    ASSUME PoolInv, MirrorInv, UNCHANGED <<workers, loads, routed, outbox, storeVars>>,
           current' \subseteq current, ~shuttingDown' => ~shuttingDown,
           inbox' = inbox \/ \E w, m : inbox' = [inbox EXCEPT ![w] = Append(@, m)],
           \A w \in Workers : thread[w] = "dead" => thread'[w] = "dead"
    PROVE  MirrorInv'
<1>1. recipes' = recipes /\ jobs' = jobs
  BY DEF storeVars
<1>2. RecipesInv'
  BY <1>1 DEF MirrorInv, RecipesInv, HasRecipes, MessageFor
<1>3. \A x \in Workers : \A type, what : MessageFor(inbox[x], type, what) => MessageFor(inbox'[x], type, what)
  BY MoreCarries
<1>4. \A w \in Workers, s \in Sources : Known(w, s) => Known(w, s)'
  BY <1>1, <1>3 DEF Known
<1>5. QED
  BY <1>2, <1>4, MirrorKept DEF MirrorInv

(* A load that a message settles: its source is known, whoever answered.   *)
LEMMA MessageMirrors ==
    ASSUME PoolInv, CallsInv, EntryInv, MirrorInv, NEW w \in Workers, Message(w)
    PROVE  MirrorInv'
<1>1. /\ outbox' = [outbox EXCEPT ![w] = Tail(outbox[w])] /\ outbox[w] # <<>>
      /\ UNCHANGED <<workers, routed, shuttingDown, thread, inbox, recipes, jobs>>
      /\ loads' \subseteq loads
  BY DEF Message, onMessage, storeVars
<1>2. current' \subseteq current \cup (loads \ loads')
  BY DEF Message, LoadsSettle
<1>3. PICK S : outbox[w] \in Seq(S)
  BY DEF PoolInv, PortsInv, GoodOut
<1>4. \A x \in Workers : \A type, what : MessageFor(outbox'[x], type, what) => MessageFor(outbox[x], type, what)
  <2>1. \A type, what : MessageFor(Tail(outbox[w]), type, what) => MessageFor(outbox[w], type, what)
    BY <1>1, <1>3, ForHead
  <2> DEFINE rest == Tail(outbox[w])
  <2>2. outbox' = [outbox EXCEPT ![w] = rest] /\ outbox = [x \in Workers |-> outbox[x]]
    BY <1>1 DEF PoolInv, PortsInv
  <2> HIDE DEF rest
  <2>3. QED
    BY <2>1, <2>2 DEF rest
<1>5. RecipesInv'
  BY <1>1, <1>4, RecipesStay DEF MirrorInv, RecipesInv
<1>6. ASSUME ~shuttingDown, NEW s \in loads
      PROVE  /\ s \in Sources /\ workers[Assign[s]] \in Workers
             /\ \A x \in Workers : x = workers[Assign[s]] => Known(x, s)
  <2>1. s \in Sources /\ workers[Assign[s]] \in Workers
    BY <1>6, AssignAssumption DEF CallsInv, Wired, PoolInv, PortsInv
  <2>2. ASSUME NEW x \in Workers, x = workers[Assign[s]] PROVE Known(x, s)
    <3>1. thread[x] = "dead" \/ HasLoad(x, s)
      BY <1>6, <2>2 DEF CallsInv, NothingStranded
    <3>2. QED
      BY <3>1 DEF HasLoad, Known, MirrorInv, RecipesInv, HasRecipes, BagToSet
  <2>3. QED
    BY <2>1, <2>2
<1>7. \A x \in Workers : \A s : Known(x, s)' <=> Known(x, s)
  BY <1>1 DEF Known
<1>8. current' \subseteq Sources /\ \A s \in current' \cup loads' : s \in routed'[Assign[s]]
  BY <1>1, <1>2 DEF MirrorInv, CallsInv, Wired
<1>9. ASSUME ~shuttingDown', NEW s \in current'
      PROVE  /\ workers'[Assign[s]] \in Workers
             /\ \A x \in Workers : x = workers'[Assign[s]] => Known(x, s)'
  <2>1. ~shuttingDown /\ (s \in current \/ s \in loads) /\ workers' = workers
    BY <1>1, <1>2, <1>9
  <2>2. /\ workers[Assign[s]] \in Workers
        /\ \A x \in Workers : x = workers[Assign[s]] => Known(x, s)
    BY <1>6, <2>1 DEF MirrorInv
  <2>3. QED
    BY <1>7, <2>1, <2>2
<1>10. QED
  BY <1>5, <1>8, <1>9 DEF MirrorInv

(* A reclaimed index: the mirror forgets what was ever routed to it.       *)
LEMMA ResetMirrors ==
    ASSUME PoolInv, CallsInv, EntryInv, MirrorInv, RecipesInv', UNCHANGED <<routed, shuttingDown>>,
           loads' \subseteq loads, LoadsSettle(loads \ loads', {}, Reset),
           \A i \in Indexes : workers'[i] = workers[i] /\ ~shuttingDown =>
              \A w \in Workers : w = workers[i] =>
                 UNCHANGED <<thread[w], inbox[w], recipes[w]>>
    PROVE  MirrorInv'
<1>1. current' = current \ Reset
  BY DEF LoadsSettle
<1>2. ASSUME ~shuttingDown, NEW s \in current'
      PROVE  /\ workers'[Assign[s]] \in Workers
             /\ \A w \in Workers : w = workers'[Assign[s]] => Known(w, s)'
  <2>1. s \in current /\ Assign[s] \in Indexes /\ s \in routed[Assign[s]] /\ s \notin Reset
    BY <1>1, <1>2, AssignAssumption DEF MirrorInv
  <2>2. workers'[Assign[s]] = workers[Assign[s]]
    BY <2>1 DEF Reset, Orphaned
  <2>3. /\ workers[Assign[s]] \in Workers
        /\ \A w \in Workers : w = workers[Assign[s]] => Known(w, s)
    BY <1>2, <2>1 DEF MirrorInv
  <2>4. \A w \in Workers : w = workers[Assign[s]] => UNCHANGED <<thread[w], inbox[w], recipes[w]>>
    BY <1>2, <2>1, <2>2
  <2>5. QED
    BY <2>2, <2>3, <2>4 DEF Known
<1>3. QED
  BY <1>1, <1>2 DEF MirrorInv

LEMMA ReclaimMirrors ==
    ASSUME PoolInv, CallsInv, EntryInv, MirrorInv,
           \/ \E r \in Requests : Grace(r)
           \/ \E w \in Workers : Exit(w)
    PROVE  MirrorInv'
<1>1. ASSUME NEW i \in Indexes, workers[i] \in Workers, reclaim(i), ~shuttingDown
      PROVE  \A k \in Indexes : workers'[k] = workers[k] =>
                \A w \in Workers : w = workers[k] => w # workers[i] /\ w # workers'[i]
  <2>1. PICK v \in Free : workers' = [workers EXCEPT ![i] = v]
    BY <1>1 DEF reclaim
  <2>2. workers'[i] = v /\ thread[v] = "free" /\ v \in Workers /\ workers[i] # NoWorker
    BY <1>1, <2>1, AbsentAssumption DEF Free, PoolInv, PortsInv
  <2>3. \A k \in Indexes : workers[k] # NoWorker =>
           /\ thread[workers[k]] # "free"
           /\ workers[k] = workers[i] => k = i
    BY <1>1 DEF CallsInv, Wired
  <2>4. QED
    BY <2>2, <2>3, AbsentAssumption
<1>2. ASSUME NEW r \in Requests, Grace(r) PROVE MirrorInv'
  <2> DEFINE i == indexOf(r)
  <2>1. /\ Pending(r) /\ query[r].armed /\ reclaim(i)
        /\ UNCHANGED <<routed, shuttingDown, inbox, outbox, recipes, jobs>>
        /\ LoadsSettle(loads \ loads', {}, Reset)
        /\ thread' = [w \in Workers |-> CASE w = workers[i] -> "dead"
                                        [] w = workers'[i] -> "up"
                                        [] OTHER -> thread[w]]
    BY <1>2 DEF Grace, GraceExpires, portVars, storeVars
  <2>2. ~shuttingDown
    BY <2>1 DEF PoolInv, BooksInv
  <2>3. i \in Indexes /\ workers[i] \in Workers
    BY <2>1, <2>2, WaitedFor DEF Waited, PoolInv, PortsInv
  <2> HIDE DEF i
  <2>4. \A k \in Indexes : workers'[k] = workers[k] =>
           \A w \in Workers : w = workers[k] => UNCHANGED <<thread[w], inbox[w], recipes[w]>>
    BY <1>1, <2>1, <2>2, <2>3
  <2>5. RecipesInv' /\ loads' \subseteq loads
    BY <2>1 DEF MirrorInv, RecipesInv, HasRecipes, MessageFor, reclaim
  <2>6. QED
    BY <2>1, <2>4, <2>5, ResetMirrors
<1>3. ASSUME NEW w \in Workers, Exit(w) PROVE MirrorInv'
  <2> DEFINE none == EmptyBag
  <2>1. /\ thread[w] = "dead" /\ outbox[w] = <<>> /\ UNCHANGED <<routed, shuttingDown, outbox>>
        /\ inbox' = [inbox EXCEPT ![w] = <<>>] /\ jobs' = [jobs EXCEPT ![w] = none]
        /\ recipes' = [recipes EXCEPT ![w] = {}] /\ LoadsSettle(loads \ loads', {}, Reset)
    BY <1>3 DEF Exit, onWorkerExit, Reused
  <2>2. DOMAIN none = {}
    BY DEF EmptyBag, SetToBag
  <2> HIDE DEF none
  <2>3. RecipesInv'
    <3>1. \A s : ~MessageFor(outbox[w], "load-reply", s)
      BY <2>1, NoAsk
    <3>2. recipes' = [x \in Workers |-> recipes'[x]]
      BY <2>1 DEF MirrorInv, RecipesInv
    <3>3. ASSUME NEW x \in Workers PROVE HasRecipes(x)'
      <4>1. CASE x = w
        <5>1. jobs'[x] = none /\ outbox'[x] = outbox[w]
          BY <2>1, <4>1 DEF PoolInv, PortsInv
        <5>2. QED
          BY <2>2, <3>1, <5>1 DEF HasRecipes, MessageFor
      <4>2. CASE x # w
        <5>1. jobs'[x] = jobs[x] /\ recipes'[x] = recipes[x] /\ outbox'[x] = outbox[x]
          BY <2>1, <4>2 DEF PoolInv, PortsInv, MirrorInv, RecipesInv
        <5>2. QED
          BY <5>1 DEF HasRecipes, MessageFor, MirrorInv, RecipesInv
      <4>3. QED
        BY <4>1, <4>2
    <3>4. QED
      BY <3>2, <3>3 DEF RecipesInv
  <2>4. \A x \in Workers : x # w => UNCHANGED <<inbox[x], recipes[x]>>
    BY <2>1 DEF PoolInv, PortsInv, MirrorInv, RecipesInv
  <2>5. CASE ~shuttingDown /\ Current(w)
    <3> DEFINE i == CHOOSE j \in Indexes : workers[j] = w
    <3>1. i \in Indexes /\ workers[i] = w
      BY <2>5 DEF Current
    <3>2. reclaim(i) /\ thread' = [thread EXCEPT ![w] = "free", ![workers'[i]] = "up"]
      BY <1>3, <2>5 DEF Exit, onWorkerExit
    <3> HIDE DEF i
    <3>3. loads' \subseteq loads
      BY <3>2 DEF reclaim
    <3>4. \A k \in Indexes : workers'[k] = workers[k] =>
             \A x \in Workers : x = workers[k] => x # w /\ x # workers'[i]
      BY <1>1, <2>5, <3>1, <3>2
    <3>5. \A x \in Workers : x # w /\ x # workers'[i] => thread'[x] = thread[x]
      BY <3>2 DEF CallsInv, Wired
    <3>6. QED
      BY <2>1, <2>3, <2>4, <3>3, <3>4, <3>5, ResetMirrors
  <2>6. CASE ~(~shuttingDown /\ Current(w))
    <3>1. UNCHANGED <<workers, loads>> /\ thread' = [thread EXCEPT ![w] = "free"]
      BY <1>3, <2>6 DEF Exit, onWorkerExit
    <3>2. ~shuttingDown => \A k \in Indexes : workers[k] # w
      BY <2>6 DEF Current
    <3>3. \A x \in Workers : x # w => thread'[x] = thread[x]
      BY <3>1 DEF CallsInv, Wired
    <3>4. QED
      BY <2>1, <2>3, <2>4, <3>1, <3>2, <3>3, ResetMirrors
  <2>7. QED
    BY <2>5, <2>6
<1>4. QED
  BY <1>2, <1>3

LEMMA StepMirrors ==
    ASSUME PoolInv, CallsInv, EntryInv, MirrorInv, [Next]_vars
    PROVE  MirrorInv'
<1>1. ASSUME NEW r \in Requests, NEW s \in Sources, Touch(r, s)
      PROVE  MirrorInv'
  <2>1. ~shuttingDown /\ UNCHANGED <<shuttingDown, outbox, storeVars, current>>
    BY <1>1 DEF Touch
  <2>2. CASE memo[s] = "none"
    BY <1>1, <2>1, <2>2, BeginMirrors DEF Touch
  <2>3. CASE memo[s] # "none"
    BY <1>1, <2>1, <2>3, MoreMirrors DEF Touch
  <2>4. QED
    BY <2>2, <2>3
<1>2. ASSUME NEW r \in Requests, NEW aborted \in BOOLEAN, Ask(r, aborted)
      PROVE  MirrorInv'
  BY <1>2, QueryMirrors DEF Ask, EntryInv
<1>3. ASSUME NEW s \in Sources, reload(s)
      PROVE  MirrorInv'
  <2>1. InvalidateFirst(s) \in {<<>>, <<InvalidateMsg(s)>>}
    BY DEF InvalidateFirst
  <2>2. QED
    BY <1>3, <2>1, BeginMirrors DEF reload
<1>4. ASSUME NEW s \in Sources, unload(s) \/ watcherFires(s)
      PROVE  MirrorInv'
  <2>1. /\ UNCHANGED <<workers, loads, routed, shuttingDown, outbox, storeVars, thread>>
        /\ current' \subseteq current
        /\ inbox' = Invalidated(s) \/ inbox' = inbox
    BY <1>4 DEF unload, watcherFires, mainVars
  <2>2. QED
    BY <2>1, MoreMirrors DEF Invalidated
<1>5. ASSUME NEW r \in Requests, Disconnect(r)
      PROVE  MirrorInv'
  BY <1>5, MoreMirrors DEF Disconnect, onCancel, entryVars
<1>6. CASE Close
  <2>1. /\ UNCHANGED <<workers, loads, routed, inbox, outbox, storeVars, current>>
        /\ shuttingDown' = TRUE
        /\ \A w \in Workers : thread[w] = "dead" => thread'[w] = "dead"
    BY <1>6 DEF Close, shutdown, entryVars, portVars
  <2>2. QED
    BY <2>1, MoreMirrors
<1>7. ASSUME NEW w \in Workers, WorkerStep(w), UNCHANGED entryVars
      PROVE  MirrorInv'
  <2>1. UNCHANGED <<workers, loads, routed, shuttingDown, current>>
    BY <1>7 DEF WorkerStep, Handles, handleLoad, handleQuery, handleCancel, handleInvalidate,
                BuildEnds, Built, BuildFails, RunEnds, QueryEnds, mainVars, entryVars
  <2>2. RecipesInv' /\ KeepsKnown
    BY <1>7, WorkerRecipes DEF MirrorInv
  <2>3. QED
    BY <2>1, <2>2, MirrorKept DEF KeepsKnown, MirrorInv
<1>8. ASSUME \/ \E w \in Workers : GetsStuck(w) \/ Dies(w)
             \/ \E s \in Sources : Edit(s)
             \/ UNCHANGED poolVars,
             UNCHANGED entryVars
      PROVE  MirrorInv'
  <2>1. /\ UNCHANGED <<workers, loads, routed, shuttingDown, inbox, outbox, storeVars, current>>
        /\ \A w \in Workers : thread[w] = "dead" => thread'[w] = "dead"
    BY <1>8 DEF GetsStuck, Dies, Edit, poolVars, mainVars, portVars, entryVars, CallsInv, Wired
  <2>2. QED
    BY <2>1, MoreMirrors
<1>9. CASE UNCHANGED vars
  BY <1>8, <1>9 DEF vars
<1>10. CASE Next
  BY <1>1, <1>2, <1>3, <1>4, <1>5, <1>6, <1>7, <1>8, <1>10, MessageMirrors, ReclaimMirrors DEF Next
<1>11. QED
  BY <1>9, <1>10

LEMMA InitMirrors == ASSUME Init PROVE PoolInv /\ CallsInv /\ MirrorInv
<1>1. PoolInv /\ CallsInv
  BY InitGood, InitBooks DEF Init, PoolInit
<1>2. /\ recipes = [w \in Workers |-> {}] /\ outbox = [w \in Workers |-> <<>>]
      /\ loads = {} /\ current = {}
  BY DEF Init, PoolInit, PoolStart
<1>3. \A w \in Workers : DOMAIN jobs[w] = {}
  BY DEF Init, PoolInit, PoolStart, EmptyBag, SetToBag
<1>4. \A w \in Workers : HasRecipes(w)
  BY <1>2, <1>3, NoAsk DEF HasRecipes
<1>5. MirrorInv
  BY <1>2, <1>4 DEF MirrorInv, RecipesInv
<1>6. QED
  BY <1>1, <1>5

(* What the main thread takes for loaded is known to the current worker of *)
(* its index, or on the way to it, also after a reclaim and when a reply   *)
(* of the worker that was given up arrives late.                           *)
THEOREM MirrorKeepsRecipe == Spec => []MirrorHasRecipe
<1>1. Init => PoolInv /\ CallsInv /\ MirrorInv
  BY InitMirrors
<1>2. PoolInv /\ CallsInv /\ MirrorInv /\ EntryInv /\ [Next]_vars => (PoolInv /\ CallsInv /\ MirrorInv)'
  BY EntryWires, StepMirrors
<1>3. MirrorInv => MirrorHasRecipe
  <2>1. ASSUME MirrorInv, ~shuttingDown, NEW s \in current
        PROVE  /\ workers[Assign[s]] # NoWorker
               /\ Known(workers[Assign[s]], s)
    BY <2>1, AbsentAssumption DEF MirrorInv
  <2>2. QED
    BY <2>1 DEF MirrorHasRecipe, Known
<1>4. QED
  BY <1>1, <1>2, <1>3, EntryInvariant, PTL DEF Spec

-----------------------------------------------------------------------------
(* The main thread's steps that are not the pool's own keep what the        *)
(* freshness of its answers rests on.                                      *)
LEMMA BeginFresh ==
    ASSUME PoolInv, CallsInv, FreshInv, NEW s \in Sources,
           NEW before \in {<<>>, <<InvalidateMsg(s)>>}, BeginLoad(s, before),
           UNCHANGED <<query, outbox, resident, jobs, executing, files>>, Drops(s),
           dropped' # dropped => before = <<InvalidateMsg(s)>>
    PROVE  FreshInv'
<1> DEFINE l == LoadMsg(s)
           v == InvalidateMsg(s)
           msgs == Begins(s, before)
<1>1. /\ l.type = "load" /\ l.src = s /\ v.type = "invalidate"
      /\ IsFor(v, "invalidate", s)
  BY DEF LoadMsg, InvalidateMsg, IsFor
<1>2. msgs \in Seq({l, v}) /\ Post(s, msgs)
  BY BeginAsks DEF BeginLoad, Begins
<1>3. before = <<v>> => msgs \in {<<v>> \o <<>>, <<v>> \o <<l>>}
  BY DEF Begins
<1> HIDE DEF l, v, msgs
<1>4. <<>> \in Seq({l, v}) /\ <<l>> \in Seq({l, v}) /\ <<v>> \in Seq({l, v})
  OBVIOUS
<1>5. before = <<v>> => MessageFor(msgs, "invalidate", s)
  <2>1. MessageFor(<<v>>, "invalidate", s)
    BY <1>1, ForOne
  <2>2. MessageFor(<<v>> \o <<>>, "invalidate", s) /\ MessageFor(<<v>> \o <<l>>, "invalidate", s)
    BY <1>4, <2>1, ForConcat
  <2>3. QED
    BY <1>3, <2>2
<1>6. \A i \in 1 .. Len(msgs) : msgs[i] \in {l, v}
  BY <1>2
<1>7. /\ \A i \in 1 .. Len(msgs) : msgs[i].type = "load" => msgs[i].src \in Sources
      /\ \A i \in 1 .. Len(msgs), r \in Requests : ~IsFor(msgs[i], "query", r)
  BY <1>1, <1>6 DEF IsFor
<1>8. FloorStays /\ CallsFresh' /\ thread = [w \in Workers |-> thread[w]]
  BY SameCalls DEF CallsInv, Wired
<1>9. dropped' # dropped => MessageFor(msgs, "invalidate", s)
  BY <1>5 DEF v
<1>10. QED
  BY <1>2, <1>7, <1>8, <1>9, PostFresh

LEMMA EntryFresh ==
    ASSUME PoolInv, CallsInv, FreshInv, EntryInv, [Next]_vars
    PROVE  FreshInv'
<1>1. ASSUME NEW s \in Sources, DropSeen(s)
      PROVE  Drops(s) /\ (dropped' # dropped => s \in current)
  BY <1>1 DEF DropSeen, Drops
<1>2. ASSUME NEW s \in Sources, inbox' = IF s \in current THEN Invalidated(s) ELSE inbox,
             DropSeen(s), UNCHANGED <<mainVars, thread, outbox, storeVars, files>>
      PROVE  FreshInv'
  <2>1. UNCHANGED <<workers, query, thread, outbox, resident, jobs, executing, files>>
    BY <1>2 DEF mainVars, storeVars
  <2>2. /\ Drops(s) /\ (inbox' = Invalidated(s) \/ inbox' = inbox)
        /\ dropped' # dropped => inbox' = Invalidated(s)
    BY <1>1, <1>2
  <2>3. QED
    BY <2>1, <2>2, InvalidatedFresh
<1>3. ASSUME NEW r \in Requests, NEW s \in Sources, Touch(r, s) PROVE FreshInv'
  <2>1. UNCHANGED <<query, outbox, resident, jobs, executing, files, dropped>> /\ Drops(s)
    BY <1>3 DEF Touch, storeVars, Drops
  <2>2. CASE memo[s] = "none"
    BY <1>3, <2>1, <2>2, BeginFresh DEF Touch
  <2>3. CASE memo[s] # "none"
    <3>1. UNCHANGED <<workers, thread, inbox>>
      BY <1>3, <2>3 DEF Touch
    <3>2. QED
      BY <2>1, <3>1, InvalidatedFresh
  <2>4. QED
    BY <2>2, <2>3
<1>4. ASSUME NEW r \in Requests, NEW aborted \in BOOLEAN, Ask(r, aborted) PROVE FreshInv'
  <2>1. client[r].src \in Sources /\ Query(r, client[r].src, aborted)
    BY <1>4 DEF Ask, EntryInv
  <2>2. QED
    BY <2>1, QueryAskedFresh
<1>5. ASSUME NEW s \in Sources, reload(s) PROVE FreshInv'
  <2>1. /\ UNCHANGED <<query, outbox, resident, jobs, executing, files>>
        /\ BeginLoad(s, InvalidateFirst(s)) /\ DropSeen(s)
    BY <1>5 DEF reload, storeVars
  <2>2. /\ InvalidateFirst(s) \in {<<>>, <<InvalidateMsg(s)>>}
        /\ s \in current => InvalidateFirst(s) = <<InvalidateMsg(s)>>
    BY DEF InvalidateFirst
  <2>3. QED
    BY <1>1, <2>1, <2>2, BeginFresh
<1>6. ASSUME NEW s \in Sources, unload(s) \/ watcherFires(s) PROVE FreshInv'
  BY <1>2, <1>6 DEF unload, watcherFires
<1>7. ASSUME NEW r \in Requests, Disconnect(r) \/ Grace(r) PROVE FreshInv'
  BY <1>7, CancelFresh, GraceFresh DEF Disconnect, Grace
<1>8. ASSUME NEW w \in Workers, Message(w) \/ Exit(w) PROVE FreshInv'
  BY <1>8, MessageFresh, ExitFresh DEF Message, Exit
<1>9. CASE Close
  BY <1>9, ShutdownFresh DEF Close
<1>10. ASSUME NEW w \in Workers, WorkerStep(w) PROVE FreshInv'
  BY <1>10, WorkerStepFresh
<1>11. CASE \/ UNCHANGED vars \/ \E s \in Sources : Edit(s)
            \/ \E w \in Workers : GetsStuck(w) \/ Dies(w)
  BY <1>11, StopFresh DEF vars
<1>12. CASE Next
  BY <1>3, <1>4, <1>5, <1>6, <1>7, <1>8, <1>9, <1>10, <1>11, <1>12 DEF Next
<1>13. QED
  BY <1>11, <1>12

(* The queries of a server whose sources are touched, reloaded, unloaded   *)
(* and edited are as fresh: FreshAfterQuietInvalidate.                     *)
THEOREM EntryQueriesFresh == Spec => []FreshAfterQuietInvalidate
<1>1. Init => PoolInv /\ CallsInv /\ FreshInv
  BY InitGood, InitBooks, InitFresh DEF Init, PoolInit
<1>2. PoolInv /\ CallsInv /\ FreshInv /\ EntryInv /\ [Next]_vars => (PoolInv /\ CallsInv /\ FreshInv)'
  BY EntryWires, EntryFresh
<1>3. FreshInv => FreshAfterQuietInvalidate
  BY DEF FreshInv, CallsFresh, FreshAfterQuietInvalidate
<1>4. QED
  BY <1>1, <1>2, <1>3, EntryInvariant, PTL DEF Spec

-----------------------------------------------------------------------------
(***************************************************************************)
(* What the pool promises its callers it also promises under this one: the *)
(* entries post loads behind invalidates and invalidate without a reload,  *)
(* neither of which the callers of PoolSpec do.  The steps of the entries  *)
(* are the pool's own but for these, and for a query asked of a full inbox.*)
(***************************************************************************)
BeginsLoad(s) ==
    /\ \E before \in {<<>>, <<InvalidateMsg(s)>>} : BeginLoad(s, before)
    /\ ~shuttingDown /\ UNCHANGED <<query, shuttingDown, outbox, storeVars>>
PostsInvalidate(s) ==
    /\ inbox' = Invalidated(s) \/ inbox' = inbox
    /\ UNCHANGED <<mainVars, thread, outbox, storeVars>>
AsksQuery(r, s) == ~shuttingDown /\ \E aborted \in BOOLEAN : Query(r, s, aborted)

LEMMA AsThePoolSees ==
    ASSUME EntryInv, [Next]_vars
    PROVE  \/ [PoolNext]_poolVars
           \/ \E s \in Sources : BeginsLoad(s) \/ PostsInvalidate(s)
           \/ \E r \in Requests, s \in Sources : AsksQuery(r, s)
<1>1. ASSUME NEW r \in Requests, NEW s \in Sources, Touch(r, s)
      PROVE  UNCHANGED poolVars \/ BeginsLoad(s)
  <2>1. CASE memo[s] = "none"
    BY <1>1, <2>1 DEF Touch, BeginsLoad
  <2>2. CASE memo[s] # "none"
    BY <1>1, <2>2 DEF Touch, poolVars, mainVars, portVars
  <2>3. QED
    BY <2>1, <2>2
<1>2. ASSUME NEW r \in Requests, NEW aborted \in BOOLEAN, Ask(r, aborted)
      PROVE  \E s \in Sources : AsksQuery(r, s)
  BY <1>2 DEF Ask, AsksQuery, EntryInv
<1>3. ASSUME NEW s \in Sources, reload(s) PROVE BeginsLoad(s)
  BY <1>3 DEF reload, InvalidateFirst, BeginsLoad
<1>4. ASSUME NEW s \in Sources, unload(s) \/ watcherFires(s) PROVE PostsInvalidate(s)
  BY <1>4 DEF unload, watcherFires, PostsInvalidate
<1>5. ASSUME NEW r \in Requests, Disconnect(r) \/ Grace(r) PROVE PoolNext
  BY <1>5 DEF Disconnect, Grace, PoolNext, CallerStep, LoopStep
<1>6. ASSUME NEW w \in Workers, Message(w) \/ Exit(w) PROVE PoolNext
  BY <1>6 DEF Message, Exit, PoolNext, LoopStep
<1>7. CASE Close
  BY <1>7 DEF Close, PoolNext, CallerStep
<1>8. CASE \/ UNCHANGED vars \/ \E s \in Sources : Edit(s)
           \/ \E w \in Workers : WorkerStep(w) \/ GetsStuck(w) \/ Dies(w)
  BY <1>8 DEF vars, PoolNext
<1>9. CASE Next
  BY <1>1, <1>2, <1>3, <1>4, <1>5, <1>6, <1>7, <1>8, <1>9 DEF Next
<1>10. QED
  BY <1>8, <1>9

(* Each step keeps the promise.                                           *)
LEMMA EntryGood ==
    ASSUME PoolInv, CallsInv, EntryInv, [Next]_vars
    PROVE  [Promise!Next]_Promise!calls
<1>1. CASE [PoolNext]_poolVars
  BY <1>1, StepKeeps DEF Good
<1>2. ASSUME NEW s \in Sources, BeginsLoad(s) \/ PostsInvalidate(s)
      PROVE  [Promise!Next]_Promise!calls
  <2>1. UNCHANGED query
    BY <1>2 DEF BeginsLoad, PostsInvalidate, mainVars
  <2>2. QED
    BY <2>1, Quiet
<1>3. ASSUME NEW r \in Requests, NEW s \in Sources, AsksQuery(r, s)
      PROVE  [Promise!Next]_Promise!calls
  <2>1. Assign[s] \in Indexes
    BY AssignAssumption
  <2>2. QED
    BY <1>3, <2>1, QueryKeeps DEF AsksQuery, Promise!Next
<1>4. QED
  BY <1>1, <1>2, <1>3, AsThePoolSees

(* Each keeps the pins and the places of a request apart.                  *)
LEMMA BeginOnce ==
    ASSUME PoolInv, OnceInv, NEW s \in Sources, BeginsLoad(s)
    PROVE  OnceInv'
<1> DEFINE l == LoadMsg(s)
           v == InvalidateMsg(s)
<1>1. PICK before \in {<<>>, <<v>>} : BeginLoad(s, before)
  BY DEF BeginsLoad
<1> DEFINE msgs == Begins(s, before)
<1>2. msgs \in Seq({l, v}) /\ Post(s, msgs)
  BY <1>1, BeginAsks DEF BeginLoad, Begins
<1>3. l.type = "load" /\ v.type = "invalidate"
  BY DEF LoadMsg, InvalidateMsg
<1> HIDE DEF l, v, msgs
<1>4. \A i \in 1 .. Len(msgs) : msgs[i] \in {l, v}
  BY <1>2
<1>5. \A i \in 1 .. Len(msgs) : msgs[i].type # "query"
  BY <1>3, <1>4
<1>6. OneAsk(msgs) /\ \A r : ~MessageFor(msgs, "query", r)
  BY <1>2, <1>5, ForAt DEF OneAsk, IsFor
<1>7. Adds(msgs)
  BY <1>2, <1>6, PostOnce DEF Fresh
<1>8. UNCHANGED <<jobs, executing, pins>> /\ BookedStays
  BY DEF BeginsLoad, storeVars, BookedStays
<1>9. QED
  BY <1>6, <1>7, <1>8, AddsNothing

LEMMA PostsOnce ==
    ASSUME PoolInv, OnceInv, NEW s \in Sources, PostsInvalidate(s)
    PROVE  OnceInv'
<1>1. UNCHANGED <<query, jobs, executing, pins>> /\ BookedStays /\ InvalidateMsg(s).type # "query"
  BY DEF PostsInvalidate, mainVars, storeVars, BookedStays, InvalidateMsg
<1>2. CASE inbox' = inbox
  <2>1. \A x \in Workers : Once(x)'
    BY <1>1, <1>2, OnceSame DEF OnceInv
  <2>2. QED
    BY <1>1, <2>1 DEF OnceInv, Counted, PinsOf, On
<1>3. CASE inbox' = [inbox EXCEPT ![workers[Assign[s]]] = Append(@, InvalidateMsg(s))]
  BY <1>1, <1>3, AppendOnce, AddsNothing
<1>4. QED
  BY <1>2, <1>3 DEF PostsInvalidate, Invalidated

LEMMA EntryOnce ==
    ASSUME PoolInv, CallsInv, OnceInv, EntryInv, [Next]_vars
    PROVE  OnceInv'
<1>1. ASSUME NEW r \in Requests, NEW s \in Sources, AsksQuery(r, s) PROVE OnceInv'
  BY <1>1, QueryAskedOnce DEF AsksQuery
<1>2. QED
  BY <1>1, AsThePoolSees, StepOnce, BeginOnce, PostsOnce

(* The invariants of the pool hold of it under the entries.                *)
LEMMA PoolUnderEntries == Spec => [](PoolInv /\ CallsInv /\ OnceInv /\ FreshInv /\ EntryInv)
<1>1. Init => PoolInv /\ CallsInv /\ OnceInv /\ FreshInv
  BY InitGood, InitBooks, InitFresh DEF Init, PoolInit
<1>2. PoolInv /\ CallsInv /\ OnceInv /\ FreshInv /\ EntryInv /\ [Next]_vars
        => (PoolInv /\ CallsInv /\ OnceInv /\ FreshInv)'
  BY EntryWires, EntryOnce, EntryFresh
<1>3. QED
  BY <1>1, <1>2, EntryInvariant, PTL DEF Spec

(* The books agree also while entries are reloaded, unloaded and           *)
(* invalidated: BooksAgree.                                                *)
THEOREM EntryBooksAgree == Spec => []BooksAgree
<1>1. CallsInv /\ OnceInv => BooksAgree
  BY DEF CallsInv, OnceInv, Counted, PinsOf, On, BooksAgree
<1>2. QED
  BY <1>1, PoolUnderEntries, PTL

(* The server with its entries still implements PendingCalls: whatever the *)
(* operators and the watcher do, a query settles once and for good.        *)
THEOREM EntryKeepsPromise == Spec => CallsRefined
<1>1. Init => Promise!Init
  <2>1. ASSUME Init PROVE callOwner = [c \in Requests |-> NoSource] /\ callResult = [c \in Requests |-> "new"]
    BY <2>1 DEF Init, PoolInit, PoolStart, NewQuery, callOwner, callResult
  <2>2. QED
    BY <2>1 DEF Promise!Init
<1>2. PoolInv /\ CallsInv /\ EntryInv /\ [Next]_vars => [Promise!Next]_Promise!calls
  BY EntryGood
<1>3. QED
  BY <1>1, <1>2, PoolUnderEntries, PTL DEF Spec, CallsRefined, Promise!Spec

(* No store is evicted under a query that runs on it while the entries     *)
(* load others: PinnedNotEvicted.                                          *)
THEOREM EntryPinnedStays == Spec => PinnedNotEvicted
<1> DEFINE Kept ==
       \A w \in Workers : \A e \in executing[w] :
          IsResident(resident[w], e.src) /\ ~IsResident(resident'[w], e.src)
              => Receives(w, "invalidate") \/ thread[w] = "dead"
<1>1. ASSUME PoolInv, CallsInv, OnceInv, FreshInv, EntryInv, [Next]_vars PROVE Kept
  <2>1. CASE [PoolNext]_poolVars
    BY <1>1, <2>1, StepKeepsPinned DEF KeepsPinned, Pinned
  <2>2. CASE UNCHANGED resident
    BY <2>2
  <2>3. QED
    BY <1>1, <2>1, <2>2, AsThePoolSees DEF BeginsLoad, PostsInvalidate, AsksQuery, Query, storeVars
<1>2. QED
  BY <1>1, PoolUnderEntries, PTL DEF Spec, PinnedNotEvicted
=============================================================================
