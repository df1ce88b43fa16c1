-------------------------- MODULE QueryFreshProofs --------------------------
(***************************************************************************)
(* What the query workers answer from, for every set of sources, requests  *)
(* and workers and every budget: a query asked after an invalidate sees    *)
(* the files as they were then, and no store is evicted under a query that *)
(* runs on it.                                                             *)
(*                                                                         *)
(* Both rest on what the resident set keeps, whose Keep() is a recursive   *)
(* function: its values are shown by an induction stated over sets.        *)
(***************************************************************************)
EXTENDS QueryWorkersProofs, WellFoundedInduction

(* Induction over the natural numbers up to N, in terms of sets.           *)
LEMMA UpTo ==
    ASSUME NEW N \in Nat, NEW P, 0 \in P, \A n \in 1 .. N : n - 1 \in P => n \in P
    PROVE  0 .. N \subseteq P
<1> DEFINE T == (0 .. N) \ P
           I == {0 .. n : n \in T}
<1>1. SUFFICES ASSUME T # {} PROVE FALSE
  OBVIOUS
<1>2. I \subseteq FiniteSubsetsOf(Int) /\ I # {}
  <2>1. \A n \in T : (0 .. n) \in SUBSET Int /\ IsFiniteSet(0 .. n)
    BY FS_Interval
  <2>2. QED
    BY <1>1, <2>1 DEF FiniteSubsetsOf
<1>3. PICK X \in I : \A Y \in I : ~(<<Y, X>> \in StrictSubsetOrdering(Int))
  BY <1>2, WFMin, FS_StrictSubsetOrderingWellFounded
<1>4. PICK n \in T : X = 0 .. n
  OBVIOUS
<1>5. n \in 1 .. N /\ n - 1 \in 0 .. N /\ n - 1 \in T /\ n \in Int
  OBVIOUS
<1>6. (0 .. n - 1) \in I /\ n \in X /\ ~(n \in 0 .. n - 1) /\ 0 .. n - 1 \subseteq X /\ X \subseteq Int
  BY <1>4, <1>5
<1>7. <<0 .. n - 1, X>> \in StrictSubsetOrdering(Int)
  BY <1>6 DEF StrictSubsetOrdering
<1>8. QED
  BY <1>3, <1>6, <1>7

(* What Keep() returns: the entries at those positions.                    *)
Prefix(q, K, f, N) ==
    f = [n \in 0 .. N |->
           IF n = 0 THEN <<>> ELSE IF n \in K THEN Append(f[n - 1], q[n]) ELSE f[n - 1]]

LEMMA KeepDefined ==
    ASSUME NEW S, NEW q \in Seq(S), NEW K
    PROVE  \E f : Prefix(q, K, f, Len(q)) /\ Keep(q, K) = f[Len(q)]
<1> DEFINE N == Len(q)
           P == {M \in 0 .. N : \E f : Prefix(q, K, f, M)}
<1>1. N \in Nat
  OBVIOUS
<1>2. 0 \in P
  <2> DEFINE f == [n \in 0 .. 0 |-> <<>>]
  <2>1. Prefix(q, K, f, 0)
    BY DEF Prefix
  <2>2. \E g : Prefix(q, K, g, 0)
    BY <2>1
  <2>3. QED
    BY <1>1, <2>2
<1>3. ASSUME NEW M \in 1 .. N, M - 1 \in P PROVE M \in P
  <2>1. PICK f : Prefix(q, K, f, M - 1)
    BY <1>3
  <2> DEFINE e == IF M \in K THEN Append(f[M - 1], q[M]) ELSE f[M - 1]
             g == [n \in 0 .. M |-> IF n = M THEN e ELSE f[n]]
             step(h, n) == IF n = 0 THEN <<>> ELSE IF n \in K THEN Append(h[n - 1], q[n]) ELSE h[n - 1]
  <2>2. ASSUME NEW n \in 0 .. M PROVE g[n] = step(g, n)
    <3>1. CASE n = M
      <4>1. g[n] = e /\ g[n - 1] = f[n - 1] /\ n # 0
        BY <3>1
      <4>2. QED
        BY <3>1, <4>1
    <3>2. CASE n # M
      <4>1. n \in 0 .. M - 1 /\ g[n] = f[n] /\ (n # 0 => g[n - 1] = f[n - 1])
        BY <3>2
      <4>2. f[n] = step(f, n)
        BY <2>1, <4>1 DEF Prefix
      <4>3. QED
        BY <4>1, <4>2
    <3>3. QED
      BY <3>1, <3>2
  <2>3. g = [n \in 0 .. M |-> g[n]]
    <3> HIDE DEF e
    <3>1. QED
      OBVIOUS
  <2>4. Prefix(q, K, g, M)
    <3> HIDE DEF g
    <3>1. QED
      BY <2>2, <2>3 DEF Prefix
  <2>5. \E h : Prefix(q, K, h, M)
    BY <2>4
  <2>6. QED
    BY <2>5
<1>4. 0 .. N \subseteq P
  <2> HIDE DEF P, N
  <2>1. QED
    BY <1>1, <1>2, <1>3, UpTo
<1> DEFINE kept == CHOOSE f : Prefix(q, K, f, N)
<1>5. Keep(q, K) = kept[N]
  BY DEF Keep, Prefix
<1>6. Prefix(q, K, kept, N)
  BY <1>1, <1>4
<1>7. QED
  BY <1>5, <1>6

LEMMA OneMember ==
    ASSUME NEW S, NEW p \in Seq(S), NEW e
    PROVE  ToSet(Append(p, e)) = ToSet(p) \cup {e}
<1>1. p \in Seq(S \cup {e}) /\ e \in S \cup {e}
  BY SeqMonotonic
<1>2. /\ DOMAIN Append(p, e) = 1 .. Len(p) + 1 /\ DOMAIN p = 1 .. Len(p) /\ Len(p) \in Nat
      /\ \A i \in 1 .. Len(p) : Append(p, e)[i] = p[i]
      /\ Append(p, e)[Len(p) + 1] = e
  BY <1>1
<1>3. QED
  BY <1>2 DEF ToSet

LEMMA KeepMembers ==
    ASSUME NEW S, NEW q \in Seq(S), NEW K
    PROVE  Keep(q, K) \in Seq(S) /\ ToSet(Keep(q, K)) = {q[i] : i \in K \cap (1 .. Len(q))}
<1> DEFINE N == Len(q)
           At(n) == {q[i] : i \in K \cap (1 .. n)}
<1>1. N \in Nat /\ \A n \in 1 .. N : q[n] \in S
  OBVIOUS
<1>2. PICK kept : Prefix(q, K, kept, N) /\ Keep(q, K) = kept[N]
  BY KeepDefined
<1> DEFINE Q == {n \in 0 .. N : kept[n] \in Seq(S) /\ ToSet(kept[n]) = At(n)}
<1>3. 0 \in Q
  <2>1. kept[0] = <<>> /\ <<>> \in Seq(S)
    BY <1>1, <1>2 DEF Prefix
  <2>2. ToSet(<<>>) = {}
    <3>1. DOMAIN <<>> = {}
      OBVIOUS
    <3>2. QED
      BY <3>1 DEF ToSet
  <2>3. At(0) = {} /\ 0 \in 0 .. N
    BY <1>1
  <2>4. QED
    <3> HIDE DEF At, N
    <3>1. QED
      BY <2>1, <2>2, <2>3
<1>4. ASSUME NEW n \in 1 .. N, n - 1 \in Q PROVE n \in Q
  <2>1. /\ kept[n] = IF n \in K THEN Append(kept[n - 1], q[n]) ELSE kept[n - 1]
        /\ kept[n - 1] \in Seq(S) /\ ToSet(kept[n - 1]) = At(n - 1)
    <3>1. n \in 0 .. N /\ n # 0
      BY <1>1
    <3>2. kept[n] = IF n \in K THEN Append(kept[n - 1], q[n]) ELSE kept[n - 1]
      <4> HIDE DEF Q, At
      <4>1. QED
        BY <1>2, <3>1 DEF Prefix
    <3>3. kept[n - 1] \in Seq(S) /\ ToSet(kept[n - 1]) = At(n - 1)
      <4> HIDE DEF At
      <4>1. QED
        BY <1>4
    <3>4. QED
      BY <3>2, <3>3
  <2>2. kept[n] \in Seq(S)
    BY <1>1, <2>1
  <2>3. 1 .. n = (1 .. n - 1) \cup {n}
    BY <1>1
  <2>4. ToSet(kept[n]) = At(n)
    <3>1. CASE n \in K
      <4>1. At(n) = At(n - 1) \cup {q[n]}
        BY <2>3, <3>1
      <4>2. QED
        <5> HIDE DEF At
        <5>1. QED
          BY <2>1, <3>1, <4>1, OneMember
    <3>2. CASE n \notin K
      <4>1. At(n) = At(n - 1)
        BY <2>3, <3>2
      <4>2. QED
        BY <2>1, <3>2, <4>1
    <3>3. QED
      BY <3>1, <3>2
  <2>5. n \in 0 .. N
    BY <1>1
  <2>6. QED
    BY <2>2, <2>4, <2>5
<1>5. 0 .. N \subseteq Q
  <2> HIDE DEF Q, N
  <2>1. QED
    BY <1>1, <1>3, <1>4, UpTo
<1>6. N \in 0 .. N
  BY <1>1
<1>7. N \in Q
  <2> HIDE DEF Q, N
  <2>1. QED
    BY <1>5, <1>6
<1>8. kept[N] \in Seq(S) /\ ToSet(kept[N]) = At(N)
  <2> HIDE DEF At, N
  <2>1. QED
    BY <1>7
<1>9. QED
  BY <1>2, <1>8

LEMMA WithoutMembers ==
    ASSUME NEW S, NEW q \in Seq(S), NEW s
    PROVE  Without(q, s) \in Seq(S) /\ ToSet(Without(q, s)) = {e \in ToSet(q) : e.src # s}
<1> DEFINE K == {i \in DOMAIN q : q[i].src # s}
<1>1. Without(q, s) \in Seq(S) /\ ToSet(Without(q, s)) = {q[i] : i \in K \cap (1 .. Len(q))}
  BY KeepMembers DEF Without
<1>2. DOMAIN q = 1 .. Len(q)
  OBVIOUS
<1>3. QED
  BY <1>1, <1>2 DEF ToSet

LEMMA EvictMembers ==
    ASSUME NEW S, NEW q \in Seq(S), NEW mayGo
    PROVE  /\ Evict(q, mayGo) \in Seq(S) /\ ToSet(Evict(q, mayGo)) \subseteq ToSet(q)
           /\ \A i \in 1 .. Len(q) : i \notin mayGo => q[i] \in ToSet(Evict(q, mayGo))
<1> DEFINE gone == {i \in mayGo :
                      Total(q) - Total(Keep(q, {k \in mayGo : k < i})) > MaxResidentQuads}
           K == DOMAIN q \ gone
<1>1. Evict(q, mayGo) = Keep(q, K)
  BY DEF Evict
<1>2. gone \subseteq mayGo /\ DOMAIN q = 1 .. Len(q)
  OBVIOUS
<1> HIDE DEF gone
<1>3. Keep(q, K) \in Seq(S) /\ ToSet(Keep(q, K)) = {q[i] : i \in K \cap (1 .. Len(q))}
  BY KeepMembers
<1>4. ToSet(q) = {q[i] : i \in 1 .. Len(q)}
  BY <1>2 DEF ToSet
<1>5. QED
  BY <1>1, <1>2, <1>3, <1>4

LEMMA SetMembers ==
    ASSUME NEW S, NEW q \in Seq(S), NEW pinned, NEW e \in S
    PROVE  /\ set(q, pinned, e) \in Seq(S)
           /\ \A x \in ToSet(set(q, pinned, e)) : x = e \/ (x \in ToSet(q) /\ x.src # e.src)
           /\ \A x \in ToSet(q) : x.src # e.src /\ pinned[x.src] # 0 => x \in ToSet(set(q, pinned, e))
           /\ e \in ToSet(set(q, pinned, e))
<1> DEFINE p == Append(Without(q, e.src), e)
           mayGo == {i \in DOMAIN p : p[i].src # e.src /\ pinned[p[i].src] = 0}
<1>1. set(q, pinned, e) = Evict(p, mayGo)
  BY DEF set, enforceBudget
<1>2. p \in Seq(S) /\ ToSet(p) = {x \in ToSet(q) : x.src # e.src} \cup {e}
  <2>1. Without(q, e.src) \in Seq(S) /\ ToSet(Without(q, e.src)) = {x \in ToSet(q) : x.src # e.src}
    BY WithoutMembers
  <2> DEFINE rest == Without(q, e.src)
  <2> HIDE DEF rest
  <2>2. QED
    BY <2>1, OneMember DEF rest
<1> HIDE DEF p
<1>3. /\ Evict(p, mayGo) \in Seq(S) /\ ToSet(Evict(p, mayGo)) \subseteq ToSet(p)
      /\ \A i \in 1 .. Len(p) : i \notin mayGo => p[i] \in ToSet(Evict(p, mayGo))
  BY <1>2, EvictMembers
<1>4. ToSet(p) = {p[i] : i \in 1 .. Len(p)}
  BY <1>2 DEF ToSet
<1>5. \A x \in ToSet(p) : x.src = e.src \/ pinned[x.src] # 0 => x \in ToSet(Evict(p, mayGo))
  BY <1>3, <1>4
<1>6. QED
  BY <1>1, <1>2, <1>3, <1>5

LEMMA GetMembers ==
    ASSUME NEW S, NEW q \in Seq(S), NEW s
    PROVE  /\ get(q, s) \in Seq(S) /\ ToSet(get(q, s)) \subseteq ToSet(q)
           /\ \A t : IsResident(q, t) => IsResident(get(q, s), t)
           /\ IsResident(q, s) => Entry(q, s) \in ToSet(q) /\ Entry(q, s).src = s
<1> DEFINE e == Entry(q, s)
<1>1. CASE IsResident(q, s)
  <2>1. e \in ToSet(q) /\ e.src = s
    BY <1>1 DEF IsResident, Entry
  <2>2. e \in S
    BY <2>1 DEF ToSet
  <2> HIDE DEF e
  <2>3. Without(q, s) \in Seq(S) /\ ToSet(Without(q, s)) = {x \in ToSet(q) : x.src # s}
    BY WithoutMembers
  <2> DEFINE rest == Without(q, s)
  <2>4. get(q, s) = Append(rest, e)
    BY <1>1 DEF get, e
  <2> HIDE DEF rest
  <2>5. Append(rest, e) \in Seq(S) /\ ToSet(Append(rest, e)) = {x \in ToSet(q) : x.src # s} \cup {e}
    BY <2>2, <2>3, OneMember DEF rest
  <2>6. QED
    BY <2>1, <2>4, <2>5 DEF IsResident, e
<1>2. CASE ~IsResident(q, s)
  BY <1>2 DEF get
<1>3. QED
  BY <1>1, <1>2

-----------------------------------------------------------------------------
(* A query asked after an invalidate is on a worker that has no older      *)
(* store of its source, builds none, or takes the invalidate before it.    *)
Stores == [src : Sources, ver : Nat]
Booked(r) == query[r].at # "new"
BuildsSince(w, s, n) == \A j \in DOMAIN jobs[w] : j.src = s => j.from >= n
StoresSince(w, s, n) == \A e \in ToSet(resident[w]) : e.src = s => e.ver >= n
DropComes(q, s, k) == \E i \in 1 .. k : IsFor(q[i], "invalidate", s)

AskFresh(w, k, r) ==
    /\ Booked(r) /\ query[r].floor <= dropped[query[r].src]
    /\ BuildsSince(w, query[r].src, query[r].floor)
    /\ StoresSince(w, query[r].src, query[r].floor) \/ DropComes(inbox[w], query[r].src, k)

AsksFresh(w) ==
    \A k \in 1 .. Len(inbox[w]) :
       /\ inbox[w][k].type = "load" => inbox[w][k].src \in Sources
       /\ \A r \in Requests : IsFor(inbox[w][k], "query", r) => AskFresh(w, k, r)
BuildsFresh(w) ==
    \A j \in DOMAIN jobs[w] :
       /\ j.src \in Sources /\ j.from \in Nat
       /\ j.req # NoRequest => Booked(j.req) /\ j.from >= query[j.req].floor
RunsFresh(w) ==
    \A e \in executing[w] : e.ver \in Nat /\ Booked(e.req) /\ e.ver >= query[e.req].floor
AnswersFresh(w) ==
    \A k \in 1 .. Len(outbox[w]) :
       LET m == outbox[w][k] IN
       m.type = "query-result" /\ m.out = "ok" =>
          Booked(m.req) /\ m.ver \in Nat /\ m.ver >= query[m.req].floor
Empties(w) == resident[w] = <<>> /\ DOMAIN jobs[w] = {}
WorkerFresh(w) ==
    /\ resident[w] \in Seq(Stores) /\ (thread[w] = "free" => Empties(w))
    /\ AsksFresh(w) /\ BuildsFresh(w) /\ RunsFresh(w) /\ AnswersFresh(w)

(* The same of a query that would be asked now.                            *)
NextFresh(w, s) ==
    /\ BuildsSince(w, s, dropped[s])
    /\ StoresSince(w, s, dropped[s]) \/ MessageFor(inbox[w], "invalidate", s)
OwnerFresh(s) == \A w \in Workers : workers[Assign[s]] = w => NextFresh(w, s)

FilesFresh ==
    /\ files \in [Sources -> Nat] /\ dropped \in [Sources -> Nat]
    /\ \A s \in Sources : dropped[s] <= files[s]
CallsFresh ==
    \A r \in Requests :
       /\ Booked(r) => query[r].src \in Sources /\ query[r].floor \in Nat
       /\ query[r].out = "ok" => query[r].ver >= query[r].floor
FreshInv ==
    /\ resident = [w \in Workers |-> resident[w]] /\ FilesFresh /\ CallsFresh
    /\ \A w \in Workers : WorkerFresh(w)
    /\ \A s \in Sources : OwnerFresh(s)

(* What a step leaves of the calls, and of what a worker has of a source.  *)
FloorStays ==
    \A r \in Requests : Booked(r) =>
       query'[r].at # "new" /\ query'[r].src = query[r].src /\ query'[r].floor = query[r].floor
DroppedGrows == FilesFresh' /\ \A s \in Sources : dropped[s] <= dropped'[s]
StillSince(w) ==
    \A s \in Sources, n \in Nat : n <= dropped[s] /\ BuildsSince(w, s, n) =>
       BuildsSince(w, s, n)' /\ (StoresSince(w, s, n) => StoresSince(w, s, n)')

LEMMA SameSince ==
    ASSUME NEW w, UNCHANGED <<resident[w], jobs[w]>>
    PROVE  StillSince(w)
  BY DEF StillSince, BuildsSince, StoresSince

(* What does not change on a worker stays fresh.                           *)
LEMMA StaysFresh ==
    ASSUME PoolInv, FreshInv, NEW w \in Workers, FloorStays
    PROVE  /\ UNCHANGED outbox[w] => AnswersFresh(w)'
           /\ executing'[w] \subseteq executing[w] => RunsFresh(w)'
           /\ DOMAIN jobs'[w] \subseteq DOMAIN jobs[w] => BuildsFresh(w)'
<1>1. WorkerFresh(w) /\ \A r \in Requests : Booked(r) => Booked(r)' /\ query'[r].floor = query[r].floor
  BY DEF FreshInv, FloorStays, Booked
<1>2. ASSUME UNCHANGED outbox[w] PROVE AnswersFresh(w)'
  <2>1. outbox'[w] = outbox[w] /\ AnswersFresh(w)
    BY <1>1, <1>2 DEF WorkerFresh
  <2>2. ASSUME NEW k \in 1 .. Len(outbox[w]),
               outbox[w][k].type = "query-result", outbox[w][k].out = "ok"
        PROVE  /\ Booked(outbox[w][k].req)' /\ outbox[w][k].ver \in Nat
               /\ outbox[w][k].ver >= query'[outbox[w][k].req].floor
    <3>1. outbox[w][k].req \in Requests
      BY <2>2 DEF PoolInv, PortsInv, GoodOut, GoodAnswer
    <3>2. /\ Booked(outbox[w][k].req) /\ outbox[w][k].ver \in Nat
          /\ outbox[w][k].ver >= query[outbox[w][k].req].floor
      BY <2>1, <2>2 DEF AnswersFresh
    <3>3. /\ query'[outbox[w][k].req].at # "new"
          /\ query'[outbox[w][k].req].floor = query[outbox[w][k].req].floor
      BY <3>1, <3>2 DEF FloorStays
    <3>4. QED
      BY <1>2, <3>2, <3>3 DEF Booked
  <2>3. QED
    BY <2>1, <2>2 DEF AnswersFresh, Booked
<1>3. ASSUME executing'[w] \subseteq executing[w] PROVE RunsFresh(w)'
  BY <1>1, <1>3 DEF WorkerFresh, RunsFresh, PoolInv, PortsInv
<1>4. ASSUME DOMAIN jobs'[w] \subseteq DOMAIN jobs[w] PROVE BuildsFresh(w)'
  BY <1>1, <1>4 DEF WorkerFresh, BuildsFresh, PoolInv, PortsInv
<1>5. QED
  BY <1>2, <1>3, <1>4

LEMMA AskStays ==
    ASSUME FreshInv, NEW w \in Workers, FloorStays, DroppedGrows, StillSince(w),
           NEW k, NEW i, NEW r \in Requests, AskFresh(w, k, r),
           \A s, n : DropComes(inbox[w], s, k) => DropComes(inbox'[w], s, i) \/ StoresSince(w, s, n)'
    PROVE  AskFresh(w, i, r)'
<1>1. PICK s \in Sources, n \in Nat : s = query[r].src /\ n = query[r].floor
  BY DEF AskFresh, FreshInv, CallsFresh
<1>2. Booked(r) /\ n <= dropped[s] /\ query'[r].at # "new" /\ query'[r].src = s /\ query'[r].floor = n
  BY <1>1 DEF AskFresh, FloorStays
<1>3. n <= dropped'[s]
  <2>1. dropped[s] \in Nat /\ dropped'[s] \in Nat /\ dropped[s] <= dropped'[s]
    BY DEF FreshInv, FilesFresh, DroppedGrows
  <2>2. QED
    BY <1>2, <2>1
<1>4. BuildsSince(w, s, n)' /\ (StoresSince(w, s, n) => StoresSince(w, s, n)')
  BY <1>1, <1>2 DEF AskFresh, StillSince
<1>5. StoresSince(w, s, n)' \/ DropComes(inbox'[w], s, i)
  BY <1>1, <1>4 DEF AskFresh
<1>6. QED
  BY <1>2, <1>3, <1>4, <1>5 DEF AskFresh, Booked, BuildsSince, StoresSince, DropComes

(* The inbox of a worker: it is left alone, its head is taken, or messages *)
(* are added.                                                              *)
LEMMA InboxSame ==
    ASSUME PoolInv, FreshInv, NEW w \in Workers, FloorStays, DroppedGrows, StillSince(w),
           inbox'[w] = inbox[w]
    PROVE  /\ AsksFresh(w)'
           /\ \A s : MessageFor(inbox[w], "invalidate", s) => MessageFor(inbox'[w], "invalidate", s)
<1>1. AsksFresh(w)
  BY DEF FreshInv, WorkerFresh
<1>2. ASSUME NEW k \in 1 .. Len(inbox[w]), NEW r \in Requests, IsFor(inbox[w][k], "query", r)
      PROVE  AskFresh(w, k, r)'
  <2>1. AskFresh(w, k, r)
    BY <1>1, <1>2 DEF AsksFresh
  <2>2. QED
    BY <2>1, AskStays
<1>3. QED
  BY <1>1, <1>2 DEF AsksFresh

LEMMA InboxTail ==
    ASSUME PoolInv, FreshInv, NEW w \in Workers, FloorStays, DroppedGrows, StillSince(w),
           inbox[w] # <<>>, inbox'[w] = Tail(inbox[w]),
           \A s : IsFor(Head(inbox[w]), "invalidate", s) => \A n : StoresSince(w, s, n)'
    PROVE  /\ AsksFresh(w)'
           /\ \A s : MessageFor(inbox[w], "invalidate", s)
                       => MessageFor(inbox'[w], "invalidate", s) \/ \A n : StoresSince(w, s, n)'
<1> DEFINE q == inbox[w]
           rest == Tail(q)
<1>1. PICK S : q \in Seq(S)
  BY DEF PoolInv, PortsInv, GoodIn
<1>2. /\ Len(rest) \in Nat /\ Head(q) = q[1]
      /\ \A i \in 1 .. Len(rest) : i + 1 \in 1 .. Len(q) /\ rest[i] = q[i + 1]
  BY <1>1
<1>3. AsksFresh(w)
  BY DEF FreshInv, WorkerFresh
<1>4. \A s : MessageFor(q, "invalidate", s)
               => MessageFor(rest, "invalidate", s) \/ IsFor(Head(q), "invalidate", s)
  BY <1>1, ForHead
<1> HIDE DEF rest
<1>5. inbox'[w] = rest
  BY DEF rest
<1>6. ASSUME NEW k \in 1 .. Len(rest), NEW r \in Requests, IsFor(rest[k], "query", r)
      PROVE  AskFresh(w, k, r)'
  <2>1. k \in Nat /\ k + 1 \in 1 .. Len(q) /\ rest[k] = q[k + 1]
    BY <1>2
  <2>2. AskFresh(w, k + 1, r)
    BY <1>3, <1>6, <2>1 DEF AsksFresh
  <2>3. ASSUME NEW s, NEW n, DropComes(q, s, k + 1)
        PROVE  DropComes(inbox'[w], s, k) \/ StoresSince(w, s, n)'
    <3>1. PICK i \in 1 .. k + 1 : IsFor(q[i], "invalidate", s)
      BY <2>3 DEF DropComes
    <3>2. CASE i = 1
      BY <1>2, <3>1, <3>2
    <3>3. CASE i # 1
      <4>1. i - 1 \in 1 .. k /\ i - 1 \in 1 .. Len(rest) /\ (i - 1) + 1 = i
        BY <1>2, <2>1, <3>1, <3>3
      <4>2. rest[i - 1] = q[i]
        BY <1>2, <4>1
      <4>3. QED
        BY <1>5, <3>1, <4>1, <4>2 DEF DropComes
    <3>4. QED
      BY <3>2, <3>3
  <2>4. QED
    BY <2>2, <2>3, AskStays
<1>7. \A k \in 1 .. Len(rest) : rest[k].type = "load" => rest[k].src \in Sources
  BY <1>2, <1>3 DEF AsksFresh
<1>8. QED
  BY <1>4, <1>5, <1>6, <1>7 DEF AsksFresh

LEMMA InboxMore ==
    ASSUME PoolInv, FreshInv, NEW w \in Workers, FloorStays, DroppedGrows, StillSince(w),
           NEW S, NEW msgs \in Seq(S), inbox'[w] = inbox[w] \o msgs,
           \A i \in 1 .. Len(msgs) : msgs[i].type = "load" => msgs[i].src \in Sources,
           \A k : \A i \in 1 .. Len(msgs), r \in Requests :
              k = Len(inbox[w]) + i /\ IsFor(msgs[i], "query", r) => AskFresh(w, k, r)'
    PROVE  /\ AsksFresh(w)'
           /\ \A s : MessageFor(inbox[w], "invalidate", s) \/ MessageFor(msgs, "invalidate", s)
                       => MessageFor(inbox'[w], "invalidate", s)
<1> DEFINE q == inbox[w]
           more == q \o msgs
<1>1. PICK T : q \in Seq(T)
  BY DEF PoolInv, PortsInv, GoodIn
<1>2. q \in Seq(S \cup T) /\ msgs \in Seq(S \cup T)
  BY <1>1, SeqMonotonic
<1>3. /\ Len(q) \in Nat /\ Len(msgs) \in Nat /\ Len(more) = Len(q) + Len(msgs)
      /\ \A k \in 1 .. Len(q) : k \in 1 .. Len(more) /\ more[k] = q[k]
      /\ \A k \in 1 .. Len(more) : k \notin 1 .. Len(q) =>
            k - Len(q) \in 1 .. Len(msgs) /\ more[k] = msgs[k - Len(q)]
  BY <1>2
<1>4. AsksFresh(w)
  BY DEF FreshInv, WorkerFresh
<1>5. \A s : MessageFor(more, "invalidate", s)
               <=> MessageFor(q, "invalidate", s) \/ MessageFor(msgs, "invalidate", s)
  BY <1>2, ForConcat
<1> HIDE DEF more
<1>6. inbox'[w] = more
  BY DEF more
<1>7. ASSUME NEW k \in 1 .. Len(q), NEW r \in Requests, IsFor(q[k], "query", r)
      PROVE  AskFresh(w, k, r)'
  <2>1. AskFresh(w, k, r)
    BY <1>4, <1>7 DEF AsksFresh
  <2>2. \A s : DropComes(q, s, k) => DropComes(inbox'[w], s, k)
    <3>1. \A i \in 1 .. k : inbox'[w][i] = q[i]
      <4>1. \A i \in 1 .. k : i \in 1 .. Len(q)
        BY <1>3
      <4>2. QED
        BY <1>3, <1>6, <4>1
    <3>2. QED
      BY <3>1 DEF DropComes
  <2>3. QED
    BY <2>1, <2>2, AskStays
<1>8. ASSUME NEW k \in 1 .. Len(more)
      PROVE  /\ more[k].type = "load" => more[k].src \in Sources
             /\ \A r \in Requests : IsFor(more[k], "query", r) => AskFresh(w, k, r)'
  <2>1. CASE k \in 1 .. Len(q)
    <3>1. more[k] = q[k]
      BY <1>3, <2>1
    <3>2. QED
      BY <1>4, <1>7, <2>1, <3>1 DEF AsksFresh
  <2>2. CASE k \notin 1 .. Len(q)
    <3> DEFINE i == k - Len(q)
    <3>1. i \in 1 .. Len(msgs) /\ more[k] = msgs[i] /\ k = Len(q) + i
      BY <1>3, <2>2
    <3> HIDE DEF i
    <3>2. more[k].type = "load" => more[k].src \in Sources
      BY <3>1
    <3>3. ASSUME NEW r \in Requests, IsFor(more[k], "query", r) PROVE AskFresh(w, k, r)'
      BY <3>1, <3>3
    <3>4. QED
      BY <3>2, <3>3
  <2>3. QED
    BY <2>1, <2>2
<1>9. QED
  BY <1>5, <1>6, <1>8 DEF AsksFresh

(* The worker of a source, as long as its invalidates stay.                *)
LEMMA OwnerStays ==
    ASSUME FreshInv, NEW w \in Workers, NEW s \in Sources, NextFresh(w, s), StillSince(w),
           dropped'[s] = dropped[s],
           MessageFor(inbox[w], "invalidate", s) =>
              MessageFor(inbox'[w], "invalidate", s) \/ \A n : StoresSince(w, s, n)'
    PROVE  NextFresh(w, s)'
<1>1. PICK n \in Nat : n = dropped[s] /\ n <= dropped[s]
  BY DEF FreshInv, FilesFresh
<1>2. BuildsSince(w, s, n)' /\ (StoresSince(w, s, n) => StoresSince(w, s, n)')
  BY <1>1 DEF NextFresh, StillSince
<1>3. StoresSince(w, s, n)' \/ MessageFor(inbox'[w], "invalidate", s)
  BY <1>1, <1>2 DEF NextFresh
<1>4. QED
  BY <1>1, <1>2, <1>3 DEF NextFresh, BuildsSince, StoresSince, MessageFor

(* A step of a worker.                                                     *)
WorkerOnly(w) ==
    /\ UNCHANGED <<query, workers, thread, files, dropped>>
    /\ resident' = [x \in Workers |-> resident'[x]]
    /\ \A x \in Workers : x # w =>
          UNCHANGED <<inbox[x], outbox[x], resident[x], jobs[x], executing[x]>>

InboxMoves(w) ==
    \/ inbox'[w] = inbox[w]
    \/ /\ inbox[w] # <<>> /\ inbox'[w] = Tail(inbox[w])
       /\ \A s : IsFor(Head(inbox[w]), "invalidate", s) => \A n : StoresSince(w, s, n)'

LEMMA WorkerActs ==
    ASSUME PoolInv, FreshInv, NEW w \in Workers, WorkerOnly(w), thread[w] # "free",
           StillSince(w), resident'[w] \in Seq(Stores), InboxMoves(w),
           BuildsFresh(w)', RunsFresh(w)', AnswersFresh(w)'
    PROVE  FreshInv'
<1>1. FilesFresh' /\ CallsFresh' /\ FloorStays /\ DroppedGrows
  <2>1. UNCHANGED <<query, files, dropped>>
    BY DEF WorkerOnly
  <2>2. FilesFresh' /\ CallsFresh' /\ FloorStays
    BY <2>1 DEF FreshInv, FilesFresh, CallsFresh, Booked, FloorStays
  <2>3. \A s \in Sources : dropped[s] <= dropped'[s]
    BY <2>1 DEF FreshInv, FilesFresh
  <2>4. QED
    BY <2>2, <2>3 DEF DroppedGrows
<1>2. \A x \in Workers : StillSince(x)
  BY SameSince DEF WorkerOnly
<1>3. ASSUME NEW x \in Workers
      PROVE  /\ AsksFresh(x)'
             /\ \A s : MessageFor(inbox[x], "invalidate", s) =>
                          MessageFor(inbox'[x], "invalidate", s) \/ \A n : StoresSince(x, s, n)'
  <2>1. CASE inbox'[x] = inbox[x]
    BY <1>1, <1>2, <2>1, InboxSame
  <2>2. CASE x = w /\ inbox'[x] # inbox[x]
    BY <1>1, <1>2, <2>2, InboxTail DEF InboxMoves
  <2>3. QED
    BY <2>1, <2>2 DEF WorkerOnly
<1>4. ASSUME NEW x \in Workers PROVE WorkerFresh(x)'
  <2>1. CASE x = w
    BY <1>3, <2>1 DEF WorkerFresh, WorkerOnly
  <2>2. CASE x # w
    <3>1. UNCHANGED <<thread[x], outbox[x], resident[x], jobs[x], executing[x]>>
      BY <2>2 DEF WorkerOnly
    <3>2. BuildsFresh(x)' /\ RunsFresh(x)' /\ AnswersFresh(x)'
      BY <1>1, <3>1, StaysFresh
    <3>3. QED
      BY <1>3, <3>1, <3>2 DEF FreshInv, WorkerFresh, Empties
  <2>3. QED
    BY <2>1, <2>2
<1>5. ASSUME NEW s \in Sources PROVE OwnerFresh(s)'
  <2>1. dropped'[s] = dropped[s] /\ workers' = workers /\ OwnerFresh(s)
    BY DEF WorkerOnly, FreshInv
  <2>2. \A x \in Workers : NextFresh(x, s) => NextFresh(x, s)'
    BY <1>2, <1>3, <2>1, OwnerStays
  <2>3. QED
    BY <2>1, <2>2 DEF OwnerFresh
<1>6. QED
  BY <1>1, <1>4, <1>5 DEF FreshInv, WorkerOnly

(* What the steps of a worker are made of.                                 *)
LEMMA StartsFresh ==
    ASSUME PoolInv, CallsInv, FreshInv, NEW w \in Workers, NEW s \in Sources,
           NEW r \in Requests \cup {NoRequest}, Starts(w, s, r), UNCHANGED <<query, resident>>,
           r \in Requests => Booked(r) /\ query[r].floor <= dropped[s]
    PROVE  /\ \A x \in Workers : x # w => jobs'[x] = jobs[x]
           /\ BuildsFresh(w)' /\ StillSince(w)
<1> DEFINE n == [src |-> s, req |-> r, from |-> files[s]]
           b == jobs[w] (+) SetToBag({n})
<1>1. jobs' = [jobs EXCEPT ![w] = b] /\ jobs = [x \in Workers |-> jobs[x]] /\ IsABag(jobs[w])
  BY DEF Starts, PoolInv, PortsInv, CallsInv, Wired
<1>2. DOMAIN b = DOMAIN jobs[w] \cup {n} /\ n.src = s /\ n.req = r /\ n.from = files[s]
  <2>1. n.src = s /\ n.req = r /\ n.from = files[s]
    OBVIOUS
  <2> HIDE DEF n
  <2>2. DOMAIN b = DOMAIN jobs[w] \cup {n}
    BY <1>1, OneMore
  <2>3. QED
    BY <2>1, <2>2
<1> HIDE DEF b, n
<1>3. jobs'[w] = b /\ \A x \in Workers : x # w => jobs'[x] = jobs[x]
  BY <1>1
<1>4. files[s] \in Nat /\ dropped[s] \in Nat /\ dropped[s] <= files[s]
  BY DEF FreshInv, FilesFresh
<1>5. BuildsFresh(w)'
  <2>1. r # NoRequest => Booked(r) /\ query[r].floor \in Nat /\ n.from >= query[r].floor
    BY <1>2, <1>4 DEF FreshInv, CallsFresh
  <2>2. BuildsFresh(w)
    BY DEF FreshInv, WorkerFresh
  <2>3. QED
    BY <1>2, <1>3, <1>4, <2>1, <2>2 DEF BuildsFresh, Booked
<1>6. ASSUME NEW t \in Sources, NEW m \in Nat, m <= dropped[t], BuildsSince(w, t, m)
      PROVE  BuildsSince(w, t, m)'
  <2>1. n.src = t => n.from >= m
    BY <1>2, <1>4, <1>6
  <2>2. QED
    BY <1>2, <1>3, <1>6, <2>1 DEF BuildsSince
<1>7. StillSince(w)
  BY <1>6 DEF StillSince, StoresSince
<1>8. QED
  BY <1>3, <1>5, <1>7

LEMMA FinishesFresh ==
    ASSUME PoolInv, CallsInv, FreshInv, NEW w \in Workers, NEW j, Finishes(w, j), UNCHANGED query
    PROVE  /\ \A x \in Workers : x # w => jobs'[x] = jobs[x]
           /\ BuildsFresh(w)' /\ DOMAIN jobs'[w] \subseteq DOMAIN jobs[w] /\ j \in DOMAIN jobs[w]
<1>1. \A x \in Workers : IsABag(jobs[x])
  BY DEF CallsInv, Wired
<1>2. /\ j \in DOMAIN jobs[w] /\ \A x \in Workers : DOMAIN jobs'[x] \subseteq DOMAIN jobs[x]
      /\ \A x \in Workers : x # w => jobs'[x] = jobs[x]
  BY <1>1, FinishesOnly, FinishesJob
<1>3. FloorStays
  BY DEF FloorStays, Booked
<1>4. QED
  BY <1>2, <1>3, StaysFresh

LEMMA LessSince ==
    ASSUME NEW w, ToSet(resident'[w]) \subseteq ToSet(resident[w]),
           DOMAIN jobs'[w] \subseteq DOMAIN jobs[w]
    PROVE  StillSince(w)
  BY DEF StillSince, BuildsSince, StoresSince

LEMMA UseFresh ==
    ASSUME PoolInv, FreshInv, NEW w \in Workers, NEW s, UseStore(w, s), UNCHANGED jobs
    PROVE  /\ resident' = [x \in Workers |-> resident'[x]]
           /\ \A x \in Workers : x # w => resident'[x] = resident[x]
           /\ resident'[w] \in Seq(Stores) /\ StillSince(w)
<1>1. /\ resident' = [resident EXCEPT ![w] = get(resident[w], s)]
      /\ resident = [x \in Workers |-> resident[x]] /\ resident[w] \in Seq(Stores)
  BY DEF UseStore, FreshInv, WorkerFresh
<1> DEFINE q == get(resident[w], s)
<1>2. q \in Seq(Stores) /\ ToSet(q) \subseteq ToSet(resident[w])
  BY <1>1, GetMembers
<1> HIDE DEF q
<1>3. /\ resident'[w] = q /\ \A x \in Workers : x # w => resident'[x] = resident[x]
      /\ resident' = [x \in Workers |-> resident'[x]]
  BY <1>1 DEF q
<1>4. QED
  BY <1>2, <1>3, LessSince

(* A build that is over is no older than what was asked of it.             *)
LEMMA KeepFresh ==
    ASSUME PoolInv, CallsInv, FreshInv, NEW w \in Workers, NEW j, Finishes(w, j), UNCHANGED query,
           NEW v \in j.from .. files[j.src], KeepStore(w, j.src, v)
    PROVE  /\ resident' = [x \in Workers |-> resident'[x]] /\ v \in Nat
           /\ \A x \in Workers : x # w => resident'[x] = resident[x]
           /\ resident'[w] \in Seq(Stores) /\ StillSince(w)
<1>1. j \in DOMAIN jobs[w] /\ DOMAIN jobs'[w] \subseteq DOMAIN jobs[w]
  BY FinishesFresh
<1>2. j.src \in Sources /\ j.from \in Nat
  BY <1>1 DEF FreshInv, WorkerFresh, BuildsFresh
<1>3. files[j.src] \in Nat
  BY <1>2 DEF FreshInv, FilesFresh
<1>4. v \in Nat /\ v >= j.from
  BY <1>2, <1>3
<1> DEFINE e == [src |-> j.src, ver |-> v]
           q == set(resident[w], pins[w], e)
<1>5. /\ resident' = [resident EXCEPT ![w] = q]
      /\ resident = [x \in Workers |-> resident[x]] /\ resident[w] \in Seq(Stores)
  BY DEF KeepStore, FreshInv, WorkerFresh
<1>6. e \in Stores /\ e.src = j.src /\ e.ver = v
  BY <1>2, <1>4 DEF Stores
<1> HIDE DEF e
<1>7. q \in Seq(Stores) /\ \A x \in ToSet(q) : x = e \/ x \in ToSet(resident[w])
  BY <1>5, <1>6, SetMembers
<1> HIDE DEF q
<1>8. /\ resident'[w] = q /\ \A x \in Workers : x # w => resident'[x] = resident[x]
      /\ resident' = [x \in Workers |-> resident'[x]]
  BY <1>5
<1>9. ASSUME NEW t \in Sources, NEW n \in Nat, BuildsSince(w, t, n)
      PROVE  BuildsSince(w, t, n)' /\ (StoresSince(w, t, n) => StoresSince(w, t, n)')
  <2>1. e.src = t => e.ver >= n
    <3>1. j.src = t => j.from >= n
      BY <1>1, <1>9 DEF BuildsSince
    <3>2. QED
      BY <1>2, <1>4, <1>6, <3>1
  <2>2. QED
    BY <1>1, <1>7, <1>8, <1>9, <2>1 DEF BuildsSince, StoresSince
<1>10. StillSince(w)
  BY <1>9 DEF StillSince
<1>11. QED
  BY <1>4, <1>7, <1>8, <1>10

LEMMA RunFresh ==
    ASSUME PoolInv, FreshInv, NEW w \in Workers, NEW r \in Requests, NEW s, NEW v \in Nat,
           Run(w, r, s, v), UNCHANGED query, Booked(r), v >= query[r].floor
    PROVE  RunsFresh(w)' /\ \A x \in Workers : x # w => executing'[x] = executing[x]
<1> DEFINE n == [req |-> r, src |-> s, ver |-> v]
<1>1. executing' = [executing EXCEPT ![w] = @ \cup {n}] /\ executing = [x \in Workers |-> executing[x]]
  BY DEF Run, PoolInv, PortsInv
<1>2. n.req = r /\ n.ver = v
  OBVIOUS
<1> HIDE DEF n
<1>3. executing'[w] = executing[w] \cup {n} /\ \A x \in Workers : x # w => executing'[x] = executing[x]
  BY <1>1
<1>4. RunsFresh(w)
  BY DEF FreshInv, WorkerFresh
<1>5. QED
  BY <1>2, <1>3, <1>4 DEF RunsFresh, Booked

LEMMA ReplyFresh ==
    ASSUME PoolInv, FreshInv, NEW w \in Workers, NEW m, Reply(w, m), UNCHANGED query,
           m.type = "query-result" /\ m.out = "ok" =>
              Booked(m.req) /\ m.ver \in Nat /\ m.ver >= query[m.req].floor
    PROVE  AnswersFresh(w)' /\ \A x \in Workers : x # w => outbox'[x] = outbox[x]
<1>1. outbox' = [outbox EXCEPT ![w] = Append(outbox[w], m)] /\ outbox = [x \in Workers |-> outbox[x]]
  BY DEF Reply, PoolInv, PortsInv
<1>2. PICK S : outbox[w] \in Seq(S)
  BY DEF PoolInv, PortsInv, GoodOut
<1>3. outbox[w] \in Seq(S \cup {m}) /\ m \in S \cup {m}
  BY <1>2, SeqMonotonic
<1> DEFINE more == Append(outbox[w], m)
<1>4. \A k \in 1 .. Len(more) : more[k] = m \/ (k \in 1 .. Len(outbox[w]) /\ more[k] = outbox[w][k])
  BY <1>3
<1> HIDE DEF more
<1>5. outbox'[w] = more /\ \A x \in Workers : x # w => outbox'[x] = outbox[x]
  BY <1>1 DEF more
<1>6. AnswersFresh(w)
  BY DEF FreshInv, WorkerFresh
<1>7. QED
  BY <1>4, <1>5, <1>6 DEF AnswersFresh, Booked

LEMMA ConsumeFresh ==
    ASSUME PoolInv, NEW w \in Workers, NEW type, Receives(w, type), Consume(w)
    PROVE  /\ inbox'[w] = Tail(inbox[w]) /\ \A x \in Workers : x # w => inbox'[x] = inbox[x]
           /\ inbox[w] # <<>> /\ Head(inbox[w]) = inbox[w][1] /\ 1 \in 1 .. Len(inbox[w])
           /\ thread[w] # "free"
<1>1. inbox' = [inbox EXCEPT ![w] = Tail(inbox[w])] /\ inbox = [x \in Workers |-> inbox[x]]
  BY DEF Consume, PoolInv, PortsInv
<1> DEFINE rest == Tail(inbox[w])
<1> HIDE DEF rest
<1>2. inbox'[w] = rest /\ \A x \in Workers : x # w => inbox'[x] = inbox[x]
  BY <1>1 DEF rest
<1>3. PICK S : inbox[w] \in Seq(S)
  BY DEF PoolInv, PortsInv, GoodIn
<1>4. inbox[w] # <<>> /\ thread[w] # "free"
  BY DEF Receives
<1>5. Head(inbox[w]) = inbox[w][1] /\ 1 \in 1 .. Len(inbox[w])
  BY <1>3, <1>4
<1>6. QED
  BY <1>2, <1>4, <1>5 DEF rest

LEMMA LoadFresh ==
    ASSUME PoolInv, CallsInv, FreshInv, NEW w \in Workers, handleLoad(w)
    PROVE  FreshInv'
<1> DEFINE s == Head(inbox[w]).src
<1>1. /\ Receives(w, "load") /\ Consume(w)
      /\ UNCHANGED <<query, workers, thread, executing, files, dropped>>
  BY DEF handleLoad, mainVars
<1>2. /\ inbox'[w] = Tail(inbox[w]) /\ \A x \in Workers : x # w => inbox'[x] = inbox[x]
      /\ inbox[w] # <<>> /\ Head(inbox[w]) = inbox[w][1] /\ 1 \in 1 .. Len(inbox[w])
      /\ thread[w] # "free"
  BY <1>1, ConsumeFresh
<1>3. InboxMoves(w)
  BY <1>1, <1>2 DEF InboxMoves, Receives, IsFor
<1>4. FloorStays /\ RunsFresh(w)'
  <2>1. FloorStays
    BY <1>1 DEF FloorStays, Booked
  <2>2. QED
    BY <1>1, <2>1, StaysFresh
<1>5. PICK t \in Sources : t = s
  BY <1>1, <1>2 DEF Receives, FreshInv, WorkerFresh, AsksFresh
<1>6. CASE UseStore(w, t) /\ Reply(w, LoadReply(t, TRUE)) /\ UNCHANGED jobs
  <2>1. LoadReply(t, TRUE).type # "query-result"
    BY DEF LoadReply
  <2>2. AnswersFresh(w)' /\ \A x \in Workers : x # w => outbox'[x] = outbox[x]
    BY <1>1, <1>6, <2>1, ReplyFresh
  <2>3. BuildsFresh(w)'
    BY <1>4, <1>6, StaysFresh
  <2>4. /\ resident' = [x \in Workers |-> resident'[x]]
        /\ \A x \in Workers : x # w => resident'[x] = resident[x]
        /\ resident'[w] \in Seq(Stores) /\ StillSince(w)
    BY <1>6, UseFresh
  <2>5. WorkerOnly(w)
    BY <1>1, <1>2, <1>6, <2>2, <2>4 DEF WorkerOnly
  <2>6. QED
    BY <1>2, <1>3, <1>4, <2>2, <2>3, <2>4, <2>5, WorkerActs
<1>7. CASE Starts(w, t, NoRequest) /\ UNCHANGED <<resident, outbox>>
  <2>1. /\ \A x \in Workers : x # w => jobs'[x] = jobs[x]
        /\ BuildsFresh(w)' /\ StillSince(w)
    BY <1>1, <1>7, StartsFresh, AbsentAssumption
  <2>2. AnswersFresh(w)'
    BY <1>4, <1>7, StaysFresh
  <2>3. resident' = [x \in Workers |-> resident'[x]] /\ resident'[w] \in Seq(Stores)
    BY <1>7 DEF FreshInv, WorkerFresh
  <2>4. WorkerOnly(w)
    BY <1>1, <1>2, <1>7, <2>1, <2>3 DEF WorkerOnly
  <2>5. QED
    BY <1>2, <1>3, <1>4, <2>1, <2>2, <2>3, <2>4, WorkerActs
<1>8. QED
  BY <1>5, <1>6, <1>7 DEF handleLoad

LEMMA QueryFresh ==
    ASSUME PoolInv, CallsInv, FreshInv, NEW w \in Workers, handleQuery(w)
    PROVE  FreshInv'
<1>1. /\ Receives(w, "query") /\ Consume(w)
      /\ UNCHANGED <<query, workers, thread, files, dropped>>
  BY DEF handleQuery, mainVars
<1>2. /\ inbox'[w] = Tail(inbox[w]) /\ \A x \in Workers : x # w => inbox'[x] = inbox[x]
      /\ inbox[w] # <<>> /\ Head(inbox[w]) = inbox[w][1] /\ 1 \in 1 .. Len(inbox[w])
      /\ thread[w] # "free" /\ Head(inbox[w]).type = "query"
  BY <1>1, ConsumeFresh DEF Receives
<1>3. InboxMoves(w)
  BY <1>2 DEF InboxMoves, IsFor
<1>4. FloorStays
  BY <1>1 DEF FloorStays, Booked
<1>5. PICK r \in Requests : r = Head(inbox[w]).req
  BY <1>2 DEF PoolInv, PortsInv, GoodIn, GoodAsk
<1>6. AskFresh(w, 1, r)
  BY <1>2, <1>5 DEF FreshInv, WorkerFresh, AsksFresh, IsFor
<1>7. PICK s \in Sources : s = query[r].src
  BY <1>6 DEF AskFresh, FreshInv, CallsFresh
<1>8. Booked(r) /\ query[r].floor \in Nat /\ query[r].floor <= dropped[s] /\ StoresSince(w, s, query[r].floor)
  <2>1. ~DropComes(inbox[w], s, 1)
    BY <1>2 DEF DropComes, IsFor
  <2>2. QED
    BY <1>6, <1>7, <2>1 DEF AskFresh, FreshInv, CallsFresh
<1>9. resident = [x \in Workers |-> resident[x]] /\ resident[w] \in Seq(Stores)
  BY DEF FreshInv, WorkerFresh
<1>10. CASE /\ IsResident(resident[w], s) /\ UseStore(w, s)
            /\ Run(w, r, s, Entry(resident[w], s).ver) /\ UNCHANGED <<jobs, outbox>>
  <2> DEFINE e == Entry(resident[w], s)
  <2>1. e \in ToSet(resident[w]) /\ e.src = s
    BY <1>9, <1>10, GetMembers
  <2>2. e \in Stores
    BY <1>9, <2>1 DEF ToSet
  <2>3. e.ver \in Nat /\ e.ver >= query[r].floor
    BY <1>8, <2>1, <2>2 DEF StoresSince, Stores
  <2> HIDE DEF e
  <2>4. Run(w, r, s, e.ver)
    BY <1>10 DEF e
  <2>5. RunsFresh(w)' /\ \A x \in Workers : x # w => executing'[x] = executing[x]
    BY <1>1, <1>8, <2>3, <2>4, RunFresh
  <2>6. BuildsFresh(w)' /\ AnswersFresh(w)'
    BY <1>4, <1>10, StaysFresh
  <2>7. /\ resident' = [x \in Workers |-> resident'[x]]
        /\ \A x \in Workers : x # w => resident'[x] = resident[x]
        /\ resident'[w] \in Seq(Stores) /\ StillSince(w)
    BY <1>10, UseFresh
  <2>8. WorkerOnly(w)
    BY <1>1, <1>2, <1>10, <2>5, <2>7 DEF WorkerOnly
  <2>9. QED
    BY <1>2, <1>3, <2>5, <2>6, <2>7, <2>8, WorkerActs
<1>11. CASE Reply(w, ResultMsg(r, "error", 0)) /\ UNCHANGED <<resident, pins, executing, jobs>>
  <2>1. ResultMsg(r, "error", 0).out = "error"
    BY DEF ResultMsg
  <2>2. AnswersFresh(w)' /\ \A x \in Workers : x # w => outbox'[x] = outbox[x]
    BY <1>1, <1>11, <2>1, ReplyFresh
  <2>3. BuildsFresh(w)' /\ RunsFresh(w)'
    BY <1>4, <1>11, StaysFresh
  <2>4. StillSince(w) /\ WorkerOnly(w)
    BY <1>1, <1>2, <1>9, <1>11, <2>2, SameSince DEF WorkerOnly
  <2>5. QED
    BY <1>2, <1>3, <1>9, <1>11, <2>2, <2>3, <2>4, WorkerActs
<1>12. CASE Starts(w, s, r) /\ UNCHANGED <<resident, pins, executing, outbox>>
  <2>1. /\ \A x \in Workers : x # w => jobs'[x] = jobs[x]
        /\ BuildsFresh(w)' /\ StillSince(w)
    BY <1>1, <1>8, <1>12, StartsFresh
  <2>2. AnswersFresh(w)' /\ RunsFresh(w)'
    BY <1>4, <1>12, StaysFresh
  <2>3. WorkerOnly(w)
    BY <1>1, <1>2, <1>9, <1>12, <2>1 DEF WorkerOnly
  <2>4. QED
    BY <1>2, <1>3, <1>9, <1>12, <2>1, <2>2, <2>3, WorkerActs
<1>13. QED
  BY <1>5, <1>7, <1>10, <1>11, <1>12 DEF handleQuery

LEMMA OtherFresh ==
    ASSUME PoolInv, FreshInv, NEW w \in Workers, handleCancel(w) \/ handleInvalidate(w)
    PROVE  FreshInv'
<1>1. /\ \E type \in {"cancel", "invalidate"} : Receives(w, type)
      /\ Consume(w) /\ UNCHANGED <<query, workers, thread, outbox, jobs, executing, files, dropped>>
  BY DEF handleCancel, handleInvalidate, mainVars, storeVars
<1>2. /\ inbox'[w] = Tail(inbox[w]) /\ \A x \in Workers : x # w => inbox'[x] = inbox[x]
      /\ inbox[w] # <<>> /\ thread[w] # "free"
  BY <1>1, ConsumeFresh
<1>3. FloorStays
  BY <1>1 DEF FloorStays, Booked
<1>4. BuildsFresh(w)' /\ RunsFresh(w)' /\ AnswersFresh(w)'
  BY <1>1, <1>3, StaysFresh
<1>5. resident = [x \in Workers |-> resident[x]] /\ resident[w] \in Seq(Stores)
  BY DEF FreshInv, WorkerFresh
<1>6. CASE handleCancel(w)
  <2>1. UNCHANGED resident /\ Head(inbox[w]).type = "cancel"
    BY <1>6 DEF handleCancel, storeVars, Receives
  <2>2. InboxMoves(w) /\ StillSince(w) /\ WorkerOnly(w)
    BY <1>1, <1>2, <1>5, <2>1, SameSince DEF InboxMoves, IsFor, WorkerOnly
  <2>3. QED
    BY <1>2, <1>4, <1>5, <2>1, <2>2, WorkerActs
<1>7. CASE handleInvalidate(w)
  <2> DEFINE s == Head(inbox[w]).src
             q == delete(resident[w], pins[w], s)
  <2>1. resident' = [resident EXCEPT ![w] = q] /\ Head(inbox[w]).type = "invalidate"
    BY <1>7 DEF handleInvalidate, Receives
  <2>2. q \in Seq(Stores) /\ ToSet(q) = {e \in ToSet(resident[w]) : e.src # s}
    BY <1>5, WithoutMembers DEF delete
  <2> HIDE DEF q
  <2>3. /\ resident'[w] = q /\ \A x \in Workers : x # w => resident'[x] = resident[x]
        /\ resident' = [x \in Workers |-> resident'[x]]
    BY <1>5, <2>1
  <2>4. StillSince(w)
    BY <1>1, <2>2, <2>3, LessSince
  <2>5. InboxMoves(w)
    <3>1. ASSUME NEW t, IsFor(Head(inbox[w]), "invalidate", t), NEW n PROVE StoresSince(w, t, n)'
      <4>1. t = s
        BY <3>1 DEF IsFor
      <4>2. \A e \in ToSet(resident'[w]) : e.src # t
        BY <2>2, <2>3, <4>1
      <4>3. QED
        BY <4>2 DEF StoresSince
    <3>2. QED
      BY <1>2, <3>1 DEF InboxMoves
  <2>6. WorkerOnly(w)
    BY <1>1, <1>2, <2>3 DEF WorkerOnly
  <2>7. QED
    BY <1>2, <1>4, <2>2, <2>3, <2>4, <2>5, <2>6, WorkerActs
<1>8. QED
  BY <1>6, <1>7

LEMMA BuildFresh ==
    ASSUME PoolInv, CallsInv, FreshInv, NEW w \in Workers, NEW j, Built(w, j) \/ BuildFails(w, j)
    PROVE  FreshInv'
<1>1. /\ Finishes(w, j) /\ thread[w] = "up"
      /\ UNCHANGED <<query, workers, thread, inbox, files, dropped>>
  BY DEF Built, BuildFails, Finishes, mainVars
<1>2. InboxMoves(w) /\ FloorStays
  BY <1>1 DEF InboxMoves, FloorStays, Booked
<1>3. /\ \A x \in Workers : x # w => jobs'[x] = jobs[x]
      /\ BuildsFresh(w)' /\ DOMAIN jobs'[w] \subseteq DOMAIN jobs[w] /\ j \in DOMAIN jobs[w]
  BY <1>1, FinishesFresh
<1>4. /\ j.src \in Sources /\ j.from \in Nat /\ j.req \in Requests \cup {NoRequest}
      /\ j.req # NoRequest => /\ j.req \in Requests /\ Booked(j.req) /\ j.from >= query[j.req].floor
                              /\ query[j.req].floor \in Nat
  BY <1>3 DEF FreshInv, WorkerFresh, BuildsFresh, CallsFresh, PoolInv, PortsInv
<1>5. CASE BuildFails(w, j)
  <2>1. UNCHANGED <<resident, executing>>
    BY <1>5 DEF BuildFails
  <2> DEFINE m == IF j.req = NoRequest THEN LoadReply(j.src, FALSE) ELSE ResultMsg(j.req, "error", 0)
  <2>2. m.type = "query-result" => m.out = "error"
    BY DEF LoadReply, ResultMsg
  <2>3. Reply(w, m)
    BY <1>5 DEF BuildFails
  <2> HIDE DEF m
  <2>4. AnswersFresh(w)' /\ \A x \in Workers : x # w => outbox'[x] = outbox[x]
    BY <1>1, <2>2, <2>3, ReplyFresh
  <2>5. RunsFresh(w)' /\ StillSince(w)
    BY <1>2, <1>3, <2>1, StaysFresh, LessSince
  <2>6. resident' = [x \in Workers |-> resident'[x]] /\ resident'[w] \in Seq(Stores)
    BY <2>1 DEF FreshInv, WorkerFresh
  <2>7. WorkerOnly(w)
    BY <1>1, <1>3, <2>1, <2>4, <2>6 DEF WorkerOnly
  <2>8. QED
    BY <1>1, <1>2, <1>3, <2>4, <2>5, <2>6, <2>7, WorkerActs
<1>6. ASSUME NEW v \in j.from .. files[j.src], KeepStore(w, j.src, v),
             IF j.req = NoRequest
             THEN Reply(w, LoadReply(j.src, TRUE)) /\ UNCHANGED <<pins, executing>>
             ELSE Run(w, j.req, j.src, v) /\ UNCHANGED outbox
      PROVE  FreshInv'
  <2>1. /\ resident' = [x \in Workers |-> resident'[x]] /\ v \in Nat
        /\ \A x \in Workers : x # w => resident'[x] = resident[x]
        /\ resident'[w] \in Seq(Stores) /\ StillSince(w)
    BY <1>1, <1>6, KeepFresh
  <2>2. CASE j.req = NoRequest
    <3>1. LoadReply(j.src, TRUE).type # "query-result"
      BY DEF LoadReply
    <3>2. AnswersFresh(w)' /\ \A x \in Workers : x # w => outbox'[x] = outbox[x]
      BY <1>1, <1>6, <2>2, <3>1, ReplyFresh
    <3>3. RunsFresh(w)' /\ UNCHANGED executing
      BY <1>2, <1>6, <2>2, StaysFresh
    <3>4. WorkerOnly(w)
      BY <1>1, <1>3, <2>1, <3>2, <3>3 DEF WorkerOnly
    <3>5. QED
      BY <1>1, <1>2, <1>3, <2>1, <3>2, <3>3, <3>4, WorkerActs
  <2>3. CASE j.req # NoRequest
    <3>1. v >= query[j.req].floor
      <4>1. v >= j.from
        BY <1>4, <1>6, <2>1
      <4>2. QED
        BY <1>4, <2>1, <2>3, <4>1
    <3>2. RunsFresh(w)' /\ \A x \in Workers : x # w => executing'[x] = executing[x]
      BY <1>1, <1>4, <1>6, <2>1, <2>3, <3>1, RunFresh
    <3>3. AnswersFresh(w)' /\ UNCHANGED outbox
      BY <1>2, <1>6, <2>3, StaysFresh
    <3>4. WorkerOnly(w)
      BY <1>1, <1>3, <2>1, <3>2, <3>3 DEF WorkerOnly
    <3>5. QED
      BY <1>1, <1>2, <1>3, <2>1, <3>2, <3>3, <3>4, WorkerActs
  <2>4. QED
    BY <2>2, <2>3
<1>7. QED
  BY <1>5, <1>6 DEF Built

LEMMA EndFresh ==
    ASSUME PoolInv, FreshInv, NEW w \in Workers, NEW e, NEW out, QueryEnds(w, e, out)
    PROVE  FreshInv'
<1>1. /\ e \in executing[w] /\ thread[w] = "up" /\ Reply(w, ResultMsg(e.req, out, e.ver))
      /\ executing' = [executing EXCEPT ![w] = @ \ {e}] /\ executing = [x \in Workers |-> executing[x]]
      /\ UNCHANGED <<query, workers, thread, inbox, resident, jobs, files, dropped>>
  BY DEF QueryEnds, mainVars, PoolInv, PortsInv
<1>2. executing'[w] \subseteq executing[w] /\ \A x \in Workers : x # w => executing'[x] = executing[x]
  BY <1>1
<1>3. InboxMoves(w) /\ FloorStays
  BY <1>1 DEF InboxMoves, FloorStays, Booked
<1>4. BuildsFresh(w)' /\ RunsFresh(w)' /\ StillSince(w)
  BY <1>1, <1>2, <1>3, StaysFresh, SameSince
<1> DEFINE m == ResultMsg(e.req, out, e.ver)
<1>5. Booked(m.req) /\ m.ver \in Nat /\ m.ver >= query[m.req].floor
  BY <1>1 DEF FreshInv, WorkerFresh, RunsFresh, ResultMsg
<1> HIDE DEF m
<1>6. Reply(w, m)
  BY <1>1 DEF m
<1>7. AnswersFresh(w)' /\ \A x \in Workers : x # w => outbox'[x] = outbox[x]
  BY <1>1, <1>5, <1>6, ReplyFresh
<1>8. resident' = [x \in Workers |-> resident'[x]] /\ resident'[w] \in Seq(Stores)
  BY <1>1 DEF FreshInv, WorkerFresh
<1>9. WorkerOnly(w)
  BY <1>1, <1>2, <1>7, <1>8 DEF WorkerOnly
<1>10. QED
  BY <1>1, <1>3, <1>4, <1>7, <1>8, <1>9, WorkerActs

LEMMA WorkerStepFresh ==
    ASSUME PoolInv, CallsInv, FreshInv, NEW w \in Workers, WorkerStep(w)
    PROVE  FreshInv'
<1>1. CASE Handles(w)
  BY <1>1, LoadFresh, QueryFresh, OtherFresh DEF Handles
<1>2. CASE \E r \in Requests \cup {NoRequest} : BuildEnds(w, r)
  BY <1>2, BuildFresh DEF BuildEnds
<1>3. CASE \E r \in Requests : RunEnds(w, r)
  BY <1>3, EndFresh DEF RunEnds
<1>4. QED
  BY <1>1, <1>2, <1>3 DEF WorkerStep

-----------------------------------------------------------------------------
(* The main thread: it sends, it books and it replaces workers.            *)
LEMMA MainActs ==
    ASSUME PoolInv, FreshInv, UNCHANGED <<resident, jobs, executing>>, FloorStays, DroppedGrows,
           CallsFresh', \A w \in Workers : thread'[w] = "free" => thread[w] = "free",
           \A w \in Workers : AnswersFresh(w)' /\ AsksFresh(w)',
           \A s \in Sources : OwnerFresh(s)'
    PROVE  FreshInv'
<1>1. \A w \in Workers : BuildsFresh(w)' /\ RunsFresh(w)'
  BY StaysFresh
<1>2. \A w \in Workers : WorkerFresh(w)'
  BY <1>1 DEF FreshInv, WorkerFresh, Empties
<1>3. QED
  BY <1>2 DEF FreshInv, DroppedGrows

LEMMA EmptySince ==
    ASSUME NEW w, Empties(w)
    PROVE  \A s, n : BuildsSince(w, s, n) /\ StoresSince(w, s, n)
<1>1. ToSet(<<>>) = {}
  <2>1. DOMAIN <<>> = {}
    OBVIOUS
  <2>2. QED
    BY <2>1 DEF ToSet
<1>2. QED
  BY <1>1 DEF Empties, BuildsSince, StoresSince

LEMMA EmptyNext ==
    ASSUME NEW w, Empties(w), UNCHANGED <<resident, jobs>>, NEW s
    PROVE  NextFresh(w, s)'
<1>1. Empties(w)'
  BY DEF Empties
<1>2. \A t, n : BuildsSince(w, t, n)' /\ StoresSince(w, t, n)'
  <2>1. ToSet(<<>>) = {}
    <3>1. DOMAIN <<>> = {}
      OBVIOUS
    <3>2. QED
      BY <3>1 DEF ToSet
  <2>2. QED
    BY <1>1, <2>1 DEF Empties, BuildsSince, StoresSince
<1>3. QED
  BY <1>2 DEF NextFresh, BuildsSince, StoresSince

(* The files a source had when its invalidate was sent.                    *)
Drops(s) ==
    \/ dropped' = dropped
    \/ NotBuilding(s) /\ dropped' = [dropped EXCEPT ![s] = files[s]]

LEMMA DropsGrow ==
    ASSUME FreshInv, NEW s \in Sources, Drops(s), UNCHANGED files
    PROVE  DroppedGrows /\ \A t \in Sources : t # s => dropped'[t] = dropped[t]
<1>1. FilesFresh
  BY DEF FreshInv
<1>2. CASE dropped' = dropped
  BY <1>1, <1>2 DEF FilesFresh, DroppedGrows
<1>3. CASE dropped' = [dropped EXCEPT ![s] = files[s]]
  <2>1. \A t \in Sources : dropped'[t] = IF t = s THEN files[s] ELSE dropped[t]
    BY <1>1, <1>3 DEF FilesFresh
  <2>2. dropped' \in [Sources -> Nat]
    BY <1>1, <1>3 DEF FilesFresh
  <2>3. \A t \in Sources : dropped'[t] <= files'[t] /\ dropped[t] <= dropped'[t]
    BY <1>1, <2>1 DEF FilesFresh
  <2>4. QED
    BY <1>1, <2>1, <2>2, <2>3 DEF FilesFresh, DroppedGrows
<1>4. QED
  BY <1>2, <1>3 DEF Drops

(* The worker that a message of s is added to.                             *)
LEMMA NextStays ==
    ASSUME PoolInv, FreshInv, NEW s \in Sources, NEW w \in Workers, workers[Assign[s]] = w,
           Drops(s), UNCHANGED <<resident, jobs, files>>,
           MessageFor(inbox[w], "invalidate", s) \/ dropped' # dropped => MessageFor(inbox'[w], "invalidate", s)
    PROVE  NextFresh(w, s)'
<1>1. NextFresh(w, s) /\ StillSince(w)
  BY SameSince DEF FreshInv, OwnerFresh
<1>2. CASE dropped' = dropped
  BY <1>1, <1>2, OwnerStays
<1>3. CASE NotBuilding(s) /\ dropped' # dropped
  <2>1. \A j \in DOMAIN jobs'[w] : j.src # s
    BY <1>3, AbsentAssumption DEF NotBuilding, BagToSet
  <2>2. QED
    BY <1>3, <2>1 DEF NextFresh, BuildsSince
<1>4. QED
  BY <1>2, <1>3 DEF Drops


LEMMA PostFresh ==
    ASSUME PoolInv, FreshInv, NEW s \in Sources, NEW S, NEW msgs \in Seq(S), Post(s, msgs),
           thread = [w \in Workers |-> thread[w]],
           UNCHANGED <<outbox, resident, jobs, executing, files>>, FloorStays, CallsFresh',
           Drops(s), dropped' # dropped => MessageFor(msgs, "invalidate", s),
           \A i \in 1 .. Len(msgs) : msgs[i].type = "load" => msgs[i].src \in Sources,
           \A i \in 1 .. Len(msgs), r \in Requests : IsFor(msgs[i], "query", r) =>
              query'[r].at # "new" /\ query'[r].src = s /\ query'[r].floor = dropped[s]
    PROVE  FreshInv'
<1> DEFINE a == Assign[s]
<1>1. /\ a \in Indexes /\ inbox = [w \in Workers |-> inbox[w]]
      /\ workers \in [Indexes -> Workers \cup {NoWorker}]
  BY AssignAssumption DEF PoolInv, PortsInv
<1>2. DroppedGrows /\ \A t \in Sources : t # s => dropped'[t] = dropped[t]
  BY DropsGrow
<1>3. /\ dropped[s] \in Nat /\ dropped'[s] \in Nat /\ dropped[s] <= dropped'[s]
  BY <1>2 DEF FreshInv, FilesFresh, DroppedGrows
<1>4. \A x \in Workers : StillSince(x) /\ AnswersFresh(x)'
  BY SameSince, StaysFresh
<1>5. ASSUME NEW x \in Workers, inbox'[x] = inbox[x]
      PROVE  /\ AsksFresh(x)'
             /\ \A t : MessageFor(inbox[x], "invalidate", t) => MessageFor(inbox'[x], "invalidate", t)
  BY <1>2, <1>4, <1>5, InboxSame
<1>6. CASE workers[a] # NoWorker
  <2>0. PICK w \in Workers : w = workers[a]
    BY <1>1, <1>6
  <2> DEFINE more == inbox[w] \o msgs
  <2>1. /\ w \in Workers /\ UNCHANGED <<workers, thread>>
        /\ inbox' = [inbox EXCEPT ![w] = more]
    BY <1>1, <1>6, <2>0 DEF Post
  <2> HIDE DEF more
  <2>2. inbox'[w] = more /\ \A x \in Workers : x # w => inbox'[x] = inbox[x]
    BY <1>1, <2>1
  <2>3. PICK n \in Nat : n = dropped[s]
    BY <1>3
  <2>4. /\ BuildsSince(w, s, n)
        /\ StoresSince(w, s, n) \/ MessageFor(inbox[w], "invalidate", s)
    BY <2>0, <2>3 DEF FreshInv, OwnerFresh, NextFresh
  <2>5. PICK T : inbox[w] \in Seq(T)
    BY <2>1 DEF PoolInv, PortsInv, GoodIn
  <2>6. ASSUME NEW k, NEW i \in 1 .. Len(msgs), NEW r \in Requests, k = Len(inbox[w]) + i,
               IsFor(msgs[i], "query", r)
        PROVE  AskFresh(w, k, r)'
    <3>1. query'[r].at # "new" /\ query'[r].src = s /\ query'[r].floor = n
      BY <2>3, <2>6
    <3>2. BuildsSince(w, s, n)' /\ (StoresSince(w, s, n) => StoresSince(w, s, n)') /\ n <= dropped'[s]
      BY <1>3, <2>3, <2>4 DEF BuildsSince, StoresSince
    <3>3. MessageFor(inbox[w], "invalidate", s) => DropComes(inbox'[w], s, k)
      <4>1. ASSUME MessageFor(inbox[w], "invalidate", s) PROVE DropComes(inbox'[w], s, k)
        <5>1. PICK h \in 1 .. Len(inbox[w]) : IsFor(inbox[w][h], "invalidate", s)
          BY <2>5, <4>1, ForAt
        <5>2. inbox[w] \in Seq(S \cup T) /\ msgs \in Seq(S \cup T)
          BY <2>5, SeqMonotonic
        <5>3. h \in 1 .. k /\ more[h] = inbox[w][h]
          BY <2>6, <5>2 DEF more
        <5>4. QED
          BY <2>2, <5>1, <5>3 DEF DropComes
      <4>2. QED
        BY <4>1
    <3>4. QED
      BY <2>4, <3>1, <3>2, <3>3 DEF AskFresh, Booked, BuildsSince, StoresSince, DropComes
  <2>7. inbox'[w] = inbox[w] \o msgs
    BY <2>2 DEF more
  <2>8. /\ AsksFresh(w)'
        /\ \A t : MessageFor(inbox[w], "invalidate", t) \/ MessageFor(msgs, "invalidate", t)
                    => MessageFor(inbox'[w], "invalidate", t)
    BY <1>2, <1>4, <2>1, <2>6, <2>7, InboxMore
  <2>9. ASSUME NEW t \in Sources PROVE OwnerFresh(t)'
    <3>1. ASSUME NEW x \in Workers, workers[Assign[t]] = x PROVE NextFresh(x, t)'
      <4>1. CASE t = s
        BY <2>0, <2>8, <3>1, <4>1, NextStays
      <4>2. CASE t # s
        <5>1. NextFresh(x, t) /\ dropped'[t] = dropped[t]
          BY <1>2, <3>1, <4>2 DEF FreshInv, OwnerFresh
        <5>2. MessageFor(inbox[x], "invalidate", t) => MessageFor(inbox'[x], "invalidate", t)
          BY <1>5, <2>2, <2>8
        <5>3. QED
          BY <1>4, <5>1, <5>2, OwnerStays
      <4>3. QED
        BY <4>1, <4>2
    <3>2. QED
      BY <2>1, <3>1 DEF OwnerFresh
  <2>10. \A x \in Workers : AsksFresh(x)'
    BY <1>5, <2>2, <2>8
  <2>11. QED
    BY <1>2, <1>4, <2>1, <2>9, <2>10, MainActs
<1>7. CASE workers[a] = NoWorker
  <2>1. PICK w \in Free : /\ workers' = [workers EXCEPT ![a] = w]
                          /\ thread' = [thread EXCEPT ![w] = "up"]
                          /\ inbox' = [inbox EXCEPT ![w] = msgs]
    BY <1>7 DEF Post
  <2>2. /\ w \in Workers /\ thread[w] = "free" /\ Empties(w)
    BY DEF Free, FreshInv, WorkerFresh
  <2>3. /\ \A i \in Indexes : workers'[i] = IF i = a THEN w ELSE workers[i]
        /\ \A x \in Workers : thread'[x] = IF x = w THEN "up" ELSE thread[x]
        /\ \A x \in Workers : inbox'[x] = IF x = w THEN msgs ELSE inbox[x]
    BY <1>1, <2>1, <2>2
  <2>4. ASSUME NEW k, NEW i \in 1 .. Len(msgs), NEW r \in Requests, IsFor(msgs[i], "query", r)
        PROVE  AskFresh(w, k, r)'
    <3>1. PICK n \in Nat : n = dropped[s]
      BY <1>3
    <3>2. query'[r].at # "new" /\ query'[r].src = s /\ query'[r].floor = n /\ n <= dropped'[s]
      BY <1>3, <2>4, <3>1
    <3>3. BuildsSince(w, s, n) /\ StoresSince(w, s, n)
      BY <2>2, EmptySince
    <3>4. QED
      BY <3>2, <3>3 DEF AskFresh, Booked, BuildsSince, StoresSince
  <2>5. AsksFresh(w)'
    BY <2>2, <2>3, <2>4 DEF AsksFresh
  <2>6. ASSUME NEW t \in Sources PROVE OwnerFresh(t)'
    <3>1. Assign[t] \in Indexes
      BY AssignAssumption
    <3>2. ASSUME NEW x \in Workers, workers'[Assign[t]] = x PROVE NextFresh(x, t)'
      <4>1. CASE x = w
        BY <2>2, <4>1, EmptyNext
      <4>2. CASE x # w
        <5>1. workers[Assign[t]] = x /\ t # s /\ inbox'[x] = inbox[x]
          BY <2>3, <3>1, <3>2, <4>2
        <5>2. NextFresh(x, t) /\ dropped'[t] = dropped[t]
          BY <1>2, <5>1 DEF FreshInv, OwnerFresh
        <5>3. MessageFor(inbox[x], "invalidate", t) => MessageFor(inbox'[x], "invalidate", t)
          BY <1>5, <5>1
        <5>4. QED
          BY <1>4, <5>2, <5>3, OwnerStays
      <4>3. QED
        BY <4>1, <4>2
    <3>3. QED
      BY <3>2 DEF OwnerFresh
  <2>7. \A x \in Workers : AsksFresh(x)'
    BY <1>5, <2>3, <2>5
  <2>8. QED
    BY <1>2, <1>4, <2>3, <2>6, <2>7, MainActs
<1>8. QED
  BY <1>6, <1>7

LEMMA AppendFresh ==
    ASSUME PoolInv, FreshInv, NEW w \in Workers, NEW m, m.type \notin {"load", "query"},
           inbox' = [inbox EXCEPT ![w] = Append(@, m)], FloorStays, DroppedGrows,
           UNCHANGED <<resident, jobs>>
    PROVE  \A x \in Workers :
              /\ AsksFresh(x)'
              /\ \A t : MessageFor(inbox[x], "invalidate", t) \/ (x = w /\ IsFor(m, "invalidate", t))
                          => MessageFor(inbox'[x], "invalidate", t)
<1>1. PICK S : inbox[w] \in Seq(S)
  BY DEF PoolInv, PortsInv, GoodIn
<1>2. /\ <<m>> \in Seq({m}) /\ Len(<<m>>) = 1 /\ <<m>>[1] = m
      /\ Append(inbox[w], m) = inbox[w] \o <<m>>
  <2>1. inbox[w] \in Seq(S \cup {m}) /\ m \in S \cup {m}
    BY <1>1, SeqMonotonic
  <2>2. QED
    BY <2>1
<1> DEFINE more == Append(inbox[w], m)
           one == <<m>>
<1> HIDE DEF more
<1>3. inbox'[w] = more /\ \A x \in Workers : x # w => inbox'[x] = inbox[x]
  BY DEF more, PoolInv, PortsInv
<1>4. \A x \in Workers : StillSince(x)
  BY SameSince
<1>5. ASSUME NEW x \in Workers, x # w
      PROVE  /\ AsksFresh(x)'
             /\ \A t : MessageFor(inbox[x], "invalidate", t) => MessageFor(inbox'[x], "invalidate", t)
  BY <1>3, <1>4, <1>5, InboxSame
<1>6. \A t : MessageFor(one, "invalidate", t) <=> IsFor(m, "invalidate", t)
  BY ForOne
<1>7. /\ \A i \in 1 .. Len(one) : one[i].type # "load"
      /\ \A i \in 1 .. Len(one), r \in Requests : ~IsFor(one[i], "query", r)
  <2>1. \A i \in 1 .. Len(one) : one[i] = m
    BY <1>2
  <2>2. QED
    BY <2>1 DEF IsFor
<1>8. one \in Seq({m}) /\ inbox'[w] = inbox[w] \o one
  BY <1>2, <1>3 DEF more
<1> HIDE DEF one
<1>9. /\ AsksFresh(w)'
      /\ \A t : MessageFor(inbox[w], "invalidate", t) \/ MessageFor(one, "invalidate", t)
                  => MessageFor(inbox'[w], "invalidate", t)
  BY <1>4, <1>7, <1>8, InboxMore
<1>10. QED
  BY <1>5, <1>6, <1>9

(* An invalidate, or none for an entry that does not count as loaded.      *)
LEMMA InvalidatedFresh ==
    ASSUME PoolInv, FreshInv, NEW s \in Sources, inbox' = Invalidated(s) \/ inbox' = inbox,
           Drops(s), dropped' # dropped => inbox' = Invalidated(s),
           UNCHANGED <<workers, query, thread, outbox, resident, jobs, executing, files>>
    PROVE  FreshInv'
<1>1. DroppedGrows /\ \A t \in Sources : t # s => dropped'[t] = dropped[t]
  BY DropsGrow
<1>2. FloorStays /\ CallsFresh'
  BY DEF FloorStays, FreshInv, CallsFresh, Booked
<1>3. \A x \in Workers : StillSince(x) /\ AnswersFresh(x)'
  BY <1>2, SameSince, StaysFresh
<1>4. ASSUME \A x \in Workers :
                /\ AsksFresh(x)'
                /\ \A t : MessageFor(inbox[x], "invalidate", t) => MessageFor(inbox'[x], "invalidate", t),
             dropped' # dropped => \A x \in Workers :
                workers[Assign[s]] = x => MessageFor(inbox'[x], "invalidate", s)
      PROVE  FreshInv'
  <2>1. ASSUME NEW t \in Sources, NEW x \in Workers, workers[Assign[t]] = x PROVE NextFresh(x, t)'
    <3>1. CASE t = s
      BY <1>4, <2>1, <3>1, NextStays
    <3>2. CASE t # s
      <4>1. NextFresh(x, t) /\ dropped'[t] = dropped[t]
        BY <1>1, <2>1, <3>2 DEF FreshInv, OwnerFresh
      <4>2. QED
        BY <1>3, <1>4, <4>1, OwnerStays
    <3>3. QED
      BY <3>1, <3>2
  <2>2. \A t \in Sources : OwnerFresh(t)'
    BY <2>1 DEF OwnerFresh
  <2>3. QED
    BY <1>1, <1>2, <1>3, <1>4, <2>2, MainActs
<1>5. \A x \in Workers : inbox' = inbox =>
         /\ AsksFresh(x)'
         /\ \A t : MessageFor(inbox[x], "invalidate", t) => MessageFor(inbox'[x], "invalidate", t)
  BY <1>1, <1>2, <1>3, InboxSame
<1>6. CASE workers[Assign[s]] = NoWorker
  <2>1. inbox' = inbox
    BY <1>6 DEF Invalidated
  <2>2. \A x \in Workers : workers[Assign[s]] # x
    BY <1>6, AbsentAssumption
  <2>3. QED
    BY <1>4, <1>5, <2>1, <2>2
<1>7. CASE workers[Assign[s]] # NoWorker /\ inbox' = Invalidated(s)
  <2>1. PICK w \in Workers : w = workers[Assign[s]]
    BY <1>7, AssignAssumption DEF PoolInv, PortsInv
  <2> DEFINE m == InvalidateMsg(s)
  <2>2. inbox' = [inbox EXCEPT ![w] = Append(@, m)]
    BY <1>7, <2>1 DEF Invalidated
  <2>3. m.type = "invalidate" /\ IsFor(m, "invalidate", s)
    BY DEF InvalidateMsg, IsFor
  <2> HIDE DEF m
  <2>4. \A x \in Workers :
           /\ AsksFresh(x)'
           /\ \A t : MessageFor(inbox[x], "invalidate", t) \/ (x = w /\ IsFor(m, "invalidate", t))
                       => MessageFor(inbox'[x], "invalidate", t)
    BY <1>1, <1>2, <2>2, <2>3, AppendFresh
  <2>5. QED
    BY <1>4, <2>1, <2>3, <2>4
<1>8. CASE inbox' = inbox /\ dropped' = dropped
  BY <1>4, <1>5, <1>8
<1>9. QED
  BY <1>6, <1>7, <1>8

LEMMA SameCalls ==
    ASSUME FreshInv, UNCHANGED query
    PROVE  FloorStays /\ CallsFresh'
  BY DEF FloorStays, FreshInv, CallsFresh, Booked

LEMMA EnsureFresh ==
    ASSUME PoolInv, CallsInv, FreshInv, NEW s \in Sources, ensureLoaded(s)
    PROVE  FreshInv'
<1>1. UNCHANGED <<query, outbox, resident, jobs, executing, files, dropped>>
  BY DEF ensureLoaded, storeVars
<1>2. FloorStays /\ CallsFresh' /\ Drops(s) /\ thread = [w \in Workers |-> thread[w]]
  BY <1>1, SameCalls DEF Drops, CallsInv, Wired
<1>3. CASE UNCHANGED <<workers, thread, inbox>>
  BY <1>1, <1>2, <1>3, InvalidatedFresh
<1>4. CASE Post(s, <<LoadMsg(s)>>)
  <2> DEFINE m == LoadMsg(s)
             one == <<m>>
  <2>1. m.type = "load" /\ m.src = s
    BY DEF LoadMsg
  <2>2. one \in Seq({m}) /\ \A i \in 1 .. Len(one) : one[i] = m
    OBVIOUS
  <2> HIDE DEF m
  <2>3. /\ \A i \in 1 .. Len(one) : one[i].type = "load" => one[i].src \in Sources
        /\ \A i \in 1 .. Len(one), r \in Requests : ~IsFor(one[i], "query", r)
    BY <2>1, <2>2 DEF IsFor
  <2>4. Post(s, one)
    BY <1>4 DEF m
  <2> HIDE DEF one
  <2>5. QED
    BY <1>1, <1>2, <2>2, <2>3, <2>4, PostFresh
<1>5. QED
  BY <1>3, <1>4 DEF ensureLoaded

LEMMA QueryAskedFresh ==
    ASSUME PoolInv, CallsInv, FreshInv, NEW r \in Requests, NEW s \in Sources,
           NEW aborted \in BOOLEAN, Query(r, s, aborted)
    PROVE  FreshInv'
<1> DEFINE q == AsAsked(r, s, aborted, dropped[s])
           m == QueryMsg(r)
           n == CancelMsg(r)
           msgs == IF aborted THEN <<m, n>> ELSE <<m>>
<1>1. /\ query[r] = NewQuery /\ query' = [query EXCEPT ![r] = q] /\ Post(s, msgs)
      /\ UNCHANGED <<outbox, resident, jobs, executing, files, dropped>>
  BY DEF Query, storeVars, AsAsked
<1>2. query[r].at = "new" /\ query[r].out = "none"
  BY <1>1 DEF NewQuery
<1>3. q.at = "pending" /\ q.src = s /\ q.floor = dropped[s] /\ q.out = "none"
  <2>1. Record(query[r])
    BY DEF PoolInv, BooksInv
  <2> DEFINE n1 == dropped[s]
             p == AsAsked(r, s, aborted, n1)
  <2> HIDE DEF n1
  <2>2. p.at = "pending" /\ p.src = s /\ p.floor = n1 /\ p.out = query[r].out
    BY <2>1, Asking
  <2>3. q = p
    BY DEF n1
  <2> HIDE DEF p, q
  <2>4. QED
    BY <1>2, <2>2, <2>3 DEF n1
<1> HIDE DEF q
<1>4. \A x \in Requests : query'[x] = IF x = r THEN q ELSE query[x]
  BY <1>1 DEF PoolInv, BooksInv
<1>5. dropped[s] \in Nat
  BY DEF FreshInv, FilesFresh
<1>6. FloorStays /\ CallsFresh'
  BY <1>2, <1>3, <1>4, <1>5 DEF FloorStays, FreshInv, CallsFresh, Booked
<1>7. m.type = "query" /\ m.req = r /\ n.type = "cancel"
  BY DEF QueryMsg, CancelMsg
<1>8. msgs \in Seq({m, n}) /\ \A i \in 1 .. Len(msgs) : msgs[i] \in {m, n}
  <2> HIDE DEF m, n
  <2>1. <<m>> \in Seq({m, n}) /\ <<m, n>> \in Seq({m, n})
    OBVIOUS
  <2>2. msgs \in Seq({m, n})
    BY <2>1
  <2> HIDE DEF msgs
  <2>3. QED
    BY <2>2
<1> HIDE DEF msgs, m, n
<1>9. /\ \A i \in 1 .. Len(msgs) : msgs[i].type = "load" => msgs[i].src \in Sources
      /\ \A i \in 1 .. Len(msgs), x \in Requests : IsFor(msgs[i], "query", x) => x = r
  BY <1>7, <1>8 DEF IsFor
<1>10. \A i \in 1 .. Len(msgs), x \in Requests : IsFor(msgs[i], "query", x) =>
          query'[x].at # "new" /\ query'[x].src = s /\ query'[x].floor = dropped[s]
  BY <1>3, <1>4, <1>9
<1>11. Drops(s) /\ thread = [w \in Workers |-> thread[w]]
  BY <1>1 DEF Drops, CallsInv, Wired
<1>12. QED
  BY <1>1, <1>6, <1>8, <1>9, <1>10, <1>11, PostFresh

LEMMA CancelFresh ==
    ASSUME PoolInv, CallsInv, FreshInv, NEW r \in Requests, onCancel(r)
    PROVE  FreshInv'
<1> DEFINE yes == TRUE
           q == [query[r] EXCEPT !.armed = yes]
           m == CancelMsg(r)
<1>1. /\ query' = [query EXCEPT ![r] = q] /\ inbox' = [inbox EXCEPT ![workers[indexOf(r)]] = Append(@, m)]
      /\ UNCHANGED <<workers, thread, outbox, resident, jobs, executing, files, dropped>>
  BY DEF onCancel, storeVars
<1>2. m.type = "cancel"
  BY DEF CancelMsg
<1>3. /\ q.at = query[r].at /\ q.src = query[r].src /\ q.floor = query[r].floor
      /\ q.out = query[r].out /\ q.ver = query[r].ver
  <2> HIDE DEF yes
  <2>1. Record(query[r])
    BY DEF PoolInv, BooksInv
  <2>2. QED
    BY <2>1, Arming
<1> HIDE DEF q, m
<1>4. \A x \in Requests : query'[x] = IF x = r THEN q ELSE query[x]
  BY <1>1 DEF PoolInv, BooksInv
<1>5. FloorStays /\ CallsFresh'
  <2>1. \A x \in Requests :
           /\ query'[x].at = query[x].at /\ query'[x].src = query[x].src /\ query'[x].floor = query[x].floor
           /\ query'[x].out = query[x].out /\ query'[x].ver = query[x].ver
    BY <1>3, <1>4
  <2>2. QED
    BY <2>1 DEF FloorStays, FreshInv, CallsFresh, Booked
<1>6. DroppedGrows
  BY <1>1 DEF FreshInv, FilesFresh, DroppedGrows
<1>7. \A x \in Workers : StillSince(x) /\ AnswersFresh(x)'
  BY <1>1, <1>5, SameSince, StaysFresh
<1>8. ASSUME NEW x \in Workers
      PROVE  /\ AsksFresh(x)'
             /\ \A t : MessageFor(inbox[x], "invalidate", t) => MessageFor(inbox'[x], "invalidate", t)
  <2>1. CASE workers[indexOf(r)] \in Workers
    <3>1. PICK w \in Workers : w = workers[indexOf(r)]
      BY <2>1
    <3>2. inbox' = [inbox EXCEPT ![w] = Append(@, m)] /\ UNCHANGED <<resident, jobs>>
      BY <1>1, <3>1
    <3>3. m.type \notin {"load", "query"}
      BY <1>2
    <3>4. QED
      BY <1>5, <1>6, <3>2, <3>3, AppendFresh
  <2>2. CASE workers[indexOf(r)] \notin Workers
    <3>1. inbox'[x] = inbox[x]
      BY <1>1, <2>2 DEF PoolInv, PortsInv
    <3>2. QED
      BY <1>5, <1>6, <1>7, <3>1, InboxSame
  <2>3. QED
    BY <2>1, <2>2
<1>9. ASSUME NEW t \in Sources, NEW x \in Workers, workers[Assign[t]] = x PROVE NextFresh(x, t)'
  <2>1. NextFresh(x, t) /\ dropped'[t] = dropped[t]
    BY <1>1, <1>9 DEF FreshInv, OwnerFresh
  <2>2. QED
    BY <1>7, <1>8, <2>1, OwnerStays
<1>10. \A t \in Sources : OwnerFresh(t)'
  BY <1>1, <1>9 DEF OwnerFresh
<1>11. QED
  BY <1>1, <1>5, <1>6, <1>7, <1>8, <1>10, MainActs

(* A step that leaves the workers and the messages to them alone.          *)
LEMMA QuietFresh ==
    ASSUME PoolInv, FreshInv, UNCHANGED <<workers, inbox, resident, jobs, executing, dropped>>,
           FilesFresh', FloorStays, CallsFresh', \A w \in Workers : AnswersFresh(w)',
           \A w \in Workers : thread'[w] = "free" => thread[w] = "free"
    PROVE  FreshInv'
<1>1. DroppedGrows
  BY DEF FreshInv, FilesFresh, DroppedGrows
<1>2. \A x \in Workers : StillSince(x)
  BY SameSince
<1>3. \A x \in Workers : AsksFresh(x)'
  BY <1>1, <1>2, InboxSame
<1>4. ASSUME NEW s \in Sources, NEW x \in Workers, workers[Assign[s]] = x PROVE NextFresh(x, s)'
  <2>1. NextFresh(x, s) /\ dropped'[s] = dropped[s]
    BY <1>4 DEF FreshInv, OwnerFresh
  <2>2. QED
    BY <1>2, <2>1, OwnerStays
<1>5. \A s \in Sources : OwnerFresh(s)'
  BY <1>4 DEF OwnerFresh
<1>6. QED
  BY <1>1, <1>3, <1>5, MainActs

LEMMA ShutdownFresh ==
    ASSUME PoolInv, FreshInv, shutdown
    PROVE  FreshInv'
<1> DEFINE no == FALSE
<1>1. /\ query' = [r \in Requests |-> [query[r] EXCEPT !.armed = no]]
      /\ UNCHANGED <<workers, inbox, outbox, resident, jobs, executing, files, dropped>>
  BY DEF shutdown, portVars, storeVars
<1> HIDE DEF no
<1>2. \A r \in Requests :
         /\ query'[r].at = query[r].at /\ query'[r].src = query[r].src /\ query'[r].floor = query[r].floor
         /\ query'[r].out = query[r].out /\ query'[r].ver = query[r].ver
  <2>1. ASSUME NEW r \in Requests
        PROVE  LET p == [query[r] EXCEPT !.armed = no] IN
               /\ p.at = query[r].at /\ p.src = query[r].src /\ p.floor = query[r].floor
               /\ p.out = query[r].out /\ p.ver = query[r].ver
    <3>1. Record(query[r])
      BY DEF PoolInv, BooksInv
    <3>2. QED
      BY <3>1, Arming
  <2>2. QED
    BY <1>1, <2>1
<1>3. FloorStays /\ CallsFresh' /\ FilesFresh'
  BY <1>1, <1>2 DEF FloorStays, FreshInv, CallsFresh, FilesFresh, Booked
<1>4. \A w \in Workers : AnswersFresh(w)'
  BY <1>1, <1>3, StaysFresh
<1>5. \A w \in Workers : thread'[w] = "free" => thread[w] = "free"
  BY DEF shutdown
<1>6. QED
  BY <1>1, <1>3, <1>4, <1>5, QuietFresh

LEMMA MessageFresh ==
    ASSUME PoolInv, FreshInv, NEW w \in Workers, onMessage(w)
    PROVE  FreshInv'
<1> DEFINE m == Head(outbox[w])
           rest == Tail(outbox[w])
<1>1. /\ outbox[w] # <<>> /\ outbox' = [outbox EXCEPT ![w] = rest]
      /\ UNCHANGED <<workers, thread, inbox, resident, jobs, executing, files, dropped>>
  BY DEF onMessage, storeVars
<1>2. PICK S : outbox[w] \in Seq(S)
  BY DEF PoolInv, PortsInv, GoodOut
<1>3. /\ 1 \in 1 .. Len(outbox[w]) /\ m = outbox[w][1]
      /\ \A i \in 1 .. Len(rest) : i + 1 \in 1 .. Len(outbox[w]) /\ rest[i] = outbox[w][i + 1]
  BY <1>1, <1>2
<1>4. AnswersFresh(w)
  BY DEF FreshInv, WorkerFresh
<1>5. m.type = "query-result" => m.req \in Requests
  BY <1>1, HeadAnswer DEF PoolInv, PortsInv, GoodAnswer
<1>6. m.type = "query-result" /\ m.out = "ok" => Booked(m.req) /\ m.ver >= query[m.req].floor
  BY <1>3, <1>4 DEF AnswersFresh
<1>7. query' = query \/ (m.type = "query-result" /\ Pending(m.req)
                         /\ query' = [query EXCEPT ![m.req] = SettledAs(m.req, m.out, m.ver)])
  BY DEF onMessage, UnknownRequest
<1> HIDE DEF m, rest
<1>8. FloorStays /\ CallsFresh'
  <2>1. CASE query' = query
    BY <2>1, SameCalls
  <2>2. CASE query' # query
    <3>1. PICK r, out, v : r \in Requests /\ r = m.req /\ out = m.out /\ v = m.ver
      BY <1>5, <1>7, <2>2
    <3> DEFINE q == SettledAs(r, out, v)
    <3>2. Pending(r) /\ query' = [query EXCEPT ![r] = q] /\ Record(query[r])
      BY <1>7, <2>2, <3>1 DEF PoolInv, BooksInv
    <3>3. q.at = "settled" /\ q.src = query[r].src /\ q.out = out /\ q.floor = query[r].floor /\ q.ver = v
      BY <3>2, Settling
    <3> HIDE DEF q
    <3>4. \A x \in Requests : query'[x] = IF x = r THEN q ELSE query[x]
      BY <3>2 DEF PoolInv, BooksInv
    <3>5. out = "ok" => v >= query[r].floor
      BY <1>6, <1>7, <2>2, <3>1
    <3>6. QED
      BY <3>2, <3>3, <3>4, <3>5 DEF FloorStays, FreshInv, CallsFresh, Booked, Pending
  <2>3. QED
    BY <2>1, <2>2
<1>9. ASSUME NEW x \in Workers PROVE AnswersFresh(x)'
  <2>1. CASE x = w
    <3>1. outbox'[w] = rest
      BY <1>1 DEF PoolInv, PortsInv
    <3>2. \A k \in 1 .. Len(rest) : GoodAnswer(rest[k])
      BY <1>3 DEF PoolInv, PortsInv, GoodOut
    <3>3. ASSUME NEW k \in 1 .. Len(rest), rest[k].type = "query-result", rest[k].out = "ok"
          PROVE  /\ query'[rest[k].req].at # "new" /\ rest[k].ver \in Nat
                 /\ rest[k].ver >= query'[rest[k].req].floor
      <4>1. k + 1 \in 1 .. Len(outbox[w]) /\ rest[k] = outbox[w][k + 1]
        BY <1>3
      <4>2. Booked(rest[k].req) /\ rest[k].ver \in Nat /\ rest[k].ver >= query[rest[k].req].floor
        BY <1>4, <3>3, <4>1 DEF AnswersFresh
      <4>3. rest[k].req \in Requests
        BY <3>2, <3>3 DEF GoodAnswer
      <4>4. QED
        BY <1>8, <4>2, <4>3 DEF FloorStays
    <3>4. QED
      BY <2>1, <3>1, <3>3 DEF AnswersFresh, Booked
  <2>2. CASE x # w
    <3>1. outbox'[x] = outbox[x]
      BY <1>1, <2>2 DEF PoolInv, PortsInv
    <3>2. QED
      BY <1>8, <3>1, StaysFresh
  <2>3. QED
    BY <2>1, <2>2
<1>10. FilesFresh'
  BY <1>1 DEF FreshInv, FilesFresh
<1>11. QED
  BY <1>1, <1>8, <1>9, <1>10, QuietFresh

(* The end of a worker: its queries fail, and the worker that takes over   *)
(* has nothing yet.                                                        *)
LEMMA ReclaimFresh ==
    ASSUME PoolInv, FreshInv, NEW i \in Indexes, reclaim(i)
    PROVE  /\ FloorStays /\ CallsFresh'
           /\ \E n \in Workers :
                 /\ thread[n] = "free" /\ Empties(n)
                 /\ workers' = [workers EXCEPT ![i] = n]
<1>1. ASSUME NEW r \in Requests
      PROVE  \/ query'[r] = query[r]
             \/ /\ Booked(r) /\ query'[r].at = "settled" /\ query'[r].src = query[r].src
                /\ query'[r].floor = query[r].floor /\ query'[r].out = "lost"
  <2>1. Record(query[r])
    BY DEF PoolInv, BooksInv
  <2> DEFINE q == SettledAs(r, "lost", 0)
  <2>2. q.at = "settled" /\ q.src = query[r].src /\ q.out = "lost" /\ q.floor = query[r].floor
    BY <2>1, Settling
  <2>3. query'[r] = query[r] \/ (Pending(r) /\ query'[r] = q)
    BY DEF reclaim
  <2> HIDE DEF q
  <2>4. QED
    BY <2>2, <2>3 DEF Pending, Booked
<1>2. FloorStays
  BY <1>1 DEF FloorStays, Booked
<1>3. CallsFresh'
  <2>1. CallsFresh
    BY DEF FreshInv
  <2>2. QED
    BY <1>1, <2>1 DEF CallsFresh, Booked
<1>4. PICK n \in Free : workers' = [workers EXCEPT ![i] = n]
  BY DEF reclaim
<1>5. n \in Workers /\ thread[n] = "free" /\ Empties(n)
  BY DEF Free, FreshInv, WorkerFresh
<1>6. QED
  BY <1>2, <1>3, <1>4, <1>5

LEMMA GraceFresh ==
    ASSUME PoolInv, FreshInv, NEW r \in Requests, GraceExpires(r)
    PROVE  FreshInv'
<1>1. query[r].src \in Sources
  BY DEF GraceExpires, Pending, FreshInv, CallsFresh, Booked
<1>2. PICK i \in Indexes : i = indexOf(r)
  BY <1>1, AssignAssumption DEF indexOf
<1>3. /\ reclaim(i) /\ UNCHANGED <<inbox, outbox, resident, jobs, executing, files, dropped>>
      /\ thread' = [w \in Workers |-> CASE w = workers[i] -> "dead" [] w = workers'[i] -> "up"
                                        [] OTHER -> thread[w]]
  BY <1>2 DEF GraceExpires, portVars, storeVars
<1>4. FloorStays /\ CallsFresh'
  BY <1>3, ReclaimFresh
<1>5. PICK n \in Workers : thread[n] = "free" /\ Empties(n) /\ workers' = [workers EXCEPT ![i] = n]
  BY <1>3, ReclaimFresh
<1>6. DroppedGrows
  BY <1>3 DEF FreshInv, FilesFresh, DroppedGrows
<1>7. \A x \in Workers : StillSince(x) /\ AnswersFresh(x)'
  BY <1>3, <1>4, SameSince, StaysFresh
<1>8. \A x \in Workers :
         /\ AsksFresh(x)'
         /\ \A t : MessageFor(inbox[x], "invalidate", t) => MessageFor(inbox'[x], "invalidate", t)
  BY <1>3, <1>4, <1>6, <1>7, InboxSame
<1>9. ASSUME NEW t \in Sources, NEW x \in Workers, workers'[Assign[t]] = x PROVE NextFresh(x, t)'
  <2>1. x = n \/ workers[Assign[t]] = x
    BY <1>5, <1>9, AssignAssumption DEF PoolInv, PortsInv
  <2>2. CASE x = n
    BY <1>3, <1>5, <2>2, EmptyNext
  <2>3. CASE workers[Assign[t]] = x
    <3>1. NextFresh(x, t) /\ dropped'[t] = dropped[t]
      BY <1>3, <2>3 DEF FreshInv, OwnerFresh
    <3>2. QED
      BY <1>7, <1>8, <3>1, OwnerStays
  <2>4. QED
    BY <2>1, <2>2, <2>3
<1>10. \A t \in Sources : OwnerFresh(t)'
  BY <1>9 DEF OwnerFresh
<1>11. \A w \in Workers : thread'[w] = "free" => thread[w] = "free"
  BY <1>3
<1>12. QED
  BY <1>3, <1>4, <1>6, <1>7, <1>8, <1>10, <1>11, MainActs

LEMMA ExitFresh ==
    ASSUME PoolInv, CallsInv, FreshInv, NEW w \in Workers, onWorkerExit(w)
    PROVE  FreshInv'
<1> DEFINE none == EmptyBag
           nothing == {}
<1>1. DOMAIN none = {}
  BY DEF EmptyBag, SetToBag
<1>2. /\ inbox' = [inbox EXCEPT ![w] = <<>>] /\ resident' = [resident EXCEPT ![w] = <<>>]
      /\ jobs' = [jobs EXCEPT ![w] = none] /\ executing' = [executing EXCEPT ![w] = nothing]
      /\ UNCHANGED <<outbox, files, dropped>>
  BY DEF onWorkerExit, Reused
<1>3. nothing = {}
  OBVIOUS
<1> HIDE DEF none, nothing
<1>4. /\ inbox'[w] = <<>> /\ resident'[w] = <<>> /\ jobs'[w] = none /\ executing'[w] = {}
      /\ resident' = [x \in Workers |-> resident'[x]]
      /\ \A x \in Workers : x # w =>
            UNCHANGED <<inbox[x], outbox[x], resident[x], jobs[x], executing[x]>>
  BY <1>2, <1>3 DEF PoolInv, PortsInv, CallsInv, Wired, FreshInv
<1>5. /\ FloorStays /\ CallsFresh'
      /\ workers' = workers \/ \E n \in Workers, i \in Indexes :
            thread[n] = "free" /\ Empties(n) /\ workers' = [workers EXCEPT ![i] = n]
  <2>1. CASE ~shuttingDown /\ Current(w)
    <3>1. PICK i \in Indexes : i = CHOOSE j \in Indexes : workers[j] = w
      BY <2>1 DEF Current
    <3>2. reclaim(i)
      BY <2>1, <3>1 DEF onWorkerExit
    <3>3. QED
      BY <3>2, ReclaimFresh
  <2>2. CASE shuttingDown \/ ~Current(w)
    BY <2>2, SameCalls DEF onWorkerExit
  <2>3. QED
    BY <2>1, <2>2
<1>6. \A x \in Workers : x # w /\ thread'[x] = "free" => thread[x] = "free"
  BY DEF onWorkerExit, CallsInv, Wired
<1>7. FilesFresh' /\ DroppedGrows
  BY <1>2 DEF FreshInv, FilesFresh, DroppedGrows
<1>8. Empties(w)'
  BY <1>1, <1>4 DEF Empties
<1>9. ASSUME NEW x \in Workers, x # w
      PROVE  /\ StillSince(x) /\ AsksFresh(x)'
             /\ \A t : MessageFor(inbox[x], "invalidate", t) => MessageFor(inbox'[x], "invalidate", t)
  <2>1. StillSince(x)
    BY <1>4, <1>9, SameSince
  <2>2. inbox'[x] = inbox[x]
    BY <1>4, <1>9
  <2>3. QED
    BY <1>5, <1>7, <2>1, <2>2, InboxSame
<1>10. ASSUME NEW x \in Workers PROVE WorkerFresh(x)'
  <2>1. AnswersFresh(x)'
    BY <1>2, <1>5, StaysFresh
  <2>2. CASE x = w
    <3>1. resident'[w] \in Seq(Stores) /\ AsksFresh(w)' /\ BuildsFresh(w)' /\ RunsFresh(w)'
      BY <1>1, <1>4 DEF AsksFresh, BuildsFresh, RunsFresh
    <3>2. QED
      BY <1>8, <2>1, <2>2, <3>1 DEF WorkerFresh
  <2>3. CASE x # w
    <3>1. RunsFresh(x)' /\ BuildsFresh(x)'
      BY <1>4, <1>5, <2>3, StaysFresh
    <3>2. QED
      BY <1>4, <1>6, <1>9, <2>1, <2>3, <3>1 DEF FreshInv, WorkerFresh, Empties
  <2>4. QED
    BY <2>2, <2>3
<1>11. ASSUME NEW t \in Sources, NEW x \in Workers, workers'[Assign[t]] = x PROVE NextFresh(x, t)'
  <2>1. CASE x = w
    <3>1. BuildsSince(w, t, dropped[t])' /\ StoresSince(w, t, dropped[t])'
      BY <1>8 DEF Empties, BuildsSince, StoresSince, ToSet
    <3>2. QED
      BY <2>1, <3>1 DEF NextFresh
  <2>2. CASE x # w
    <3>1. UNCHANGED <<resident[x], jobs[x], inbox[x]>> /\ dropped' = dropped
      BY <1>2, <1>4, <2>2
    <3>2. workers[Assign[t]] = x \/ Empties(x)
      BY <1>5, <1>11, AssignAssumption DEF PoolInv, PortsInv
    <3>3. CASE Empties(x)
      <4>1. Empties(x)'
        BY <3>1, <3>3 DEF Empties
      <4>2. BuildsSince(x, t, dropped[t])' /\ StoresSince(x, t, dropped[t])'
        BY <4>1 DEF Empties, BuildsSince, StoresSince, ToSet
      <4>3. QED
        BY <4>2 DEF NextFresh
    <3>4. CASE workers[Assign[t]] = x
      <4>1. NextFresh(x, t) /\ dropped'[t] = dropped[t]
        BY <3>1, <3>4 DEF FreshInv, OwnerFresh
      <4>2. QED
        BY <1>9, <2>2, <4>1, OwnerStays
    <3>5. QED
      BY <3>2, <3>3, <3>4
  <2>3. QED
    BY <2>1, <2>2
<1>12. \A t \in Sources : OwnerFresh(t)'
  BY <1>11 DEF OwnerFresh
<1>13. QED
  BY <1>4, <1>5, <1>7, <1>10, <1>12 DEF FreshInv

LEMMA StopFresh ==
    ASSUME PoolInv, CallsInv, FreshInv,
           UNCHANGED poolVars \/ (\E w \in Workers : GetsStuck(w) \/ Dies(w)) \/ \E s \in Sources : Edit(s)
    PROVE  FreshInv'
<1>1. UNCHANGED <<workers, query, inbox, outbox, resident, jobs, executing, dropped>>
  BY DEF poolVars, mainVars, portVars, storeVars, GetsStuck, Dies, Edit
<1>2. FloorStays /\ CallsFresh'
  BY <1>1, SameCalls
<1>3. FilesFresh'
  BY <1>1 DEF FreshInv, FilesFresh, poolVars, GetsStuck, Dies, Edit
<1>4. \A w \in Workers : AnswersFresh(w)'
  BY <1>1, <1>2, StaysFresh
<1>5. \A w \in Workers : thread'[w] = "free" => thread[w] = "free"
  BY DEF CallsInv, Wired, poolVars, GetsStuck, Dies, Edit
<1>6. QED
  BY <1>1, <1>2, <1>3, <1>4, <1>5, QuietFresh

LEMMA CallerFresh ==
    ASSUME PoolInv, CallsInv, FreshInv, CallerStep
    PROVE  FreshInv'
<1>1. ASSUME NEW s \in Sources, invalidate(s) PROVE FreshInv'
  <2>1. /\ UNCHANGED <<workers, query, thread, outbox, resident, jobs, executing, files>>
        /\ Drops(s) /\ inbox' = Invalidated(s)
    BY <1>1 DEF invalidate, mainVars, storeVars, Drops
  <2>2. QED
    BY <2>1, InvalidatedFresh
<1>2. QED
  BY <1>1, EnsureFresh, QueryAskedFresh, CancelFresh, ShutdownFresh DEF CallerStep

LEMMA StepFresh ==
    ASSUME PoolInv, CallsInv, FreshInv, [PoolNext]_poolVars
    PROVE  FreshInv'
<1>1. CASE CallerStep
  BY <1>1, CallerFresh
<1>2. CASE LoopStep
  BY <1>2, GraceFresh, MessageFresh, ExitFresh DEF LoopStep
<1>3. ASSUME NEW w \in Workers, WorkerStep(w) PROVE FreshInv'
  BY <1>3, WorkerStepFresh
<1>4. CASE \/ UNCHANGED poolVars \/ \E s \in Sources : Edit(s)
           \/ \E w \in Workers : GetsStuck(w) \/ Dies(w)
  BY <1>4, StopFresh
<1>5. QED
  BY <1>1, <1>2, <1>3, <1>4 DEF PoolNext

LEMMA InitFresh ==
    ASSUME NEW asked, NEW version \in Nat, PoolStart(asked, version)
    PROVE  FreshInv
<1>1. \A r \in Requests : query[r].at = "new" /\ query[r].out # "ok"
  <2>1. \A r \in Requests : query[r] \in {NewQuery, NeverAsked}
    BY DEF PoolStart
  <2>2. NewQuery.at = "new" /\ NewQuery.out # "ok" /\ NeverAsked.at = "new" /\ NeverAsked.out # "ok"
    <3> DEFINE no == FALSE
    <3>1. NewQuery = [at |-> "new", src |-> NoSource, armed |-> no, floor |-> 0, out |-> "none", ver |-> 0]
      BY DEF NewQuery
    <3> HIDE DEF no
    <3>2. QED
      BY <3>1 DEF NeverAsked
  <2>3. QED
    BY <2>1, <2>2
<1>2. CallsFresh
  BY <1>1 DEF CallsFresh, Booked
<1>3. FilesFresh /\ resident = [w \in Workers |-> resident[w]]
  BY DEF PoolStart, FilesFresh
<1> DEFINE none == EmptyBag
<1>4. DOMAIN none = {}
  BY DEF EmptyBag, SetToBag
<1>5. \A w \in Workers : /\ inbox[w] = <<>> /\ outbox[w] = <<>> /\ resident[w] = <<>>
                         /\ jobs[w] = none /\ executing[w] = {}
  BY DEF PoolStart
<1> HIDE DEF none
<1>6. ASSUME NEW w \in Workers PROVE WorkerFresh(w)
  <2>1. Empties(w)
    BY <1>4, <1>5 DEF Empties
  <2>2. <<>> \in Seq(Stores)
    OBVIOUS
  <2>3. resident[w] \in Seq(Stores)
    BY <1>5, <2>2
  <2>4. AsksFresh(w) /\ BuildsFresh(w) /\ RunsFresh(w) /\ AnswersFresh(w)
    BY <1>4, <1>5 DEF AsksFresh, BuildsFresh, RunsFresh, AnswersFresh
  <2>5. QED
    BY <2>1, <2>3, <2>4 DEF WorkerFresh
<1>7. ASSUME NEW s \in Sources PROVE OwnerFresh(s)
  <2>1. \A w \in Workers : workers[Assign[s]] # w
    BY AssignAssumption, AbsentAssumption DEF PoolStart
  <2>2. QED
    BY <2>1 DEF OwnerFresh
<1>8. QED
  BY <1>2, <1>3, <1>6, <1>7 DEF FreshInv

(* A query that is asked after an invalidate sees the files as they were   *)
(* then, if no build of its source was under way: FreshAfterQuietInvalidate.*)
THEOREM QuietInvalidatesAreSeen == PoolSpec => []FreshAfterQuietInvalidate
<1>1. PoolInit => CallsInv /\ FreshInv
  BY InitBooks, InitFresh DEF PoolInit
<1>2. PoolInv /\ CallsInv /\ FreshInv /\ [PoolNext]_poolVars => (CallsInv /\ FreshInv)'
  BY StepWires, StepFresh
<1>3. FreshInv => FreshAfterQuietInvalidate
  BY DEF FreshInv, CallsFresh, FreshAfterQuietInvalidate
<1>4. QED
  BY <1>1, <1>2, <1>3, PoolInvariant, PTL DEF PoolSpec

-----------------------------------------------------------------------------
(* A store leaves the set of a worker for an invalidate, for a newer store *)
(* of its source, or for want of room; then no running query has pinned it.*)
Pinned(w, s) == \E e \in executing[w] : e.src = s
KeepsPinned(w) ==
    \A s : IsResident(resident[w], s) /\ Pinned(w, s) => IsResident(resident'[w], s)

LEMMA PinsCount ==
    ASSUME OnceInv, FreshInv, NEW w \in Workers, NEW x \in ToSet(resident[w]), Pinned(w, x.src)
    PROVE  pins[w][x.src] # 0
<1>1. Counted(w) /\ resident[w] \in Seq(Stores)
  BY DEF OnceInv, FreshInv, WorkerFresh
<1>2. x.src \in Sources
  <2>1. PICK i \in DOMAIN resident[w] : x = resident[w][i]
    BY DEF ToSet
  <2>2. x \in Stores
    BY <1>1, <2>1
  <2>3. QED
    BY <2>2 DEF Stores
<1>3. On(executing[w], x.src) # {} /\ On(executing[w], x.src) \subseteq executing[w]
  BY DEF Pinned, On
<1>4. IsFiniteSet(On(executing[w], x.src))
  BY <1>1, <1>3, FS_Subset DEF Counted
<1>5. Cardinality(On(executing[w], x.src)) # 0
  BY <1>3, <1>4, FS_EmptySet
<1>6. QED
  BY <1>1, <1>2, <1>5 DEF Counted, PinsOf

LEMMA WorkerKeepsPinned ==
    ASSUME PoolInv, OnceInv, CallsInv, FreshInv, NEW w \in Workers, WorkerStep(w)
    PROVE  \A x \in Workers : KeepsPinned(x) \/ (x = w /\ Receives(w, "invalidate"))
<1>1. resident[w] \in Seq(Stores) /\ resident = [x \in Workers |-> resident[x]]
  BY DEF FreshInv, WorkerFresh
<1>2. ASSUME NEW s, UseStore(w, s) PROVE \A x \in Workers : KeepsPinned(x)
  <2>1. resident' = [resident EXCEPT ![w] = get(resident[w], s)]
    BY <1>2 DEF UseStore
  <2>2. \A t : IsResident(resident[w], t) => IsResident(get(resident[w], s), t)
    BY <1>1, GetMembers
  <2>3. QED
    BY <1>1, <2>1, <2>2 DEF KeepsPinned
<1>3. ASSUME NEW j, Built(w, j) PROVE \A x \in Workers : KeepsPinned(x)
  <2>1. PICK v \in j.from .. files[j.src] : KeepStore(w, j.src, v)
    BY <1>3 DEF Built
  <2>2. Finishes(w, j) /\ j \in DOMAIN jobs[w]
    BY <1>3, FinishesOnly DEF Built, CallsInv, Wired
  <2>3. j.src \in Sources /\ v \in Nat
    BY <2>2 DEF FreshInv, FilesFresh, WorkerFresh, BuildsFresh
  <2> DEFINE e == [src |-> j.src, ver |-> v]
             q == resident[w]
             p == set(q, pins[w], e)
  <2>4. e \in Stores /\ e.src = j.src
    BY <2>3 DEF Stores
  <2>5. resident' = [resident EXCEPT ![w] = p]
    BY <2>1 DEF KeepStore
  <2> HIDE DEF e
  <2>6. /\ \A x \in ToSet(q) : x.src # e.src /\ pins[w][x.src] # 0 => x \in ToSet(p)
        /\ e \in ToSet(p)
    BY <1>1, <2>4, SetMembers
  <2> HIDE DEF p
  <2>7. ASSUME NEW x \in ToSet(q), Pinned(w, x.src) PROVE IsResident(p, x.src)
    <3>1. CASE x.src = e.src
      BY <2>6, <3>1 DEF IsResident
    <3>2. CASE x.src # e.src
      BY <2>6, <2>7, <3>2, PinsCount DEF IsResident
    <3>3. QED
      BY <3>1, <3>2
  <2>8. \A s : IsResident(q, s) /\ Pinned(w, s) => IsResident(p, s)
    BY <2>7 DEF IsResident
  <2>9. QED
    BY <1>1, <2>5, <2>8 DEF KeepsPinned
<1>4. ASSUME resident' = resident PROVE \A x \in Workers : KeepsPinned(x)
  BY <1>4 DEF KeepsPinned
<1>5. CASE Handles(w) /\ ~handleInvalidate(w)
  BY <1>2, <1>4, <1>5 DEF Handles, handleLoad, handleQuery, handleCancel, storeVars
<1>6. ASSUME NEW r, BuildEnds(w, r) PROVE \A x \in Workers : KeepsPinned(x)
  BY <1>3, <1>4, <1>6 DEF BuildEnds, BuildFails
<1>7. ASSUME NEW r, RunEnds(w, r) PROVE \A x \in Workers : KeepsPinned(x)
  BY <1>4, <1>7 DEF RunEnds, QueryEnds
<1>8. CASE handleInvalidate(w)
  BY <1>1, <1>8 DEF handleInvalidate, KeepsPinned
<1>9. QED
  BY <1>5, <1>6, <1>7, <1>8 DEF WorkerStep

LEMMA StepKeepsPinned ==
    ASSUME PoolInv, OnceInv, CallsInv, FreshInv, [PoolNext]_poolVars, NEW w \in Workers
    PROVE  KeepsPinned(w) \/ Receives(w, "invalidate") \/ thread[w] = "dead"
<1>1. CASE UNCHANGED resident
  BY <1>1 DEF KeepsPinned
<1>2. ASSUME NEW x \in Workers, WorkerStep(x)
      PROVE  KeepsPinned(w) \/ Receives(w, "invalidate")
  BY <1>2, WorkerKeepsPinned
<1>3. ASSUME NEW x \in Workers, onWorkerExit(x) PROVE KeepsPinned(w) \/ thread[w] = "dead"
  <2>1. thread[x] = "dead" /\ resident' = [resident EXCEPT ![x] = <<>>]
    BY <1>3 DEF onWorkerExit, Reused
  <2>2. QED
    BY <2>1 DEF KeepsPinned, FreshInv
<1>4. CASE CallerStep
  BY <1>1, <1>4 DEF CallerStep, ensureLoaded, invalidate, Query, onCancel, shutdown, storeVars
<1>5. CASE LoopStep
  BY <1>1, <1>3, <1>5 DEF LoopStep, GraceExpires, onMessage, storeVars
<1>6. CASE \/ UNCHANGED poolVars \/ \E s \in Sources : Edit(s)
           \/ \E x \in Workers : GetsStuck(x) \/ Dies(x)
  BY <1>1, <1>6 DEF poolVars, Edit, GetsStuck, Dies, storeVars
<1>7. QED
  BY <1>2, <1>4, <1>5, <1>6 DEF PoolNext

(* No store is evicted under a query that runs on it: PinnedNotEvicted.    *)
THEOREM PinnedStays == PoolSpec => PinnedNotEvicted
<1> DEFINE Stays ==
       \A w \in Workers : \A e \in executing[w] :
          IsResident(resident[w], e.src) /\ ~IsResident(resident'[w], e.src)
              => Receives(w, "invalidate") \/ thread[w] = "dead"
<1>1. PoolInit => CallsInv /\ OnceInv /\ FreshInv
  BY InitBooks, InitFresh DEF PoolInit
<1>2. PoolInv /\ CallsInv /\ OnceInv /\ FreshInv /\ [PoolNext]_poolVars
        => (CallsInv /\ OnceInv /\ FreshInv)'
  BY StepWires, StepOnce, StepFresh
<1>3. PoolInv /\ CallsInv /\ OnceInv /\ FreshInv /\ [PoolNext]_poolVars => Stays
  BY StepKeepsPinned DEF KeepsPinned, Pinned
<1>4. QED
  BY <1>1, <1>2, <1>3, PoolInvariant, PTL DEF PoolSpec, PinnedNotEvicted
=============================================================================
