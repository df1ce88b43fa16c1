------------------------- MODULE QueryWorkersProofs -------------------------
(***************************************************************************)
(* The query worker pool keeps the promise of PendingCalls, for every set  *)
(* of sources, requests and workers: workers get stuck, die and are        *)
(* replaced, and what a replaced worker had still sent arrives late.       *)
(***************************************************************************)
EXTENDS QueryWorkers, SequenceTheorems, FiniteSetTheorems, TLAPS

(* A record of the pool's books, field by field.                           *)
Record(q) == q = [at |-> q.at, src |-> q.src, armed |-> q.armed, floor |-> q.floor,
                  out |-> q.out, ver |-> q.ver]

LEMMA Settling ==
    ASSUME NEW r, NEW out, NEW v, Record(query[r])
    PROVE  LET q == SettledAs(r, out, v) IN
           /\ Record(q) /\ q.at = "settled" /\ q.src = query[r].src /\ ~q.armed /\ q.out = out
           /\ q.floor = query[r].floor /\ q.ver = v
<1> DEFINE no == FALSE
<1>1. SettledAs(r, out, v) = [at |-> "settled", src |-> query[r].src, armed |-> no,
                              floor |-> query[r].floor, out |-> out, ver |-> v]
  <2>1. SettledAs(r, out, v) = [query[r] EXCEPT !.at = "settled", !.armed = no, !.out = out, !.ver = v]
    BY DEF SettledAs
  <2>2. QED
    <3> HIDE DEF no
    <3>1. QED
      BY <2>1 DEF Record
<1>2. QED
  BY <1>1 DEF Record

LEMMA Arming ==
    ASSUME NEW q, Record(q), NEW armed
    PROVE  LET p == [q EXCEPT !.armed = armed] IN
           /\ Record(p) /\ p.at = q.at /\ p.src = q.src /\ p.armed = armed /\ p.out = q.out
           /\ p.floor = q.floor /\ p.ver = q.ver
  BY DEF Record

AsAsked(r, s, armed, floor) ==
    [query[r] EXCEPT !.at = "pending", !.src = s, !.armed = armed, !.floor = floor]

LEMMA Asking ==
    ASSUME NEW r, Record(query[r]), NEW s, NEW armed, NEW floor
    PROVE  LET p == AsAsked(r, s, armed, floor) IN
           Record(p) /\ p.at = "pending" /\ p.src = s /\ p.out = query[r].out /\ p.floor = floor
<1> DEFINE p == AsAsked(r, s, armed, floor)
<1>1. p = [query[r] EXCEPT !.at = "pending", !.src = s, !.armed = armed, !.floor = floor]
  BY DEF AsAsked
<1> HIDE DEF p
<1>2. p = [at |-> "pending", src |-> s, armed |-> armed, floor |-> floor,
           out |-> query[r].out, ver |-> query[r].ver]
  BY <1>1 DEF Record
<1>3. Record(p) /\ p.at = "pending" /\ p.src = s /\ p.out = query[r].out /\ p.floor = floor
  BY <1>2 DEF Record
<1>4. QED
  BY <1>3 DEF p

-----------------------------------------------------------------------------
(* The messages.                                                           *)
GoodAsk(m) == m.type = "query" => m.req \in Requests
GoodAnswer(m) == m.type = "query-result" => m.req \in Requests /\ m.out \in {"ok", "error"}
GoodIn(q) == (\E S : q \in Seq(S)) /\ \A i \in 1 .. Len(q) : GoodAsk(q[i])
GoodOut(q) == (\E S : q \in Seq(S)) /\ \A i \in 1 .. Len(q) : GoodAnswer(q[i])

LEMMA AppendAnswer ==
    ASSUME NEW q, GoodOut(q), NEW m, GoodAnswer(m)
    PROVE  GoodOut(Append(q, m))
<1>1. PICK S : q \in Seq(S)
  BY DEF GoodOut
<1>2. q \in Seq(S \cup {m}) /\ m \in S \cup {m}
  BY <1>1, SeqMonotonic
<1>3. Append(q, m) \in Seq(S \cup {m})
  BY <1>2
<1>4. \A i \in 1 .. Len(Append(q, m)) : GoodAnswer(Append(q, m)[i])
  <2>1. ASSUME NEW i \in 1 .. Len(Append(q, m))
        PROVE  Append(q, m)[i] = m \/ (i \in 1 .. Len(q) /\ Append(q, m)[i] = q[i])
    BY <1>2
  <2>2. QED
    BY <2>1 DEF GoodOut
<1>5. QED
  BY <1>3, <1>4 DEF GoodOut

LEMMA HeadAnswer ==
    ASSUME NEW q, GoodOut(q), q # <<>>
    PROVE  GoodAnswer(Head(q)) /\ GoodOut(Tail(q))
<1>1. PICK S : q \in Seq(S)
  BY DEF GoodOut
<1>2. /\ Tail(q) \in Seq(S) /\ 1 \in 1 .. Len(q) /\ Head(q) = q[1]
      /\ \A i \in 1 .. Len(Tail(q)) : i + 1 \in 1 .. Len(q) /\ Tail(q)[i] = q[i + 1]
  BY <1>1
<1>3. QED
  BY <1>2 DEF GoodOut

LEMMA HeadAsk ==
    ASSUME NEW q, GoodIn(q), q # <<>>
    PROVE  GoodAsk(Head(q)) /\ GoodIn(Tail(q))
<1>1. PICK S : q \in Seq(S)
  BY DEF GoodIn
<1>2. /\ Tail(q) \in Seq(S) /\ 1 \in 1 .. Len(q) /\ Head(q) = q[1]
      /\ \A i \in 1 .. Len(Tail(q)) : i + 1 \in 1 .. Len(q) /\ Tail(q)[i] = q[i + 1]
  BY <1>1
<1>3. QED
  BY <1>2 DEF GoodIn

LEMMA ConcatAsks ==
    ASSUME NEW p, NEW q, GoodIn(p), GoodIn(q)
    PROVE  GoodIn(p \o q)
<1>1. PICK S, T : p \in Seq(S) /\ q \in Seq(T)
  BY DEF GoodIn
<1>2. p \in Seq(S \cup T) /\ q \in Seq(S \cup T)
  BY <1>1, SeqMonotonic
<1>3. p \o q \in Seq(S \cup T) /\ Len(p) \in Nat /\ Len(q) \in Nat
  BY <1>2
<1>4. ASSUME NEW i \in 1 .. Len(p \o q)
      PROVE  \/ i \in 1 .. Len(p) /\ (p \o q)[i] = p[i]
             \/ i - Len(p) \in 1 .. Len(q) /\ (p \o q)[i] = q[i - Len(p)]
  BY <1>2
<1>5. QED
  BY <1>3, <1>4 DEF GoodIn

LEMMA AppendAsk ==
    ASSUME NEW q, GoodIn(q), NEW m, GoodAsk(m)
    PROVE  GoodIn(Append(q, m))
<1>1. PICK S : q \in Seq(S)
  BY DEF GoodIn
<1>2. q \in Seq(S \cup {m}) /\ m \in S \cup {m}
  BY <1>1, SeqMonotonic
<1>3. Append(q, m) \in Seq(S \cup {m})
  BY <1>2
<1>4. \A i \in 1 .. Len(Append(q, m)) : GoodAsk(Append(q, m)[i])
  <2>1. ASSUME NEW i \in 1 .. Len(Append(q, m))
        PROVE  Append(q, m)[i] = m \/ (i \in 1 .. Len(q) /\ Append(q, m)[i] = q[i])
    BY <1>2
  <2>2. QED
    BY <2>1 DEF GoodIn
<1>5. QED
  BY <1>3, <1>4 DEF GoodIn

LEMMA AskSequences ==
    ASSUME NEW m, GoodAsk(m), NEW n, GoodAsk(n)
    PROVE  GoodIn(<<>>) /\ GoodIn(<<m>>) /\ GoodIn(<<m, n>>)
<1>1. <<>> \in Seq({m}) /\ <<m>> \in Seq({m}) /\ <<m, n>> \in Seq({m, n})
  OBVIOUS
<1>2. Len(<<>>) = 0 /\ Len(<<m>>) = 1 /\ Len(<<m, n>>) = 2
  OBVIOUS
<1>3. GoodIn(<<>>)
  BY <1>1, <1>2 DEF GoodIn
<1>4. GoodIn(<<m>>)
  <2>1. \A i \in 1 .. 1 : <<m>>[i] = m
    OBVIOUS
  <2>2. QED
    BY <1>1, <1>2, <2>1 DEF GoodIn
<1>5. GoodIn(<<m, n>>)
  <2>1. \A i \in 1 .. 2 : <<m, n>>[i] = m \/ <<m, n>>[i] = n
    OBVIOUS
  <2>2. QED
    BY <1>1, <1>2, <2>1 DEF GoodIn
<1>6. QED
  BY <1>3, <1>4, <1>5

-----------------------------------------------------------------------------
(* What travels and what a worker holds is about requests of the pool.     *)
PortsInv ==
    /\ inbox = [w \in Workers |-> inbox[w]]
    /\ outbox = [w \in Workers |-> outbox[w]]
    /\ jobs = [w \in Workers |-> jobs[w]]
    /\ executing = [w \in Workers |-> executing[w]]
    /\ workers \in [Indexes -> Workers \cup {NoWorker}]
    /\ \A w \in Workers :
          /\ GoodIn(inbox[w]) /\ GoodOut(outbox[w])
          /\ \A j \in DOMAIN jobs[w] : j.req \in Requests \cup {NoRequest}
          /\ \A e \in executing[w] : e.req \in Requests

(* The books of the pool.                                                  *)
BooksInv ==
    /\ query = [r \in Requests |-> query[r]]
    /\ \A r \in Requests :
          /\ Record(query[r])
          /\ query[r].at \in Phases /\ query[r].out \in Outs
          /\ query[r].at = "settled" => query[r].out # "none"
          /\ query[r].at = "pending" => query[r].src \in Sources
    /\ shuttingDown => \A r \in Requests : ~query[r].armed

PoolInv == PortsInv /\ BooksInv

LEMMA InitGood == ASSUME NEW asked, NEW version, PoolStart(asked, version) PROVE PoolInv
<1>1. GoodIn(<<>>) /\ GoodOut(<<>>)
  <2>1. <<>> \in Seq({}) /\ Len(<<>>) = 0
    OBVIOUS
  <2>2. QED
    BY <2>1 DEF GoodIn, GoodOut
<1>2. PortsInv
  BY <1>1 DEF PoolStart, PortsInv, EmptyBag, SetToBag
<1>3. ASSUME NEW q \in {NewQuery, NeverAsked}
      PROVE  Record(q) /\ q.at = "new" /\ q.out \in Outs
  <2> DEFINE no == FALSE
  <2>1. NewQuery = [at |-> "new", src |-> NoSource, armed |-> no, floor |-> 0, out |-> "none", ver |-> 0]
    BY DEF NewQuery
  <2>2. q \in {NewQuery, [NewQuery EXCEPT !.out = "error"]}
    BY DEF NeverAsked
  <2>3. QED
    <3> HIDE DEF no
    <3>1. QED
      BY <2>1, <2>2 DEF Record, Outs
<1>4. query = [r \in Requests |-> query[r]] /\ \A r \in Requests : query[r] \in {NewQuery, NeverAsked}
  BY DEF PoolStart
<1>5. BooksInv
  BY <1>3, <1>4 DEF PoolStart, BooksInv, Phases
<1>6. QED
  BY <1>2, <1>5 DEF PoolInv

(* Posting to the worker of a source.                                      *)
LEMMA PostKeeps ==
    ASSUME PortsInv, NEW s \in Sources, NEW msgs, GoodIn(msgs), Post(s, msgs),
           UNCHANGED <<outbox, jobs, executing>>
    PROVE  PortsInv'
<1> DEFINE i == Assign[s]
<1>1. i \in Indexes
  BY AssignAssumption
<1>2. CASE workers[i] # NoWorker
  <2>1. workers[i] \in Workers /\ workers' = workers
        /\ inbox' = [inbox EXCEPT ![workers[i]] = @ \o msgs]
    BY <1>1, <1>2 DEF Post, PortsInv
  <2>2. GoodIn(inbox[workers[i]] \o msgs)
    BY <2>1, ConcatAsks DEF PortsInv
  <2>3. QED
    BY <2>1, <2>2 DEF PortsInv
<1>3. CASE workers[i] = NoWorker
  <2>1. PICK w \in Workers : workers' = [workers EXCEPT ![i] = w] /\ inbox' = [inbox EXCEPT ![w] = msgs]
    BY <1>3 DEF Post, Free
  <2>2. QED
    BY <2>1 DEF PortsInv
<1>4. QED
  BY <1>2, <1>3

-----------------------------------------------------------------------------
(* The callers.                                                            *)
LEMMA InvalidatedKeeps ==
    ASSUME PoolInv, NEW s \in Sources, inbox' = Invalidated(s) \/ inbox' = inbox,
           UNCHANGED <<workers, query, shuttingDown, outbox, jobs, executing>>
    PROVE  PoolInv'
<1>1. CASE inbox' = inbox
  BY <1>1 DEF PoolInv, PortsInv, BooksInv
<1>2. CASE inbox' = Invalidated(s) /\ workers[Assign[s]] = NoWorker
  BY <1>1, <1>2 DEF Invalidated
<1>3. CASE inbox' = Invalidated(s) /\ workers[Assign[s]] # NoWorker
  <2> DEFINE w == workers[Assign[s]]
  <2>1. w \in Workers
    BY <1>3, AssignAssumption DEF PoolInv, PortsInv
  <2>2. inbox' = [inbox EXCEPT ![w] = Append(@, InvalidateMsg(s))]
    BY <1>3 DEF Invalidated
  <2>3. GoodAsk(InvalidateMsg(s))
    BY DEF GoodAsk, InvalidateMsg
  <2>4. GoodIn(Append(inbox[w], InvalidateMsg(s)))
    BY <2>1, <2>3, AppendAsk DEF PoolInv, PortsInv
  <2>5. QED
    BY <2>1, <2>2, <2>4 DEF PoolInv, PortsInv, BooksInv
<1>4. QED
  BY <1>1, <1>2, <1>3

LEMMA LoadOrInvalidate ==
    ASSUME PoolInv, NEW s \in Sources, ensureLoaded(s) \/ invalidate(s)
    PROVE  PoolInv' /\ UNCHANGED query
<1>1. UNCHANGED <<query, shuttingDown, outbox, jobs, executing>>
  BY DEF ensureLoaded, invalidate, storeVars, mainVars
<1>2. CASE UNCHANGED <<workers, inbox>>
  BY <1>1, <1>2 DEF PoolInv, PortsInv, BooksInv
<1>3. CASE Post(s, <<LoadMsg(s)>>)
  <2>1. GoodAsk(LoadMsg(s))
    BY DEF GoodAsk, LoadMsg
  <2>2. GoodIn(<<LoadMsg(s)>>)
    BY <2>1, AskSequences
  <2>3. PortsInv'
    BY <1>1, <1>3, <2>2, PostKeeps DEF PoolInv
  <2>4. QED
    BY <1>1, <2>3 DEF PoolInv, BooksInv
<1>4. CASE invalidate(s)
  BY <1>1, <1>4, InvalidatedKeeps DEF invalidate, mainVars
<1>5. QED
  BY <1>2, <1>3, <1>4 DEF ensureLoaded

LEMMA QueryKeeps ==
    ASSUME PoolInv, ~shuttingDown, NEW r \in Requests, NEW s \in Sources, NEW aborted \in BOOLEAN,
           Query(r, s, aborted)
    PROVE  PoolInv' /\ Promise!Ask(r, Assign[s])
<1> DEFINE q == AsAsked(r, s, aborted, dropped[s])
<1>1. query[r] = NewQuery /\ query' = [query EXCEPT ![r] = q] /\ UNCHANGED <<shuttingDown, outbox, jobs, executing>>
  BY DEF Query, storeVars, AsAsked
<1>2. query[r].at = "new" /\ query[r].out = "none"
  BY <1>1 DEF NewQuery
<1>3. Record(q) /\ q.at = "pending" /\ q.src = s /\ q.out = query[r].out
  <2>1. Record(query[r])
    BY DEF PoolInv, BooksInv
  <2>2. QED
    BY <2>1, Asking
<1>4. query' = [x \in Requests |-> IF x = r THEN q ELSE query[x]]
  BY <1>1 DEF PoolInv, BooksInv
<1>5. BooksInv'
  <2> HIDE DEF q
  <2>1. QED
    BY <1>1, <1>2, <1>3, <1>4 DEF PoolInv, BooksInv, Phases, Outs
<1>6. GoodIn(IF aborted THEN <<QueryMsg(r), CancelMsg(r)>> ELSE <<QueryMsg(r)>>)
  <2>1. GoodAsk(QueryMsg(r)) /\ GoodAsk(CancelMsg(r))
    BY DEF GoodAsk, QueryMsg, CancelMsg
  <2>2. QED
    BY <2>1, AskSequences
<1>7. PortsInv'
  BY <1>1, <1>6, PostKeeps DEF Query, PoolInv
<1>8. Promise!Ask(r, Assign[s])
  <2> HIDE DEF q
  <2>1. s # NoSource
    BY AbsentAssumption
  <2>2. callResult[r] = "new"
    BY <1>2 DEF callResult
  <2>3. callOwner' = [callOwner EXCEPT ![r] = Assign[s]]
    BY <1>3, <1>4, <2>1 DEF callOwner, indexOf
  <2>4. callResult' = [callResult EXCEPT ![r] = "pending"]
    BY <1>3, <1>4 DEF callResult
  <2>5. QED
    BY <2>2, <2>3, <2>4 DEF Promise!Ask
<1>9. QED
  BY <1>5, <1>7, <1>8 DEF PoolInv

(* What changes only the timer of a query is no step of the promise.       *)
LEMMA OnlyArmed ==
    ASSUME BooksInv, query' = [r \in Requests |-> query'[r]],
           \A r \in Requests : query'[r].at = query[r].at /\ query'[r].src = query[r].src
                               /\ query'[r].out = query[r].out
    PROVE  UNCHANGED Promise!calls
<1>1. callOwner' = callOwner
  BY DEF callOwner, indexOf
<1>2. callResult' = callResult
  BY DEF callResult
<1>3. QED
  BY <1>1, <1>2 DEF Promise!calls

LEMMA CancelKeeps ==
    ASSUME PoolInv, ~shuttingDown, NEW r \in Requests, onCancel(r)
    PROVE  PoolInv' /\ UNCHANGED Promise!calls
<1> DEFINE w == workers[indexOf(r)]
           yes == TRUE
           q == [query[r] EXCEPT !.armed = yes]
<1>1. query' = [query EXCEPT ![r] = q] /\ inbox' = [inbox EXCEPT ![w] = Append(@, CancelMsg(r))]
      /\ UNCHANGED <<workers, shuttingDown, outbox, jobs, executing>>
  BY DEF onCancel, storeVars
<1>2. Record(q) /\ q.at = query[r].at /\ q.src = query[r].src /\ q.out = query[r].out
  <2> HIDE DEF yes
  <2>1. QED
    BY DEF PoolInv, BooksInv, Record
<1>3. query' = [x \in Requests |-> IF x = r THEN q ELSE query[x]]
  BY <1>1 DEF PoolInv, BooksInv
<1> HIDE DEF q
<1>4. BooksInv'
  BY <1>1, <1>2, <1>3 DEF PoolInv, BooksInv
<1>5. UNCHANGED Promise!calls
  <2>1. query' = [x \in Requests |-> query'[x]]
    BY <1>3
  <2>2. QED
    BY <1>2, <1>3, <2>1, OnlyArmed DEF PoolInv
<1>6. PortsInv'
  <2>1. inbox = [x \in Workers |-> inbox[x]] /\ \A x \in Workers : GoodIn(inbox[x])
    BY DEF PoolInv, PortsInv
  <2>2. GoodAsk(CancelMsg(r))
    BY DEF GoodAsk, CancelMsg
  <2>3. inbox' = [x \in Workers |-> inbox'[x]] /\ \A x \in Workers : GoodIn(inbox'[x])
    BY <1>1, <2>1, <2>2, AppendAsk
  <2>4. QED
    BY <1>1, <2>3 DEF PoolInv, PortsInv
<1>7. QED
  BY <1>4, <1>5, <1>6 DEF PoolInv

LEMMA ShutdownKeeps ==
    ASSUME PoolInv, shutdown
    PROVE  PoolInv' /\ UNCHANGED Promise!calls
<1> DEFINE no == FALSE
           q(r) == [query[r] EXCEPT !.armed = no]
<1>1. query' = [r \in Requests |-> q(r)]
  BY DEF shutdown
<1>2. \A r \in Requests : Record(q(r)) /\ q(r).at = query[r].at /\ q(r).src = query[r].src
                          /\ q(r).out = query[r].out /\ q(r).armed = no
  <2> HIDE DEF no
  <2>1. QED
    BY DEF PoolInv, BooksInv, Record
<1>3. \A r \in Requests : ~q(r).armed
  BY <1>2
<1> HIDE DEF q
<1>4. BooksInv'
  BY <1>1, <1>2, <1>3 DEF PoolInv, BooksInv
<1>5. UNCHANGED Promise!calls
  BY <1>1, <1>2, OnlyArmed DEF PoolInv
<1>6. PortsInv'
  BY DEF shutdown, PoolInv, PortsInv, portVars, storeVars
<1>7. QED
  BY <1>4, <1>5, <1>6 DEF PoolInv

-----------------------------------------------------------------------------
(* The main loop.  A worker that is given up loses what waits for it.      *)
LEMMA ReclaimLoses ==
    ASSUME PoolInv, NEW i \in Indexes, reclaim(i), UNCHANGED shuttingDown
    PROVE  BooksInv' /\ Promise!LoseWorker(i) /\ workers' \in [Indexes -> Workers \cup {NoWorker}]
<1> DEFINE lost(r) == SettledAs(r, "lost", 0)
<1>1. query' = [r \in Requests |-> IF Pending(r) /\ indexOf(r) = i THEN lost(r) ELSE query[r]]
  BY DEF reclaim
<1>2. \A r \in Requests : Record(lost(r)) /\ lost(r).at = "settled" /\ lost(r).src = query[r].src
                          /\ ~lost(r).armed /\ lost(r).out = "lost"
  BY Settling DEF PoolInv, BooksInv
<1> HIDE DEF lost
<1>3. BooksInv'
  BY <1>1, <1>2 DEF PoolInv, BooksInv, Phases, Outs
<1>4. \A r \in Requests : r \in Promise!Waiting(i) <=> Pending(r) /\ indexOf(r) = i
  <2>1. ASSUME NEW r \in Requests PROVE callResult[r] = "pending" <=> Pending(r)
    BY DEF callResult, Pending, PoolInv, BooksInv, Phases, Outs
  <2>2. ASSUME NEW r \in Requests, Pending(r) PROVE callOwner[r] = indexOf(r)
    BY <2>2, AbsentAssumption DEF callOwner, Pending, PoolInv, BooksInv
  <2>3. QED
    BY <2>1, <2>2 DEF Promise!Waiting
<1>5. callOwner' = callOwner
  BY <1>1, <1>2 DEF callOwner, indexOf
<1>6. callResult' = [r \in Requests |-> IF r \in Promise!Waiting(i) THEN "lost" ELSE callResult[r]]
  BY <1>1, <1>2, <1>4 DEF callResult
<1>7. workers' \in [Indexes -> Workers \cup {NoWorker}]
  BY DEF reclaim, Free, PoolInv, PortsInv
<1>8. QED
  BY <1>3, <1>5, <1>6, <1>7 DEF Promise!LoseWorker

LEMMA GraceKeeps ==
    ASSUME PoolInv, NEW r \in Requests, GraceExpires(r)
    PROVE  PoolInv' /\ Promise!Next /\ ~shuttingDown
<1>1. reclaim(indexOf(r)) /\ UNCHANGED <<shuttingDown, inbox, outbox, jobs, executing>>
  BY DEF GraceExpires, portVars, storeVars
<1>2. indexOf(r) \in Indexes
  BY AssignAssumption DEF GraceExpires, Pending, indexOf, PoolInv, BooksInv
<1>3. BooksInv' /\ Promise!LoseWorker(indexOf(r)) /\ workers' \in [Indexes -> Workers \cup {NoWorker}]
  BY <1>1, <1>2, ReclaimLoses
<1>4. PortsInv'
  BY <1>1, <1>3 DEF PoolInv, PortsInv
<1>5. QED
  BY <1>2, <1>3, <1>4 DEF PoolInv, BooksInv, GraceExpires, Promise!Next

LEMMA ExitKeeps ==
    ASSUME PoolInv, NEW w \in Workers, onWorkerExit(w)
    PROVE  /\ PoolInv' /\ (Promise!Next \/ UNCHANGED Promise!calls)
           /\ shuttingDown => workers' = workers
<1>1. /\ inbox' = [inbox EXCEPT ![w] = <<>>] /\ jobs' = [jobs EXCEPT ![w] = EmptyBag]
      /\ executing' = [executing EXCEPT ![w] = {}] /\ UNCHANGED <<shuttingDown, outbox>>
  BY DEF onWorkerExit, Reused
<1>2. GoodIn(<<>>) /\ DOMAIN EmptyBag = {}
  <2>1. <<>> \in Seq({}) /\ Len(<<>>) = 0
    OBVIOUS
  <2>2. QED
    BY <2>1 DEF GoodIn, EmptyBag, SetToBag
<1>3. ASSUME workers' \in [Indexes -> Workers \cup {NoWorker}] PROVE PortsInv'
  <2> HIDE DEF EmptyBag
  <2>1. QED
    BY <1>1, <1>2, <1>3 DEF PoolInv, PortsInv
<1>4. CASE ~shuttingDown /\ Current(w)
  <2>1. PICK i \in Indexes : reclaim(i)
    BY <1>4 DEF onWorkerExit, Current
  <2>2. BooksInv' /\ Promise!LoseWorker(i) /\ workers' \in [Indexes -> Workers \cup {NoWorker}]
    BY <1>1, <2>1, ReclaimLoses
  <2>3. QED
    BY <1>3, <1>4, <2>2 DEF PoolInv, Promise!Next
<1>5. CASE ~(~shuttingDown /\ Current(w))
  <2>1. UNCHANGED <<workers, query, shuttingDown>>
    BY <1>1, <1>5 DEF onWorkerExit
  <2>2. BooksInv' /\ PortsInv'
    BY <1>3, <2>1 DEF PoolInv, PortsInv, BooksInv
  <2>3. UNCHANGED Promise!calls
    BY <2>1 DEF Promise!calls, callOwner, callResult, indexOf
  <2>4. QED
    BY <2>1, <2>2, <2>3 DEF PoolInv
<1>6. QED
  BY <1>4, <1>5

LEMMA MessageKeeps ==
    ASSUME PoolInv, NEW w \in Workers, onMessage(w)
    PROVE  PoolInv' /\ (Promise!Next \/ UNCHANGED Promise!calls)
<1> DEFINE m == Head(outbox[w])
           answered == SettledAs(m.req, m.out, m.ver)
<1>1. /\ outbox[w] # <<>> /\ outbox' = [outbox EXCEPT ![w] = Tail(@)]
      /\ UNCHANGED <<workers, shuttingDown, inbox, jobs, executing>>
  BY DEF onMessage, storeVars
<1>2. GoodAnswer(m) /\ GoodOut(Tail(outbox[w]))
  BY <1>1, HeadAnswer DEF PoolInv, PortsInv
<1>3. PortsInv'
  BY <1>1, <1>2 DEF PoolInv, PortsInv
<1>4. CASE query' = query
  <2>1. BooksInv'
    BY <1>1, <1>4 DEF PoolInv, BooksInv
  <2>2. UNCHANGED Promise!calls
    BY <1>4 DEF Promise!calls, callOwner, callResult, indexOf
  <2>3. QED
    BY <1>3, <2>1, <2>2 DEF PoolInv
<1>5. CASE query' # query
  <2>1. /\ m.type = "query-result" /\ Pending(m.req)
        /\ query' = [query EXCEPT ![m.req] = answered]
    BY <1>5 DEF onMessage, UnknownRequest
  <2>2. m.req \in Requests /\ m.out \in {"ok", "error"}
    BY <1>2, <2>1 DEF GoodAnswer
  <2>3. Record(answered) /\ answered.at = "settled" /\ answered.src = query[m.req].src
        /\ ~answered.armed /\ answered.out = m.out
    BY <2>2, Settling DEF PoolInv, BooksInv
  <2> DEFINE c == m.req
             out == m.out
  <2>4. query' = [r \in Requests |-> IF r = c THEN answered ELSE query[r]]
    BY <2>1 DEF PoolInv, BooksInv
  <2> HIDE DEF answered, m
  <2>5. BooksInv'
    BY <1>1, <2>2, <2>3, <2>4 DEF PoolInv, BooksInv, Phases, Outs
  <2>6. callOwner' = callOwner
    BY <2>3, <2>4 DEF callOwner, indexOf
  <2>7. callResult' = [callResult EXCEPT ![c] = out] /\ callResult[c] = "pending"
    BY <2>1, <2>2, <2>3, <2>4 DEF callResult, Pending
  <2>8. Promise!Answer(c)
    BY <2>2, <2>6, <2>7 DEF Promise!Answer
  <2>9. QED
    BY <1>3, <2>2, <2>5, <2>8 DEF PoolInv, Promise!Next
<1>6. QED
  BY <1>4, <1>5

-----------------------------------------------------------------------------
(* The workers.                                                            *)
LEMMA Quiet ==
    ASSUME UNCHANGED query
    PROVE  UNCHANGED Promise!calls
  BY DEF Promise!calls, callOwner, callResult, indexOf

LEMMA WorkerMoves ==
    ASSUME PoolInv, NEW w \in Workers, UNCHANGED <<workers, query, shuttingDown>>,
           inbox' = inbox \/ (Consume(w) /\ inbox[w] # <<>>),
           outbox' = outbox \/ (\E m : GoodAnswer(m) /\ Reply(w, m)),
           jobs' = jobs \/ (\E b : /\ jobs' = [jobs EXCEPT ![w] = b]
                                 /\ \A j \in DOMAIN b : j.req \in Requests \cup {NoRequest}),
           executing' = executing \/ (\E X : /\ executing' = [executing EXCEPT ![w] = X]
                                           /\ \A e \in X : e.req \in Requests)
    PROVE  PoolInv' /\ UNCHANGED Promise!calls
<1>1. inbox' = [x \in Workers |-> inbox'[x]] /\ \A x \in Workers : GoodIn(inbox'[x])
  <2>1. inbox = [x \in Workers |-> inbox[x]] /\ \A x \in Workers : GoodIn(inbox[x])
    BY DEF PoolInv, PortsInv
  <2>2. CASE inbox' = inbox
    BY <2>1, <2>2
  <2>3. CASE Consume(w) /\ inbox[w] # <<>>
    <3>1. GoodIn(Tail(inbox[w])) /\ inbox' = [inbox EXCEPT ![w] = Tail(inbox[w])]
      BY <2>1, <2>3, HeadAsk DEF Consume
    <3> DEFINE rest == Tail(inbox[w])
    <3> HIDE DEF rest
    <3>2. QED
      BY <2>1, <3>1 DEF rest
  <2>4. QED
    BY <2>2, <2>3
<1>2. outbox' = [x \in Workers |-> outbox'[x]] /\ \A x \in Workers : GoodOut(outbox'[x])
  <2>1. outbox = [x \in Workers |-> outbox[x]] /\ \A x \in Workers : GoodOut(outbox[x])
    BY DEF PoolInv, PortsInv
  <2>2. CASE outbox' = outbox
    BY <2>1, <2>2
  <2>3. ASSUME NEW m, GoodAnswer(m), Reply(w, m)
        PROVE  <1>2!1 /\ <1>2!2
    <3>1. GoodOut(Append(outbox[w], m)) /\ outbox' = [outbox EXCEPT ![w] = Append(outbox[w], m)]
      BY <2>1, <2>3, AppendAnswer DEF Reply
    <3> DEFINE more == Append(outbox[w], m)
    <3> HIDE DEF more
    <3>2. QED
      BY <2>1, <3>1 DEF more
  <2>4. QED
    BY <2>2, <2>3
<1>3. jobs' = [x \in Workers |-> jobs'[x]]
      /\ \A x \in Workers : \A j \in DOMAIN jobs'[x] : j.req \in Requests \cup {NoRequest}
  BY DEF PoolInv, PortsInv
<1>4. executing' = [x \in Workers |-> executing'[x]]
      /\ \A x \in Workers : \A e \in executing'[x] : e.req \in Requests
  BY DEF PoolInv, PortsInv
<1>5. PortsInv' /\ BooksInv'
  BY <1>1, <1>2, <1>3, <1>4 DEF PoolInv, PortsInv, BooksInv
<1>6. QED
  BY <1>5, Quiet DEF PoolInv

LEMMA StartsAsked ==
    ASSUME PoolInv, NEW w \in Workers, NEW s, NEW r \in Requests \cup {NoRequest}, Starts(w, s, r)
    PROVE  \E b : /\ jobs' = [jobs EXCEPT ![w] = b]
                  /\ \A j \in DOMAIN b : j.req \in Requests \cup {NoRequest}
<1> DEFINE n == [src |-> s, req |-> r, from |-> files[s]]
           b == jobs[w] (+) SetToBag({n})
<1>1. jobs' = [jobs EXCEPT ![w] = b]
  BY DEF Starts
<1>2. DOMAIN b = DOMAIN jobs[w] \cup {n} /\ n.req = r
  BY DEF (+), SetToBag
<1>3. QED
  <2> HIDE DEF b, n
  <2>1. QED
    BY <1>1, <1>2 DEF PoolInv, PortsInv

LEMMA FinishesAsked ==
    ASSUME PoolInv, NEW w \in Workers, NEW k, Finishes(w, k)
    PROVE  /\ k.req \in Requests \cup {NoRequest}
           /\ \E b : /\ jobs' = [jobs EXCEPT ![w] = b]
                     /\ \A j \in DOMAIN b : j.req \in Requests \cup {NoRequest}
<1> DEFINE b == jobs[w] (-) SetToBag({k})
<1>1. jobs' = [jobs EXCEPT ![w] = b] /\ k \in DOMAIN jobs[w]
  BY DEF Finishes, BagToSet
<1>2. DOMAIN b \subseteq DOMAIN jobs[w]
  BY DEF (-), SetToBag
<1>3. QED
  <2> HIDE DEF b
  <2>1. QED
    BY <1>1, <1>2 DEF PoolInv, PortsInv

LEMMA RunAsked ==
    ASSUME PoolInv, NEW w \in Workers, NEW r \in Requests, NEW s, NEW v, Run(w, r, s, v)
    PROVE  \E X : /\ executing' = [executing EXCEPT ![w] = X]
                  /\ \A e \in X : e.req \in Requests
<1> DEFINE n == [req |-> r, src |-> s, ver |-> v]
           X == executing[w] \cup {n}
<1>1. executing' = [executing EXCEPT ![w] = X]
  BY DEF Run
<1>2. n.req = r /\ \A e \in executing[w] : e.req \in Requests
  BY DEF PoolInv, PortsInv
<1>3. \A e \in X : e.req \in Requests
  <2> HIDE DEF n
  <2>1. QED
    BY <1>2
<1>4. QED
  <2> HIDE DEF X
  <2>1. QED
    BY <1>1, <1>3

LEMMA Answers ==
    ASSUME NEW r \in Requests, NEW out \in {"ok", "error"}, NEW v, NEW s, NEW ok
    PROVE  GoodAnswer(ResultMsg(r, out, v)) /\ GoodAnswer(LoadReply(s, ok))
  BY DEF GoodAnswer, ResultMsg, LoadReply

LEMMA HandlesKeep ==
    ASSUME PoolInv, NEW w \in Workers, Handles(w)
    PROVE  PoolInv' /\ UNCHANGED <<query, workers>>
<1> DEFINE m == Head(inbox[w])
<1>1. UNCHANGED <<workers, query, shuttingDown>> /\ Consume(w) /\ inbox[w] # <<>>
  BY DEF Handles, handleLoad, handleQuery, handleCancel, handleInvalidate, Receives, mainVars
<1>2. CASE handleLoad(w)
  <2>1. UNCHANGED executing
    BY <1>2 DEF handleLoad
  <2>2. outbox' = outbox \/ \E a : GoodAnswer(a) /\ Reply(w, a)
    BY <1>2 DEF handleLoad, GoodAnswer, LoadReply
  <2>3. jobs' = jobs \/ \E s : Starts(w, s, NoRequest)
    BY <1>2 DEF handleLoad
  <2>4. QED
    BY <1>1, <2>1, <2>2, <2>3, StartsAsked, WorkerMoves
<1>3. CASE handleQuery(w)
  <2>1. m.req \in Requests
    BY <1>1, <1>3, HeadAsk DEF handleQuery, Receives, GoodAsk, PoolInv, PortsInv
  <2>2. outbox' = outbox \/ \E a : GoodAnswer(a) /\ Reply(w, a)
    BY <1>3, <2>1 DEF handleQuery, GoodAnswer, ResultMsg
  <2>3. jobs' = jobs \/ Starts(w, query[m.req].src, m.req)
    BY <1>3 DEF handleQuery
  <2>4. executing' = executing \/ \E X : /\ executing' = [executing EXCEPT ![w] = X]
                                        /\ \A e \in X : e.req \in Requests
    <3>1. executing' = executing \/ \E s, v : Run(w, m.req, s, v)
      BY <1>3 DEF handleQuery
    <3>2. ASSUME NEW s, NEW v, Run(w, m.req, s, v)
          PROVE  \E X : /\ executing' = [executing EXCEPT ![w] = X]
                        /\ \A e \in X : e.req \in Requests
      <4> DEFINE n == [req |-> m.req, src |-> s, ver |-> v]
                 X == executing[w] \cup {n}
      <4>1. executing' = [executing EXCEPT ![w] = X]
        BY <3>2 DEF Run
      <4>2. n.req \in Requests
        BY <2>1
      <4> HIDE DEF n
      <4>3. \A e \in X : e.req \in Requests
        BY <4>2 DEF PoolInv, PortsInv
      <4>4. QED
        BY <4>1, <4>3
    <3>3. QED
      BY <3>1, <3>2
  <2>5. QED
    BY <1>1, <2>1, <2>2, <2>3, <2>4, StartsAsked, WorkerMoves
<1>4. CASE handleCancel(w) \/ handleInvalidate(w)
  <2>1. UNCHANGED <<outbox, jobs, executing>>
    BY <1>4 DEF handleCancel, handleInvalidate, storeVars
  <2>2. QED
    BY <1>1, <2>1, WorkerMoves
<1>5. QED
  BY <1>2, <1>3, <1>4 DEF Handles

LEMMA BuildEndsKeeps ==
    ASSUME PoolInv, NEW w \in Workers, NEW r, BuildEnds(w, r)
    PROVE  PoolInv' /\ UNCHANGED <<query, workers>>
<1>1. PICK j : Built(w, j) \/ BuildFails(w, j)
  BY DEF BuildEnds
<1>2. /\ j.req \in Requests \cup {NoRequest}
      /\ \E b : /\ jobs' = [jobs EXCEPT ![w] = b]
                /\ \A k \in DOMAIN b : k.req \in Requests \cup {NoRequest}
  BY <1>1, FinishesAsked DEF Built, BuildFails
<1>3. UNCHANGED <<workers, query, shuttingDown, inbox>>
  BY <1>1 DEF Built, BuildFails, mainVars
<1>4. outbox' = outbox \/ \E a : GoodAnswer(a) /\ Reply(w, a)
  BY <1>1, <1>2 DEF Built, BuildFails, GoodAnswer, LoadReply, ResultMsg
<1>5. executing' = executing \/ \E X : /\ executing' = [executing EXCEPT ![w] = X]
                                      /\ \A e \in X : e.req \in Requests
  <2>1. executing' = executing \/ (j.req # NoRequest /\ \E v : Run(w, j.req, j.src, v))
    BY <1>1 DEF Built, BuildFails
  <2>2. QED
    BY <1>2, <2>1, RunAsked
<1>6. QED
  BY <1>2, <1>3, <1>4, <1>5, WorkerMoves

LEMMA RunEndsKeeps ==
    ASSUME PoolInv, NEW w \in Workers, NEW r, RunEnds(w, r)
    PROVE  PoolInv' /\ UNCHANGED <<query, workers>>
<1>1. PICK e \in executing[w], out \in {"ok", "error"} : QueryEnds(w, e, out)
  BY DEF RunEnds
<1>2. GoodAnswer(ResultMsg(e.req, out, e.ver)) /\ Reply(w, ResultMsg(e.req, out, e.ver))
  BY <1>1, Answers DEF QueryEnds, PoolInv, PortsInv
<1>3. \E X : /\ executing' = [executing EXCEPT ![w] = X]
             /\ \A x \in X : x.req \in Requests
  <2> DEFINE X == executing[w] \ {e}
  <2>1. executing' = [executing EXCEPT ![w] = X] /\ \A x \in X : x.req \in Requests
    BY <1>1 DEF QueryEnds, PoolInv, PortsInv
  <2>2. QED
    <3> HIDE DEF X
    <3>1. QED
      BY <2>1
<1>4. UNCHANGED <<workers, query, shuttingDown, inbox, jobs>>
  BY <1>1 DEF QueryEnds, mainVars
<1>5. QED
  BY <1>2, <1>3, <1>4, WorkerMoves

-----------------------------------------------------------------------------
(* What a step may do to the books, to the promise and after a shutdown.   *)
Good == PoolInv' /\ [Promise!Next]_Promise!calls /\ (shuttingDown => workers' = workers)

LEMMA StepKeeps ==
    ASSUME PoolInv, [PoolNext]_poolVars
    PROVE  Good
<1>1. ASSUME PoolInv', UNCHANGED <<query, workers>>
      PROVE  Good
  BY <1>1, Quiet DEF Good
<1>2. CASE CallerStep
  <2>1. ~shuttingDown
    BY <1>2 DEF CallerStep
  <2>2. CASE \E s \in Sources : ensureLoaded(s) \/ invalidate(s)
    BY <2>1, <2>2, LoadOrInvalidate, Quiet DEF Good
  <2>3. ASSUME NEW s \in Sources, NEW r \in Requests, NEW aborted \in BOOLEAN, Query(r, s, aborted)
        PROVE  Good
    <3>1. Assign[s] \in Indexes
      BY AssignAssumption
    <3>2. QED
      BY <2>1, <2>3, <3>1, QueryKeeps DEF Promise!Next, Good
  <2>4. CASE (\E r \in Requests : onCancel(r)) \/ shutdown
    BY <2>1, <2>4, CancelKeeps, ShutdownKeeps DEF Good
  <2>5. QED
    BY <1>2, <2>2, <2>3, <2>4 DEF CallerStep
<1>3. CASE LoopStep
  <2>1. ASSUME NEW w \in Workers, onMessage(w) PROVE workers' = workers
    BY <2>1 DEF onMessage
  <2>2. QED
    BY <1>3, <2>1, GraceKeeps, MessageKeeps, ExitKeeps DEF LoopStep, Good
<1>4. ASSUME NEW w \in Workers, WorkerStep(w) \/ GetsStuck(w) \/ Dies(w)
      PROVE  Good
  <2>1. CASE WorkerStep(w)
    BY <1>1, <2>1, HandlesKeep, BuildEndsKeeps, RunEndsKeeps DEF WorkerStep
  <2>2. CASE GetsStuck(w) \/ Dies(w)
    BY <1>1, <2>2 DEF GetsStuck, Dies, mainVars, portVars, storeVars, PoolInv, PortsInv, BooksInv
  <2>3. QED
    BY <1>4, <2>1, <2>2
<1>5. CASE UNCHANGED poolVars \/ \E s \in Sources : Edit(s)
  <2>1. UNCHANGED <<workers, query, shuttingDown, inbox, outbox, jobs, executing>>
    BY <1>5 DEF Edit, poolVars, mainVars, portVars, storeVars
  <2>2. PoolInv'
    BY <2>1 DEF PoolInv, PortsInv, BooksInv
  <2>3. QED
    BY <1>1, <2>1, <2>2
<1>6. QED
  BY <1>2, <1>3, <1>4, <1>5 DEF PoolNext

(* The messages between pool and workers are about requests of the pool,   *)
(* every query is booked, and no timer is armed once the pool is shut down. *)
THEOREM PoolInvariant == PoolSpec => []PoolInv
<1>1. PoolInit => PoolInv
  BY InitGood DEF PoolInit
<1>2. PoolInv /\ [PoolNext]_poolVars => PoolInv'
  BY StepKeeps DEF Good
<1>3. QED
  BY <1>1, <1>2, PTL DEF PoolSpec

(* The pool implements PendingCalls: a query settles once and for good, and *)
(* the loss of a worker (its crash, or the grace timer of one cancelled    *)
(* query) fails the queries of its own index and no other.                 *)
THEOREM PoolKeepsPromise == PoolSpec => CallsRefined
<1>1. PoolInit => Promise!Init
  <2>1. ASSUME PoolInit PROVE callOwner = [c \in Requests |-> NoSource] /\ callResult = [c \in Requests |-> "new"]
    BY <2>1 DEF PoolInit, PoolStart, NewQuery, callOwner, callResult
  <2>2. QED
    BY <2>1 DEF Promise!Init
<1>2. PoolInv /\ [PoolNext]_poolVars => [Promise!Next]_Promise!calls
  BY StepKeeps DEF Good
<1>3. QED
  BY <1>1, <1>2, PoolInvariant, PTL DEF PoolSpec, CallsRefined, Promise!Spec

(* shutdown() is final: the exits of the workers it terminates and the     *)
(* timers of cancelled queries start no worker that would outlive it.      *)
THEOREM ShutdownIsFinal == PoolSpec => NoRespawn
<1>1. PoolInv /\ [PoolNext]_poolVars => [shuttingDown => workers' = workers]_poolVars
  BY StepKeeps DEF Good
<1>2. QED
  BY <1>1, PoolInvariant, PTL DEF PoolSpec, NoRespawn

-----------------------------------------------------------------------------
(***************************************************************************)
(* The books of pool and workers agree.  Two inductive invariants, both on *)
(* top of PoolInv:                                                         *)
(*  - CallsInv: an index with a pending call has a worker of its own, and  *)
(*    that worker carries the call (in its inbox, as a build, as a running *)
(*    query, in its outbox) or is dead, with its exit still to come;       *)
(*  - OnceInv: a request is in one place of a worker at most, so that the  *)
(*    pins, counted up and down one at a time, are a cardinality.          *)
(***************************************************************************)
(* What is under way in a port: the messages MessageFor looks for.         *)
IsFor(m, type, what) ==
    /\ m.type = type
    /\ IF type \in {"query", "query-result"} THEN m.req = what ELSE m.src = what

LEMMA ForAt ==
    ASSUME NEW S, NEW q \in Seq(S), NEW type, NEW what
    PROVE  MessageFor(q, type, what) <=> \E i \in 1 .. Len(q) : IsFor(q[i], type, what)
<1>1. ToSet(q) = {q[i] : i \in 1 .. Len(q)}
  BY DEF ToSet
<1>2. QED
  BY <1>1 DEF MessageFor, IsFor

LEMMA ForConcat ==
    ASSUME NEW S, NEW p \in Seq(S), NEW q \in Seq(S), NEW type, NEW what
    PROVE  MessageFor(p \o q, type, what)
             <=> MessageFor(p, type, what) \/ MessageFor(q, type, what)
<1>1. p \o q \in Seq(S) /\ Len(p) \in Nat /\ Len(q) \in Nat /\ Len(p \o q) = Len(p) + Len(q)
  OBVIOUS
<1>2. ASSUME NEW i \in 1 .. Len(p \o q)
      PROVE  \/ i \in 1 .. Len(p) /\ (p \o q)[i] = p[i]
             \/ i - Len(p) \in 1 .. Len(q) /\ (p \o q)[i] = q[i - Len(p)]
  OBVIOUS
<1>3. ASSUME NEW i \in 1 .. Len(p) PROVE i \in 1 .. Len(p \o q) /\ (p \o q)[i] = p[i]
  OBVIOUS
<1>4. ASSUME NEW i \in 1 .. Len(q)
      PROVE  Len(p) + i \in 1 .. Len(p \o q) /\ (p \o q)[Len(p) + i] = q[i]
  OBVIOUS
<1>5. MessageFor(p \o q, type, what) <=> \E i \in 1 .. Len(p \o q) : IsFor((p \o q)[i], type, what)
  BY <1>1, ForAt
<1>6. /\ MessageFor(p, type, what) <=> \E i \in 1 .. Len(p) : IsFor(p[i], type, what)
      /\ MessageFor(q, type, what) <=> \E i \in 1 .. Len(q) : IsFor(q[i], type, what)
  BY ForAt
<1>7. QED
  BY <1>2, <1>3, <1>4, <1>5, <1>6

LEMMA ForHead ==
    ASSUME NEW S, NEW q \in Seq(S), q # <<>>, NEW type, NEW what
    PROVE  MessageFor(q, type, what)
             <=> IsFor(Head(q), type, what) \/ MessageFor(Tail(q), type, what)
<1>1. /\ Tail(q) \in Seq(S) /\ 1 \in 1 .. Len(q) /\ Head(q) = q[1]
      /\ \A i \in 1 .. Len(Tail(q)) : i + 1 \in 1 .. Len(q) /\ Tail(q)[i] = q[i + 1]
  OBVIOUS
<1>2. \A i \in 1 .. Len(q) : i = 1 \/ (i - 1 \in 1 .. Len(Tail(q)) /\ Tail(q)[i - 1] = q[i])
  OBVIOUS
<1>3. MessageFor(q, type, what) <=> \E i \in 1 .. Len(q) : IsFor(q[i], type, what)
  BY ForAt
<1>4. MessageFor(Tail(q), type, what) <=> \E i \in 1 .. Len(Tail(q)) : IsFor(Tail(q)[i], type, what)
  BY <1>1, ForAt
<1>5. QED
  BY <1>1, <1>2, <1>3, <1>4

LEMMA ForOne ==
    ASSUME NEW m, NEW type, NEW what
    PROVE  /\ ~MessageFor(<<>>, type, what)
           /\ MessageFor(<<m>>, type, what) <=> IsFor(m, type, what)
<1>1. ToSet(<<>>) = {} /\ ToSet(<<m>>) = {m}
  BY DEF ToSet
<1>2. QED
  BY <1>1 DEF MessageFor, IsFor

LEMMA ForTwo ==
    ASSUME NEW m, NEW n, NEW type, NEW what
    PROVE  MessageFor(<<m, n>>, type, what) <=> IsFor(m, type, what) \/ IsFor(n, type, what)
<1>1. ToSet(<<m, n>>) = {m, n}
  BY DEF ToSet
<1>2. QED
  BY <1>1 DEF MessageFor, IsFor

(* At most one query message of each request.                              *)
OneAsk(q) ==
    \A i, k \in 1 .. Len(q) :
       q[i].type = "query" /\ q[k].type = "query" /\ q[i].req = q[k].req => i = k

LEMMA OneAskTail ==
    ASSUME NEW S, NEW q \in Seq(S), q # <<>>, OneAsk(q), NEW r
    PROVE  /\ OneAsk(Tail(q))
           /\ IsFor(Head(q), "query", r) => ~MessageFor(Tail(q), "query", r)
<1>1. /\ Tail(q) \in Seq(S) /\ 1 \in 1 .. Len(q) /\ Head(q) = q[1]
      /\ \A i \in 1 .. Len(Tail(q)) : i \in Nat \ {0} /\ i + 1 \in 1 .. Len(q) /\ Tail(q)[i] = q[i + 1]
  OBVIOUS
<1>2. OneAsk(Tail(q))
  <2>1. ASSUME NEW i \in 1 .. Len(Tail(q)), NEW k \in 1 .. Len(Tail(q)), i + 1 = k + 1 PROVE i = k
    BY <2>1
  <2>2. QED
    BY <1>1, <2>1 DEF OneAsk
<1>3. ASSUME IsFor(Head(q), "query", r), MessageFor(Tail(q), "query", r) PROVE FALSE
  <2>1. PICK i \in 1 .. Len(Tail(q)) : IsFor(Tail(q)[i], "query", r)
    BY <1>1, <1>3, ForAt
  <2>2. 1 = i + 1
    BY <1>1, <1>3, <2>1 DEF OneAsk, IsFor
  <2>3. QED
    BY <1>1, <2>2
<1>4. QED
  BY <1>2, <1>3

LEMMA OneAskConcat ==
    ASSUME NEW S, NEW p \in Seq(S), NEW q \in Seq(S), OneAsk(p), OneAsk(q),
           \A r : ~(MessageFor(p, "query", r) /\ MessageFor(q, "query", r))
    PROVE  OneAsk(p \o q)
<1>1. Len(p) \in Nat /\ Len(q) \in Nat /\ Len(p \o q) = Len(p) + Len(q)
  OBVIOUS
<1>2. ASSUME NEW i \in 1 .. Len(p \o q)
      PROVE  \/ i \in 1 .. Len(p) /\ (p \o q)[i] = p[i]
             \/ i - Len(p) \in 1 .. Len(q) /\ (p \o q)[i] = q[i - Len(p)]
  OBVIOUS
<1>3. ASSUME NEW i \in 1 .. Len(p), NEW k \in 1 .. Len(q),
             p[i].type = "query", q[k].type = "query", p[i].req = q[k].req
      PROVE  FALSE
  <2>1. IsFor(p[i], "query", p[i].req) /\ IsFor(q[k], "query", p[i].req)
    BY <1>3 DEF IsFor
  <2>2. QED
    BY <2>1, ForAt
<1>4. ASSUME NEW i \in 1 .. Len(p \o q), NEW k \in 1 .. Len(p \o q),
             (p \o q)[i].type = "query", (p \o q)[k].type = "query", (p \o q)[i].req = (p \o q)[k].req
      PROVE  i = k
  <2>1. CASE i \in 1 .. Len(p) /\ (p \o q)[i] = p[i] /\ k \in 1 .. Len(p) /\ (p \o q)[k] = p[k]
    BY <1>4, <2>1 DEF OneAsk
  <2>2. CASE /\ i - Len(p) \in 1 .. Len(q) /\ (p \o q)[i] = q[i - Len(p)]
             /\ k - Len(p) \in 1 .. Len(q) /\ (p \o q)[k] = q[k - Len(p)]
    <3>1. i - Len(p) = k - Len(p)
      BY <1>4, <2>2 DEF OneAsk
    <3>2. QED
      BY <1>1, <3>1
  <2>3. QED
    BY <1>2, <1>3, <1>4, <2>1, <2>2
<1>5. QED
  BY <1>4 DEF OneAsk

-----------------------------------------------------------------------------
(* The bag of a worker's builds: one more, one less.                       *)
LEMMA OneMore ==
    ASSUME NEW b, IsABag(b), NEW x
    PROVE  LET c == b (+) SetToBag({x}) IN
           /\ IsABag(c) /\ DOMAIN c = DOMAIN b \cup {x}
           /\ \A y \in DOMAIN b : y # x => c[y] = b[y]
           /\ x \notin DOMAIN b => c[x] = 1
  BY DEF IsABag, (+), SetToBag

LEMMA OneLess ==
    ASSUME NEW b, IsABag(b), NEW x \in DOMAIN b
    PROVE  LET c == b (-) SetToBag({x}) IN
           /\ IsABag(c)
           /\ DOMAIN c = IF b[x] = 1 THEN DOMAIN b \ {x} ELSE DOMAIN b
           /\ \A y \in DOMAIN b : y # x => c[y] = b[y]
  BY DEF IsABag, (-), SetToBag

-----------------------------------------------------------------------------
(* An index has a worker of its own, which is not free, as long as a query *)
(* or a load waits for it.                                                 *)
Wired ==
    /\ thread = [w \in Workers |-> thread[w]]
    /\ \A w \in Workers : IsABag(jobs[w])
    /\ loads \subseteq Sources
    /\ ~shuttingDown =>
         /\ \A i, k \in Indexes : workers[i] = workers[k] /\ workers[i] # NoWorker => i = k
         /\ \A i \in Indexes : workers[i] # NoWorker => thread[workers[i]] # "free"
         /\ \A r \in Requests : Pending(r) => workers[indexOf(r)] # NoWorker
         /\ \A s \in loads : workers[Assign[s]] # NoWorker

LEMMA Consumes ==
    ASSUME PoolInv, NEW w \in Workers, Consume(w), inbox[w] # <<>>
    PROVE  \A x \in Workers : \A type, what :
              MessageFor(inbox[x], type, what) =>
                 \/ MessageFor(inbox'[x], type, what)
                 \/ x = w /\ IsFor(Head(inbox[w]), type, what)
<1>1. inbox' = [inbox EXCEPT ![w] = Tail(inbox[w])] /\ inbox = [x \in Workers |-> inbox[x]]
  BY DEF Consume, PoolInv, PortsInv
<1>2. PICK S : inbox[w] \in Seq(S)
  BY DEF PoolInv, PortsInv, GoodIn
<1>3. \A type, what : MessageFor(inbox[w], type, what)
         => IsFor(Head(inbox[w]), type, what) \/ MessageFor(Tail(inbox[w]), type, what)
  BY <1>2, ForHead
<1> DEFINE rest == Tail(inbox[w])
<1> HIDE DEF rest
<1>4. QED
  BY <1>1, <1>3 DEF rest

LEMMA Replies ==
    ASSUME PoolInv, NEW w \in Workers, NEW m, Reply(w, m)
    PROVE  \A x \in Workers : \A type, what : MessageFor(outbox'[x], type, what)
              <=> MessageFor(outbox[x], type, what) \/ (x = w /\ IsFor(m, type, what))
<1>1. outbox' = [outbox EXCEPT ![w] = Append(outbox[w], m)] /\ outbox = [x \in Workers |-> outbox[x]]
  BY DEF Reply, PoolInv, PortsInv
<1>2. PICK S : outbox[w] \in Seq(S)
  BY DEF PoolInv, PortsInv, GoodOut
<1>3. /\ outbox[w] \in Seq(S \cup {m}) /\ <<m>> \in Seq(S \cup {m})
      /\ Append(outbox[w], m) = outbox[w] \o <<m>>
  <2>1. outbox[w] \in Seq(S \cup {m}) /\ m \in S \cup {m}
    BY <1>2, SeqMonotonic
  <2>2. QED
    BY <2>1
<1>4. \A type, what : MessageFor(Append(outbox[w], m), type, what)
         <=> MessageFor(outbox[w], type, what) \/ IsFor(m, type, what)
  <2> TAKE type, what
  <2>1. MessageFor(outbox[w] \o <<m>>, type, what)
          <=> MessageFor(outbox[w], type, what) \/ MessageFor(<<m>>, type, what)
    BY <1>3, ForConcat
  <2>2. QED
    BY <1>3, <2>1, ForOne
<1> DEFINE more == Append(outbox[w], m)
<1> HIDE DEF more
<1>5. QED
  BY <1>1, <1>4 DEF more

LEMMA StartsJob ==
    ASSUME PoolInv, \A x \in Workers : IsABag(jobs[x]), NEW w \in Workers, NEW s, NEW r, Starts(w, s, r)
    PROVE  /\ \A x \in Workers : IsABag(jobs'[x]) /\ DOMAIN jobs[x] \subseteq DOMAIN jobs'[x]
           /\ \E j \in DOMAIN jobs'[w] : j.src = s /\ j.req = r
<1> DEFINE n == [src |-> s, req |-> r, from |-> files[s]]
           b == jobs[w] (+) SetToBag({n})
<1>1. jobs' = [jobs EXCEPT ![w] = b] /\ jobs = [x \in Workers |-> jobs[x]]
  BY DEF Starts, PoolInv, PortsInv
<1>2. n.src = s /\ n.req = r
  OBVIOUS
<1> HIDE DEF n
<1>3. IsABag(jobs[w])
  OBVIOUS
<1>4. IsABag(b) /\ DOMAIN b = DOMAIN jobs[w] \cup {n}
  BY <1>3, OneMore
<1> HIDE DEF b
<1>5. QED
  BY <1>1, <1>2, <1>4

LEMMA FinishesJob ==
    ASSUME PoolInv, \A x \in Workers : IsABag(jobs[x]), NEW w \in Workers, NEW k, Finishes(w, k)
    PROVE  /\ k \in DOMAIN jobs[w]
           /\ \A x \in Workers : IsABag(jobs'[x]) /\ (x # w => jobs'[x] = jobs[x])
           /\ DOMAIN jobs[w] \ {k} \subseteq DOMAIN jobs'[w]
<1> DEFINE b == jobs[w] (-) SetToBag({k})
<1>1. jobs' = [jobs EXCEPT ![w] = b] /\ jobs = [x \in Workers |-> jobs[x]] /\ k \in DOMAIN jobs[w]
  BY DEF Finishes, BagToSet, PoolInv, PortsInv
<1>2. IsABag(b) /\ DOMAIN jobs[w] \ {k} \subseteq DOMAIN b
  BY <1>1, OneLess
<1> HIDE DEF b
<1>3. QED
  BY <1>1, <1>2

LEMMA StartsOnly ==
    ASSUME PoolInv, \A x \in Workers : IsABag(jobs[x]), NEW w \in Workers, NEW s, NEW r, Starts(w, s, r)
    PROVE  \A x \in Workers : \A j \in DOMAIN jobs'[x] : j \in DOMAIN jobs[x] \/ (x = w /\ j.src = s)
<1> DEFINE n == [src |-> s, req |-> r, from |-> files[s]]
           b == jobs[w] (+) SetToBag({n})
<1>1. jobs' = [jobs EXCEPT ![w] = b] /\ jobs = [x \in Workers |-> jobs[x]]
  BY DEF Starts, PoolInv, PortsInv
<1>2. n.src = s
  OBVIOUS
<1> HIDE DEF n
<1>3. IsABag(jobs[w])
  OBVIOUS
<1>4. DOMAIN b = DOMAIN jobs[w] \cup {n}
  BY <1>3, OneMore
<1> HIDE DEF b
<1>5. QED
  BY <1>1, <1>2, <1>4

LEMMA FinishesOnly ==
    ASSUME PoolInv, \A x \in Workers : IsABag(jobs[x]), NEW w \in Workers, NEW k, Finishes(w, k)
    PROVE  k \in DOMAIN jobs[w] /\ \A x \in Workers : DOMAIN jobs'[x] \subseteq DOMAIN jobs[x]
<1> DEFINE b == jobs[w] (-) SetToBag({k})
<1>1. jobs' = [jobs EXCEPT ![w] = b] /\ jobs = [x \in Workers |-> jobs[x]] /\ k \in DOMAIN jobs[w]
  BY DEF Finishes, BagToSet, PoolInv, PortsInv
<1>2. IsABag(jobs[w]) /\ k \in DOMAIN jobs[w]
  BY <1>1
<1>3. DOMAIN b \subseteq DOMAIN jobs[w]
  BY <1>2, OneLess
<1> HIDE DEF b
<1>4. QED
  BY <1>1, <1>3

(* A worker's step forgets no query and no load.                           *)
Carries ==
    \A x \in Workers :
       /\ IsABag(jobs'[x])
       /\ \A r \in Requests : HasQuery(x, r) => HasQuery(x, r)'
       /\ \A s \in Sources : HasLoad(x, s) => HasLoad(x, s)'

LEMMA LoadCarries ==
    ASSUME PoolInv, \A x \in Workers : IsABag(jobs[x]), NEW w \in Workers, handleLoad(w)
    PROVE  Carries
<1> DEFINE m == Head(inbox[w])
<1>1. m.type = "load" /\ Consume(w) /\ inbox[w] # <<>> /\ executing' = executing
  BY DEF handleLoad, Receives
<1>2. \A x \in Workers : \A type, what : MessageFor(inbox[x], type, what) =>
         MessageFor(inbox'[x], type, what) \/ (x = w /\ IsFor(m, type, what))
  BY <1>1, Consumes
<1>3. \A what : ~IsFor(m, "query", what) /\ (IsFor(m, "load", what) => what = m.src)
  BY <1>1 DEF IsFor
<1>4. \/ Reply(w, LoadReply(m.src, TRUE)) /\ jobs' = jobs
      \/ Starts(w, m.src, NoRequest) /\ outbox' = outbox
  BY DEF handleLoad
<1> HIDE DEF m
<1>5. CASE Reply(w, LoadReply(m.src, TRUE)) /\ jobs' = jobs
  <2> DEFINE n == LoadReply(m.src, TRUE)
  <2>1. IsFor(n, "load-reply", m.src) /\ Reply(w, n)
    BY <1>5 DEF IsFor, LoadReply
  <2> HIDE DEF n
  <2>2. /\ MessageFor(outbox'[w], "load-reply", m.src)
        /\ \A type, what : \A x \in Workers : MessageFor(outbox[x], type, what) => MessageFor(outbox'[x], type, what)
    BY <2>1, Replies
  <2>3. QED
    BY <1>1, <1>2, <1>3, <1>5, <2>2 DEF Carries, HasQuery, HasLoad
<1>6. CASE Starts(w, m.src, NoRequest) /\ outbox' = outbox
  <2>1. /\ \A x \in Workers : IsABag(jobs'[x]) /\ DOMAIN jobs[x] \subseteq DOMAIN jobs'[x]
        /\ \E j \in DOMAIN jobs'[w] : j.src = m.src /\ j.req = NoRequest
    BY <1>6, StartsJob
  <2>2. QED
    BY <1>1, <1>2, <1>3, <1>6, <2>1 DEF Carries, HasQuery, HasLoad, BagToSet
<1>7. QED
  BY <1>4, <1>5, <1>6

LEMMA QueryCarries ==
    ASSUME PoolInv, \A x \in Workers : IsABag(jobs[x]), NEW w \in Workers, handleQuery(w)
    PROVE  Carries
<1> DEFINE m == Head(inbox[w])
           c == m.req
<1>1. m.type = "query" /\ Consume(w) /\ inbox[w] # <<>>
  BY DEF handleQuery, Receives
<1>2. \A x \in Workers : \A type, what : MessageFor(inbox[x], type, what) =>
         MessageFor(inbox'[x], type, what) \/ (x = w /\ IsFor(m, type, what))
  BY <1>1, Consumes
<1>3. \A what : ~IsFor(m, "load", what) /\ (IsFor(m, "query", what) => what = c)
  BY <1>1 DEF IsFor
<1>4. \/ \E s, v : Run(w, c, s, v) /\ jobs' = jobs /\ outbox' = outbox
      \/ Reply(w, ResultMsg(c, "error", 0)) /\ jobs' = jobs /\ executing' = executing
      \/ \E s : Starts(w, s, c) /\ outbox' = outbox /\ executing' = executing
  BY DEF handleQuery
<1> HIDE DEF m
<1>5. ASSUME NEW s, NEW v, Run(w, c, s, v), jobs' = jobs, outbox' = outbox
      PROVE  Carries
  <2> DEFINE n == [req |-> c, src |-> s, ver |-> v]
  <2>1. executing' = [executing EXCEPT ![w] = @ \cup {n}] /\ executing = [x \in Workers |-> executing[x]]
    BY <1>5 DEF Run, PoolInv, PortsInv
  <2>2. n.req = c
    OBVIOUS
  <2> HIDE DEF n
  <2>3. \A x \in Workers : executing[x] \subseteq executing'[x]
    BY <2>1
  <2>4. n \in executing'[w]
    BY <2>1
  <2>5. QED
    BY <1>2, <1>3, <1>5, <2>2, <2>3, <2>4 DEF Carries, HasQuery, HasLoad
<1>6. CASE Reply(w, ResultMsg(c, "error", 0)) /\ jobs' = jobs /\ executing' = executing
  <2>1. IsFor(ResultMsg(c, "error", 0), "query-result", c)
    BY DEF IsFor, ResultMsg
  <2>2. /\ MessageFor(outbox'[w], "query-result", c)
        /\ \A type, what : \A x \in Workers : MessageFor(outbox[x], type, what) => MessageFor(outbox'[x], type, what)
    BY <1>6, <2>1, Replies
  <2>3. QED
    BY <1>2, <1>3, <1>6, <2>2 DEF Carries, HasQuery, HasLoad
<1>7. ASSUME NEW s, Starts(w, s, c), outbox' = outbox, executing' = executing
      PROVE  Carries
  <2>1. /\ \A x \in Workers : IsABag(jobs'[x]) /\ DOMAIN jobs[x] \subseteq DOMAIN jobs'[x]
        /\ \E j \in DOMAIN jobs'[w] : j.src = s /\ j.req = c
    BY <1>7, StartsJob
  <2>2. QED
    BY <1>2, <1>3, <1>7, <2>1 DEF Carries, HasQuery, HasLoad, BagToSet
<1>8. QED
  BY <1>4, <1>5, <1>6, <1>7

LEMMA OtherCarries ==
    ASSUME PoolInv, \A x \in Workers : IsABag(jobs[x]), NEW w \in Workers,
           handleCancel(w) \/ handleInvalidate(w)
    PROVE  Carries
<1>1. /\ Head(inbox[w]).type \in {"cancel", "invalidate"} /\ Consume(w) /\ inbox[w] # <<>>
      /\ UNCHANGED <<outbox, jobs, executing>>
  BY DEF handleCancel, handleInvalidate, Receives, storeVars
<1>2. \A what : ~IsFor(Head(inbox[w]), "query", what) /\ ~IsFor(Head(inbox[w]), "load", what)
  BY <1>1 DEF IsFor
<1>3. \A x \in Workers : \A type, what : MessageFor(inbox[x], type, what) =>
         MessageFor(inbox'[x], type, what) \/ (x = w /\ IsFor(Head(inbox[w]), type, what))
  BY <1>1, Consumes
<1>4. QED
  BY <1>1, <1>2, <1>3 DEF Carries, HasQuery, HasLoad

LEMMA BuildCarries ==
    ASSUME PoolInv, \A x \in Workers : IsABag(jobs[x]), NEW w \in Workers, NEW j,
           Built(w, j) \/ BuildFails(w, j)
    PROVE  Carries
<1>1. Finishes(w, j) /\ inbox' = inbox
  BY DEF Built, BuildFails
<1>2. /\ j \in DOMAIN jobs[w]
      /\ \A x \in Workers : IsABag(jobs'[x]) /\ (x # w => jobs'[x] = jobs[x])
      /\ DOMAIN jobs[w] \ {j} \subseteq DOMAIN jobs'[w]
  BY <1>1, FinishesJob
<1>3. \/ \E ok : j.req = NoRequest /\ Reply(w, LoadReply(j.src, ok)) /\ executing' = executing
      \/ \E v : j.req # NoRequest /\ Run(w, j.req, j.src, v) /\ outbox' = outbox
      \/ j.req # NoRequest /\ Reply(w, ResultMsg(j.req, "error", 0)) /\ executing' = executing
  BY DEF Built, BuildFails
<1>4. ASSUME NEW ok, j.req = NoRequest, Reply(w, LoadReply(j.src, ok)), executing' = executing
      PROVE  Carries
  <2>1. IsFor(LoadReply(j.src, ok), "load-reply", j.src)
    BY DEF IsFor, LoadReply
  <2>2. /\ MessageFor(outbox'[w], "load-reply", j.src)
        /\ \A type, what : \A x \in Workers : MessageFor(outbox[x], type, what) => MessageFor(outbox'[x], type, what)
    BY <1>4, <2>1, Replies
  <2>3. QED
    BY <1>1, <1>2, <1>4, <2>2, AbsentAssumption DEF Carries, HasQuery, HasLoad, BagToSet
<1>5. ASSUME NEW v, j.req # NoRequest, Run(w, j.req, j.src, v), outbox' = outbox
      PROVE  Carries
  <2> DEFINE n == [req |-> j.req, src |-> j.src, ver |-> v]
  <2>1. executing' = [executing EXCEPT ![w] = @ \cup {n}] /\ executing = [x \in Workers |-> executing[x]]
    BY <1>5 DEF Run, PoolInv, PortsInv
  <2>2. n.req = j.req
    OBVIOUS
  <2> HIDE DEF n
  <2>3. (\A x \in Workers : executing[x] \subseteq executing'[x]) /\ n \in executing'[w]
    BY <2>1
  <2>4. QED
    BY <1>1, <1>2, <1>5, <2>2, <2>3 DEF Carries, HasQuery, HasLoad, BagToSet
<1>6. CASE j.req # NoRequest /\ Reply(w, ResultMsg(j.req, "error", 0)) /\ executing' = executing
  <2>1. IsFor(ResultMsg(j.req, "error", 0), "query-result", j.req)
    BY DEF IsFor, ResultMsg
  <2>2. /\ MessageFor(outbox'[w], "query-result", j.req)
        /\ \A type, what : \A x \in Workers : MessageFor(outbox[x], type, what) => MessageFor(outbox'[x], type, what)
    BY <1>6, <2>1, Replies
  <2>3. QED
    BY <1>1, <1>2, <1>6, <2>2 DEF Carries, HasQuery, HasLoad, BagToSet
<1>7. QED
  BY <1>3, <1>4, <1>5, <1>6

LEMMA RunCarries ==
    ASSUME PoolInv, \A x \in Workers : IsABag(jobs[x]), NEW w \in Workers, NEW e, NEW out,
           QueryEnds(w, e, out)
    PROVE  Carries
<1>1. /\ executing' = [executing EXCEPT ![w] = @ \ {e}] /\ executing = [x \in Workers |-> executing[x]]
      /\ UNCHANGED <<inbox, jobs>> /\ Reply(w, ResultMsg(e.req, out, e.ver))
  BY DEF QueryEnds, PoolInv, PortsInv
<1>2. IsFor(ResultMsg(e.req, out, e.ver), "query-result", e.req)
  BY DEF IsFor, ResultMsg
<1>3. /\ MessageFor(outbox'[w], "query-result", e.req)
      /\ \A type, what : \A x \in Workers : MessageFor(outbox[x], type, what) => MessageFor(outbox'[x], type, what)
  BY <1>1, <1>2, Replies
<1>4. \A x \in Workers : (x # w => executing'[x] = executing[x]) /\ executing[x] \ {e} \subseteq executing'[x]
  BY <1>1
<1>5. QED
  BY <1>1, <1>3, <1>4 DEF Carries, HasQuery, HasLoad

-----------------------------------------------------------------------------
(* What one step leaves of the calls of an index: its worker goes on with  *)
(* them, or they are settled, or they have just been posted.               *)
CallsInv == Wired /\ NothingStranded

GoesOn(w) ==
    /\ thread[w] = "dead" => thread'[w] = "dead"
    /\ \A r \in Requests : HasQuery(w, r) => HasQuery(w, r)' \/ Pending(r)' = FALSE
    /\ \A s \in Sources : HasLoad(w, s) => HasLoad(w, s)' \/ s \notin loads'

LEMMA StillCarried ==
    ASSUME PoolInv, CallsInv, ~shuttingDown, NEW Kept \in SUBSET Indexes,
           \A i \in Kept : workers'[i] = workers[i],
           \A w \in Workers : (\E i \in Kept : w = workers[i]) => GoesOn(w),
           \A r \in Requests : query'[r].at = "pending" =>
              \/ Pending(r) /\ query'[r].src = query[r].src /\ indexOf(r) \in Kept
              \/ /\ workers'[Assign[query'[r].src]] \in Workers
                 /\ \A w \in Workers : w = workers'[Assign[query'[r].src]] => HasQuery(w, r)',
           \A s \in loads' :
              \/ s \in loads /\ Assign[s] \in Kept
              \/ /\ workers'[Assign[s]] \in Workers
                 /\ \A w \in Workers : w = workers'[Assign[s]] => HasLoad(w, s)'
    PROVE  /\ NothingStranded'
           /\ \A r \in Requests : Pending(r)' => workers'[indexOf(r)'] # NoWorker
           /\ \A s \in loads' : workers'[Assign[s]] # NoWorker
<1>1. ASSUME NEW r \in Requests, query'[r].at = "pending"
      PROVE  /\ workers'[Assign[query'[r].src]] \in Workers
             /\ \A w \in Workers : w = workers'[Assign[query'[r].src]] =>
                   thread'[w] = "dead" \/ HasQuery(w, r)'
  <2>1. CASE Pending(r) /\ query'[r].src = query[r].src /\ indexOf(r) \in Kept
    <3> DEFINE i == indexOf(r)
    <3>1. i \in Indexes /\ workers[i] \in Workers /\ workers'[i] = workers[i] /\ i = Assign[query'[r].src]
      BY <2>1 DEF CallsInv, Wired, PoolInv, PortsInv, indexOf
    <3>2. thread[workers[i]] = "dead" \/ HasQuery(workers[i], r)
      BY <2>1 DEF CallsInv, NothingStranded
    <3> HIDE DEF i
    <3>3. ASSUME NEW w \in Workers, w = workers[i] PROVE thread'[w] = "dead" \/ HasQuery(w, r)'
      <4>1. GoesOn(w) /\ (thread[w] = "dead" \/ HasQuery(w, r))
        BY <2>1, <3>2, <3>3 DEF i
      <4>2. Pending(r)'
        BY <1>1 DEF Pending
      <4>3. QED
        BY <4>1, <4>2 DEF GoesOn
    <3>4. QED
      BY <3>1, <3>3
  <2>2. QED
    BY <1>1, <2>1
<1>2. ASSUME NEW s \in loads'
      PROVE  /\ workers'[Assign[s]] \in Workers
             /\ \A w \in Workers : w = workers'[Assign[s]] => thread'[w] = "dead" \/ HasLoad(w, s)'
  <2>1. CASE s \in loads /\ Assign[s] \in Kept
    <3> DEFINE i == Assign[s]
    <3>1. i \in Indexes /\ s \in Sources /\ workers[i] \in Workers /\ workers'[i] = workers[i]
      BY <2>1 DEF CallsInv, Wired, PoolInv, PortsInv
    <3>2. thread[workers[i]] = "dead" \/ HasLoad(workers[i], s)
      BY <2>1 DEF CallsInv, NothingStranded
    <3> HIDE DEF i
    <3>3. ASSUME NEW w \in Workers, w = workers[i] PROVE thread'[w] = "dead" \/ HasLoad(w, s)'
      <4>1. GoesOn(w) /\ (thread[w] = "dead" \/ HasLoad(w, s))
        BY <2>1, <3>2, <3>3 DEF i
      <4>2. QED
        BY <1>2, <3>1, <4>1 DEF GoesOn
    <3>4. QED
      BY <3>1, <3>3 DEF i
  <2>2. QED
    BY <1>2, <2>1
<1>3. \A r \in Requests : Pending(r)' => workers'[indexOf(r)'] # NoWorker
  BY <1>1, AbsentAssumption DEF Pending, indexOf
<1>4. \A s \in loads' : workers'[Assign[s]] # NoWorker
  BY <1>2, AbsentAssumption
<1>5. NothingStranded'
  <2>1. ASSUME NEW r \in Requests, Pending(r)'
        PROVE  (thread[workers[indexOf(r)]] = "dead" \/ HasQuery(workers[indexOf(r)], r))'
    <3>1. query'[r].at = "pending" /\ indexOf(r)' = Assign[query'[r].src]
      BY <2>1 DEF Pending, indexOf
    <3>2. QED
      BY <1>1, <3>1 DEF HasQuery
  <2>2. ASSUME NEW s \in loads'
        PROVE  (thread[workers[Assign[s]]] = "dead" \/ HasLoad(workers[Assign[s]], s))'
    BY <1>2 DEF HasLoad
  <2>3. QED
    BY <2>1, <2>2 DEF NothingStranded
<1>6. QED
  BY <1>3, <1>4, <1>5

-----------------------------------------------------------------------------
(* Posting leaves the other workers alone and wires the source's index.    *)
OwnWorkers ==
    /\ \A i, k \in Indexes : workers[i] = workers[k] /\ workers[i] # NoWorker => i = k
    /\ \A i \in Indexes : workers[i] # NoWorker => thread[workers[i]] # "free"

LEMMA PostWires ==
    ASSUME PoolInv, CallsInv, ~shuttingDown, NEW s \in Sources,
           NEW S, NEW msgs \in Seq(S), Post(s, msgs)
    PROVE  /\ thread' = [w \in Workers |-> thread'[w]] /\ OwnWorkers'
           /\ workers'[Assign[s]] \in Workers
           /\ \A i \in Indexes : workers[i] # NoWorker =>
                 workers'[i] = workers[i] /\ thread'[workers[i]] = thread[workers[i]]
           /\ \A type, what :
                 /\ MessageFor(msgs, type, what) => MessageFor(inbox'[workers'[Assign[s]]], type, what)
                 /\ \A i \in Indexes : workers[i] # NoWorker /\ MessageFor(inbox[workers[i]], type, what)
                       => MessageFor(inbox'[workers[i]], type, what)
<1> DEFINE a == Assign[s]
<1>1. /\ a \in Indexes /\ inbox = [w \in Workers |-> inbox[w]] /\ thread = [w \in Workers |-> thread[w]]
      /\ workers \in [Indexes -> Workers \cup {NoWorker}] /\ OwnWorkers
  BY AssignAssumption DEF CallsInv, Wired, PoolInv, PortsInv, OwnWorkers
<1>2. CASE workers[a] # NoWorker
  <2> DEFINE w == workers[a]
             more == inbox[w] \o msgs
  <2>1. w \in Workers /\ workers' = workers /\ thread' = thread /\ inbox' = [inbox EXCEPT ![w] = more]
    BY <1>1, <1>2 DEF Post
  <2>2. PICK T : inbox[w] \in Seq(T)
    BY <2>1 DEF PoolInv, PortsInv, GoodIn
  <2>3. inbox[w] \in Seq(S \cup T) /\ msgs \in Seq(S \cup T)
    BY <2>2, SeqMonotonic
  <2>4. \A type, what : MessageFor(more, type, what)
                          <=> MessageFor(inbox[w], type, what) \/ MessageFor(msgs, type, what)
    BY <2>3, ForConcat
  <2> HIDE DEF more
  <2>5. \A x \in Workers : inbox'[x] = IF x = w THEN more ELSE inbox[x]
    BY <1>1, <2>1
  <2>6. OwnWorkers'
    BY <1>1, <2>1 DEF OwnWorkers
  <2>7. QED
    BY <1>1, <2>1, <2>4, <2>5, <2>6
<1>3. CASE workers[a] = NoWorker
  <2>1. PICK w \in Free : /\ workers' = [workers EXCEPT ![a] = w]
                          /\ thread' = [thread EXCEPT ![w] = "up"]
                          /\ inbox' = [inbox EXCEPT ![w] = msgs]
    BY <1>3 DEF Post
  <2>2. w \in Workers /\ thread[w] = "free" /\ w # NoWorker
    BY AbsentAssumption DEF Free
  <2>3. \A i \in Indexes : workers[i] # NoWorker => workers[i] \in Workers /\ workers[i] # w /\ i # a
    BY <1>1, <1>3, <2>2 DEF OwnWorkers
  <2>4. /\ \A i \in Indexes : workers'[i] = IF i = a THEN w ELSE workers[i]
        /\ \A x \in Workers : thread'[x] = IF x = w THEN "up" ELSE thread[x]
        /\ \A x \in Workers : inbox'[x] = IF x = w THEN msgs ELSE inbox[x]
    BY <1>1, <2>1, <2>2
  <2>5. OwnWorkers'
    <3>1. ASSUME NEW i \in Indexes, NEW k \in Indexes,
                 workers'[i] = workers'[k], workers'[i] # NoWorker
          PROVE  i = k
      BY <1>1, <2>2, <2>3, <2>4, <3>1 DEF OwnWorkers
    <3>2. ASSUME NEW i \in Indexes, workers'[i] # NoWorker
          PROVE  thread'[workers'[i]] # "free"
      <4>1. CASE i = a
        BY <2>2, <2>4, <4>1
      <4>2. CASE i # a
        BY <1>1, <2>3, <2>4, <3>2, <4>2 DEF OwnWorkers
      <4>3. QED
        BY <4>1, <4>2
    <3>3. QED
      BY <3>1, <3>2 DEF OwnWorkers
  <2>6. thread' = [x \in Workers |-> thread'[x]]
    BY <1>1, <2>1
  <2>7. QED
    BY <1>1, <2>2, <2>3, <2>4, <2>5, <2>6
<1>4. QED
  BY <1>2, <1>3

(* The calls that wait for an index whose worker goes on.                  *)
Waited == {i \in Indexes : workers[i] # NoWorker}

LEMMA WaitedFor ==
    ASSUME PoolInv, CallsInv, ~shuttingDown
    PROVE  /\ \A r \in Requests : Pending(r) => indexOf(r) \in Waited
           /\ \A s \in loads : Assign[s] \in Waited
  BY AssignAssumption DEF CallsInv, Wired, PoolInv, BooksInv, Pending, indexOf, Waited

(* A load that is posted, or shared with the one in flight.                *)
LEMMA LoadWires ==
    ASSUME PoolInv, CallsInv, ~shuttingDown, NEW s \in Sources,
           NEW S, NEW msgs \in Seq(S), Post(s, msgs), loads' = loads \cup {s},
           s \in loads \/ MessageFor(msgs, "load", s),
           UNCHANGED <<query, shuttingDown, outbox, jobs, executing>>
    PROVE  CallsInv'
<1>1. /\ thread' = [w \in Workers |-> thread'[w]] /\ OwnWorkers'
      /\ workers'[Assign[s]] \in Workers
      /\ \A i \in Indexes : workers[i] # NoWorker =>
            workers'[i] = workers[i] /\ thread'[workers[i]] = thread[workers[i]]
      /\ \A type, what :
            /\ MessageFor(msgs, type, what) => MessageFor(inbox'[workers'[Assign[s]]], type, what)
            /\ \A i \in Indexes : workers[i] # NoWorker /\ MessageFor(inbox[workers[i]], type, what)
                  => MessageFor(inbox'[workers[i]], type, what)
  BY PostWires
<1>2. \A w \in Workers : (\E i \in Waited : w = workers[i]) => GoesOn(w)
  BY <1>1 DEF Waited, GoesOn, HasQuery, HasLoad
<1>3. s \notin loads => \A w \in Workers : w = workers'[Assign[s]] => HasLoad(w, s)'
  BY <1>1 DEF HasLoad
<1>4. \A r \in Requests : query'[r].at = "pending" =>
         Pending(r) /\ query'[r].src = query[r].src /\ indexOf(r) \in Waited
  BY WaitedFor DEF Pending
<1>5. /\ NothingStranded'
      /\ \A r \in Requests : Pending(r)' => workers'[indexOf(r)'] # NoWorker
      /\ \A t \in loads' : workers'[Assign[t]] # NoWorker
  <2>1. Waited \in SUBSET Indexes /\ \A i \in Waited : workers'[i] = workers[i]
    BY <1>1 DEF Waited
  <2>2. \A t \in loads' :
            \/ t \in loads /\ Assign[t] \in Waited
            \/ /\ workers'[Assign[t]] \in Workers
               /\ \A w \in Workers : w = workers'[Assign[t]] => HasLoad(w, t)'
    BY <1>1, <1>3, WaitedFor
  <2>3. QED
    BY <1>2, <1>4, <2>1, <2>2, StillCarried
<1>6. Wired'
  BY <1>1, <1>5 DEF CallsInv, Wired, OwnWorkers
<1>7. QED
  BY <1>5, <1>6 DEF CallsInv

LEMMA EnsureWires ==
    ASSUME PoolInv, CallsInv, ~shuttingDown, NEW s \in Sources, ensureLoaded(s)
    PROVE  CallsInv'
<1>1. UNCHANGED <<query, shuttingDown, outbox, jobs, executing>>
  BY DEF ensureLoaded, storeVars
<1>2. CASE s \in loads
  <2>1. UNCHANGED <<loads, workers, thread, inbox>>
    BY <1>2 DEF ensureLoaded
  <2>2. \A w, r : HasQuery(w, r)' <=> HasQuery(w, r)
    BY <1>1, <2>1 DEF HasQuery
  <2>3. \A w, t : HasLoad(w, t)' <=> HasLoad(w, t)
    BY <1>1, <2>1 DEF HasLoad
  <2>4. NothingStranded'
    BY <1>1, <2>1, <2>2, <2>3 DEF CallsInv, NothingStranded, Pending, indexOf
  <2>5. Wired'
    BY <1>1, <2>1 DEF CallsInv, Wired, Pending, indexOf
  <2>6. QED
    BY <2>4, <2>5 DEF CallsInv
<1>3. CASE s \notin loads
  <2> DEFINE m == LoadMsg(s)
  <2>1. MessageFor(<<m>>, "load", s)
    BY ForOne DEF IsFor, LoadMsg
  <2>2. loads' = loads \cup {s} /\ Post(s, <<m>>) /\ <<m>> \in Seq({m})
    BY <1>3 DEF ensureLoaded
  <2> HIDE DEF m
  <2>3. QED
    BY <1>1, <2>1, <2>2, LoadWires
<1>4. QED
  BY <1>2, <1>3

LEMMA QueryWires ==
    ASSUME PoolInv, CallsInv, ~shuttingDown, NEW r \in Requests, NEW s \in Sources,
           NEW aborted \in BOOLEAN, Query(r, s, aborted)
    PROVE  CallsInv'
<1> DEFINE q == AsAsked(r, s, aborted, dropped[s])
           m == QueryMsg(r)
           n == CancelMsg(r)
           msgs == IF aborted THEN <<m, n>> ELSE <<m>>
<1>1. /\ query' = [query EXCEPT ![r] = q] /\ Post(s, msgs)
      /\ UNCHANGED <<loads, shuttingDown, outbox, jobs, executing>>
  BY DEF Query, storeVars, AsAsked
<1>2. q.at = "pending" /\ q.src = s
  BY Asking DEF PoolInv, BooksInv
<1> HIDE DEF q
<1>3. \A x \in Requests : query'[x] = IF x = r THEN q ELSE query[x]
  BY <1>1 DEF PoolInv, BooksInv
<1>4. msgs \in Seq({m, n}) /\ MessageFor(msgs, "query", r)
  <2>1. <<m>> \in Seq({m, n}) /\ <<m, n>> \in Seq({m, n})
    OBVIOUS
  <2>2. IsFor(m, "query", r)
    BY DEF IsFor, QueryMsg
  <2> HIDE DEF m, n
  <2>3. MessageFor(<<m>>, "query", r) /\ MessageFor(<<m, n>>, "query", r)
    BY <2>2, ForOne, ForTwo
  <2>4. QED
    BY <2>1, <2>3
<1> HIDE DEF msgs
<1>5. /\ thread' = [w \in Workers |-> thread'[w]] /\ OwnWorkers'
      /\ workers'[Assign[s]] \in Workers
      /\ \A i \in Indexes : workers[i] # NoWorker =>
            workers'[i] = workers[i] /\ thread'[workers[i]] = thread[workers[i]]
      /\ \A type, what :
            /\ MessageFor(msgs, type, what) => MessageFor(inbox'[workers'[Assign[s]]], type, what)
            /\ \A i \in Indexes : workers[i] # NoWorker /\ MessageFor(inbox[workers[i]], type, what)
                  => MessageFor(inbox'[workers[i]], type, what)
  BY <1>1, <1>4, PostWires
<1>6. \A w \in Workers : (\E i \in Waited : w = workers[i]) => GoesOn(w)
  BY <1>1, <1>5 DEF Waited, GoesOn, HasQuery, HasLoad
<1>7. \A x \in Requests : query'[x].at = "pending" =>
         \/ Pending(x) /\ query'[x].src = query[x].src /\ indexOf(x) \in Waited
         \/ /\ workers'[Assign[query'[x].src]] \in Workers
            /\ \A w \in Workers : w = workers'[Assign[query'[x].src]] => HasQuery(w, x)'
  BY <1>2, <1>3, <1>4, <1>5, WaitedFor DEF Pending, HasQuery
<1>8. /\ NothingStranded'
      /\ \A x \in Requests : Pending(x)' => workers'[indexOf(x)'] # NoWorker
      /\ \A t \in loads' : workers'[Assign[t]] # NoWorker
  <2>1. Waited \in SUBSET Indexes /\ \A i \in Waited : workers'[i] = workers[i]
    BY <1>5 DEF Waited
  <2>2. \A t \in loads' : t \in loads /\ Assign[t] \in Waited
    BY <1>1, WaitedFor
  <2>3. QED
    BY <1>6, <1>7, <2>1, <2>2, StillCarried
<1>9. Wired'
  BY <1>1, <1>5, <1>8 DEF CallsInv, Wired, OwnWorkers
<1>10. QED
  BY <1>8, <1>9 DEF CallsInv

-----------------------------------------------------------------------------
(* Messages that carry no call: a cancel, an invalidate.                   *)
LEMMA MoreCarries ==
    ASSUME PoolInv, NEW w, NEW m, inbox' = [inbox EXCEPT ![w] = Append(@, m)]
    PROVE  \A x \in Workers : \A type, what : MessageFor(inbox[x], type, what) => MessageFor(inbox'[x], type, what)
<1>1. inbox = [x \in Workers |-> inbox[x]]
  BY DEF PoolInv, PortsInv
<1>2. ASSUME NEW x \in Workers, NEW type, NEW what, MessageFor(inbox[x], type, what)
      PROVE  MessageFor(Append(inbox[x], m), type, what)
  <2>1. PICK S : inbox[x] \in Seq(S)
    BY DEF PoolInv, PortsInv, GoodIn
  <2>2. inbox[x] \in Seq(S \cup {m}) /\ m \in S \cup {m}
    BY <2>1, SeqMonotonic
  <2>3. <<m>> \in Seq(S \cup {m}) /\ Append(inbox[x], m) = inbox[x] \o <<m>>
    BY <2>2
  <2>4. MessageFor(inbox[x] \o <<m>>, type, what)
    BY <1>2, <2>2, <2>3, ForConcat
  <2>5. QED
    BY <2>3, <2>4
<1>3. QED
  BY <1>1, <1>2

(* A step that starts and stops no worker.                                 *)
LEMMA SameWorkers ==
    ASSUME PoolInv, CallsInv, UNCHANGED <<workers, shuttingDown>>,
           thread' = [w \in Workers |-> thread'[w]],
           \A w \in Workers : IsABag(jobs'[w]) /\ (thread[w] # "free" => thread'[w] # "free"),
           loads' \subseteq loads,
           \A r \in Requests : query'[r].at = "pending" => Pending(r) /\ query'[r].src = query[r].src,
           \A w \in Workers : GoesOn(w)
    PROVE  CallsInv'
<1>1. CASE shuttingDown
  BY <1>1 DEF CallsInv, Wired, NothingStranded
<1>2. CASE ~shuttingDown
  <2>1. /\ NothingStranded'
        /\ \A r \in Requests : Pending(r)' => workers'[indexOf(r)'] # NoWorker
        /\ \A s \in loads' : workers'[Assign[s]] # NoWorker
    <3>1. /\ Waited \in SUBSET Indexes /\ \A i \in Waited : workers'[i] = workers[i]
          /\ \A w \in Workers : (\E i \in Waited : w = workers[i]) => GoesOn(w)
          /\ \A r \in Requests : query'[r].at = "pending" =>
                Pending(r) /\ query'[r].src = query[r].src /\ indexOf(r) \in Waited
          /\ \A s \in loads' : s \in loads /\ Assign[s] \in Waited
      BY <1>2, WaitedFor DEF Waited
    <3>2. QED
      BY <1>2, <3>1, StillCarried
  <2>2. OwnWorkers'
    BY <1>2 DEF CallsInv, Wired, OwnWorkers, PoolInv, PortsInv
  <2>3. QED
    BY <2>1, <2>2 DEF CallsInv, Wired, OwnWorkers
<1>3. QED
  BY <1>1, <1>2

LEMMA CancelWires ==
    ASSUME PoolInv, CallsInv, NEW r \in Requests, onCancel(r)
    PROVE  CallsInv'
<1> DEFINE w == workers[indexOf(r)]
           yes == TRUE
           q == [query[r] EXCEPT !.armed = yes]
<1>1. query' = [query EXCEPT ![r] = q] /\ inbox' = [inbox EXCEPT ![w] = Append(@, CancelMsg(r))]
      /\ UNCHANGED <<workers, loads, shuttingDown, thread, outbox, jobs, executing>>
  BY DEF onCancel, storeVars
<1>2. q.at = query[r].at /\ q.src = query[r].src
  <2> HIDE DEF yes
  <2>1. QED
    BY DEF PoolInv, BooksInv, Record
<1> HIDE DEF q, w
<1>3. \A x \in Requests : query'[x].at = query[x].at /\ query'[x].src = query[x].src
  BY <1>1, <1>2 DEF PoolInv, BooksInv
<1>4. \A x \in Workers : \A type, what : MessageFor(inbox[x], type, what) => MessageFor(inbox'[x], type, what)
  BY <1>1, MoreCarries
<1>5. \A x \in Workers : GoesOn(x)
  BY <1>1, <1>4 DEF GoesOn, HasQuery, HasLoad
<1>6. QED
  BY <1>1, <1>3, <1>5, SameWorkers DEF CallsInv, Wired, Pending

LEMMA InvalidatedWires ==
    ASSUME PoolInv, CallsInv, NEW s \in Sources, inbox' = Invalidated(s) \/ inbox' = inbox,
           UNCHANGED <<workers, query, loads, shuttingDown, thread, outbox, jobs, executing>>
    PROVE  CallsInv'
<1>1. \A x \in Workers : \A type, what : MessageFor(inbox[x], type, what) => MessageFor(inbox'[x], type, what)
  BY MoreCarries DEF Invalidated
<1>2. \A x \in Workers : GoesOn(x)
  BY <1>1 DEF GoesOn, HasQuery, HasLoad
<1>3. QED
  BY <1>2, SameWorkers DEF CallsInv, Wired, Pending

LEMMA MessageWires ==
    ASSUME PoolInv, CallsInv, NEW w \in Workers, onMessage(w)
    PROVE  CallsInv'
<1> DEFINE m == Head(outbox[w])
           answered == SettledAs(m.req, m.out, m.ver)
<1>1. /\ outbox[w] # <<>> /\ outbox' = [outbox EXCEPT ![w] = Tail(outbox[w])]
      /\ outbox = [x \in Workers |-> outbox[x]]
      /\ UNCHANGED <<workers, shuttingDown, thread, inbox, jobs, executing>>
  BY DEF onMessage, storeVars, PoolInv, PortsInv
<1>2. PICK S : outbox[w] \in Seq(S)
  BY DEF PoolInv, PortsInv, GoodOut
<1>3. \A type, what : MessageFor(outbox[w], type, what)
         => IsFor(m, type, what) \/ MessageFor(Tail(outbox[w]), type, what)
  BY <1>1, <1>2, ForHead
<1>4. \A x \in Workers : \A type, what : MessageFor(outbox[x], type, what)
         => MessageFor(outbox'[x], type, what) \/ (x = w /\ IsFor(m, type, what))
  <2> DEFINE rest == Tail(outbox[w])
  <2> HIDE DEF rest, m
  <2>1. QED
    BY <1>1, <1>3 DEF rest
<1>5. GoodAnswer(m)
  BY <1>1, HeadAnswer DEF PoolInv, PortsInv
<1>6. CASE m.type = "query-result"
  <2> DEFINE c == m.req
  <2>1. c \in Requests /\ loads' = loads
        /\ query' = IF ~Pending(c) THEN query ELSE [query EXCEPT ![c] = answered]
    BY <1>5, <1>6 DEF GoodAnswer, onMessage, UnknownRequest
  <2>2. answered.at = "settled"
    BY <2>1, Settling DEF PoolInv, BooksInv
  <2> HIDE DEF answered, m
  <2>3. \A r \in Requests : query'[r].at = "pending" =>
           Pending(r) /\ query'[r].src = query[r].src /\ r # c
    BY <2>1, <2>2 DEF PoolInv, BooksInv, Pending
  <2>4. \A what : ~IsFor(m, "load-reply", what) /\ (IsFor(m, "query-result", what) => what = c)
    BY <1>6 DEF IsFor
  <2>5. \A r \in Requests : Pending(r)' => r # c
    BY <2>3 DEF Pending
  <2>6. \A r \in Requests : Pending(r)' \in BOOLEAN
    BY DEF Pending
  <2>7. \A x \in Workers : GoesOn(x)
    BY <1>1, <1>4, <2>1, <2>4, <2>5, <2>6 DEF GoesOn, HasQuery, HasLoad
  <2>8. QED
    BY <1>1, <2>1, <2>3, <2>7, SameWorkers DEF CallsInv, Wired
<1>7. CASE m.type # "query-result"
  <2>1. query' = query /\ loads' = loads \ {m.src}
    BY <1>7 DEF onMessage
  <2>2. \A what : ~IsFor(m, "query-result", what) /\ (IsFor(m, "load-reply", what) => what = m.src)
    BY <1>7 DEF IsFor
  <2> HIDE DEF m
  <2>3. \A x \in Workers : GoesOn(x)
    BY <1>1, <1>4, <2>1, <2>2 DEF GoesOn, HasQuery, HasLoad
  <2>4. QED
    BY <1>1, <2>1, <2>3, SameWorkers DEF CallsInv, Wired, Pending
<1>8. QED
  BY <1>6, <1>7

LEMMA WorkerWires ==
    ASSUME PoolInv, CallsInv, NEW w \in Workers, WorkerStep(w)
    PROVE  CallsInv'
<1>1. UNCHANGED <<workers, query, loads, shuttingDown, thread>>
  BY DEF WorkerStep, Handles, handleLoad, handleQuery, handleCancel, handleInvalidate,
         BuildEnds, Built, BuildFails, RunEnds, QueryEnds, mainVars
<1>2. \A x \in Workers : IsABag(jobs[x])
  BY DEF CallsInv, Wired
<1>3. Carries
  <2>1. CASE Handles(w)
    BY <1>2, <2>1, LoadCarries, QueryCarries, OtherCarries DEF Handles
  <2>2. CASE \E r \in Requests \cup {NoRequest} : BuildEnds(w, r)
    BY <1>2, <2>2, BuildCarries DEF BuildEnds
  <2>3. CASE \E r \in Requests : RunEnds(w, r)
    BY <1>2, <2>3, RunCarries DEF RunEnds
  <2>4. QED
    BY <2>1, <2>2, <2>3 DEF WorkerStep
<1>4. \A x \in Workers : GoesOn(x)
  BY <1>1, <1>3 DEF Carries, GoesOn
<1>5. QED
  BY <1>1, <1>3, <1>4, SameWorkers DEF CallsInv, Wired, Pending, Carries

(* A worker gets stuck or dies, or nothing happens to the pool.            *)
LEMMA StopWires ==
    ASSUME PoolInv, CallsInv, UNCHANGED <<mainVars, portVars, jobs, executing>>,
           thread' = thread \/ \E w \in Workers : GetsStuck(w) \/ Dies(w)
    PROVE  CallsInv'
<1>1. UNCHANGED <<workers, query, loads, shuttingDown, inbox, outbox, jobs, executing>>
  BY DEF mainVars, portVars
<1>2. /\ thread' = [w \in Workers |-> thread'[w]]
      /\ \A w \in Workers : /\ thread[w] # "free" => thread'[w] # "free"
                            /\ thread[w] = "dead" => thread'[w] = "dead"
  BY DEF GetsStuck, Dies, CallsInv, Wired
<1>3. \A w \in Workers : GoesOn(w)
  BY <1>1, <1>2 DEF GoesOn, HasQuery, HasLoad
<1>4. QED
  BY <1>1, <1>2, <1>3, SameWorkers DEF CallsInv, Wired, Pending

LEMMA ShutdownWires ==
    ASSUME PoolInv, CallsInv, shutdown
    PROVE  CallsInv'
  BY DEF CallsInv, Wired, NothingStranded, shutdown, storeVars

(* A worker that is given up.                                              *)
LEMMA ReclaimWires ==
    ASSUME PoolInv, CallsInv, ~shuttingDown, UNCHANGED shuttingDown,
           NEW i \in Indexes, workers[i] \in Workers, reclaim(i),
           NEW old \in {"free", "dead"},
           thread' = [w \in Workers |-> IF w = workers'[i] THEN "up"
                                        ELSE IF w = workers[i] THEN old ELSE thread[w]],
           \A w \in Workers : IsABag(jobs'[w]),
           \A w \in Workers : w # workers[i] =>
              UNCHANGED <<inbox[w], outbox[w], jobs[w], executing[w]>>
    PROVE  CallsInv'
<1> DEFINE Kept == Waited \ {i}
           lost(r) == SettledAs(r, "lost", 0)
<1>1. PICK v \in Free : workers' = [workers EXCEPT ![i] = v]
  BY DEF reclaim
<1>2. v \in Workers /\ thread[v] = "free" /\ v # NoWorker /\ workers \in [Indexes -> Workers \cup {NoWorker}]
  BY <1>1, AbsentAssumption DEF Free, PoolInv, PortsInv
<1>3. OwnWorkers
  BY DEF CallsInv, Wired, OwnWorkers
<1>4. \A k \in Indexes : workers'[k] = IF k = i THEN v ELSE workers[k]
  BY <1>1, <1>2
<1>5. \A k \in Kept : /\ workers[k] \in Workers /\ workers[k] # v /\ workers[k] # workers[i]
                      /\ workers'[k] = workers[k]
  BY <1>2, <1>3, <1>4 DEF Waited, OwnWorkers
<1>6. /\ query' = [r \in Requests |-> IF Pending(r) /\ indexOf(r) = i THEN lost(r) ELSE query[r]]
      /\ loads' = {s \in loads : Assign[s] # i}
  BY DEF reclaim
<1>7. \A r \in Requests : lost(r).at = "settled"
  <2>1. \A r \in Requests : Record(query[r])
    BY DEF PoolInv, BooksInv
  <2>2. QED
    BY <2>1, Settling
<1> HIDE DEF lost
<1>8. \A r \in Requests : query'[r].at = "pending" =>
         Pending(r) /\ query'[r].src = query[r].src /\ indexOf(r) \in Kept
  BY <1>6, <1>7, WaitedFor DEF Pending
<1>9. \A s \in loads' : s \in loads /\ Assign[s] \in Kept
  BY <1>6, WaitedFor
<1>10. ASSUME NEW w \in Workers, NEW k \in Kept, w = workers[k] PROVE GoesOn(w)
  <2>1. w # v /\ w # workers[i] /\ workers'[i] = v
    BY <1>4, <1>5, <1>10
  <2>2. thread'[w] = thread[w] /\ UNCHANGED <<inbox[w], outbox[w], jobs[w], executing[w]>>
    BY <2>1
  <2>3. QED
    BY <2>2 DEF GoesOn, HasQuery, HasLoad
<1>11. /\ NothingStranded'
       /\ \A r \in Requests : Pending(r)' => workers'[indexOf(r)'] # NoWorker
       /\ \A s \in loads' : workers'[Assign[s]] # NoWorker
  <2>1. Kept \in SUBSET Indexes /\ \A k \in Kept : workers'[k] = workers[k]
    BY <1>5 DEF Waited
  <2> HIDE DEF Kept
  <2>2. QED
    BY <1>8, <1>9, <1>10, <2>1, StillCarried
<1>12. OwnWorkers'
  <2>1. \A k \in Indexes : workers[k] # NoWorker /\ k # i =>
           workers[k] \in Workers /\ workers[k] # v /\ workers[k] # workers[i]
    BY <1>2, <1>3 DEF OwnWorkers
  <2>2. QED
    BY <1>2, <1>3, <1>4, <2>1 DEF OwnWorkers
<1>13. Wired'
  BY <1>6, <1>11, <1>12 DEF CallsInv, Wired, OwnWorkers
<1>14. QED
  BY <1>11, <1>13 DEF CallsInv

LEMMA GraceWires ==
    ASSUME PoolInv, CallsInv, NEW r \in Requests, GraceExpires(r)
    PROVE  CallsInv'
<1> DEFINE i == indexOf(r)
<1>1. /\ Pending(r) /\ query[r].armed /\ reclaim(i)
      /\ UNCHANGED <<shuttingDown, inbox, outbox, jobs, executing>>
  BY DEF GraceExpires, portVars, storeVars
<1>2. ~shuttingDown
  BY <1>1 DEF PoolInv, BooksInv
<1>3. i \in Indexes /\ workers[i] \in Workers /\ workers[i] # NoWorker
  BY <1>1, <1>2, WaitedFor DEF Waited, PoolInv, PortsInv
<1>4. PICK v \in Free : workers' = [workers EXCEPT ![i] = v]
  BY <1>1 DEF reclaim
<1>5. workers'[i] = v /\ thread[v] = "free" /\ v # workers[i]
  BY <1>2, <1>3, <1>4 DEF Free, CallsInv, Wired, PoolInv, PortsInv
<1>6. thread' = [w \in Workers |-> CASE w = workers[i] -> "dead"
                                     [] w = workers'[i] -> "up"
                                     [] OTHER -> thread[w]]
  BY DEF GraceExpires
<1>7. thread' = [w \in Workers |-> IF w = workers'[i] THEN "up"
                                   ELSE IF w = workers[i] THEN "dead" ELSE thread[w]]
  BY <1>5, <1>6
<1>8. QED
  <2> HIDE DEF i
  <2>1. \A w \in Workers : IsABag(jobs'[w])
    BY <1>1 DEF CallsInv, Wired
  <2>2. QED
    BY <1>1, <1>2, <1>3, <1>7, <2>1, ReclaimWires

LEMMA ExitWires ==
    ASSUME PoolInv, CallsInv, NEW w \in Workers, onWorkerExit(w)
    PROVE  CallsInv'
<1>1. /\ thread[w] = "dead" /\ inbox' = [inbox EXCEPT ![w] = <<>>] /\ jobs' = [jobs EXCEPT ![w] = EmptyBag]
      /\ executing' = [executing EXCEPT ![w] = {}] /\ UNCHANGED <<shuttingDown, outbox>>
      /\ inbox = [x \in Workers |-> inbox[x]] /\ jobs = [x \in Workers |-> jobs[x]]
      /\ executing = [x \in Workers |-> executing[x]] /\ thread = [x \in Workers |-> thread[x]]
  BY DEF onWorkerExit, Reused, PoolInv, PortsInv, CallsInv, Wired
<1>2. IsABag(EmptyBag)
  BY DEF IsABag, EmptyBag, SetToBag
<1>3. /\ \A x \in Workers : IsABag(jobs'[x])
      /\ \A x \in Workers : x # w => UNCHANGED <<inbox[x], outbox[x], jobs[x], executing[x]>>
  <2> HIDE DEF EmptyBag
  <2>1. QED
    BY <1>1, <1>2 DEF CallsInv, Wired
<1>4. CASE ~shuttingDown /\ Current(w)
  <2> DEFINE i == CHOOSE j \in Indexes : workers[j] = w
  <2>1. i \in Indexes /\ workers[i] = w
    BY <1>4 DEF Current
  <2>2. reclaim(i) /\ thread' = [thread EXCEPT ![w] = "free", ![workers'[i]] = "up"]
    BY <1>4 DEF onWorkerExit
  <2> HIDE DEF i
  <2>3. PICK v \in Free : workers' = [workers EXCEPT ![i] = v]
    BY <2>2 DEF reclaim
  <2>4. workers'[i] = v /\ v \in Workers /\ v # w
    BY <1>1, <2>1, <2>3 DEF Free, PoolInv, PortsInv
  <2>5. thread' = [x \in Workers |-> IF x = workers'[i] THEN "up"
                                     ELSE IF x = workers[i] THEN "free" ELSE thread[x]]
    BY <1>1, <2>1, <2>2, <2>4
  <2>6. QED
    BY <1>1, <1>3, <1>4, <2>1, <2>2, <2>5, ReclaimWires
<1>5. CASE ~shuttingDown /\ ~Current(w)
  <2>1. UNCHANGED <<workers, query, loads>> /\ thread' = [thread EXCEPT ![w] = "free"]
    BY <1>5 DEF onWorkerExit
  <2>2. \A x \in Workers : (\E i \in Waited : x = workers[i]) => x # w /\ GoesOn(x)
    <3>1. ASSUME NEW x \in Workers, NEW i \in Waited, x = workers[i] PROVE x # w
      BY <1>5, <3>1 DEF Current, Waited
    <3>2. ASSUME NEW x \in Workers, x # w PROVE GoesOn(x)
      <4>1. thread'[x] = thread[x] /\ UNCHANGED <<inbox[x], outbox[x], jobs[x], executing[x]>>
        BY <1>1, <1>3, <2>1, <3>2
      <4>2. QED
        BY <4>1 DEF GoesOn, HasQuery, HasLoad
    <3>3. QED
      BY <3>1, <3>2
  <2>3. /\ NothingStranded'
        /\ \A r \in Requests : Pending(r)' => workers'[indexOf(r)'] # NoWorker
        /\ \A s \in loads' : workers'[Assign[s]] # NoWorker
    <3>1. /\ Waited \in SUBSET Indexes /\ \A i \in Waited : workers'[i] = workers[i]
          /\ \A r \in Requests : query'[r].at = "pending" =>
                Pending(r) /\ query'[r].src = query[r].src /\ indexOf(r) \in Waited
          /\ \A s \in loads' : s \in loads /\ Assign[s] \in Waited
      BY <1>5, <2>1, WaitedFor DEF Waited, Pending
    <3>2. QED
      BY <1>5, <2>2, <3>1, StillCarried
  <2>4. OwnWorkers'
    BY <1>1, <1>5, <2>1 DEF CallsInv, Wired, OwnWorkers, Current, PoolInv, PortsInv
  <2>5. QED
    BY <1>1, <1>3, <2>1, <2>3, <2>4 DEF CallsInv, Wired, OwnWorkers
<1>6. CASE shuttingDown
  BY <1>1, <1>3, <1>6 DEF onWorkerExit, CallsInv, Wired, NothingStranded
<1>7. QED
  BY <1>4, <1>5, <1>6

LEMMA StepWires ==
    ASSUME PoolInv, CallsInv, [PoolNext]_poolVars
    PROVE  CallsInv'
<1>1. CASE CallerStep
  <2>1. ASSUME NEW s \in Sources, invalidate(s) PROVE CallsInv'
    BY <2>1, InvalidatedWires DEF invalidate, mainVars, storeVars
  <2>2. QED
    BY <1>1, <2>1, EnsureWires, QueryWires, CancelWires, ShutdownWires DEF CallerStep
<1>2. CASE LoopStep
  BY <1>2, GraceWires, MessageWires, ExitWires DEF LoopStep
<1>3. CASE \E w \in Workers : WorkerStep(w)
  BY <1>3, WorkerWires
<1>4. CASE \E w \in Workers : GetsStuck(w) \/ Dies(w)
  <2>1. UNCHANGED <<mainVars, portVars, jobs, executing>>
    BY <1>4 DEF GetsStuck, Dies, storeVars
  <2>2. QED
    BY <1>4, <2>1, StopWires
<1>5. CASE UNCHANGED poolVars \/ \E s \in Sources : Edit(s)
  <2>1. UNCHANGED <<mainVars, portVars, jobs, executing, thread>>
    BY <1>5 DEF Edit, poolVars, storeVars
  <2>2. QED
    BY <2>1, StopWires
<1>6. QED
  BY <1>1, <1>2, <1>3, <1>4, <1>5 DEF PoolNext

-----------------------------------------------------------------------------
(* The pins of a worker count the queries it runs.                         *)
On(X, s) == {e \in X : e.src = s}
PinsOf(X) == [s \in Sources |-> Cardinality(On(X, s))]

LEMMA PinsOne ==
    ASSUME NEW X, IsFiniteSet(X), NEW e, e \notin X
    PROVE  IsFiniteSet(X \cup {e}) /\ pin(PinsOf(X), e.src) = PinsOf(X \cup {e})
<1>1. IsFiniteSet(X \cup {e})
  BY FS_AddElement
<1>2. ASSUME NEW s \in Sources
      PROVE  Cardinality(On(X \cup {e}, s)) =
                IF s = e.src THEN Cardinality(On(X, s)) + 1 ELSE Cardinality(On(X, s))
  <2>1. IsFiniteSet(On(X, s))
    BY FS_Subset DEF On
  <2>2. CASE s = e.src
    <3>1. On(X \cup {e}, s) = On(X, s) \cup {e} /\ e \notin On(X, s)
      BY <2>2 DEF On
    <3> DEFINE before == On(X, s)
    <3>2. IsFiniteSet(before) /\ e \notin before
      BY <2>1, <3>1
    <3> HIDE DEF before
    <3>3. Cardinality(before \cup {e}) = Cardinality(before) + 1
      BY <3>2, FS_AddElement
    <3>4. QED
      BY <2>2, <3>1, <3>3 DEF before
  <2>3. CASE s # e.src
    BY <2>3 DEF On
  <2>4. QED
    BY <2>2, <2>3
<1>3. QED
  BY <1>1, <1>2 DEF pin, PinsOf

LEMMA UnpinsOne ==
    ASSUME NEW X, IsFiniteSet(X), NEW e \in X
    PROVE  IsFiniteSet(X \ {e}) /\ unpin(PinsOf(X), e.src) = PinsOf(X \ {e})
<1>1. IsFiniteSet(X \ {e})
  BY FS_RemoveElement
<1>2. ASSUME NEW s \in Sources
      PROVE  Cardinality(On(X \ {e}, s)) =
                IF s = e.src THEN (IF Cardinality(On(X, s)) = 0 THEN 0 ELSE Cardinality(On(X, s)) - 1)
                ELSE Cardinality(On(X, s))
  <2>1. IsFiniteSet(On(X, s)) /\ Cardinality(On(X, s)) \in Nat
    BY FS_Subset, FS_CardinalityType DEF On
  <2>2. CASE s = e.src
    <3>1. On(X \ {e}, s) = On(X, s) \ {e} /\ e \in On(X, s)
      BY <2>2 DEF On
    <3>2. Cardinality(On(X \ {e}, s)) = Cardinality(On(X, s)) - 1
      <4> DEFINE before == On(X, s)
      <4>1. IsFiniteSet(before) /\ e \in before
        BY <2>1, <3>1
      <4> HIDE DEF before
      <4>2. Cardinality(before \ {e}) = Cardinality(before) - 1
        BY <4>1, FS_RemoveElement
      <4>3. QED
        BY <3>1, <4>2 DEF before
    <3>3. Cardinality(On(X, s)) # 0
      BY <2>1, <3>1, FS_EmptySet
    <3>4. QED
      BY <2>2, <3>2, <3>3
  <2>3. CASE s # e.src
    <3>1. On(X \ {e}, s) = On(X, s)
      BY <2>3 DEF On
    <3>2. QED
      BY <2>3, <3>1
  <2>4. QED
    BY <2>2, <2>3
<1>3. QED
  BY <1>1, <1>2 DEF unpin, PinsOf

-----------------------------------------------------------------------------
(* A request is asked of a worker once: it waits in its inbox, or it waits *)
(* for one build, or it runs.                                              *)
Asks(w, r) == MessageFor(inbox[w], "query", r)
Builds(w, r) == \E j \in DOMAIN jobs[w] : j.req = r
Runs(w, r) == \E e \in executing[w] : e.req = r

OneBuild(b) ==
    \A j, k \in DOMAIN b : j.req = k.req /\ j.req \in Requests => j = k /\ b[j] = 1

Once(w) ==
    /\ OneAsk(inbox[w]) /\ OneBuild(jobs[w])
    /\ \A r \in Requests :
          /\ Asks(w, r) => ~Builds(w, r) /\ ~Runs(w, r) /\ query[r].at # "new"
          /\ Builds(w, r) => ~Runs(w, r) /\ query[r].at # "new"
          /\ Runs(w, r) => query[r].at # "new"

Counted(w) == IsFiniteSet(executing[w]) /\ pins[w] = PinsOf(executing[w])

OnceInv ==
    /\ pins = [w \in Workers |-> pins[w]]
    /\ \A w \in Workers : Once(w) /\ Counted(w)

BookedStays == \A r \in Requests : query[r].at # "new" => query'[r].at # "new"

(* A worker that only loses what it had.                                   *)
LEMMA OnceLess ==
    ASSUME NEW w \in Workers, Once(w), BookedStays, OneAsk(inbox'[w]),
           \A r : MessageFor(inbox'[w], "query", r) => MessageFor(inbox[w], "query", r),
           \A j \in DOMAIN jobs'[w] :
              j.req \in Requests => j \in DOMAIN jobs[w] /\ jobs'[w][j] = jobs[w][j],
           executing'[w] \subseteq executing[w]
    PROVE  Once(w)'
<1>1. OneBuild(jobs'[w])
  BY DEF Once, OneBuild
<1>2. \A r \in Requests : /\ MessageFor(inbox'[w], "query", r) => Asks(w, r)
                          /\ (\E j \in DOMAIN jobs'[w] : j.req = r) => Builds(w, r)
                          /\ (\E e \in executing'[w] : e.req = r) => Runs(w, r)
  BY DEF Asks, Builds, Runs
<1>3. QED
  <2>1. \A r \in Requests : /\ Asks(w, r)' <=> MessageFor(inbox'[w], "query", r)
                            /\ Builds(w, r)' <=> \E j \in DOMAIN jobs'[w] : j.req = r
                            /\ Runs(w, r)' <=> \E e \in executing'[w] : e.req = r
    BY DEF Asks, Builds, Runs, MessageFor
  <2>2. QED
    BY <1>1, <1>2, <2>1 DEF Once, BookedStays

LEMMA OnceSame ==
    ASSUME NEW w \in Workers, Once(w), BookedStays, UNCHANGED <<inbox[w], jobs[w], executing[w]>>
    PROVE  Once(w)'
  BY DEF Once, Asks, Builds, Runs, BookedStays

(* The next message of the inbox is taken.                                 *)
LEMMA TakesAsk ==
    ASSUME PoolInv, OnceInv, NEW w \in Workers, Consume(w), inbox[w] # <<>>
    PROVE  /\ OneAsk(inbox'[w])
           /\ \A x \in Workers : x # w => inbox'[x] = inbox[x]
           /\ \A r : /\ MessageFor(inbox'[w], "query", r) => MessageFor(inbox[w], "query", r)
                     /\ IsFor(Head(inbox[w]), "query", r) =>
                          MessageFor(inbox[w], "query", r) /\ ~MessageFor(inbox'[w], "query", r)
<1>1. inbox' = [inbox EXCEPT ![w] = Tail(inbox[w])] /\ inbox = [x \in Workers |-> inbox[x]]
  BY DEF Consume, PoolInv, PortsInv
<1>2. PICK S : inbox[w] \in Seq(S)
  BY DEF PoolInv, PortsInv, GoodIn
<1>3. OneAsk(inbox[w])
  BY DEF OnceInv, Once
<1>4. OneAsk(Tail(inbox[w]))
  BY <1>2, <1>3, OneAskTail
<1>5. ASSUME NEW r
      PROVE  /\ MessageFor(inbox[w], "query", r) <=>
                  IsFor(Head(inbox[w]), "query", r) \/ MessageFor(Tail(inbox[w]), "query", r)
             /\ IsFor(Head(inbox[w]), "query", r) => ~MessageFor(Tail(inbox[w]), "query", r)
  BY <1>2, <1>3, OneAskTail, ForHead
<1> DEFINE rest == Tail(inbox[w])
<1> HIDE DEF rest
<1>6. QED
  BY <1>1, <1>4, <1>5 DEF rest

(* One worker's pins are counted anew, the others' stay.                   *)
LEMMA CountedAfter ==
    ASSUME NEW w \in Workers, \A x \in Workers : Counted(x),
           IsFiniteSet(executing'[w]), pins'[w] = PinsOf(executing'[w]),
           \A x \in Workers : x # w => executing'[x] = executing[x] /\ pins'[x] = pins[x]
    PROVE  \A x \in Workers : Counted(x)'
<1>1. ASSUME NEW x \in Workers
      PROVE  IsFiniteSet(executing'[x]) /\ pins'[x] = PinsOf(executing'[x])
  <2>1. CASE x = w
    BY <2>1
  <2>2. CASE x # w
    <3>1. executing'[x] = executing[x] /\ pins'[x] = pins[x]
      BY <2>2
    <3>2. IsFiniteSet(executing[x]) /\ pins[x] = PinsOf(executing[x])
      BY DEF Counted
    <3>3. QED
      BY <3>1, <3>2
  <2>3. QED
    BY <2>1, <2>2
<1>2. QED
  BY <1>1 DEF Counted, PinsOf, On

LEMMA RunsOnce ==
    ASSUME PoolInv, OnceInv, NEW w \in Workers, NEW r \in Requests, NEW s, NEW v, Run(w, r, s, v), ~Runs(w, r)
    PROVE  /\ pins' = [x \in Workers |-> pins'[x]] /\ \A x \in Workers : Counted(x)'
           /\ \A x \in Workers : x # w => executing'[x] = executing[x]
           /\ \A c : (\E e \in executing'[w] : e.req = c) <=> Runs(w, c) \/ c = r
<1> DEFINE n == [req |-> r, src |-> s, ver |-> v]
<1>1. /\ executing' = [executing EXCEPT ![w] = @ \cup {n}] /\ executing = [x \in Workers |-> executing[x]]
      /\ pins' = [pins EXCEPT ![w] = pin(@, n.src)] /\ pins = [x \in Workers |-> pins[x]]
  BY DEF Run, PoolInv, PortsInv, OnceInv
<1>2. n.req = r
  OBVIOUS
<1>3. n \notin executing[w]
  BY <1>2 DEF Runs
<1> HIDE DEF n
<1>4. /\ executing'[w] = executing[w] \cup {n} /\ pins'[w] = pin(pins[w], n.src)
      /\ \A x \in Workers : x # w => executing'[x] = executing[x] /\ pins'[x] = pins[x]
  BY <1>1
<1>5. IsFiniteSet(executing'[w]) /\ pins'[w] = PinsOf(executing'[w])
  BY <1>3, <1>4, PinsOne DEF OnceInv, Counted
<1>6. \A x \in Workers : Counted(x)'
  BY <1>4, <1>5, CountedAfter DEF OnceInv
<1>7. QED
  BY <1>1, <1>2, <1>4, <1>6 DEF Runs

LEMMA LoadOnce ==
    ASSUME PoolInv, CallsInv, OnceInv, NEW w \in Workers, handleLoad(w)
    PROVE  OnceInv'
<1>1. /\ Head(inbox[w]).type = "load" /\ Consume(w) /\ inbox[w] # <<>>
      /\ UNCHANGED <<query, pins, executing>>
      /\ jobs' = jobs \/ Starts(w, Head(inbox[w]).src, NoRequest)
  BY DEF handleLoad, Receives, mainVars
<1> DEFINE n == [src |-> Head(inbox[w]).src, req |-> NoRequest, from |-> files[Head(inbox[w]).src]]
<1>2. /\ \A x \in Workers : x # w => jobs'[x] = jobs[x]
      /\ \A j \in DOMAIN jobs'[w] : j.req \in Requests =>
            j \in DOMAIN jobs[w] /\ jobs'[w][j] = jobs[w][j]
  <2>1. CASE jobs' = jobs
    BY <2>1
  <2>2. CASE Starts(w, Head(inbox[w]).src, NoRequest)
    <3> DEFINE b == jobs[w] (+) SetToBag({n})
    <3>1. jobs' = [jobs EXCEPT ![w] = b] /\ jobs = [x \in Workers |-> jobs[x]] /\ n.req = NoRequest
      BY <2>2 DEF Starts, PoolInv, PortsInv
    <3> HIDE DEF n
    <3>2. IsABag(jobs[w])
      BY DEF CallsInv, Wired
    <3>3. DOMAIN b = DOMAIN jobs[w] \cup {n} /\ \A y \in DOMAIN jobs[w] : y # n => b[y] = jobs[w][y]
      BY <3>2, OneMore
    <3> HIDE DEF b
    <3>4. QED
      BY <3>1, <3>3, AbsentAssumption
  <2>3. QED
    BY <1>1, <2>1, <2>2
<1>3. /\ OneAsk(inbox'[w]) /\ \A x \in Workers : x # w => inbox'[x] = inbox[x]
      /\ \A r : MessageFor(inbox'[w], "query", r) => MessageFor(inbox[w], "query", r)
  BY <1>1, TakesAsk
<1>4. BookedStays
  BY <1>1 DEF BookedStays
<1>5. Once(w)'
  BY <1>1, <1>2, <1>3, <1>4, OnceLess DEF OnceInv
<1>6. \A x \in Workers : x # w => Once(x)'
  BY <1>1, <1>2, <1>3, <1>4, OnceSame DEF OnceInv
<1>7. QED
  BY <1>1, <1>5, <1>6 DEF OnceInv, Counted, PinsOf, On

LEMMA OtherOnce ==
    ASSUME PoolInv, OnceInv, NEW w \in Workers, handleCancel(w) \/ handleInvalidate(w)
    PROVE  OnceInv'
<1>1. Consume(w) /\ inbox[w] # <<>> /\ UNCHANGED <<query, jobs, pins, executing>>
  BY DEF handleCancel, handleInvalidate, Receives, mainVars, storeVars
<1>2. /\ OneAsk(inbox'[w]) /\ \A x \in Workers : x # w => inbox'[x] = inbox[x]
      /\ \A r : MessageFor(inbox'[w], "query", r) => MessageFor(inbox[w], "query", r)
  BY <1>1, TakesAsk
<1>3. BookedStays
  BY <1>1 DEF BookedStays
<1>4. Once(w)'
  BY <1>1, <1>2, <1>3, OnceLess DEF OnceInv
<1>5. \A x \in Workers : x # w => Once(x)'
  BY <1>1, <1>2, <1>3, OnceSame DEF OnceInv
<1>6. QED
  BY <1>1, <1>4, <1>5 DEF OnceInv, Counted, PinsOf, On

LEMMA QueryOnce ==
    ASSUME PoolInv, CallsInv, OnceInv, NEW w \in Workers, handleQuery(w)
    PROVE  OnceInv'
<1> DEFINE m == Head(inbox[w])
           c == m.req
<1>1. m.type = "query" /\ Consume(w) /\ inbox[w] # <<>> /\ UNCHANGED query
  BY DEF handleQuery, Receives, mainVars
<1>2. c \in Requests
  BY <1>1, HeadAsk DEF GoodAsk, PoolInv, PortsInv
<1>3. /\ OneAsk(inbox'[w]) /\ \A x \in Workers : x # w => inbox'[x] = inbox[x]
      /\ \A r : /\ MessageFor(inbox'[w], "query", r) => MessageFor(inbox[w], "query", r)
                /\ IsFor(m, "query", r) =>
                     MessageFor(inbox[w], "query", r) /\ ~MessageFor(inbox'[w], "query", r)
  BY <1>1, TakesAsk
<1>4. IsFor(m, "query", c)
  BY <1>1 DEF IsFor
<1>5. Asks(w, c) /\ ~MessageFor(inbox'[w], "query", c) /\ ~Builds(w, c) /\ ~Runs(w, c) /\ query[c].at # "new"
  BY <1>2, <1>3, <1>4 DEF Asks, OnceInv, Once
<1>6. BookedStays
  BY <1>1 DEF BookedStays
<1>7. \/ \E s, v : Run(w, c, s, v) /\ jobs' = jobs
      \/ jobs' = jobs /\ executing' = executing /\ pins' = pins
      \/ \E s : Starts(w, s, c) /\ executing' = executing /\ pins' = pins
  BY DEF handleQuery
<1> HIDE DEF m
<1> HIDE DEF c
<1>8. ASSUME NEW s, NEW v, Run(w, c, s, v), jobs' = jobs
      PROVE  OnceInv'
  <2>1. /\ pins' = [x \in Workers |-> pins'[x]] /\ \A x \in Workers : Counted(x)'
        /\ \A x \in Workers : x # w => executing'[x] = executing[x]
        /\ \A r : (\E e \in executing'[w] : e.req = r) <=> Runs(w, r) \/ r = c
    BY <1>2, <1>5, <1>8, RunsOnce
  <2>2. Once(w)'
    <3>1. OneBuild(jobs'[w]) /\ OneAsk(inbox'[w])
      BY <1>3, <1>8 DEF OnceInv, Once
    <3>2. \A r \in Requests : /\ Asks(w, r)' => Asks(w, r) /\ r # c
                              /\ Builds(w, r)' => Builds(w, r) /\ r # c
                              /\ Runs(w, r)' => Runs(w, r) \/ r = c
      BY <1>3, <1>5, <1>8, <2>1 DEF Asks, Builds, Runs
    <3>3. QED
      BY <1>1, <1>5, <3>1, <3>2 DEF OnceInv, Once
  <2>3. \A x \in Workers : x # w => Once(x)'
    BY <1>3, <1>6, <1>8, <2>1, OnceSame DEF OnceInv
  <2>4. QED
    BY <2>1, <2>2, <2>3 DEF OnceInv
<1>9. CASE jobs' = jobs /\ executing' = executing /\ pins' = pins
  <2>1. Once(w)'
    BY <1>3, <1>6, <1>9, OnceLess DEF OnceInv
  <2>2. \A x \in Workers : x # w => Once(x)'
    BY <1>3, <1>6, <1>9, OnceSame DEF OnceInv
  <2>3. QED
    BY <1>9, <2>1, <2>2 DEF OnceInv, Counted, PinsOf, On
<1>10. ASSUME NEW s, Starts(w, s, c), executing' = executing, pins' = pins
       PROVE  OnceInv'
  <2> DEFINE n == [src |-> s, req |-> c, from |-> files[s]]
             b == jobs[w] (+) SetToBag({n})
  <2>1. jobs' = [jobs EXCEPT ![w] = b] /\ jobs = [x \in Workers |-> jobs[x]] /\ n.req = c
    BY <1>10 DEF Starts, PoolInv, PortsInv
  <2> HIDE DEF n
  <2>2. IsABag(jobs[w]) /\ n \notin DOMAIN jobs[w]
    BY <1>5, <2>1 DEF CallsInv, Wired, Builds
  <2>3. /\ DOMAIN b = DOMAIN jobs[w] \cup {n} /\ \A y \in DOMAIN jobs[w] : y # n => b[y] = jobs[w][y]
        /\ b[n] = 1
    BY <2>2, OneMore
  <2> HIDE DEF b
  <2>4. jobs'[w] = b /\ \A x \in Workers : x # w => jobs'[x] = jobs[x]
    BY <2>1
  <2>5. OneBuild(b)
    <3>1. OneBuild(jobs[w])
      BY DEF OnceInv, Once
    <3>2. \A j \in DOMAIN b : j.req = c => j = n
      BY <1>5, <2>3 DEF Builds
    <3>3. QED
      BY <2>1, <2>2, <2>3, <3>1, <3>2 DEF OneBuild
  <2>6. Once(w)'
    <3>1. \A r \in Requests : /\ Asks(w, r)' => Asks(w, r) /\ r # c
                              /\ Builds(w, r)' => Builds(w, r) \/ r = c
                              /\ Runs(w, r)' => Runs(w, r)
      BY <1>3, <1>5, <1>10, <2>1, <2>3, <2>4 DEF Asks, Builds, Runs
    <3>2. \A r \in Requests : Runs(w, r) => r # c
      BY <1>5
    <3>3. OneBuild(jobs'[w]) /\ OneAsk(inbox'[w])
      BY <1>3, <2>4, <2>5
    <3>4. QED
      BY <1>1, <1>5, <3>1, <3>2, <3>3 DEF OnceInv, Once
  <2>7. \A x \in Workers : x # w => Once(x)'
    BY <1>3, <1>6, <1>10, <2>4, OnceSame DEF OnceInv
  <2>8. QED
    BY <1>10, <2>6, <2>7 DEF OnceInv, Counted, PinsOf, On
<1>11. QED
  BY <1>7, <1>8, <1>9, <1>10

LEMMA BuildOnce ==
    ASSUME PoolInv, CallsInv, OnceInv, NEW w \in Workers, NEW j, Built(w, j) \/ BuildFails(w, j)
    PROVE  OnceInv'
<1> DEFINE b == jobs[w] (-) SetToBag({j})
<1>1. /\ j \in DOMAIN jobs[w] /\ jobs' = [jobs EXCEPT ![w] = b] /\ jobs = [x \in Workers |-> jobs[x]]
      /\ UNCHANGED <<query, inbox>>
  BY DEF Built, BuildFails, Finishes, BagToSet, mainVars, PoolInv, PortsInv
<1>2. IsABag(jobs[w]) /\ Once(w)
  BY DEF CallsInv, Wired, OnceInv
<1>3. /\ DOMAIN b = IF jobs[w][j] = 1 THEN DOMAIN jobs[w] \ {j} ELSE DOMAIN jobs[w]
      /\ \A y \in DOMAIN jobs[w] : y # j => b[y] = jobs[w][y]
  BY <1>1, <1>2, OneLess
<1> HIDE DEF b
<1>4. /\ jobs'[w] = b /\ \A x \in Workers : x # w => jobs'[x] = jobs[x]
      /\ j.req \in Requests => jobs[w][j] = 1 /\ \A k \in DOMAIN b : k.req # j.req
      /\ \A k \in DOMAIN b : k.req \in Requests => k \in DOMAIN jobs[w] /\ b[k] = jobs[w][k]
  BY <1>1, <1>2, <1>3 DEF Once, OneBuild
<1>5. BookedStays
  BY <1>1 DEF BookedStays
<1>6. j.req \in Requests \cup {NoRequest}
  BY <1>1 DEF PoolInv, PortsInv
<1>7. \/ UNCHANGED <<pins, executing>>
      \/ j.req # NoRequest /\ \E v : Run(w, j.req, j.src, v)
  BY DEF Built, BuildFails
<1>8. CASE UNCHANGED <<pins, executing>>
  <2>1. OneAsk(inbox'[w])
    BY <1>1, <1>2 DEF Once
  <2>2. Once(w)'
    BY <1>1, <1>2, <1>4, <1>5, <1>8, <2>1, OnceLess
  <2>3. \A x \in Workers : x # w => Once(x)'
    BY <1>1, <1>4, <1>5, <1>8, OnceSame DEF OnceInv
  <2>4. QED
    BY <1>8, <2>2, <2>3 DEF OnceInv, Counted, PinsOf, On
<1>9. ASSUME NEW v, j.req # NoRequest, Run(w, j.req, j.src, v)
      PROVE  OnceInv'
  <2> DEFINE c == j.req
  <2>1. c \in Requests /\ Builds(w, c)
    BY <1>1, <1>6, <1>9 DEF Builds
  <2>2. ~Runs(w, c) /\ ~Asks(w, c) /\ query[c].at # "new"
    BY <1>2, <2>1 DEF Once
  <2>3. /\ pins' = [x \in Workers |-> pins'[x]] /\ \A x \in Workers : Counted(x)'
        /\ \A x \in Workers : x # w => executing'[x] = executing[x]
        /\ \A r : (\E e \in executing'[w] : e.req = r) <=> Runs(w, r) \/ r = c
    BY <1>9, <2>1, <2>2, RunsOnce
  <2>4. Once(w)'
    <3>1. OneBuild(jobs'[w]) /\ OneAsk(inbox'[w])
      BY <1>1, <1>2, <1>4 DEF Once, OneBuild
    <3>2. \A r \in Requests : /\ Asks(w, r)' => Asks(w, r) /\ r # c
                              /\ Builds(w, r)' => Builds(w, r) /\ r # c
                              /\ Runs(w, r)' => Runs(w, r) \/ r = c
      BY <1>1, <1>4, <2>1, <2>2, <2>3 DEF Asks, Builds, Runs
    <3>3. QED
      BY <1>1, <1>2, <2>2, <3>1, <3>2 DEF Once
  <2>5. \A x \in Workers : x # w => Once(x)'
    BY <1>1, <1>4, <1>5, <2>3, OnceSame DEF OnceInv
  <2>6. QED
    BY <2>3, <2>4, <2>5 DEF OnceInv
<1>10. QED
  BY <1>7, <1>8, <1>9

LEMMA EndOnce ==
    ASSUME PoolInv, OnceInv, NEW w \in Workers, NEW e, NEW out, QueryEnds(w, e, out)
    PROVE  OnceInv'
<1>1. /\ e \in executing[w] /\ executing' = [executing EXCEPT ![w] = @ \ {e}]
      /\ executing = [x \in Workers |-> executing[x]]
      /\ pins' = [pins EXCEPT ![w] = unpin(@, e.src)] /\ pins = [x \in Workers |-> pins[x]]
      /\ UNCHANGED <<query, inbox, jobs>>
  BY DEF QueryEnds, mainVars, PoolInv, PortsInv, OnceInv
<1>2. /\ executing'[w] = executing[w] \ {e} /\ pins'[w] = unpin(pins[w], e.src)
      /\ \A x \in Workers : x # w => executing'[x] = executing[x] /\ pins'[x] = pins[x]
  BY <1>1
<1>3. IsFiniteSet(executing'[w]) /\ pins'[w] = PinsOf(executing'[w])
  BY <1>1, <1>2, UnpinsOne DEF OnceInv, Counted
<1>4. \A x \in Workers : Counted(x)'
  BY <1>2, <1>3, CountedAfter DEF OnceInv
<1>5. BookedStays /\ OneAsk(inbox'[w])
  BY <1>1 DEF BookedStays, OnceInv, Once
<1>6. Once(w)'
  BY <1>1, <1>2, <1>5, OnceLess DEF OnceInv
<1>7. \A x \in Workers : x # w => Once(x)'
  BY <1>1, <1>2, <1>5, OnceSame DEF OnceInv
<1>8. QED
  BY <1>1, <1>4, <1>6, <1>7 DEF OnceInv

-----------------------------------------------------------------------------
(* What is posted asks nothing, or a new request once.                     *)
Fresh(msgs) == \A r : MessageFor(msgs, "query", r) => r \in Requests /\ query[r].at = "new"

LEMMA AddsOnce ==
    ASSUME PoolInv, OnceInv, NEW w \in Workers, NEW S, NEW msgs \in Seq(S), OneAsk(msgs), Fresh(msgs)
    PROVE  LET q == inbox[w] \o msgs IN
           OneAsk(q) /\ \A r : MessageFor(q, "query", r)
                                 <=> MessageFor(inbox[w], "query", r) \/ MessageFor(msgs, "query", r)
<1>1. PICK T : inbox[w] \in Seq(T)
  BY DEF PoolInv, PortsInv, GoodIn
<1>2. inbox[w] \in Seq(S \cup T) /\ msgs \in Seq(S \cup T)
  BY <1>1, SeqMonotonic
<1>3. OneAsk(inbox[w]) /\ \A r : ~(MessageFor(inbox[w], "query", r) /\ MessageFor(msgs, "query", r))
  BY DEF OnceInv, Once, Asks, Fresh
<1>4. OneAsk(inbox[w] \o msgs)
  BY <1>2, <1>3, OneAskConcat
<1>5. \A r : MessageFor(inbox[w] \o msgs, "query", r)
               <=> MessageFor(inbox[w], "query", r) \/ MessageFor(msgs, "query", r)
  BY <1>2, ForConcat
<1>6. QED
  BY <1>4, <1>5

Adds(msgs) ==
    \A x \in Workers :
       /\ OneAsk(inbox'[x])
       /\ \A r : MessageFor(inbox'[x], "query", r)
                    => MessageFor(inbox[x], "query", r) \/ MessageFor(msgs, "query", r)

LEMMA PostOnce ==
    ASSUME PoolInv, OnceInv, NEW s \in Sources, NEW S, NEW msgs \in Seq(S), OneAsk(msgs), Fresh(msgs),
           Post(s, msgs)
    PROVE  Adds(msgs)
<1> DEFINE a == Assign[s]
<1>1. a \in Indexes /\ inbox = [x \in Workers |-> inbox[x]] /\ \A x \in Workers : OneAsk(inbox[x])
  BY AssignAssumption DEF PoolInv, PortsInv, OnceInv, Once
<1>2. CASE workers[a] # NoWorker
  <2> DEFINE w == workers[a]
             more == inbox[w] \o msgs
  <2>1. w \in Workers /\ inbox' = [inbox EXCEPT ![w] = more]
    BY <1>1, <1>2 DEF Post, PoolInv, PortsInv
  <2>2. OneAsk(more) /\ \A r : MessageFor(more, "query", r)
           <=> MessageFor(inbox[w], "query", r) \/ MessageFor(msgs, "query", r)
    BY <2>1, AddsOnce
  <2> HIDE DEF more
  <2>3. \A x \in Workers : inbox'[x] = IF x = w THEN more ELSE inbox[x]
    BY <1>1, <2>1
  <2>4. QED
    BY <1>1, <2>2, <2>3 DEF Adds
<1>3. CASE workers[a] = NoWorker
  <2>1. PICK w \in Workers : inbox' = [inbox EXCEPT ![w] = msgs]
    BY <1>3 DEF Post, Free
  <2>2. \A x \in Workers : inbox'[x] = IF x = w THEN msgs ELSE inbox[x]
    BY <1>1, <2>1
  <2>3. QED
    BY <1>1, <2>2 DEF Adds
<1>4. QED
  BY <1>2, <1>3

(* A step of the callers or of the main loop, if it asks no query.         *)
LEMMA AddsNothing ==
    ASSUME OnceInv, NEW msgs, Adds(msgs), BookedStays, \A r : ~MessageFor(msgs, "query", r),
           UNCHANGED <<jobs, executing, pins>>
    PROVE  OnceInv'
<1>1. \A x \in Workers : Once(x)'
  BY OnceLess DEF OnceInv, Adds
<1>2. QED
  BY <1>1 DEF OnceInv, Counted, PinsOf, On

LEMMA AppendOnce ==
    ASSUME PoolInv, OnceInv, NEW w, NEW m, m.type # "query",
           inbox' = [inbox EXCEPT ![w] = Append(@, m)]
    PROVE  Adds(<<m>>) /\ \A r : ~MessageFor(<<m>>, "query", r)
<1>1. \A r : ~MessageFor(<<m>>, "query", r)
  BY ForOne DEF IsFor
<1>2. <<m>> \in Seq({m}) /\ OneAsk(<<m>>)
  <2>1. <<m>> \in Seq({m}) /\ Len(<<m>>) = 1 /\ \A i, k \in 1 .. 1 : i = k
    OBVIOUS
  <2>2. QED
    BY <2>1 DEF OneAsk
<1>3. ASSUME NEW x \in Workers
      PROVE  /\ OneAsk(Append(inbox[x], m))
             /\ \A r : MessageFor(Append(inbox[x], m), "query", r) => MessageFor(inbox[x], "query", r)
  <2>1. Fresh(<<m>>)
    BY <1>1 DEF Fresh
  <2>2. OneAsk(inbox[x] \o <<m>>) /\ \A r : MessageFor(inbox[x] \o <<m>>, "query", r)
           <=> MessageFor(inbox[x], "query", r) \/ MessageFor(<<m>>, "query", r)
    BY <1>2, <2>1, AddsOnce
  <2>3. Append(inbox[x], m) = inbox[x] \o <<m>>
    <3>1. PICK T : inbox[x] \in Seq(T)
      BY DEF PoolInv, PortsInv, GoodIn
    <3>2. inbox[x] \in Seq(T \cup {m}) /\ m \in T \cup {m}
      BY <3>1, SeqMonotonic
    <3>3. QED
      BY <3>2
  <2>4. QED
    BY <1>1, <2>2, <2>3
<1>4. inbox = [x \in Workers |-> inbox[x]] /\ \A x \in Workers : OneAsk(inbox[x])
  BY DEF PoolInv, PortsInv, OnceInv, Once
<1>5. \A x \in Workers : inbox'[x] = inbox[x] \/ inbox'[x] = Append(inbox[x], m)
  BY <1>4
<1>6. Adds(<<m>>)
  BY <1>3, <1>4, <1>5 DEF Adds
<1>7. QED
  BY <1>1, <1>6

LEMMA QueryAskedOnce ==
    ASSUME PoolInv, OnceInv, NEW r \in Requests, NEW s \in Sources, NEW aborted \in BOOLEAN,
           Query(r, s, aborted)
    PROVE  OnceInv'
<1> DEFINE q == AsAsked(r, s, aborted, dropped[s])
           m == QueryMsg(r)
           n == CancelMsg(r)
           msgs == IF aborted THEN <<m, n>> ELSE <<m>>
<1>1. /\ query[r] = NewQuery /\ query' = [query EXCEPT ![r] = q] /\ Post(s, msgs)
      /\ UNCHANGED <<jobs, executing, pins>>
  BY DEF Query, storeVars, AsAsked
<1>2. query[r].at = "new"
  BY <1>1 DEF NewQuery
<1>3. q.at = "pending"
  BY Asking DEF PoolInv, BooksInv
<1> HIDE DEF q
<1>4. \A x \in Requests : query'[x] = IF x = r THEN q ELSE query[x]
  BY <1>1 DEF PoolInv, BooksInv
<1>5. \A x \in Requests : query'[x].at = IF x = r THEN "pending" ELSE query[x].at
  BY <1>3, <1>4
<1>6. msgs \in Seq({m, n}) /\ OneAsk(msgs) /\ \A x : MessageFor(msgs, "query", x) => x = r
  <2>1. m.type = "query" /\ m.req = r /\ n.type = "cancel"
    BY DEF QueryMsg, CancelMsg
  <2> HIDE DEF m, n
  <2>2. \A x : /\ MessageFor(<<m>>, "query", x) <=> IsFor(m, "query", x)
               /\ MessageFor(<<m, n>>, "query", x) <=> IsFor(m, "query", x) \/ IsFor(n, "query", x)
    BY ForOne, ForTwo
  <2>3. \A x : ~IsFor(n, "query", x) /\ (IsFor(m, "query", x) => x = r)
    BY <2>1 DEF IsFor
  <2>4. <<m>> \in Seq({m, n}) /\ <<m, n>> \in Seq({m, n}) /\ Len(<<m>>) = 1 /\ Len(<<m, n>>) = 2
        /\ <<m, n>>[2] = n
    OBVIOUS
  <2>5. OneAsk(<<m>>)
    <3>1. \A i, k \in 1 .. 1 : i = k
      OBVIOUS
    <3>2. QED
      BY <2>4, <3>1 DEF OneAsk
  <2>6. OneAsk(<<m, n>>)
    <3>1. \A i \in 1 .. 2 : i = 1 \/ i = 2
      OBVIOUS
    <3>2. <<m, n>>[2].type # "query"
      BY <2>1, <2>4
    <3>3. QED
      BY <2>4, <3>1, <3>2 DEF OneAsk
  <2>7. QED
    BY <2>2, <2>3, <2>4, <2>5, <2>6
<1> HIDE DEF msgs
<1>7. Adds(msgs)
  BY <1>1, <1>2, <1>6, PostOnce DEF Fresh
<1>8. ASSUME NEW w \in Workers PROVE Once(w)'
  <2>1. ~Asks(w, r) /\ ~Builds(w, r) /\ ~Runs(w, r) /\ Once(w)
    BY <1>2 DEF OnceInv, Once
  <2>2. \A x \in Requests : /\ Asks(w, x)' => Asks(w, x) \/ x = r
                            /\ Builds(w, x)' <=> Builds(w, x)
                            /\ Runs(w, x)' <=> Runs(w, x)
    BY <1>1, <1>6, <1>7 DEF Adds, Asks, Builds, Runs
  <2>3. OneAsk(inbox'[w]) /\ OneBuild(jobs'[w])
    BY <1>1, <1>7, <2>1 DEF Adds, Once, OneBuild
  <2>4. QED
    BY <1>5, <2>1, <2>2, <2>3 DEF Once
<1>9. QED
  BY <1>1, <1>8 DEF OnceInv, Counted, PinsOf, On

-----------------------------------------------------------------------------
LEMMA NoAsk == OneAsk(<<>>) /\ \A type, what : ~MessageFor(<<>>, type, what)
<1>1. Len(<<>>) = 0 /\ \A i \in 1 .. 0 : FALSE
  OBVIOUS
<1>2. OneAsk(<<>>)
  BY <1>1 DEF OneAsk
<1>3. QED
  BY <1>2, ForOne

LEMMA ReclaimBooked ==
    ASSUME PoolInv, NEW i, reclaim(i)
    PROVE  BookedStays
<1> DEFINE lost(r) == SettledAs(r, "lost", 0)
<1>1. query' = [r \in Requests |-> IF Pending(r) /\ indexOf(r) = i THEN lost(r) ELSE query[r]]
  BY DEF reclaim
<1>2. \A r \in Requests : lost(r).at = "settled"
  BY Settling DEF PoolInv, BooksInv
<1> HIDE DEF lost
<1>3. QED
  BY <1>1, <1>2 DEF BookedStays

LEMMA LoopOnce ==
    ASSUME PoolInv, OnceInv, LoopStep
    PROVE  OnceInv'
<1>1. ASSUME NEW r \in Requests, GraceExpires(r) PROVE OnceInv'
  <2>1. BookedStays /\ UNCHANGED <<inbox, jobs, executing, pins>>
    BY <1>1, ReclaimBooked DEF GraceExpires, portVars, storeVars
  <2>2. \A x \in Workers : Once(x)'
    BY <2>1, OnceSame DEF OnceInv
  <2>3. QED
    BY <2>1, <2>2 DEF OnceInv, Counted, PinsOf, On
<1>2. ASSUME NEW w \in Workers, onMessage(w) PROVE OnceInv'
  <2> DEFINE m == Head(outbox[w])
             answered == SettledAs(m.req, m.out, m.ver)
  <2>1. UNCHANGED <<inbox, jobs, executing, pins>> /\ GoodAnswer(m)
    BY <1>2, HeadAnswer DEF onMessage, storeVars, PoolInv, PortsInv
  <2>2. \/ query' = query
        \/ m.req \in Requests /\ query' = [query EXCEPT ![m.req] = answered]
    BY <1>2, <2>1 DEF onMessage, GoodAnswer
  <2>3. m.req \in Requests => answered.at = "settled"
    BY Settling DEF PoolInv, BooksInv
  <2> HIDE DEF answered, m
  <2>4. BookedStays
    BY <2>2, <2>3 DEF BookedStays, PoolInv, BooksInv
  <2>5. \A x \in Workers : Once(x)'
    BY <2>1, <2>4, OnceSame DEF OnceInv
  <2>6. QED
    BY <2>1, <2>5 DEF OnceInv, Counted, PinsOf, On
<1>3. ASSUME NEW w \in Workers, onWorkerExit(w) PROVE OnceInv'
  <2>1. /\ inbox' = [inbox EXCEPT ![w] = <<>>] /\ jobs' = [jobs EXCEPT ![w] = EmptyBag]
        /\ executing' = [executing EXCEPT ![w] = {}] /\ pins' = [pins EXCEPT ![w] = [s \in Sources |-> 0]]
        /\ inbox = [x \in Workers |-> inbox[x]] /\ jobs = [x \in Workers |-> jobs[x]]
        /\ executing = [x \in Workers |-> executing[x]] /\ pins = [x \in Workers |-> pins[x]]
    BY <1>3 DEF onWorkerExit, Reused, PoolInv, PortsInv, OnceInv
  <2>2. DOMAIN EmptyBag = {}
    BY DEF EmptyBag, SetToBag
  <2> DEFINE zero == [s \in Sources |-> 0]
             none == EmptyBag
  <2>3. IsFiniteSet({}) /\ zero = PinsOf({})
    <3>1. \A s : On({}, s) = {}
      BY DEF On
    <3>2. QED
      BY <3>1, FS_EmptySet DEF PinsOf
  <2> HIDE DEF zero, none
  <2>4. \A x \in Workers : IF x = w THEN /\ inbox'[x] = <<>> /\ jobs'[x] = none
                                         /\ executing'[x] = {} /\ pins'[x] = zero
                           ELSE UNCHANGED <<inbox[x], jobs[x], executing[x], pins[x]>>
    BY <2>1 DEF zero, none
  <2>5. BookedStays
    <3>1. query' = query \/ \E i : reclaim(i)
      BY <1>3 DEF onWorkerExit
    <3>2. QED
      BY <3>1, ReclaimBooked DEF BookedStays
  <2>6. OneAsk(<<>>) /\ \A r : ~MessageFor(<<>>, "query", r)
    BY NoAsk
  <2>7. Once(w)'
    BY <2>2, <2>4, <2>5, <2>6, OnceLess DEF OnceInv, none
  <2>8. \A x \in Workers : x # w => Once(x)'
    BY <2>4, <2>5, OnceSame DEF OnceInv
  <2>9. \A x \in Workers : Counted(x)'
    BY <2>3, <2>4 DEF OnceInv, Counted, PinsOf, On
  <2>10. pins' = [x \in Workers |-> pins'[x]]
    BY <2>1
  <2>11. QED
    BY <2>7, <2>8, <2>9, <2>10 DEF OnceInv
<1>4. QED
  BY <1>1, <1>2, <1>3 DEF LoopStep

LEMMA CallerOnce ==
    ASSUME PoolInv, OnceInv, CallerStep
    PROVE  OnceInv'
<1>1. ASSUME NEW s \in Sources, ensureLoaded(s) PROVE OnceInv'
  <2> DEFINE m == LoadMsg(s)
  <2>1. UNCHANGED <<query, jobs, executing, pins>> /\ BookedStays
    BY <1>1 DEF ensureLoaded, storeVars, BookedStays
  <2>2. CASE inbox' = inbox
    <3>1. \A x \in Workers : Once(x)'
      BY <2>1, <2>2, OnceSame DEF OnceInv
    <3>2. QED
      BY <2>1, <3>1 DEF OnceInv, Counted, PinsOf, On
  <2>3. CASE Post(s, <<m>>)
    <3>1. m.type = "load" /\ <<m>> \in Seq({m}) /\ Len(<<m>>) = 1 /\ \A i, k \in 1 .. 1 : i = k
      BY DEF LoadMsg
    <3> HIDE DEF m
    <3>2. OneAsk(<<m>>) /\ \A r : ~MessageFor(<<m>>, "query", r)
      BY <3>1, ForOne DEF OneAsk, IsFor
    <3>3. Adds(<<m>>)
      BY <2>3, <3>1, <3>2, PostOnce DEF Fresh
    <3>4. QED
      BY <2>1, <3>2, <3>3, AddsNothing
  <2>4. QED
    BY <1>1, <2>2, <2>3 DEF ensureLoaded
<1>2. ASSUME NEW s \in Sources, invalidate(s) PROVE OnceInv'
  <2>1. UNCHANGED <<query, jobs, executing, pins>> /\ BookedStays /\ InvalidateMsg(s).type # "query"
    BY <1>2 DEF invalidate, mainVars, storeVars, BookedStays, InvalidateMsg
  <2>2. CASE inbox' = inbox
    <3>1. \A x \in Workers : Once(x)'
      BY <2>1, <2>2, OnceSame DEF OnceInv
    <3>2. QED
      BY <2>1, <3>1 DEF OnceInv, Counted, PinsOf, On
  <2>3. CASE inbox' = [inbox EXCEPT ![workers[Assign[s]]] = Append(@, InvalidateMsg(s))]
    BY <2>1, <2>3, AppendOnce, AddsNothing
  <2>4. QED
    BY <1>2, <2>2, <2>3 DEF invalidate, Invalidated
<1>3. ASSUME NEW r \in Requests, onCancel(r) PROVE OnceInv'
  <2> DEFINE yes == TRUE
             q == [query[r] EXCEPT !.armed = yes]
  <2>1. /\ query' = [query EXCEPT ![r] = q] /\ UNCHANGED <<jobs, executing, pins>>
        /\ inbox' = [inbox EXCEPT ![workers[indexOf(r)]] = Append(@, CancelMsg(r))]
        /\ CancelMsg(r).type # "query"
    BY <1>3 DEF onCancel, storeVars, CancelMsg
  <2>2. q.at = query[r].at
    <3> HIDE DEF yes
    <3>1. QED
      BY DEF PoolInv, BooksInv, Record
  <2> HIDE DEF q
  <2>3. BookedStays
    BY <2>1, <2>2 DEF BookedStays, PoolInv, BooksInv
  <2>4. QED
    BY <2>1, <2>3, AppendOnce, AddsNothing
<1>4. CASE shutdown
  <2> DEFINE no == FALSE
             q(r) == [query[r] EXCEPT !.armed = no]
  <2>1. query' = [r \in Requests |-> q(r)] /\ UNCHANGED <<inbox, jobs, executing, pins>>
    BY <1>4 DEF shutdown, portVars, storeVars
  <2>2. \A r \in Requests : q(r).at = query[r].at
    <3> HIDE DEF no
    <3>1. QED
      BY DEF PoolInv, BooksInv, Record
  <2> HIDE DEF q
  <2>3. BookedStays
    BY <2>1, <2>2 DEF BookedStays
  <2>4. \A x \in Workers : Once(x)'
    BY <2>1, <2>3, OnceSame DEF OnceInv
  <2>5. QED
    BY <2>1, <2>4 DEF OnceInv, Counted, PinsOf, On
<1>5. QED
  BY <1>1, <1>2, <1>3, <1>4, QueryAskedOnce DEF CallerStep

LEMMA StepOnce ==
    ASSUME PoolInv, CallsInv, OnceInv, [PoolNext]_poolVars
    PROVE  OnceInv'
<1>1. CASE CallerStep \/ LoopStep
  BY <1>1, CallerOnce, LoopOnce
<1>2. ASSUME NEW w \in Workers, WorkerStep(w) PROVE OnceInv'
  <2>1. CASE Handles(w)
    BY <2>1, LoadOnce, QueryOnce, OtherOnce DEF Handles
  <2>2. CASE \E r \in Requests \cup {NoRequest} : BuildEnds(w, r)
    BY <2>2, BuildOnce DEF BuildEnds
  <2>3. CASE \E r \in Requests : RunEnds(w, r)
    BY <2>3, EndOnce DEF RunEnds
  <2>4. QED
    BY <1>2, <2>1, <2>2, <2>3 DEF WorkerStep
<1>3. CASE \/ UNCHANGED poolVars \/ \E s \in Sources : Edit(s)
           \/ \E w \in Workers : GetsStuck(w) \/ Dies(w)
  <2>1. UNCHANGED <<query, inbox, jobs, executing, pins>> /\ BookedStays
    BY <1>3 DEF Edit, GetsStuck, Dies, poolVars, mainVars, portVars, storeVars, BookedStays
  <2>2. \A x \in Workers : Once(x)'
    BY <2>1, OnceSame DEF OnceInv
  <2>3. QED
    BY <2>1, <2>2 DEF OnceInv, Counted, PinsOf, On
<1>4. QED
  BY <1>1, <1>2, <1>3 DEF PoolNext

LEMMA InitBooks ==
    ASSUME NEW asked, NEW version, PoolStart(asked, version)
    PROVE  CallsInv /\ OnceInv
<1>1. \A r \in Requests : query[r].at = "new"
  <2>1. \A r \in Requests : query[r] \in {NewQuery, NeverAsked}
    BY DEF PoolStart
  <2>2. NewQuery.at = "new" /\ NeverAsked.at = "new"
    <3> DEFINE no == FALSE
    <3>1. NewQuery = [at |-> "new", src |-> NoSource, armed |-> no, floor |-> 0, out |-> "none", ver |-> 0]
      BY DEF NewQuery
    <3> HIDE DEF no
    <3>2. QED
      BY <3>1 DEF NeverAsked
  <2>3. QED
    BY <2>1, <2>2
<1>2. IsABag(EmptyBag) /\ DOMAIN EmptyBag = {}
  BY DEF IsABag, EmptyBag, SetToBag
<1>3. CallsInv
  <2> HIDE DEF EmptyBag
  <2>1. Wired
    BY <1>1, <1>2 DEF PoolStart, Wired, Pending
  <2>2. NothingStranded
    BY <1>1 DEF PoolStart, NothingStranded, Pending
  <2>3. QED
    BY <2>1, <2>2 DEF CallsInv
<1>4. ASSUME NEW w \in Workers PROVE Once(w)
  <2> DEFINE none == EmptyBag
  <2>1. inbox[w] = <<>> /\ jobs[w] = none /\ executing[w] = {}
    BY DEF PoolStart
  <2> HIDE DEF none
  <2>2. OneBuild(jobs[w]) /\ \A r : ~Builds(w, r) /\ ~Runs(w, r)
    BY <1>2, <2>1 DEF OneBuild, Builds, Runs, none
  <2>3. OneAsk(inbox[w]) /\ \A r : ~Asks(w, r)
    BY <2>1, NoAsk DEF Asks
  <2>4. QED
    BY <2>2, <2>3 DEF Once
<1>5. ASSUME NEW w \in Workers PROVE Counted(w)
  <2>1. \A s : On({}, s) = {}
    BY DEF On
  <2>2. QED
    BY <2>1, FS_EmptySet DEF PoolStart, Counted, PinsOf
<1>6. QED
  BY <1>3, <1>4, <1>5 DEF OnceInv, PoolStart

(* The books of pool and workers agree: BooksAgree.                         *)
THEOREM BooksAlwaysAgree == PoolSpec => []BooksAgree
<1>1. PoolInit => CallsInv /\ OnceInv
  BY InitBooks DEF PoolInit
<1>2. PoolInv /\ CallsInv /\ OnceInv /\ [PoolNext]_poolVars => (CallsInv /\ OnceInv)'
  BY StepWires, StepOnce
<1>3. CallsInv /\ OnceInv => BooksAgree
  BY DEF CallsInv, OnceInv, Counted, PinsOf, On, BooksAgree
<1>4. QED
  BY <1>1, <1>2, <1>3, PoolInvariant, PTL DEF PoolSpec
=============================================================================
