---------------------- MODULE SourceStateStreamProofs ----------------------
(***************************************************************************)
(* The Sources page's stream, for every set of sources, every capacity of  *)
(* the ring and any number of transitions, lost connections and restarts:  *)
(* an idle server has published every change that was announced, and a     *)
(* connected client misses nothing.                                        *)
(*                                                                         *)
(* The argument is that the ring, and what an open connection has still to *)
(* deliver, are both the newest events without a gap (Feed): an event of a *)
(* source is either in there, or the client has read it.                   *)
(***************************************************************************)
EXTENDS SourceStateStream, FiniteSetTheorems, SequenceTheorems, TLAPS

(* q is the newest of the events below n, and holds the last event of each *)
(* source if that is as recent.                                            *)
FeedOf(q, n, last) ==
    /\ (\E S : q \in Seq(S)) /\ Len(q) < n
    /\ \A i \in 1 .. Len(q) : q[i].id = n - Len(q) + i - 1
    /\ \A i \in 1 .. Len(q), s \in Top :
          /\ q[i].src = s => q[i].id <= last[s].id
          /\ q[i].id = last[s].id => q[i] = last[s]

Feed(q) == FeedOf(q, nextId, sent)

SentInv ==
    /\ nextId \in Nat /\ nextId > 0
    /\ sent = [s \in Top |-> sent[s]]
    /\ \A s \in Top : /\ sent[s].id \in Nat /\ sent[s].id < nextId
                      /\ sent[s].id > 0 => sent[s].src = s
    /\ Feed(ring) /\ (nextId > 1 => ring # <<>>)

(* A member read before it last announced a change has a projection to     *)
(* come.                                                                   *)
Pend(s) == \E j \in 1 .. Len(tail) : TopLevelId(tail[j]) = s
PendAgain(e) == \E j \in 2 .. Len(tail) : tail[j] = e

TailInv ==
    /\ tail \in Seq(Entries)
    /\ state \in [Entries -> Nat] /\ announced \in [Entries -> Nat]
    /\ \A e \in Entries : announced[e] <= state[e]
    /\ tail = <<>> => DOMAIN partial = {}
    /\ \A e \in DOMAIN partial :
          /\ e \in Entries /\ partial[e] \in Nat /\ partial[e] <= state[e]
          /\ partial[e] >= announced[e] \/ PendAgain(e)
    /\ \A s \in Top : sent[s].id > 0 =>
          \A e \in Family(s) :
             /\ sent[s].row[e] \in Nat /\ sent[s].row[e] <= state[e]
             /\ sent[s].row[e] >= announced[e] \/ Pend(s)

(* The client has shown what was published before the event it is at.      *)
Position == IF lastId = 0 THEN base ELSE lastId + 1
SeenBelow(n) ==
    \A s \in Top : sent[s].id > 0 /\ sent[s].id >= base /\ sent[s].id < n
                     => rows[s][s] = sent[s].row[s]

(* A connection delivers a sentinel only first.                            *)
Delivers(q) ==
    /\ \E S : q \in Seq(S)
    /\ \A i \in 1 .. Len(q) : q[i].id \in Nat /\ (q[i].id = 0 => i = 1)

ClientInv ==
    /\ base \in Nat /\ lastId \in Nat
    /\ connected => phase = "streaming" /\ Delivers(channel)
    /\ phase = "streaming" => rows = [s \in Top |-> rows[s]]
    /\ phase = "streaming" /\ fresh =>
          /\ lastId > 0 => base <= lastId /\ lastId < nextId
          /\ SeenBelow(Position)
    /\ connected /\ fresh /\ ~ToldToRefetch => Feed(channel) /\ nextId - Len(channel) = Position

StreamInv == SentInv /\ TailInv /\ ClientInv
-----------------------------------------------------------------------------
(* A new event extends a feed.                                             *)
LEMMA FeedAppend ==
    ASSUME NEW q, NEW n \in Nat, n > 0, NEW last, NEW s, NEW e, FeedOf(q, n, last),
           last = [x \in Top |-> last[x]],
           \A x \in Top : last[x].id \in Nat /\ last[x].id < n,
           e.id = n, e.src = s
    PROVE  FeedOf(Append(q, e), n + 1, [last EXCEPT ![s] = e])
<1> DEFINE r == Append(q, e)  next == [last EXCEPT ![s] = e]
<1>1. PICK S : q \in Seq(S)  BY DEF FeedOf
<1>2. q \in Seq(S \cup {e}) /\ e \in S \cup {e}  BY <1>1, SeqMonotonic
<1>3. /\ r \in Seq(S \cup {e}) /\ Len(r) = Len(q) + 1 /\ r[Len(q) + 1] = e
      /\ Len(q) \in Nat /\ \A i \in 1 .. Len(q) : r[i] = q[i]
  BY <1>2
<1>4. \A x \in Top : next[x] = IF x = s THEN e ELSE last[x]  OBVIOUS
<1> HIDE DEF r, next
<1>a. \A i \in 1 .. Len(q) : q[i].id = n - Len(q) + i - 1
  BY DEF FeedOf
<1>5. ASSUME NEW i \in 1 .. Len(r)  PROVE r[i].id = n + 1 - Len(r) + i - 1
  <2>1. CASE i = Len(q) + 1
    BY <2>1, <1>3
  <2>2. CASE i \in 1 .. Len(q)
    BY <2>2, <1>3, <1>a
  <2> QED  BY <2>1, <2>2, <1>3
<1>6. ASSUME NEW i \in 1 .. Len(r), NEW x \in Top
      PROVE  /\ r[i].src = x => r[i].id <= next[x].id
             /\ r[i].id = next[x].id => r[i] = next[x]
  <2>1. CASE i = Len(q) + 1
    BY <2>1, <1>3, <1>4
  <2>2. CASE i \in 1 .. Len(q)
    <3>1. /\ r[i] = q[i] /\ q[i].id = n - Len(q) + i - 1
          /\ q[i].src = x => q[i].id <= last[x].id
          /\ q[i].id = last[x].id => q[i] = last[x]
      BY <2>2, <1>3 DEF FeedOf
    <3>2. q[i].id < n  BY <3>1, <2>2, <1>3
    <3>3. CASE x = s
      <4>1. next[x] = e  BY <3>3, <1>4
      <4>2. next[x].id = n  BY <4>1
      <4> QED  BY <4>2, <3>1, <3>2
    <3>4. CASE x # s
      <4>1. next[x] = last[x]  BY <3>4, <1>4
      <4> QED  BY <4>1, <3>1
    <3> QED  BY <3>3, <3>4
  <2> QED  BY <2>1, <2>2, <1>3
<1>7. (\E T : r \in Seq(T)) /\ Len(r) < n + 1
  <2>1. Len(q) < n  BY DEF FeedOf
  <2> QED  BY <2>1, <1>3
<1> QED
  <2>1. FeedOf(r, n + 1, next)
    BY <1>5, <1>6, <1>7 DEF FeedOf
  <2> QED  BY <2>1 DEF r, next

(* The oldest event leaves a feed.                                         *)
LEMMA FeedTail ==
    ASSUME NEW q, NEW n \in Nat, NEW last, FeedOf(q, n, last), q # <<>>
    PROVE  FeedOf(Tail(q), n, last) /\ Len(Tail(q)) = Len(q) - 1
<1> DEFINE r == Tail(q)
<1>1. PICK S : q \in Seq(S)  BY DEF FeedOf
<1>2. /\ r \in Seq(S) /\ Len(q) \in Nat /\ Len(r) = Len(q) - 1
      /\ \A i \in 1 .. Len(r) : r[i] = q[i + 1] /\ i + 1 \in 1 .. Len(q)
  BY <1>1
<1> HIDE DEF r
<1>a. Len(q) < n /\ \A i \in 1 .. Len(q) : q[i].id = n - Len(q) + i - 1
  BY DEF FeedOf
<1>3. Len(r) < n
  BY <1>2, <1>a
<1>b. ASSUME NEW i \in 1 .. Len(r)  PROVE r[i].id = n - Len(r) + i - 1
  <2>1. r[i].id = n - Len(q) + (i + 1) - 1  BY <1>2, <1>a
  <2> QED  BY <2>1, <1>2
<1>4. ASSUME NEW i \in 1 .. Len(r), NEW x \in Top
      PROVE  /\ r[i].src = x => r[i].id <= last[x].id
             /\ r[i].id = last[x].id => r[i] = last[x]
  <2>1. /\ q[i + 1].src = x => q[i + 1].id <= last[x].id
        /\ q[i + 1].id = last[x].id => q[i + 1] = last[x]
    BY <1>2 DEF FeedOf
  <2> QED  BY <2>1, <1>2
<1> QED  BY <1>2, <1>3, <1>b, <1>4 DEF FeedOf, r

(* What since() replays is a feed, and starts after the event asked for.   *)
LEMMA FeedSuffix ==
    ASSUME NEW q, NEW n \in Nat, NEW last, FeedOf(q, n, last), q # <<>>,
           NEW k \in Nat, k >= q[1].id - 1, k < n
    PROVE  LET r == SubSeq(q, Cardinality({i \in DOMAIN q : q[i].id <= k}) + 1, Len(q))
           IN  FeedOf(r, n, last) /\ Len(r) = n - 1 - k
<1> DEFINE m == k - (n - Len(q)) + 1
           Old == {i \in DOMAIN q : q[i].id <= k}
           r == SubSeq(q, Cardinality(Old) + 1, Len(q))
<1>1. PICK S : q \in Seq(S)  BY DEF FeedOf
<1>2. Len(q) \in Nat /\ Len(q) > 0 /\ DOMAIN q = 1 .. Len(q)  BY <1>1
<1>3. /\ \A i \in 1 .. Len(q) : q[i].id = n - Len(q) + i - 1
      /\ Len(q) < n
  BY DEF FeedOf
<1>4. m \in 0 .. Len(q) /\ Len(q) - m = n - 1 - k
  BY <1>2, <1>3
<1>5. Old = 1 .. m
  BY <1>2, <1>3, <1>4
<1>6. Cardinality(Old) = m
  <2> HIDE DEF m, Old
  <2>1. m \in Int /\ 1 \in Int /\ (1 > m => m = 0)  BY <1>4
  <2>2. Cardinality(1 .. m) = IF 1 > m THEN 0 ELSE m - 1 + 1  BY <2>1, FS_Interval
  <2> QED  BY <2>2, <2>1, <1>5
<1> HIDE DEF m, Old
<1>7. r = SubSeq(q, m + 1, Len(q))  BY <1>6
<1> HIDE DEF r
<1>8. /\ r \in Seq(S) /\ Len(r) = Len(q) - m
      /\ \A i \in 1 .. Len(r) : r[i] = q[m + i] /\ m + i \in 1 .. Len(q)
  <2>1. m + 1 \in Int /\ Len(q) \in Int /\ \A i \in (m + 1) .. Len(q) : q[i] \in S
    BY <1>1, <1>2, <1>4
  <2>2. /\ r \in Seq(S)
        /\ Len(r) = IF m + 1 <= Len(q) THEN Len(q) - (m + 1) + 1 ELSE 0
        /\ \A i \in 1 .. Len(q) - (m + 1) + 1 : r[i] = q[(m + 1) + i - 1]
    <3> DEFINE first == m + 1  end == Len(q)
    <3>1. first \in Int /\ end \in Int /\ \A i \in first .. end : q[i] \in S  BY <2>1
    <3> HIDE DEF first, end
    <3>2. /\ SubSeq(q, first, end) \in Seq(S)
          /\ Len(SubSeq(q, first, end)) = IF first <= end THEN end - first + 1 ELSE 0
          /\ \A i \in 1 .. end - first + 1 : SubSeq(q, first, end)[i] = q[first + i - 1]
      BY <3>1, SubSeqProperties
    <3> QED  BY <3>2, <1>7 DEF first, end
  <2>a. ASSUME m + 1 <= Len(q)  PROVE Len(r) = Len(q) - m
    <3>1. Len(r) = Len(q) - (m + 1) + 1  BY <2>a, <2>2
    <3> QED  BY <3>1, <1>2, <1>4
  <2>b. ASSUME ~(m + 1 <= Len(q))  PROVE Len(r) = Len(q) - m
    <3>1. Len(r) = 0  BY <2>b, <2>2
    <3>a. m \in Int /\ Len(q) \in Int /\ m <= Len(q)  BY <1>2, <1>4
    <3>b. ~(m + 1 <= Len(q))  BY <2>b
    <3>2. m = Len(q)  BY <3>a, <3>b
    <3> QED  BY <3>1, <3>2, <1>2
  <2>3. Len(r) = Len(q) - m  BY <2>a, <2>b
  <2>4. ASSUME NEW i \in 1 .. Len(r)  PROVE r[i] = q[m + i] /\ m + i \in 1 .. Len(q)
    <3>1. i \in 1 .. Len(q) - (m + 1) + 1 /\ (m + 1) + i - 1 = m + i
      BY <2>3, <1>2, <1>4
    <3>2. r[i] = q[(m + 1) + i - 1]  BY <3>1, <2>2
    <3>3. m + i \in 1 .. Len(q)  BY <3>1, <1>2, <1>4
    <3> QED  BY <3>1, <3>2, <3>3
  <2> QED  BY <2>2, <2>3, <2>4
<1>9. Len(r) < n
  BY <1>8, <1>3, <1>2, <1>4
<1>a. ASSUME NEW i \in 1 .. Len(r)  PROVE r[i].id = n - Len(r) + i - 1
  <2>1. r[i].id = n - Len(q) + (m + i) - 1 /\ i \in Int  BY <1>8, <1>3
  <2> QED  BY <2>1, <1>8, <1>2, <1>4
<1>b. ASSUME NEW i \in 1 .. Len(r), NEW x \in Top
      PROVE  /\ r[i].src = x => r[i].id <= last[x].id
             /\ r[i].id = last[x].id => r[i] = last[x]
  <2>1. /\ q[m + i].src = x => q[m + i].id <= last[x].id
        /\ q[m + i].id = last[x].id => q[m + i] = last[x]
    BY <1>8 DEF FeedOf
  <2> QED  BY <2>1, <1>8
<1> QED  BY <1>8, <1>9, <1>a, <1>b, <1>4 DEF FeedOf, r, Old

(* The last event of a source in a feed is its last event altogether; one  *)
(* that is not in the feed is older than all of it.                        *)
LEMMA FeedLast ==
    ASSUME NEW q, Feed(q), SentInv, NEW s \in Top
    PROVE  /\ \A i \in LastOf(s, q) : q[i] = sent[s] /\ sent[s].id > 0
           /\ LastOf(s, q) = {} => sent[s].id < nextId - Len(q)
<1>a. Len(q) \in Nat /\ Len(q) < nextId /\ DOMAIN q = 1 .. Len(q)
  BY DEF Feed, FeedOf
<1>b. \A i \in 1 .. Len(q) : q[i].id = nextId - Len(q) + i - 1
  BY DEF Feed, FeedOf
<1>c. \A i \in 1 .. Len(q) : q[i].src = s => q[i].id <= sent[s].id
  BY DEF Feed, FeedOf
<1>d. \A i \in 1 .. Len(q) : q[i].id = sent[s].id => q[i] = sent[s]
  BY DEF Feed, FeedOf
<1>2. /\ nextId \in Nat /\ sent[s].id \in Nat /\ sent[s].id < nextId
      /\ sent[s].id > 0 => sent[s].src = s
  BY DEF SentInv
<1> DEFINE at == sent[s].id - (nextId - Len(q)) + 1
<1>3. ASSUME sent[s].id >= nextId - Len(q), sent[s].id > 0
      PROVE  at \in 1 .. Len(q) /\ q[at] = sent[s] /\ q[at].src = s
  <2>1. at \in 1 .. Len(q)  BY <1>3, <1>a, <1>b, <1>c, <1>d, <1>2
  <2>2. q[at].id = sent[s].id  BY <2>1, <1>a, <1>b, <1>c, <1>d, <1>2
  <2> QED  BY <2>1, <2>2, <1>a, <1>b, <1>c, <1>d, <1>2, <1>3
<1>4. ASSUME NEW i \in LastOf(s, q)  PROVE q[i] = sent[s] /\ sent[s].id > 0
  <2>1. /\ i \in 1 .. Len(q) /\ q[i].src = s
        /\ \A j \in 1 .. Len(q) : j > i => q[j].src # s
    BY <1>a, <1>b, <1>c, <1>d DEF LastOf
  <2>2. q[i].id = nextId - Len(q) + i - 1 /\ q[i].id <= sent[s].id  BY <2>1, <1>a, <1>b, <1>c, <1>d
  <2>3. sent[s].id >= nextId - Len(q) /\ sent[s].id > 0  BY <2>1, <2>2, <1>a, <1>b, <1>c, <1>d, <1>2
  <2>4. at \in 1 .. Len(q) /\ q[at].src = s  BY <2>3, <1>3
  <2>5. at <= i  BY <2>4, <2>1, <1>a, <1>b, <1>c, <1>d
  <2>6. q[i].id = sent[s].id  BY <2>5, <2>2, <2>1, <1>a, <1>b, <1>c, <1>d, <1>2
  <2> QED  BY <2>6, <2>3, <2>1, <1>a, <1>b, <1>c, <1>d
<1>5. ASSUME LastOf(s, q) = {}  PROVE sent[s].id < nextId - Len(q)
  <2> SUFFICES ASSUME sent[s].id >= nextId - Len(q)  PROVE FALSE
    BY <1>a, <1>b, <1>c, <1>d, <1>2
  <2>1. sent[s].id > 0  BY <1>a, <1>b, <1>c, <1>d, <1>2
  <2>2. at \in 1 .. Len(q) /\ q[at] = sent[s] /\ q[at].src = s  BY <2>1, <1>3
  <2>3. ASSUME NEW j \in 1 .. Len(q), j > at  PROVE q[j].src # s
    BY <2>3, <2>2, <1>a, <1>b, <1>c, <1>d, <1>2
  <2>4. at \in LastOf(s, q)  BY <2>2, <2>3, <1>a, <1>b, <1>c, <1>d DEF LastOf
  <2> QED  BY <2>4, <1>5
<1> QED  BY <1>4, <1>5

-----------------------------------------------------------------------------
(* What a step does not touch stays as it was.                             *)
LEMMA SentStays ==
    ASSUME SentInv, UNCHANGED <<ring, nextId, sent>>
    PROVE  SentInv'
  BY DEF SentInv, Feed, FeedOf

LEMMA TailStays ==
    ASSUME TailInv, UNCHANGED <<state, tail, announced, partial, sent>>
    PROVE  TailInv'
  BY DEF TailInv, Pend, PendAgain

LEMMA ClientStays ==
    ASSUME ClientInv, UNCHANGED <<nextId, sent, channel, connected, phase, rows, lastId, base, fresh>>
    PROVE  ClientInv'
  BY DEF ClientInv, SeenBelow, Position, ToldToRefetch, Feed, FeedOf, Delivers

LEMMA StreamInit == Init => StreamInv
<1> SUFFICES ASSUME Init  PROVE StreamInv
  OBVIOUS
<1>1. <<>> \in Seq({}) /\ Len(<<>>) = 0  OBVIOUS
<1>2. SentInv
  <2>1. \A s \in Top : sent[s].id = 0  BY DEF Init, NothingSent
  <2>2. sent = [s \in Top |-> sent[s]]  BY DEF Init, NothingSent
  <2>3. ring = <<>> /\ nextId = 1  BY DEF Init
  <2> QED  BY <1>1, <2>1, <2>2, <2>3 DEF SentInv, Feed, FeedOf
<1>3. TailInv
  <2>1. \A s \in Top : sent[s].id = 0  BY DEF Init, NothingSent
  <2>2. DOMAIN partial = {}  BY DEF Init, NoRow
  <2>3. /\ tail \in Seq(Entries)
        /\ state = [e \in Entries |-> 0] /\ announced = [e \in Entries |-> 0]
    BY DEF Init
  <2> QED  BY <2>1, <2>2, <2>3 DEF TailInv
<1>4. ClientInv
  BY DEF Init, ClientInv
<1> QED  BY <1>2, <1>3, <1>4 DEF StreamInv

(* What an entry announces makes a projection of its source pending, and a *)
(* member is read as it is.                                                *)
LEMMA QueueGrows ==
    ASSUME TailInv, NEW e \in Entries,
           state' \in [Entries -> Nat], \A x \in Entries : state'[x] >= state[x],
           \/ tail' = Append(tail, e) /\ announced' = [announced EXCEPT ![e] = state'[e]]
           \/ UNCHANGED <<tail, announced>>,
           tail = <<>> => partial' = partial,
           \A x \in DOMAIN partial' : \/ x \in DOMAIN partial /\ partial'[x] = partial[x]
                                      \/ x \in Entries /\ partial'[x] = state'[x],
           sent' = sent
    PROVE  TailInv'
<1>1. /\ tail \in Seq(Entries)
      /\ state \in [Entries -> Nat] /\ announced \in [Entries -> Nat]
      /\ \A x \in Entries : announced[x] <= state[x]
      /\ tail = <<>> => DOMAIN partial = {}
      /\ \A x \in DOMAIN partial :
            /\ x \in Entries /\ partial[x] \in Nat /\ partial[x] <= state[x]
            /\ partial[x] >= announced[x] \/ PendAgain(x)
  BY DEF TailInv
<1>2. /\ tail' \in Seq(Entries) /\ Len(tail) \in Nat /\ Len(tail') >= Len(tail)
      /\ \A j \in 1 .. Len(tail) : tail'[j] = tail[j]
      /\ tail' = <<>> => tail = <<>>
  <2>1. CASE tail' = Append(tail, e)
    <3>1. tail \in Seq(Entries) /\ e \in Entries  BY <1>1
    <3>2. tail' \in Seq(Entries)  BY <3>1, <2>1
    <3>3. Len(tail) \in Nat /\ Len(tail') = Len(tail) + 1  BY <3>1, <2>1
    <3>4. \A j \in 1 .. Len(tail) : tail'[j] = tail[j]  BY <3>1, <2>1
    <3>5. tail' # <<>>  BY <3>3, <3>2
    <3> QED  BY <3>2, <3>3, <3>4, <3>5
  <2>2. CASE tail' = tail
    BY <2>2, <1>1
  <2> QED  BY <2>1, <2>2
<1>3. /\ announced' \in [Entries -> Nat]
      /\ \A x \in Entries : announced'[x] <= state'[x]
  <2>1. \A x \in Entries : /\ state[x] \in Nat /\ state'[x] \in Nat /\ announced[x] \in Nat
                           /\ announced[x] <= state[x] /\ state[x] <= state'[x]
    BY <1>1
  <2>2. CASE announced' = [announced EXCEPT ![e] = state'[e]]
    <3>1. announced' \in [Entries -> Nat]  BY <2>1, <2>2, <1>1
    <3>2. \A x \in Entries : announced'[x] = IF x = e THEN state'[x] ELSE announced[x]
      BY <2>2, <1>1
    <3>3. ASSUME NEW x \in Entries  PROVE announced'[x] <= state'[x]
      <4>1. /\ state[x] \in Nat /\ state'[x] \in Nat /\ announced[x] \in Nat
            /\ announced[x] <= state[x] /\ state[x] <= state'[x]
        BY <2>1
      <4>2. announced'[x] = state'[x] \/ announced'[x] = announced[x]  BY <3>2
      <4> QED  BY <4>1, <4>2
    <3> QED  BY <3>1, <3>3
  <2>3. CASE announced' = announced
    <3>1. ASSUME NEW x \in Entries  PROVE announced'[x] <= state'[x]
      <4>1. /\ state[x] \in Nat /\ state'[x] \in Nat /\ announced[x] \in Nat
            /\ announced[x] <= state[x] /\ state[x] <= state'[x]
        BY <2>1
      <4> QED  BY <4>1, <2>3
    <3> QED  BY <3>1, <2>3, <1>1
  <2> QED  BY <2>2, <2>3
<1>4. ASSUME NEW x, PendAgain(x)  PROVE PendAgain(x)'
  BY <1>4, <1>2 DEF PendAgain
<1>5. ASSUME NEW s, Pend(s)  PROVE Pend(s)'
  BY <1>5, <1>2 DEF Pend
<1>6. ASSUME NEW x \in Entries, announced'[x] # announced[x]
      PROVE  /\ x = e /\ Pend(TopLevelId(x))'
             /\ tail # <<>> => PendAgain(x)'
  <2>1. x = e /\ tail' = Append(tail, e)  BY <1>6, <1>1
  <2>2. /\ Len(tail) + 1 \in 1 .. Len(tail') /\ tail'[Len(tail) + 1] = x
        /\ tail # <<>> => Len(tail) + 1 \in 2 .. Len(tail')
    BY <2>1, <1>1
  <2> QED  BY <2>1, <2>2 DEF Pend, PendAgain
<1>7. ASSUME NEW x \in DOMAIN partial'
      PROVE  /\ x \in Entries /\ partial'[x] \in Nat /\ partial'[x] <= state'[x]
             /\ partial'[x] >= announced'[x] \/ PendAgain(x)'
  <2>1. CASE x \in DOMAIN partial /\ partial'[x] = partial[x]
    <3>1. x \in Entries /\ tail # <<>>  BY <2>1, <1>1
    <3>2. partial[x] \in Nat /\ partial[x] <= state'[x]
      <4>1. partial[x] \in Nat /\ partial[x] <= state[x]  BY <2>1, <1>1
      <4>2. state'[x] >= state[x] /\ state[x] \in Nat /\ state'[x] \in Nat  BY <3>1, <1>1
      <4> QED  BY <4>1, <4>2
    <3>3. partial[x] >= announced'[x] \/ PendAgain(x)'
      <4>1. CASE announced'[x] = announced[x]  BY <4>1, <2>1, <1>1, <1>4
      <4>2. CASE announced'[x] # announced[x]  BY <4>2, <3>1, <1>6
      <4> QED  BY <4>1, <4>2
    <3> QED  BY <2>1, <3>1, <3>2, <3>3
  <2>2. CASE x \in Entries /\ partial'[x] = state'[x]
    <3>1. state'[x] \in Nat /\ announced'[x] \in Nat /\ announced'[x] <= state'[x]
      BY <2>2, <1>3
    <3> QED  BY <2>2, <3>1
  <2> QED  BY <2>1, <2>2
<1>8. ASSUME NEW s \in Top, sent[s].id > 0, NEW x \in Family(s)
      PROVE  /\ sent[s].row[x] \in Nat /\ sent[s].row[x] <= state'[x]
             /\ sent[s].row[x] >= announced'[x] \/ Pend(s)'
  <2>1. x \in Entries /\ TopLevelId(x) = s  BY DEF Family
  <2>2. /\ sent[s].row[x] \in Nat /\ sent[s].row[x] <= state[x]
        /\ sent[s].row[x] >= announced[x] \/ Pend(s)
    BY <1>8 DEF TailInv
  <2>3. sent[s].row[x] <= state'[x]
    <3>1. state'[x] >= state[x] /\ state[x] \in Nat /\ state'[x] \in Nat  BY <2>1, <1>1
    <3> QED  BY <3>1, <2>2
  <2>4. CASE announced'[x] = announced[x]  BY <2>4, <2>2, <2>3, <1>5
  <2>5. CASE announced'[x] # announced[x]  BY <2>5, <2>1, <2>2, <2>3, <1>6
  <2> QED  BY <2>4, <2>5
<1>9. tail' = <<>> => DOMAIN partial' = {}  BY <1>1, <1>2
<1> QED  BY <1>2, <1>3, <1>7, <1>8, <1>9 DEF TailInv

LEMMA EmitKeeps ==
    ASSUME StreamInv, NEW e \in Entries, Emit(e) \/ ChangeSilently(e)
    PROVE  StreamInv'
<1>1. /\ state' = [state EXCEPT ![e] = @ + 1]
      /\ \/ tail' = Append(tail, e) /\ announced' = [announced EXCEPT ![e] = state[e] + 1]
         \/ UNCHANGED <<tail, announced>>
      /\ UNCHANGED <<partial, ring, nextId, channel, connected, client, fresh, sent>>
  BY DEF Emit, ChangeSilently, Change
<1>2. SentInv' /\ ClientInv'
  BY <1>1, SentStays, ClientStays DEF StreamInv, client
<1>3. TailInv /\ state \in [Entries -> Nat]  BY DEF StreamInv, TailInv
<1>4. /\ state' \in [Entries -> Nat] /\ state'[e] = state[e] + 1
      /\ \A x \in Entries : state'[x] >= state[x]
  BY <1>1, <1>3
<1>5. TailInv'  BY <1>1, <1>3, <1>4, QueueGrows
<1> QED  BY <1>2, <1>5 DEF StreamInv

(* Looking at an entry changes nothing but what it may announce.           *)
LEMMA LookKeeps ==
    ASSUME StreamInv, NEW e \in Entries, Sample(e) \/ SnapshotReads(e) \/ ReadElsewhere(e)
    PROVE  StreamInv'
<1>1. /\ state' = state
      /\ \/ tail' = Append(tail, e) /\ announced' = [announced EXCEPT ![e] = state[e]]
         \/ UNCHANGED <<tail, announced>>
      /\ UNCHANGED <<ring, nextId, channel, connected, phase, rows, lastId, base, fresh, sent>>
      /\ partial' = partial \/ (tail # <<>> /\ partial' = WithState(partial, e))
  BY DEF Sample, SnapshotReads, ReadElsewhere, ReconcileStaleDedup, queue, client
<1>2. SentInv' /\ ClientInv'
  BY <1>1, SentStays, ClientStays DEF StreamInv
<1>3. TailInv /\ state \in [Entries -> Nat]  BY DEF StreamInv, TailInv
<1>4. \A x \in Entries : state'[x] >= state[x]  BY <1>1, <1>3
<1>5. ASSUME NEW x \in DOMAIN partial'
      PROVE  \/ x \in DOMAIN partial /\ partial'[x] = partial[x]
             \/ x \in Entries /\ partial'[x] = state'[x]
  <2>1. CASE partial' = partial
    BY <2>1
  <2>2. CASE partial' = WithState(partial, e)
    <3>1. partial' = [y \in DOMAIN partial \cup {e} |-> IF y = e THEN state[e] ELSE partial[y]]
      BY <2>2 DEF WithState
    <3> QED  BY <3>1, <1>1
  <2> QED  BY <2>1, <2>2, <1>1
<1>6. tail = <<>> => partial' = partial  BY <1>1
<1>7. TailInv'  BY <1>1, <1>3, <1>4, <1>5, <1>6, QueueGrows
<1> QED  BY <1>2, <1>7 DEF StreamInv

(* The next row is published: the ring and an open connection get it, and  *)
(* a member that changed since it was read has another transition queued.  *)
LEMMA PublishKeepsSent ==
    ASSUME SentInv, Publish
    PROVE  SentInv'
<1> DEFINE s == TopLevelId(Head(tail))
           event == [id |-> nextId, src |-> s, row |-> partial]
           longer == Append(ring, event)
<1>1. /\ ring' = Bounded(longer) /\ nextId' = nextId + 1
      /\ sent' = [sent EXCEPT ![s] = event]
  BY DEF Publish
<1>2. event.id = nextId /\ event.src = s  OBVIOUS
<1> HIDE DEF event, s
<1>3. /\ nextId \in Nat /\ nextId > 0 /\ sent = [x \in Top |-> sent[x]]
      /\ \A x \in Top : sent[x].id \in Nat /\ sent[x].id < nextId
      /\ \A x \in Top : sent[x].id > 0 => sent[x].src = x
      /\ FeedOf(ring, nextId, sent)
  BY DEF SentInv, Feed
<1>4. /\ sent' = [x \in Top |-> sent'[x]]
      /\ \A x \in Top : sent'[x] = IF x = s THEN event ELSE sent[x]
  BY <1>1, <1>3
<1>5. FeedOf(longer, nextId', sent')
  BY <1>1, <1>2, <1>3, FeedAppend
<1>6. longer # <<>> /\ Len(longer) = Len(ring) + 1 /\ Len(ring) \in Nat
  <2>1. PICK S : ring \in Seq(S)  BY <1>3 DEF FeedOf
  <2>2. ring \in Seq(S \cup {event})  BY <2>1, SeqMonotonic
  <2> QED  BY <2>2
<1> HIDE DEF longer
<1>7. FeedOf(ring', nextId', sent') /\ ring' # <<>>
  <2>1. CASE Len(longer) > Capacity
    <3>1. ring' = Tail(longer)  BY <2>1, <1>1 DEF Bounded
    <3>2. FeedOf(ring', nextId', sent') /\ Len(ring') = Len(longer) - 1
      BY <3>1, <1>5, <1>6, <1>1, <1>3, FeedTail
    <3>3. Len(ring') > 0  BY <3>2, <2>1, <1>6, CapacityAssumption
    <3>4. ring' # <<>>
      <4>1. Len(<<>>) = 0  OBVIOUS
      <4> QED  BY <3>3, <4>1
    <3> QED  BY <3>2, <3>4
  <2>2. CASE ~(Len(longer) > Capacity)
    <3>1. ring' = longer  BY <2>2, <1>1 DEF Bounded
    <3> QED  BY <3>1, <1>5, <1>6
  <2> QED  BY <2>1, <2>2
<1>8. /\ \A x \in Top : sent'[x].id \in Nat /\ sent'[x].id < nextId'
      /\ \A x \in Top : sent'[x].id > 0 => sent'[x].src = x
  BY <1>1, <1>2, <1>3, <1>4
<1>9. nextId' \in Nat /\ nextId' > 0  BY <1>1, <1>3
<1>10. Feed(ring)'  BY <1>7 DEF Feed
<1>11. sent' = [x \in Top |-> sent'[x]]  BY <1>4
<1> QED  BY <1>11, <1>7, <1>8, <1>9, <1>10 DEF SentInv

LEMMA PublishKeepsTail ==
    ASSUME SentInv, TailInv, Publish
    PROVE  TailInv'
<1> DEFINE s == TopLevelId(Head(tail))
           event == [id |-> nextId, src |-> s, row |-> partial]
<1>1. /\ tail # <<>> /\ DOMAIN partial = Family(s) /\ tail' = Tail(tail)
      /\ partial' = <<>> /\ sent' = [sent EXCEPT ![s] = event]
      /\ UNCHANGED <<state, announced>>
  BY DEF Publish, NoRow
<1>2. event.row = partial  OBVIOUS
<1>3. /\ tail \in Seq(Entries)
      /\ state \in [Entries -> Nat] /\ announced \in [Entries -> Nat]
      /\ \A e \in Entries : announced[e] <= state[e]
      /\ \A e \in DOMAIN partial :
            /\ partial[e] \in Nat /\ partial[e] <= state[e]
            /\ partial[e] >= announced[e] \/ PendAgain(e)
  BY DEF TailInv
<1>4. /\ tail' \in Seq(Entries) /\ Len(tail) \in Nat /\ Len(tail') = Len(tail) - 1
      /\ \A j \in 2 .. Len(tail) : j - 1 \in 1 .. Len(tail') /\ tail'[j - 1] = tail[j]
      /\ TopLevelId(tail[1]) = s
  BY <1>1, <1>3
<1> HIDE DEF event, s
<1>5. DOMAIN partial' = {}
  BY <1>1
<1>6. \A x \in Top : sent'[x] = IF x = s THEN event ELSE sent[x]
  BY <1>1 DEF SentInv
<1>7. ASSUME NEW x \in Top, sent'[x].id > 0, NEW e \in Family(x)
      PROVE  /\ sent'[x].row[e] \in Nat /\ sent'[x].row[e] <= state[e]
             /\ sent'[x].row[e] >= announced[e] \/ Pend(x)'
  <2>1. CASE x = s
    <3>1. sent'[x].row = partial /\ e \in DOMAIN partial  BY <2>1, <1>1, <1>6, <1>2
    <3>2. CASE partial[e] >= announced[e]
      BY <3>1, <3>2, <1>3
    <3>3. CASE PendAgain(e)
      <4>1. PICK j \in 2 .. Len(tail) : tail[j] = e  BY <3>3 DEF PendAgain
      <4>2. j - 1 \in 1 .. Len(tail') /\ TopLevelId(tail'[j - 1]) = x
        BY <4>1, <1>4, <2>1 DEF Family
      <4>3. Pend(x)'  BY <4>2 DEF Pend
      <4> QED  BY <4>3, <3>1, <1>3
    <3> QED  BY <3>1, <3>2, <3>3, <1>3
  <2>2. CASE x # s
    <3>1. sent'[x] = sent[x]  BY <2>2, <1>6
    <3>2. /\ sent[x].row[e] \in Nat /\ sent[x].row[e] <= state[e]
          /\ sent[x].row[e] >= announced[e] \/ Pend(x)
      BY <3>1, <1>7 DEF TailInv
    <3>3. ASSUME Pend(x)  PROVE Pend(x)'
      <4>1. PICK j \in 1 .. Len(tail) : TopLevelId(tail[j]) = x  BY <3>3 DEF Pend
      <4>2. j \in 2 .. Len(tail)  BY <4>1, <1>4, <2>2
      <4>3. j - 1 \in 1 .. Len(tail') /\ TopLevelId(tail'[j - 1]) = x  BY <4>1, <4>2, <1>4
      <4> QED  BY <4>3 DEF Pend
    <3> QED  BY <3>1, <3>2, <3>3
  <2> QED  BY <2>1, <2>2
<1> QED  BY <1>3, <1>4, <1>1, <1>5, <1>7 DEF TailInv

LEMMA PublishKeepsClient ==
    ASSUME SentInv, ClientInv, Publish
    PROVE  ClientInv'
<1> DEFINE s == TopLevelId(Head(tail))
           event == [id |-> nextId, src |-> s, row |-> partial]
           longer == Append(channel, event)
<1>1. /\ channel' = IF connected THEN longer ELSE channel
      /\ nextId' = nextId + 1 /\ sent' = [sent EXCEPT ![s] = event]
      /\ UNCHANGED <<connected, phase, rows, lastId, base, fresh>>
  BY DEF Publish, client
<1>2. event.id = nextId /\ event.src = s  OBVIOUS
<1> HIDE DEF event, s
<1>3. /\ nextId \in Nat /\ nextId > 0 /\ sent = [x \in Top |-> sent[x]]
      /\ \A x \in Top : sent[x].id \in Nat /\ sent[x].id < nextId
  BY DEF SentInv
<1>4. \A x \in Top : sent'[x] = IF x = s THEN event ELSE sent[x]
  BY <1>1, <1>3
<1>5. ASSUME connected
      PROVE  /\ Delivers(channel') /\ Len(channel') = Len(channel) + 1 /\ Len(channel) \in Nat
             /\ \A i \in 1 .. Len(channel) : channel'[i] = channel[i]
  <2>1. PICK S : channel \in Seq(S)  BY <1>5 DEF ClientInv, Delivers
  <2>2. channel \in Seq(S \cup {event}) /\ event \in S \cup {event}  BY <2>1, SeqMonotonic
  <2>3. /\ longer \in Seq(S \cup {event}) /\ Len(longer) = Len(channel) + 1
        /\ longer[Len(channel) + 1] = event /\ Len(channel) \in Nat
        /\ \A i \in 1 .. Len(channel) : longer[i] = channel[i]
    BY <2>2
  <2>4. channel' = longer  BY <1>5, <1>1
  <2> HIDE DEF longer
  <2>5. ASSUME NEW i \in 1 .. Len(longer)
        PROVE  longer[i].id \in Nat /\ (longer[i].id = 0 => i = 1)
    <3>1. CASE i = Len(channel) + 1
      BY <3>1, <2>3, <1>2, <1>3
    <3>2. CASE i \in 1 .. Len(channel)
      BY <3>2, <2>3, <1>5 DEF ClientInv, Delivers
    <3> QED  BY <3>1, <3>2, <2>3
  <2> QED  BY <2>3, <2>4, <2>5 DEF Delivers
<1>6. connected => phase = "streaming" /\ Delivers(channel')
  BY <1>5 DEF ClientInv
<1>7. ASSUME phase = "streaming", fresh
      PROVE  /\ lastId > 0 => base <= lastId /\ lastId < nextId'
             /\ SeenBelow(Position)'
  <2>1. /\ base \in Nat /\ lastId \in Nat
        /\ lastId > 0 => base <= lastId /\ lastId < nextId
        /\ SeenBelow(Position)
    BY <1>7 DEF ClientInv
  <2>2. \/ lastId = 0 /\ Position = base
        \/ lastId > 0 /\ Position = lastId + 1
    BY <2>1 DEF Position
  <2>3. Position' = Position  BY <1>1 DEF Position
  <2>4. ASSUME NEW x \in Top, sent'[x].id > 0, sent'[x].id >= base, sent'[x].id < Position
        PROVE  rows[x][x] = sent'[x].row[x]
    <3>1. x # s
      <4> SUFFICES ASSUME x = s  PROVE FALSE  OBVIOUS
      <4>1. sent'[x].id = nextId  BY <1>4, <1>2
      <4> QED  BY <4>1, <2>1, <2>2, <2>4, <1>3
    <3>2. sent'[x] = sent[x]  BY <3>1, <1>4
    <3> QED  BY <3>2, <2>1, <2>4 DEF SeenBelow
  <2>5. SeenBelow(Position)'  BY <2>3, <2>4, <1>1 DEF SeenBelow
  <2> QED  BY <2>1, <2>5, <1>1, <1>3
<1>8. ASSUME connected, fresh, ~ToldToRefetch'
      PROVE  Feed(channel)' /\ nextId' - Len(channel') = Position'
  <2>1. /\ Len(channel') = Len(channel) + 1 /\ Len(channel) \in Nat
        /\ \A i \in 1 .. Len(channel) : channel'[i] = channel[i]
        /\ Delivers(channel) /\ Delivers(channel')
    BY <1>5, <1>8 DEF ClientInv
  <2>2. DOMAIN channel = 1 .. Len(channel) /\ DOMAIN channel' = 1 .. Len(channel')
    BY <2>1 DEF Delivers
  <2>3. ~ToldToRefetch  BY <1>8, <2>1, <2>2 DEF ToldToRefetch
  <2>4. FeedOf(channel, nextId, sent) /\ nextId - Len(channel) = Position
    BY <2>3, <1>8 DEF ClientInv, Feed
  <2>5. channel' = longer  BY <1>1, <1>8
  <2>6. FeedOf(longer, nextId + 1, [sent EXCEPT ![s] = event])
    BY <2>4, <1>2, <1>3, FeedAppend
  <2>7. Feed(channel)'  BY <2>5, <2>6, <1>1 DEF Feed
  <2>8. Position' = Position  BY <1>1 DEF Position
  <2> QED  BY <2>1, <2>4, <2>7, <2>8, <1>1, <1>3
<1>9. /\ base' \in Nat /\ lastId' \in Nat
      /\ phase' = "streaming" => rows' = [x \in Top |-> rows'[x]]
  BY <1>1 DEF ClientInv
<1> QED  BY <1>1, <1>6, <1>7, <1>8, <1>9 DEF ClientInv

LEMMA PublishKeeps ==
    ASSUME StreamInv, Publish
    PROVE  StreamInv'
  BY PublishKeepsSent, PublishKeepsTail, PublishKeepsClient DEF StreamInv

(* What since() replays is taken from the ring.                            *)
LEMMA NewerIsTaken ==
    ASSUME SentInv, NEW k
    PROVE  Delivers(NewerThan(k))
<1> DEFINE Old == {i \in DOMAIN ring : ring[i].id <= k}
           m == Cardinality(Old)
           r == SubSeq(ring, m + 1, Len(ring))
<1>1. PICK S : ring \in Seq(S)  BY DEF SentInv, Feed, FeedOf
<1>2. Len(ring) \in Nat /\ DOMAIN ring = 1 .. Len(ring)  BY <1>1
<1>3. \A i \in 1 .. Len(ring) : ring[i].id = nextId - Len(ring) + i - 1
  BY DEF SentInv, Feed, FeedOf
<1>4. nextId \in Nat /\ Len(ring) < nextId  BY DEF SentInv, Feed, FeedOf
<1>5. m \in Nat
  <2>1. 1 \in Int /\ Len(ring) \in Int  BY <1>2
  <2>2. IsFiniteSet(1 .. Len(ring))  BY <2>1, FS_Interval
  <2>3. Old \subseteq 1 .. Len(ring)  BY <1>2
  <2> HIDE DEF Old
  <2>4. IsFiniteSet(Old)  BY <2>2, <2>3, FS_Subset
  <2> QED  BY <2>4, FS_CardinalityType
<1>6. NewerThan(k) = r  BY DEF NewerThan
<1> HIDE DEF m, Old
<1>7. /\ r \in Seq(S) /\ Len(r) = IF m + 1 <= Len(ring) THEN Len(ring) - (m + 1) + 1 ELSE 0
      /\ \A i \in 1 .. Len(ring) - (m + 1) + 1 : r[i] = ring[(m + 1) + i - 1]
  <2>1. m + 1 \in Int /\ Len(ring) \in Int /\ \A i \in (m + 1) .. Len(ring) : ring[i] \in S
    BY <1>1, <1>2, <1>5
  <2> QED  BY <2>1, SubSeqProperties
<1> HIDE DEF r
<1>8. ASSUME NEW i \in 1 .. Len(r)  PROVE r[i].id \in Nat /\ r[i].id > 0
  <2>1. m + 1 <= Len(ring)
    <3> SUFFICES ASSUME ~(m + 1 <= Len(ring))  PROVE FALSE  OBVIOUS
    <3>1. Len(r) = 0  BY <1>7
    <3> QED  BY <3>1
  <2>2. Len(r) = Len(ring) - (m + 1) + 1  BY <2>1, <1>7
  <2>3. i \in 1 .. Len(ring) - (m + 1) + 1  BY <2>2
  <2>4. r[i] = ring[(m + 1) + i - 1]  BY <2>3, <1>7
  <2> DEFINE j == (m + 1) + i - 1
  <2>5. j \in 1 .. Len(ring)  BY <2>3, <1>5, <1>2
  <2> HIDE DEF j
  <2>6. ring[j].id = nextId - Len(ring) + j - 1  BY <2>5, <1>3
  <2>7. ring[j].id \in Nat /\ ring[j].id > 0  BY <2>5, <2>6, <1>4, <1>2
  <2> QED  BY <2>4, <2>7 DEF j
<1> QED  BY <1>6, <1>7, <1>8 DEF Delivers

(* A client that connects gets what it has not seen, or is told to fetch a *)
(* new snapshot.                                                           *)
LEMMA ConnectKeeps ==
    ASSUME StreamInv, Connect
    PROVE  StreamInv'
<1>1. SentInv' /\ TailInv'
  BY SentStays, TailStays DEF StreamInv, Connect, server, queue
<1>2. /\ SentInv /\ ClientInv
      /\ phase = "streaming" /\ connected' = TRUE
      /\ channel' = (IF lastId = 0 THEN <<>> ELSE Since(lastId))
      /\ base' = (IF lastId = 0 THEN nextId ELSE base)
      /\ UNCHANGED <<nextId, ring, sent, phase, rows, lastId, fresh>>
  BY DEF StreamInv, Connect, server, queue
<1>3. /\ nextId \in Nat /\ nextId > 0 /\ FeedOf(ring, nextId, sent)
      /\ nextId > 1 => ring # <<>>
      /\ \A x \in Top : sent[x].id \in Nat /\ sent[x].id < nextId
  BY <1>2 DEF SentInv, Feed
<1>4. /\ base \in Nat /\ lastId \in Nat /\ rows = [x \in Top |-> rows[x]]
      /\ fresh => /\ lastId > 0 => base <= lastId /\ lastId < nextId
                  /\ SeenBelow(Position)
  BY <1>2 DEF ClientInv
<1>5. SUFFICES /\ Delivers(channel')
               /\ fresh => /\ lastId > 0 => base' <= lastId /\ lastId < nextId
                           /\ SeenBelow(Position)'
               /\ fresh /\ ~ToldToRefetch' =>
                    FeedOf(channel', nextId, sent) /\ nextId - Len(channel') = Position'
  <2>1. base' \in Nat  BY <1>2, <1>3, <1>4
  <2> QED  BY <2>1, <1>1, <1>2, <1>4, <1>5 DEF StreamInv, ClientInv, Feed
<1>6. CASE lastId = 0
  <2>1. channel' = <<>> /\ base' = nextId /\ Position' = nextId
    BY <1>6, <1>2 DEF Position
  <2>2. <<>> \in Seq({}) /\ Len(<<>>) = 0  OBVIOUS
  <2>3. Delivers(channel') /\ FeedOf(channel', nextId, sent)
    BY <2>1, <2>2, <1>3 DEF Delivers, FeedOf
  <2>4. SeenBelow(Position)'
    BY <2>1, <1>2, <1>3 DEF SeenBelow
  <2> QED  BY <2>1, <2>2, <2>3, <2>4, <1>3, <1>6
<1>7. CASE lastId # 0
  <2>1. channel' = Since(lastId) /\ base' = base /\ Position' = lastId + 1 /\ Position = lastId + 1
    BY <1>7, <1>2 DEF Position
  <2>2. fresh => SeenBelow(Position)'
    BY <2>1, <1>2, <1>4 DEF SeenBelow
  <2>3. CASE Overflow(lastId)
    <3>1. channel' = <<SentinelRow>>  BY <2>3, <2>1 DEF Since
    <3>2. /\ channel' \in Seq({SentinelRow}) /\ Len(channel') = 1
          /\ channel'[1] = SentinelRow /\ SentinelRow.id = 0 /\ DOMAIN channel' = 1 .. 1
      BY <3>1 DEF SentinelRow
    <3>3. Delivers(channel') /\ ToldToRefetch'
      BY <3>2 DEF Delivers, ToldToRefetch
    <3> QED  BY <3>3, <2>1, <2>2, <1>4
  <2>4. CASE ~Overflow(lastId)
    <3>1. channel' = NewerThan(lastId)  BY <2>4, <2>1 DEF Since
    <3>2. Delivers(channel')  BY <3>1, <1>2, NewerIsTaken
    <3>3. ASSUME fresh
          PROVE  FeedOf(channel', nextId, sent) /\ nextId - Len(channel') = Position'
      <4>1. lastId > 0 /\ lastId < nextId  BY <3>3, <1>4, <1>7
      <4>2. ring # <<>>  BY <4>1, <1>3, <1>4
      <4>3. lastId >= ring[1].id - 1
        <5>1. PICK S : ring \in Seq(S)  BY <1>3 DEF FeedOf
        <5>2. Len(ring) \in Nat /\ 1 \in 1 .. Len(ring)  BY <5>1, <4>2
        <5>3. ring[1].id = nextId - Len(ring) + 1 - 1  BY <5>2, <1>3 DEF FeedOf
        <5> QED  BY <5>2, <5>3, <4>1, <4>2, <2>4, <1>3, <1>4 DEF Overflow
      <4>4. FeedOf(channel', nextId, sent) /\ Len(channel') = nextId - 1 - lastId
        BY <3>1, <4>1, <4>2, <4>3, <1>3, <1>4, FeedSuffix DEF NewerThan
      <4> QED  BY <4>4, <2>1, <1>3, <1>4
    <3> QED  BY <3>2, <3>3, <2>1, <2>2, <1>4
  <2> QED  BY <2>3, <2>4
<1> QED  BY <1>6, <1>7

LEMMA SnapshotArrivesKeeps ==
    ASSUME StreamInv, SnapshotArrives
    PROVE  StreamInv'
<1>1. SentInv' /\ TailInv'
  BY SentStays, TailStays DEF StreamInv, SnapshotArrives, server, queue
<1>2. /\ ClientInv /\ phase = "fetching"
      /\ rows' = [s \in Top |-> [e \in Family(s) |-> snap[e]]]
      /\ phase' = "streaming" /\ lastId' = 0
      /\ UNCHANGED <<channel, connected, base, fresh>>
  BY DEF StreamInv, SnapshotArrives
<1>3. base \in Nat /\ ~connected  BY <1>2 DEF ClientInv
<1>4. Position' = base /\ base' = base  BY <1>2 DEF Position
<1>5. SeenBelow(Position)'
  <2>1. \A x \in Top : sent'[x].id \in Nat  BY <1>1 DEF SentInv
  <2> QED  BY <2>1, <1>3, <1>4 DEF SeenBelow
<1>6. rows' = [s \in Top |-> rows'[s]]  BY <1>2
<1>7. lastId' \in Nat /\ ~(lastId' > 0) /\ base' \in Nat /\ ~connected'  BY <1>2, <1>3
<1>8. ClientInv'
  BY <1>5, <1>6, <1>7 DEF ClientInv
<1> QED  BY <1>1, <1>8 DEF StreamInv

(* The page applies the event it is at.                                    *)
LEMMA OnRowKeeps ==
    ASSUME StreamInv, OnRow
    PROVE  StreamInv'
<1>1. SentInv' /\ TailInv'
  BY SentStays, TailStays DEF StreamInv, OnRow, server, queue
<1> DEFINE event == Head(channel)
<1>2. /\ SentInv /\ ClientInv
      /\ connected /\ channel # <<>> /\ event.id > 0
      /\ rows' = ApplyRow(rows, event) /\ lastId' = event.id /\ channel' = Tail(channel)
      /\ UNCHANGED <<nextId, sent, connected, phase, base, fresh>>
  BY DEF StreamInv, OnRow, server, queue
<1>3. /\ phase = "streaming" /\ Delivers(channel) /\ rows = [x \in Top |-> rows[x]]
      /\ base \in Nat /\ lastId \in Nat
      /\ nextId \in Nat
      /\ \A x \in Top : sent[x].id \in Nat /\ (sent[x].id > 0 => sent[x].src = x)
  BY <1>2 DEF ClientInv, SentInv
<1>4. PICK S : channel \in Seq(S)  BY <1>3 DEF Delivers
<1>5. /\ Len(channel) \in Nat /\ Len(channel) > 0 /\ event = channel[1]
      /\ channel' \in Seq(S) /\ Len(channel') = Len(channel) - 1
      /\ \A i \in 1 .. Len(channel') : channel'[i] = channel[i + 1] /\ i + 1 \in 1 .. Len(channel)
      /\ DOMAIN channel = 1 .. Len(channel)
  BY <1>2, <1>4
<1> HIDE DEF event
<1>6. event.id \in Nat /\ Delivers(channel')
  <2>1. 1 \in 1 .. Len(channel)  BY <1>5
  <2>2. event.id \in Nat  BY <2>1, <1>3, <1>5 DEF Delivers
  <2>3. ASSUME NEW i \in 1 .. Len(channel')  PROVE channel'[i].id \in Nat /\ channel'[i].id # 0
    <3>1. i + 1 # 1  OBVIOUS
    <3>2. channel[i + 1].id \in Nat /\ channel[i + 1].id # 0  BY <3>1, <1>3, <1>5 DEF Delivers
    <3> QED  BY <3>2, <1>5
  <2> QED  BY <2>2, <2>3, <1>5 DEF Delivers
<1>7. ~ToldToRefetch
  <2>1. \A i \in 1 .. Len(channel) : channel[i].id = 0 => i = 1  BY <1>3 DEF Delivers
  <2>2. channel[1].id # 0  BY <1>2, <1>5, <1>6
  <2> QED  BY <2>1, <2>2, <1>5 DEF ToldToRefetch
<1>8. rows' = [x \in Top |-> rows'[x]]
  BY <1>2, <1>3 DEF ApplyRow
<1>9. \A x \in Top : rows'[x] = IF x = event.src
                                THEN [e \in Family(x) |-> IF e = x THEN event.row[e] ELSE rows[x][e]]
                                ELSE rows[x]
  BY <1>2, <1>3 DEF ApplyRow
<1>10. ASSUME fresh
       PROVE  /\ base' <= lastId' /\ lastId' < nextId' /\ SeenBelow(Position)'
              /\ Feed(channel)' /\ nextId' - Len(channel') = Position'
  <2>1. /\ lastId > 0 => base <= lastId /\ lastId < nextId
        /\ SeenBelow(Position)
        /\ FeedOf(channel, nextId, sent) /\ nextId - Len(channel) = Position
    BY <1>10, <1>2, <1>3, <1>7 DEF ClientInv, Feed
  <2>2. event.id = Position /\ base <= Position
    <3>1. 1 \in 1 .. Len(channel)  BY <1>5
    <3>2. channel[1].id = nextId - Len(channel) + 1 - 1  BY <3>1, <2>1 DEF FeedOf
    <3>3. event.id = Position  BY <3>2, <2>1, <1>5, <1>3
    <3>4. base <= Position  BY <2>1, <1>3 DEF Position
    <3> QED  BY <3>3, <3>4
  <2>3. Position' = Position + 1  BY <2>2, <1>2, <1>6 DEF Position
  <2>4. base' <= lastId' /\ lastId' < nextId'
    BY <2>1, <2>2, <1>2, <1>3, <1>5
  <2>5. FeedOf(channel', nextId, sent)
    BY <2>1, <1>2, <1>3, FeedTail
  <2>6. nextId' - Len(channel') = Position'
    BY <2>1, <2>2, <2>3, <1>2, <1>3, <1>5, <1>6
  <2>7. ASSUME NEW x \in Top, sent[x].id > 0, sent[x].id >= base, sent[x].id < Position + 1
        PROVE  rows'[x][x] = sent[x].row[x]
    <3>1. 1 \in 1 .. Len(channel)  BY <1>5
    <3>2. CASE sent[x].id = event.id
      <4>1. event = sent[x]  BY <3>1, <3>2, <2>1, <1>5 DEF FeedOf
      <4>2. event.src = x  BY <4>1, <1>3, <2>7
      <4>3. x \in Family(x)  BY DEF Family, TopLevelId, Top
      <4>4. rows'[x] = [e \in Family(x) |-> IF e = x THEN event.row[e] ELSE rows[x][e]]
        BY <4>2, <1>9
      <4>5. rows'[x][x] = event.row[x]  BY <4>3, <4>4
      <4> QED  BY <4>1, <4>5
    <3>3. CASE sent[x].id # event.id
      <4>1. sent[x].id < Position  BY <3>3, <2>2, <2>7, <1>3, <1>6
      <4>2. event.src # x
        <5> SUFFICES ASSUME event.src = x  PROVE FALSE  OBVIOUS
        <5>1. event.id <= sent[x].id  BY <3>1, <2>1, <1>5 DEF FeedOf
        <5> QED  BY <5>1, <4>1, <2>2, <1>3, <1>6
      <4>3. rows'[x] = rows[x]  BY <4>2, <1>9
      <4> QED  BY <4>1, <4>3, <2>1, <2>7 DEF SeenBelow
    <3> QED  BY <3>2, <3>3
  <2>8. SeenBelow(Position)'
    BY <2>3, <2>7, <1>2 DEF SeenBelow
  <2>9. Feed(channel)'  BY <2>5, <1>2 DEF Feed
  <2> QED  BY <2>4, <2>6, <2>8, <2>9
<1>11. ClientInv'
  BY <1>2, <1>3, <1>6, <1>8, <1>10 DEF ClientInv
<1> QED  BY <1>1, <1>11 DEF StreamInv

(* Closing the stream, losing it and a restart leave nothing to promise.   *)
LEMMA OnRefetchKeeps ==
    ASSUME StreamInv, OnRefetchSnapshot
    PROVE  StreamInv'
<1>1. SentInv' /\ TailInv'
  BY SentStays, TailStays DEF StreamInv, OnRefetchSnapshot, server, queue
<1>2. ClientInv'
  BY DEF StreamInv, OnRefetchSnapshot, ClientInv
<1> QED  BY <1>1, <1>2 DEF StreamInv

LEMMA FaultKeeps ==
    ASSUME StreamInv, Fault
    PROVE  StreamInv'
<1>1. CASE SnapshotFails
  <2>1. SentInv' /\ TailInv'
    BY <1>1, SentStays, TailStays DEF StreamInv, SnapshotFails, server, queue
  <2>2. ClientInv'
    BY <1>1 DEF StreamInv, SnapshotFails, ClientInv
  <2> QED  BY <2>1, <2>2 DEF StreamInv
<1>2. CASE ConnectionDrops
  <2>1. SentInv' /\ TailInv'
    BY <1>2, SentStays, TailStays DEF StreamInv, ConnectionDrops, server, queue
  <2>2. ClientInv'
    BY <1>2 DEF StreamInv, ConnectionDrops, ClientInv, SeenBelow, Position, client, server
  <2> QED  BY <2>1, <2>2 DEF StreamInv
<1>3. CASE Restart
  <2>1. /\ state' = [e \in Entries |-> 0] /\ announced' = [e \in Entries |-> 0]
        /\ tail' = <<>> /\ partial' = <<>>
        /\ ring' = <<>> /\ nextId' = 1 /\ connected' = FALSE /\ fresh' = FALSE
        /\ (phase' = "streaming" => phase = "streaming") /\ sent' = NothingSent
        /\ UNCHANGED <<rows, lastId, base>>
    BY <1>3 DEF Restart, NoRow
  <2>2. \A s \in Top : sent'[s].id = 0  BY <2>1 DEF NothingSent
  <2>3. sent' = [s \in Top |-> sent'[s]]  BY <2>1 DEF NothingSent
  <2>4. <<>> \in Seq({}) /\ Len(<<>>) = 0  OBVIOUS
  <2>5. SentInv'  BY <2>1, <2>2, <2>3, <2>4 DEF SentInv, Feed, FeedOf
  <2>6. TailInv'
    <3>1. DOMAIN partial' = {}  BY <2>1
    <3>2. tail' \in Seq(Entries)  BY <2>1
    <3> QED  BY <3>1, <3>2, <2>1, <2>2 DEF TailInv
  <2>7. ClientInv'  BY <2>1 DEF StreamInv, ClientInv
  <2> QED  BY <2>5, <2>6, <2>7 DEF StreamInv
<1> QED  BY <1>1, <1>2, <1>3 DEF Fault

LEMMA StreamStep ==
    ASSUME StreamInv, [Next]_vars
    PROVE  StreamInv'
<1>1. ASSUME NEW e \in Entries, Emit(e) \/ ChangeSilently(e)  PROVE StreamInv'
  BY <1>1, EmitKeeps
<1>2. ASSUME NEW e \in Entries, Sample(e) \/ SnapshotReads(e) \/ ReadElsewhere(e)
      PROVE  StreamInv'
  BY <1>2, LookKeeps
<1>4. CASE UNCHANGED vars
  BY <1>4, SentStays, TailStays, ClientStays DEF StreamInv, vars, server, queue, client
<1> QED  BY <1>1, <1>2, <1>4, PublishKeeps, ConnectKeeps, SnapshotArrivesKeeps,
            OnRowKeeps, OnRefetchKeeps, FaultKeeps DEF Next

THEOREM StreamIsInductive == Spec => []StreamInv
  BY StreamInit, StreamStep, PTL DEF Spec

-----------------------------------------------------------------------------
(* When projectionTail is empty the last event of every source in the ring *)
(* shows what each member of its family last announced, or later: a member *)
(* that changed while a row was read has had a row of its own since        *)
(* (projectTopLevelRow, projectAndEmit, reconcileStaleDedup).              *)
THEOREM IdleStreamShowsAnnounced == Spec => []IdleShowsAnnounced
<1>1. ASSUME StreamInv  PROVE IdleShowsAnnounced
  <2> SUFFICES ASSUME tail = <<>>, NEW s \in Top, NEW i \in LastOf(s, ring), NEW e \in Family(s)
               PROVE  ring[i].row[e] \in announced[e] .. state[e]
    BY DEF IdleShowsAnnounced
  <2>1. ring[i] = sent[s] /\ sent[s].id > 0
    BY <1>1, FeedLast DEF StreamInv, SentInv
  <2>2. ~Pend(s)
    <3>1. Len(<<>>) = 0  OBVIOUS
    <3> QED  BY <3>1 DEF Pend
  <2>3. /\ sent[s].row[e] \in Nat /\ sent[s].row[e] <= state[e]
        /\ sent[s].row[e] >= announced[e]
    BY <2>1, <2>2, <1>1 DEF StreamInv, TailInv
  <2>4. announced[e] \in Nat /\ state[e] \in Nat
    BY <1>1 DEF StreamInv, TailInv, Family
  <2> QED  BY <2>1, <2>3, <2>4
<1> QED  BY <1>1, StreamIsInductive, PTL

(* Last-Event-ID, the ring's since() and the refetch sentinel together     *)
(* lose nothing: once a connected client has read what is on its way, each *)
(* source shows its last event since the client subscribed.                *)
THEOREM ConnectedClientSeesAll == Spec => []ConnectedSeesAll
<1>1. ASSUME StreamInv  PROVE ConnectedSeesAll
  <2> SUFFICES ASSUME connected, fresh, ~ToldToRefetch, NEW s \in Top,
                      sent[s].id > 0, sent[s].id >= base
               PROVE  Shown(s) = sent[s].row[s]
    BY DEF ConnectedSeesAll
  <2>1. /\ Feed(channel) /\ SentInv /\ nextId - Len(channel) = Position
        /\ SeenBelow(Position)
    BY <1>1 DEF StreamInv, ClientInv
  <2>2. CASE LastOf(s, channel) = {}
    <3>1. sent[s].id < Position  BY <2>1, <2>2, FeedLast
    <3> QED  BY <3>1, <2>1, <2>2 DEF SeenBelow, Shown
  <2>3. CASE LastOf(s, channel) # {}
    <3> DEFINE i == CHOOSE i \in LastOf(s, channel) : TRUE
    <3>1. i \in LastOf(s, channel)  BY <2>3
    <3>2. Shown(s) = channel[i].row[s]  BY <2>3 DEF Shown
    <3> HIDE DEF i
    <3>3. channel[i] = sent[s]  BY <3>1, <2>1, FeedLast
    <3> QED  BY <3>2, <3>3
  <2> QED  BY <2>2, <2>3
<1> QED  BY <1>1, StreamIsInductive, PTL
=============================================================================
