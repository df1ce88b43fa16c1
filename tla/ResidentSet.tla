----------------------------- MODULE ResidentSet -----------------------------
(***************************************************************************)
(* ResidentSet (libs/server/src/lib/sparql/resident-set.ts): the built     *)
(* stores that a query worker keeps, under a budget of quads.  `entries'   *)
(* is the backing Map in insertion order, least recently used first: a     *)
(* sequence of [src, ver] with every source at most once.  `pins' counts   *)
(* the running queries of each source.                                     *)
(***************************************************************************)
EXTENDS Naturals, Sequences, SequencesExt

CONSTANTS
    Sources,          \* in-memory sources
    Quads,            \* the size of each source's store
    MaxResidentQuads  \* query.maxResidentQuads

ASSUME QuadsAssumption == Quads \in [Sources -> Nat] /\ MaxResidentQuads \in Nat

(* The entries at the positions in K, in their order.                      *)
Keep(entries, K) ==
    LET kept[n \in 0 .. Len(entries)] ==
            IF n = 0 THEN <<>>
            ELSE IF n \in K THEN Append(kept[n - 1], entries[n]) ELSE kept[n - 1]
    IN  kept[Len(entries)]

Without(entries, s) == Keep(entries, {i \in DOMAIN entries : entries[i].src # s})
IsResident(entries, s) == \E e \in ToSet(entries) : e.src = s
Entry(entries, s) == CHOOSE e \in ToSet(entries) : e.src = s
Total(entries) == FoldLeft(LAMBDA n, e : n + Quads[e.src], 0, entries)

(* Walk the entries from the least recently used one and evict those that  *)
(* may go, until the rest fits: an entry goes if what went before it did   *)
(* not make room.                                                          *)
Evict(entries, mayGo) ==
    LET gone == {i \in mayGo :
                   Total(entries) - Total(Keep(entries, {k \in mayGo : k < i})) > MaxResidentQuads}
    IN  Keep(entries, DOMAIN entries \ gone)

(* Neither the entry just set nor a pinned one may go.                     *)
enforceBudget(entries, pins, s) ==
    Evict(entries, {i \in DOMAIN entries : entries[i].src # s /\ pins[entries[i].src] = 0})

set(entries, pins, e) == enforceBudget(Append(Without(entries, e.src), e), pins, e.src)

(* get() makes the entry the most recently used one.                       *)
get(entries, s) ==
    IF IsResident(entries, s) THEN Append(Without(entries, s), Entry(entries, s)) ELSE entries

(* delete() ignores budget and pins.                                       *)
deleteIfOverBudget(entries, pins, s) ==
    IF Total(entries) > MaxResidentQuads THEN Without(entries, s) ELSE entries
delete(entries, pins, s) == Without(entries, s)

pin(pins, s) == [pins EXCEPT ![s] = @ + 1]
unpin(pins, s) == [pins EXCEPT ![s] = IF @ = 0 THEN 0 ELSE @ - 1]
=============================================================================
