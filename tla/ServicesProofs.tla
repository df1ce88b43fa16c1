--------------------------- MODULE ServicesProofs ---------------------------
(***************************************************************************)
(* The parts of the program that stand alone, as MC_Services checks them   *)
(* side by side: the query cache, for any number of requests, sources and  *)
(* queries and whatever the budgets evict; the write mutex of the          *)
(* saved-query sidecar, for any number of pages, slugs, requests and hand  *)
(* edits; the runs of the diff page, for any number of them; the panels of *)
(* the source picker, for any sources, scopes and histories; and the       *)
(* main-heap entry with its watcher, for any number of loads and edits.    *)
(***************************************************************************)
EXTENDS QueryCache, SavedQueries, PageRequests, SourcesPicker, HeapEntry,
        FiniteSetTheorems, SequenceTheorems, TLAPS

-----------------------------------------------------------------------------
(* The query cache.  First the bytes of rows, which are counted: finitely  *)
(* many rows have finitely many.                                           *)
Sized(ks, table) == IsFiniteSet(ks) /\ \A k \in ks : table[k].bytes \in Nat

BytesOf(ks, table) == UNION {{k} \X (1..table[k].bytes) : k \in ks}

LEMMA BytesFinite ==
    ASSUME NEW ks, NEW table, Sized(ks, table)
    PROVE  IsFiniteSet(BytesOf(ks, table)) /\ TotalBytes(ks, table) \in Nat
<1> DEFINE f == [k \in ks |-> {k} \X (1..table[k].bytes)]
           each == {{k} \X (1..table[k].bytes) : k \in ks}
<1>1. f \in Surjection(ks, each)
  BY DEF Surjection
<1>2. IsFiniteSet(each)
  BY <1>1, FS_Surjection DEF Sized
<1>3. ASSUME NEW k \in ks  PROVE IsFiniteSet({k} \X (1..table[k].bytes))
  <2>1. 1 \in Int /\ table[k].bytes \in Int  BY DEF Sized
  <2>2. IsFiniteSet({k}) /\ IsFiniteSet(1..table[k].bytes)
    BY <2>1, FS_Singleton, FS_Interval
  <2> QED  BY <2>2, FS_Product
<1>4. \A T \in each : IsFiniteSet(T)
  BY <1>3
<1>5. IsFiniteSet(UNION each)
  <2> HIDE DEF each
  <2> QED  BY <1>2, <1>4, FS_UNION
<1>6. BytesOf(ks, table) = UNION each /\ TotalBytes(ks, table) = Cardinality(UNION each)
  BY DEF BytesOf, TotalBytes
<1> HIDE DEF each
<1> QED  BY <1>5, <1>6, FS_CardinalityType

(* Fewer rows take no more bytes.                                          *)
LEMMA FewerBytes ==
    ASSUME NEW ks, NEW table, Sized(ks, table),
           NEW js \in SUBSET ks, NEW other, \A k \in js : other[k].bytes = table[k].bytes
    PROVE  /\ Sized(js, other)
           /\ TotalBytes(js, other) \in Nat /\ TotalBytes(ks, table) \in Nat
           /\ TotalBytes(js, other) <= TotalBytes(ks, table)
<1>1. Sized(js, other)
  <2>1. IsFiniteSet(js)  BY FS_Subset DEF Sized
  <2> QED  BY <2>1 DEF Sized
<1>2. BytesOf(js, other) \subseteq BytesOf(ks, table)
  BY DEF BytesOf
<1>3. IsFiniteSet(BytesOf(ks, table)) /\ TotalBytes(ks, table) \in Nat /\ TotalBytes(js, other) \in Nat
  BY <1>1, BytesFinite
<1>4. Cardinality(BytesOf(js, other)) <= Cardinality(BytesOf(ks, table))
  BY <1>2, <1>3, FS_Subset
<1> QED  BY <1>1, <1>3, <1>4 DEF BytesOf, TotalBytes

(* One more row takes its own bytes more.                                  *)
LEMMA OneRowMore ==
    ASSUME NEW ks, NEW table, Sized(ks, table),
           NEW k, k \notin ks, NEW other, other[k].bytes \in Nat,
           \A j \in ks : other[j].bytes = table[j].bytes
    PROVE  /\ TotalBytes(ks \cup {k}, other) = TotalBytes(ks, table) + other[k].bytes
           /\ Sized(ks \cup {k}, other)
<1> DEFINE n == other[k].bytes
           new == {k} \X (1..n)
<1>1. BytesOf(ks \cup {k}, other) = BytesOf(ks, table) \cup new
  BY DEF BytesOf
<1>2. IsFiniteSet(new) /\ Cardinality(new) = n
  <2>1. 1 \in Int /\ n \in Int /\ n >= 0  OBVIOUS
  <2>2. IsFiniteSet(1..n) /\ Cardinality(1..n) = IF 1 > n THEN 0 ELSE n - 1 + 1
    BY <2>1, FS_Interval
  <2>3. Cardinality(1..n) = n
    <3> HIDE DEF n
    <3> QED  BY <2>2, <2>1
  <2>4. IsFiniteSet({k}) /\ Cardinality({k}) = 1  BY FS_Singleton
  <2>5. IsFiniteSet(new) /\ Cardinality(new) = Cardinality({k}) * Cardinality(1..n)
    BY <2>2, <2>4, FS_Product
  <2> HIDE DEF new, n
  <2>6. Cardinality(new) = 1 * n  BY <2>3, <2>4, <2>5
  <2>7. 1 * n = n  BY <2>1
  <2> QED  BY <2>5, <2>6, <2>7
<1>3. IsFiniteSet(BytesOf(ks, table)) /\ Cardinality(BytesOf(ks, table)) \in Nat
  BY BytesFinite, FS_CardinalityType
<1>4. BytesOf(ks, table) \cap new = {}
  BY DEF BytesOf
<1>5. Cardinality(BytesOf(ks, table) \cup new) = Cardinality(BytesOf(ks, table)) + n
  <2> HIDE DEF new, n
  <2>1. Cardinality(BytesOf(ks, table) \cap new) = 0  BY <1>4, FS_EmptySet
  <2>2. Cardinality(BytesOf(ks, table) \cup new)
          = Cardinality(BytesOf(ks, table)) + Cardinality(new) - Cardinality(BytesOf(ks, table) \cap new)
    BY <1>2, <1>3, FS_Union
  <2> QED  BY <2>1, <2>2, <1>2, <1>3 DEF n
<1>6. Sized(ks \cup {k}, other)
  <2>1. IsFiniteSet(ks \cup {k})  BY FS_AddElement DEF Sized
  <2> QED  BY <2>1 DEF Sized
<1> HIDE DEF new, n
<1> QED  BY <1>1, <1>5, <1>6 DEF BytesOf, TotalBytes, n

Rows == [ver : {Version[p] : p \in Processes}, gen : Nat, bytes : BodySizes, at : Nat, used : Nat]

(* Table t is what is left of table u.                                     *)
LeftOf(t, u) == DOMAIN t \subseteq DOMAIN u /\ \A k \in DOMAIN t : t[k] = u[k]

LEMMA WithoutLeaves == ASSUME NEW ks, NEW u PROVE LeftOf(Without(ks, u), u)
  BY DEF Without, LeftOf

(* What an eviction leaves is within the budget.                           *)
LEMMA EvictLeaves ==
    ASSUME NEW u, NEW among \in SUBSET DOMAIN u, NEW budget, NEW t \in EvictVictims(among, budget, u)
    PROVE  /\ LeftOf(t, u)
           /\ Sized(DOMAIN u, u) => TotalBytes(among \cap DOMAIN t, t) <= budget
<1>1. PICK gone \in Victims(among, budget, u) : t = Without(gone, u)
  BY DEF EvictVictims
<1>2. LeftOf(t, u)
  BY <1>1, WithoutLeaves
<1>3. gone \subseteq among /\ TotalBytes(among \ gone, u) <= budget
  BY <1>1 DEF Victims
<1>4. among \cap DOMAIN t = among \ gone /\ \A k \in among \ gone : t[k] = u[k]
  BY <1>1, <1>3 DEF Without
<1>5. TotalBytes(among \ gone, t) = TotalBytes(among \ gone, u)
  BY <1>4 DEF TotalBytes
<1> QED  BY <1>2, <1>3, <1>4, <1>5

(* The tables that writeEntryTxn goes through.                             *)
LEMMA WritePasses ==
    ASSUME NEW k, NEW row, row.bytes <= MaxEntry, row.bytes \in Nat, NEW t \in WriteEntry(k, row)
    PROVE  \E capped \in EvictToSource(k.source, Upserted(k, row, Purged(rows))) :
              /\ t \in EvictToGlobal(capped) /\ LeftOf(t, capped)
              /\ LeftOf(capped, Upserted(k, row, Purged(rows)))
<1> DEFINE u == Upserted(k, row, Purged(rows))
<1>1. PICK capped \in EvictToSource(k.source, u) : t \in EvictToGlobal(capped)
  BY CacheAssumption DEF WriteEntry
<1> HIDE DEF u
<1>2. LeftOf(capped, u)
  <2>1. CASE Cap[k.source] = NoCap
    BY <2>1, <1>1 DEF EvictToSource, LeftOf
  <2>2. CASE Cap[k.source] # NoCap
    <3>1. Live(k.source, u) \in SUBSET DOMAIN u  BY DEF Live
    <3> QED  BY <2>2, <3>1, <1>1, EvictLeaves DEF EvictToSource
  <2> QED  BY <2>1, <2>2
<1>3. LeftOf(t, capped)
  <2>1. DOMAIN capped \in SUBSET DOMAIN capped  OBVIOUS
  <2> QED  BY <2>1, <1>1, EvictLeaves DEF EvictToGlobal
<1> QED  BY <1>1, <1>2, <1>3 DEF u

(* Writing an entry leaves some of the rows and perhaps the new one, with  *)
(* its content.                                                            *)
LEMMA WriteLeaves ==
    ASSUME NEW k, NEW row, row.bytes \in Nat, NEW t \in WriteEntry(k, row)
    PROVE  t = rows \/ LeftOf(t, Upserted(k, row, rows))
<1>1. CASE row.bytes > MaxEntry
  BY <1>1 DEF WriteEntry
<1>2. CASE ~(row.bytes > MaxEntry)
  <2> DEFINE purged == Purged(rows)
             upserted == Upserted(k, row, purged)
  <2>1. LeftOf(purged, rows)
    BY WithoutLeaves DEF Purged
  <2>2. LeftOf(upserted, Upserted(k, row, rows))
    BY <2>1 DEF LeftOf, Upserted
  <2>3. row.bytes <= MaxEntry
    BY <1>2, CacheAssumption
  <2>4. PICK capped : LeftOf(t, capped) /\ LeftOf(capped, upserted)
    BY <2>3, WritePasses
  <2> HIDE DEF upserted
  <2>5. QED
    BY <2>2, <2>4 DEF LeftOf
<1>3. QED
  BY <1>1, <1>2

-----------------------------------------------------------------------------
(* The budgets.                                                            *)
Fits(table) ==
    /\ Sized(DOMAIN table, table)
    /\ TotalBytes(DOMAIN table, table) <= MaxBytes
    /\ \A s \in Sources : Cap[s] # NoCap => TotalBytes(Live(s, table), table) <= Cap[s]

(* Table t has no rows but those of table u, each of the same size.        *)
Lighter(t, u) == DOMAIN t \subseteq DOMAIN u /\ \A k \in DOMAIN t : t[k].bytes = u[k].bytes

LEMMA LeftIsLighter == ASSUME NEW t, NEW u, LeftOf(t, u) PROVE Lighter(t, u)
  BY DEF LeftOf, Lighter

LEMMA LiveLighter ==
    ASSUME NEW u, Sized(DOMAIN u, u), NEW t, Lighter(t, u), NEW s
    PROVE  /\ Sized(DOMAIN t, t)
           /\ TotalBytes(DOMAIN t, t) \in Nat /\ TotalBytes(DOMAIN u, u) \in Nat
           /\ TotalBytes(DOMAIN t, t) <= TotalBytes(DOMAIN u, u)
           /\ TotalBytes(Live(s, t), t) \in Nat /\ TotalBytes(Live(s, u), u) \in Nat
           /\ TotalBytes(Live(s, t), t) <= TotalBytes(Live(s, u), u)
<1>1. DOMAIN t \in SUBSET DOMAIN u /\ \A k \in DOMAIN t : t[k].bytes = u[k].bytes
  BY DEF Lighter
<1>2. /\ Sized(DOMAIN t, t)
      /\ TotalBytes(DOMAIN t, t) \in Nat /\ TotalBytes(DOMAIN u, u) \in Nat
      /\ TotalBytes(DOMAIN t, t) <= TotalBytes(DOMAIN u, u)
  BY <1>1, FewerBytes
<1>3. Live(s, t) \in SUBSET Live(s, u) /\ Live(s, u) \in SUBSET DOMAIN u
  BY <1>1 DEF Live
<1>4. Sized(Live(s, u), u)
  BY <1>3, FewerBytes
<1>5. \A k \in Live(s, t) : t[k].bytes = u[k].bytes
  BY <1>1 DEF Live
<1> QED  BY <1>2, <1>3, <1>4, <1>5, FewerBytes

LEMMA LighterFits ==
    ASSUME NEW u, Fits(u), NEW t, Lighter(t, u)
    PROVE  Fits(t)
<1>1. /\ Sized(DOMAIN t, t)
      /\ TotalBytes(DOMAIN t, t) \in Nat /\ TotalBytes(DOMAIN u, u) \in Nat
      /\ TotalBytes(DOMAIN t, t) <= TotalBytes(DOMAIN u, u)
  BY LiveLighter DEF Fits
<1>2. TotalBytes(DOMAIN t, t) <= MaxBytes
  BY <1>1, CacheAssumption DEF Fits
<1>3. ASSUME NEW s \in Sources, Cap[s] # NoCap  PROVE TotalBytes(Live(s, t), t) <= Cap[s]
  <2>1. /\ TotalBytes(Live(s, t), t) \in Nat /\ TotalBytes(Live(s, u), u) \in Nat
        /\ TotalBytes(Live(s, t), t) <= TotalBytes(Live(s, u), u)
    BY LiveLighter DEF Fits
  <2>2. Cap[s] \in Nat /\ TotalBytes(Live(s, u), u) <= Cap[s]
    BY <1>3, CacheAssumption DEF Fits
  <2> QED  BY <2>1, <2>2
<1> QED  BY <1>1, <1>2, <1>3 DEF Fits

(* A row is written after what is expired went, and before the evictions.  *)
LEMMA UpsertedSized ==
    ASSUME NEW k, NEW row, row.bytes \in Nat, Sized(DOMAIN rows, rows)
    PROVE  LET u == Upserted(k, row, Purged(rows))
           IN  /\ Sized(DOMAIN u, u)
               /\ TotalBytes(DOMAIN u, u) = TotalBytes(DOMAIN Purged(rows) \ {k}, rows) + row.bytes
<1> DEFINE p == Purged(rows)
           js == DOMAIN p \ {k}
           u == Upserted(k, row, p)
<1>1. js \in SUBSET DOMAIN rows /\ \A j \in js : rows[j].bytes = rows[j].bytes
  BY DEF Purged, Without
<1>2. Sized(js, rows)
  BY <1>1, FewerBytes
<1>3. /\ DOMAIN u = js \cup {k} /\ k \notin js
      /\ u[k].bytes = row.bytes
      /\ \A j \in js : u[j].bytes = rows[j].bytes
  BY DEF Upserted, Purged, Without
<1> HIDE DEF u, js
<1>4. /\ TotalBytes(js \cup {k}, u) = TotalBytes(js, rows) + u[k].bytes
      /\ Sized(js \cup {k}, u)
  BY <1>2, <1>3, OneRowMore
<1> QED  BY <1>3, <1>4 DEF u, js

LEMMA WriteFits ==
    ASSUME Fits(rows), NEW k, NEW row, row.bytes \in Nat, NEW t \in WriteEntry(k, row)
    PROVE  Fits(t)
<1>1. CASE row.bytes > MaxEntry
  BY <1>1 DEF WriteEntry
<1>2. CASE ~(row.bytes > MaxEntry)
  <2> DEFINE u == Upserted(k, row, Purged(rows))
  <2>1. row.bytes <= MaxEntry
    BY <1>2, CacheAssumption
  <2>2. PICK capped \in EvictToSource(k.source, u) :
           t \in EvictToGlobal(capped) /\ LeftOf(t, capped) /\ LeftOf(capped, u)
    BY <2>1, WritePasses
  <2>3. Sized(DOMAIN u, u)
    BY UpsertedSized DEF Fits
  <2>4. ASSUME NEW s, s # k.source
        PROVE  Live(s, u) \in SUBSET Live(s, rows) /\ \A x \in Live(s, u) : u[x].bytes = rows[x].bytes
    BY <2>4 DEF Upserted, Purged, Without, Live
  <2>5. Live(k.source, u) \in SUBSET DOMAIN u
    BY DEF Live
  <2> HIDE DEF u
  <2>6. Sized(DOMAIN capped, capped)
    BY <2>2, <2>3, LiveLighter, LeftIsLighter
  <2>7. Sized(DOMAIN t, t)
    BY <2>2, <2>6, LiveLighter, LeftIsLighter
  <2>8. TotalBytes(DOMAIN t, t) <= MaxBytes
    <3>1. DOMAIN capped \in SUBSET DOMAIN capped  OBVIOUS
    <3>2. TotalBytes(DOMAIN capped \cap DOMAIN t, t) <= MaxBytes
      BY <3>1, <2>2, <2>6, EvictLeaves DEF EvictToGlobal
    <3>3. DOMAIN capped \cap DOMAIN t = DOMAIN t
      BY <2>2 DEF LeftOf
    <3> QED  BY <3>2, <3>3
  <2>9. ASSUME NEW s \in Sources, Cap[s] # NoCap  PROVE TotalBytes(Live(s, t), t) <= Cap[s]
    <3>1. Cap[s] \in Nat
      BY <2>9, CacheAssumption
    <3>2. /\ TotalBytes(Live(s, t), t) \in Nat /\ TotalBytes(Live(s, capped), capped) \in Nat
          /\ TotalBytes(Live(s, u), u) \in Nat
          /\ TotalBytes(Live(s, t), t) <= TotalBytes(Live(s, capped), capped)
          /\ TotalBytes(Live(s, capped), capped) <= TotalBytes(Live(s, u), u)
      BY <2>2, <2>3, <2>6, LiveLighter, LeftIsLighter
    <3>3. CASE s = k.source
      <4>1. capped \in EvictVictims(Live(s, u), Cap[s], u)
        BY <3>3, <2>9, <2>2 DEF EvictToSource
      <4>2. TotalBytes(Live(s, u) \cap DOMAIN capped, capped) <= Cap[s]
        BY <4>1, <3>3, <2>5, <2>3, EvictLeaves
      <4>3. Live(s, u) \cap DOMAIN capped = Live(s, capped)
        BY <2>2 DEF LeftOf, Live
      <4> QED  BY <3>1, <3>2, <4>2, <4>3
    <3>4. CASE s # k.source
      <4>1. Live(s, rows) \in SUBSET DOMAIN rows  BY DEF Live
      <4>2. Sized(Live(s, rows), rows)  BY <4>1, FewerBytes DEF Fits
      <4>3. /\ TotalBytes(Live(s, rows), rows) \in Nat
            /\ TotalBytes(Live(s, u), u) <= TotalBytes(Live(s, rows), rows)
        BY <4>2, <3>4, <2>4, FewerBytes
      <4>4. TotalBytes(Live(s, rows), rows) <= Cap[s]  BY <2>9 DEF Fits
      <4> QED  BY <3>1, <3>2, <4>3, <4>4
    <3> QED  BY <3>3, <3>4
  <2> QED  BY <2>7, <2>8, <2>9 DEF Fits
<1> QED  BY <1>1, <1>2

-----------------------------------------------------------------------------
(* Rows and requests.                                                      *)
Pinned(s) == TokenKind[s] = "sha"

DataTypeOK ==
    /\ clock \in Nat
    /\ files \in [Sources -> Nat] /\ loaded \in [Processes -> [Sources -> Nat]]
    /\ calls = [r \in Requests |-> calls[r]]

(* A row has the version its key names, and the commit if it is pinned.    *)
GoodRow(k, row) ==
    row \in Rows /\ row.ver = k.version /\ (Pinned(k.source) => row.gen = k.token)
RowsGood == \A k \in DOMAIN rows : GoodRow(k, rows[k])

(* A request has the version of its process in its key, and if its source  *)
(* is pinned the commit that its process has.                              *)
GoodCall(p, c) ==
    CASE c.at = "wrapped" ->
           /\ c.source \in Sources /\ c.key.source = c.source /\ c.key.version = Version[p]
           /\ Pinned(c.source) => c.key.token = loaded[p][c.source]
      [] c.at = "running" ->
           /\ c.gen \in Nat /\ c.key.version = Version[p]
           /\ Pinned(c.key.source) => c.gen = c.key.token
      [] c.at = "hit" ->
           /\ c.source \in Sources /\ c.ver = Version[p]
           /\ Pinned(c.source) => c.gen = loaded[p][c.source]
      [] OTHER -> TRUE
CallsGood == \A r \in Requests : GoodCall(ProcessOf[r], calls[r])

CacheInv == DataTypeOK /\ RowsGood /\ CallsGood /\ Fits(rows)

LEMMA EmptyFits == ASSUME NEW table, DOMAIN table = {} PROVE Fits(table)
<1>1. Sized(DOMAIN table, table)
  BY FS_EmptySet DEF Sized
<1>2. TotalBytes({}, table) = 0
  <2>1. UNION {{k} \X (1..table[k].bytes) : k \in {}} = {}
    OBVIOUS
  <2>2. QED
    BY <2>1, FS_EmptySet DEF TotalBytes
<1>3. \A s : Live(s, table) = {}
  BY DEF Live
<1>4. TotalBytes(DOMAIN table, table) <= MaxBytes
  BY <1>2, CacheAssumption
<1>5. ASSUME NEW s \in Sources, Cap[s] # NoCap PROVE TotalBytes(Live(s, table), table) <= Cap[s]
  <2>1. TotalBytes(Live(s, table), table) = 0
    BY <1>2, <1>3
  <2>2. Cap[s] \in Nat
    BY <1>5, CacheAssumption
  <2>3. QED
    BY <2>1, <2>2
<1>6. QED
  BY <1>1, <1>4, <1>5 DEF Fits

LEMMA CacheInitial == CacheInit => CacheInv
<1> SUFFICES ASSUME CacheInit PROVE CacheInv
  OBVIOUS
<1>1. DataTypeOK /\ RowsGood /\ CallsGood
  BY CacheAssumption DEF CacheInit, DataTypeOK, RowsGood, CallsGood, GoodCall
<1>2. Fits(rows)
  BY EmptyFits DEF CacheInit
<1>3. QED
  BY <1>1, <1>2 DEF CacheInv

(* Some of the rows are left, and the requests are as good as before.      *)
LEMMA FewerRows ==
    ASSUME CacheInv, LeftOf(rows', rows)
    PROVE  RowsGood' /\ Fits(rows)'
<1>1. RowsGood'
  BY DEF LeftOf, CacheInv, RowsGood
<1>2. Fits(rows')
  BY LeftIsLighter, LighterFits DEF CacheInv
<1>3. QED
  BY <1>1, <1>2 DEF Fits

(* One request goes on; nobody loads anything.                             *)
LEMMA OneCallOn ==
    ASSUME CacheInv, NEW r \in Requests, NEW c, calls' = [calls EXCEPT ![r] = c],
           GoodCall(ProcessOf[r], c), UNCHANGED <<clock, files, loaded>>
    PROVE  DataTypeOK' /\ CallsGood'
<1>1. calls' = [q \in Requests |-> IF q = r THEN c ELSE calls[q]]
  BY DEF CacheInv, DataTypeOK
<1>2. DataTypeOK'
  BY <1>1 DEF CacheInv, DataTypeOK
<1>3. \A q \in Requests : GoodCall(ProcessOf[q], calls'[q])
  BY <1>1 DEF CacheInv, CallsGood
<1>4. QED
  BY <1>2, <1>3 DEF CallsGood, GoodCall

LEMMA WrapKeeps ==
    ASSUME CacheInv, NEW r \in Requests, NEW s \in Sources, NEW q \in Queries,
           NEW m \in {"normal", "refresh", "bypass"}, Wrap(r, s, q, m)
    PROVE  CacheInv'
<1> DEFINE p == ProcessOf[r]
           c == [at |-> "wrapped", source |-> s, query |-> q, mode |-> m, since |-> loaded[p][s],
                 key |-> CacheKey(Version[p], s, q, Token(p, s))]
<1>1. calls' = [calls EXCEPT ![r] = c] /\ UNCHANGED <<clock, files, loaded>>
  BY DEF Wrap
<1>2. GoodCall(p, c)
  BY DEF GoodCall, CacheKey, Token, Pinned
<1>3. LeftOf(rows', rows)
  BY WithoutLeaves DEF Wrap, FoundBy, LeftOf
<1> HIDE DEF c
<1>4. QED
  BY <1>1, <1>2, <1>3, OneCallOn, FewerRows DEF CacheInv

LEMMA HitKeeps ==
    ASSUME CacheInv, NEW r \in Requests, Hit(r)
    PROVE  CacheInv'
<1> DEFINE c == calls[r]
           k == c.key
           hit == [at |-> "hit", source |-> c.source, since |-> c.since,
                   ver |-> rows[k].ver, gen |-> rows[k].gen]
<1>1. /\ c.at = "wrapped" /\ k \in DOMAIN rows
      /\ rows' = [rows EXCEPT ![k].used = clock]
      /\ calls' = [calls EXCEPT ![r] = hit] /\ UNCHANGED <<clock, files, loaded>>
  BY DEF Hit, Usable
<1>2. /\ c.source \in Sources /\ k.source = c.source /\ k.version = Version[ProcessOf[r]]
      /\ Pinned(c.source) => k.token = loaded[ProcessOf[r]][c.source]
  BY <1>1 DEF CacheInv, CallsGood, GoodCall
<1>3. GoodRow(k, rows[k])
  BY <1>1 DEF CacheInv, RowsGood
<1>4. GoodCall(ProcessOf[r], hit)
  BY <1>2, <1>3 DEF GoodRow, GoodCall
<1>5. DataTypeOK' /\ CallsGood'
  <2> HIDE DEF hit
  <2>1. QED
    BY <1>1, <1>4, OneCallOn
<1>6. /\ [rows[k] EXCEPT !.used = clock] \in Rows
      /\ [rows[k] EXCEPT !.used = clock].gen = rows[k].gen
      /\ [rows[k] EXCEPT !.used = clock].ver = rows[k].ver
      /\ [rows[k] EXCEPT !.used = clock].bytes = rows[k].bytes
  BY <1>3 DEF GoodRow, Rows, CacheInv, DataTypeOK
<1>7. DOMAIN rows' = DOMAIN rows
      /\ \A x \in DOMAIN rows : rows'[x] = IF x = k THEN [rows[k] EXCEPT !.used = clock] ELSE rows[x]
  BY <1>1
<1>8. RowsGood'
  BY <1>3, <1>6, <1>7 DEF CacheInv, RowsGood, GoodRow
<1>9. Fits(rows)'
  <2>1. Lighter(rows', rows)
    BY <1>6, <1>7 DEF Lighter
  <2>2. Fits(rows')
    BY <2>1, LighterFits DEF CacheInv
  <2>3. QED
    BY <2>2 DEF Fits
<1>10. QED
  BY <1>5, <1>8, <1>9 DEF CacheInv

LEMMA DelegateKeeps ==
    ASSUME CacheInv, NEW r \in Requests, Delegate(r)
    PROVE  CacheInv'
<1> DEFINE c == calls[r]
           p == ProcessOf[r]
           running == [at |-> "running", key |-> c.key, stores |-> ~Bypasses(c), gen |-> loaded[p][c.source]]
<1>1. /\ c.at = "wrapped"
      /\ calls' = [calls EXCEPT ![r] = running] /\ UNCHANGED <<clock, files, loaded>>
  BY DEF Delegate
<1>2. /\ c.source \in Sources /\ c.key.source = c.source /\ c.key.version = Version[p]
      /\ Pinned(c.source) => c.key.token = loaded[p][c.source]
  BY <1>1 DEF CacheInv, CallsGood, GoodCall
<1>3. p \in Processes
  BY CacheAssumption
<1>4. GoodCall(p, running)
  <2>1. loaded[p][c.source] \in Nat
    BY <1>2, <1>3 DEF CacheInv, DataTypeOK
  <2>2. QED
    BY <1>2, <2>1 DEF GoodCall
<1>5. LeftOf(rows', rows)
  BY WithoutLeaves DEF Delegate, LeftOf
<1> HIDE DEF running
<1>6. QED
  BY <1>1, <1>4, <1>5, OneCallOn, FewerRows DEF CacheInv

LEMMA AnswerOrFailKeeps ==
    ASSUME CacheInv, NEW r \in Requests,
           Fail(r) \/ \E size \in BodySizes, written \in BOOLEAN : Answer(r, size, written)
    PROVE  CacheInv'
<1> DEFINE c == calls[r]
           v == Version[ProcessOf[r]]
<1>1. /\ c.gen \in Nat /\ c.key.version = v
      /\ Pinned(c.key.source) => c.gen = c.key.token
  BY DEF Fail, Answer, CacheInv, CallsGood, GoodCall
<1>2. calls' = [calls EXCEPT ![r] = [at |-> "idle"]] /\ UNCHANGED <<clock, files, loaded>>
  BY DEF Fail, Answer
<1>3. GoodCall(ProcessOf[r], [at |-> "idle"])
  BY DEF GoodCall
<1>4. DataTypeOK' /\ CallsGood'
  BY <1>2, <1>3, OneCallOn
<1>5. CASE rows' = rows
  <2>1. LeftOf(rows', rows)
    BY <1>5 DEF LeftOf
  <2>2. QED
    BY <1>4, <2>1, FewerRows DEF CacheInv
<1>6. CASE rows' # rows
  <2>1. PICK size \in BodySizes :
           rows' \in WriteEntry(c.key, [ver |-> v, gen |-> c.gen, bytes |-> size,
                                        at |-> clock, used |-> clock])
    BY <1>6 DEF Fail, Answer
  <2> DEFINE row == [ver |-> v, gen |-> c.gen, bytes |-> size, at |-> clock, used |-> clock]
  <2>2. row \in Rows /\ row.gen = c.gen /\ row.bytes \in Nat /\ row.ver = v
    <3>1. v \in {Version[p] : p \in Processes}
      BY CacheAssumption
    <3>2. clock \in Nat /\ size \in Nat
      BY CacheAssumption DEF CacheInv, DataTypeOK
    <3>3. QED
      BY <1>1, <3>1, <3>2 DEF Rows
  <2>3. LeftOf(rows', Upserted(c.key, row, rows)) /\ Fits(rows')
    <3> HIDE DEF row
    <3>1. QED
      BY <1>6, <2>1, <2>2, WriteLeaves, WriteFits DEF row, CacheInv
  <2>4. GoodRow(c.key, row)
    BY <1>1, <2>2 DEF GoodRow
  <2>5. \A x \in DOMAIN rows' : \/ x = c.key /\ rows'[x] = row
                                \/ x \in DOMAIN rows /\ rows'[x] = rows[x]
    <3> HIDE DEF row
    <3>1. QED
      BY <2>3 DEF LeftOf, Upserted
  <2>6. RowsGood'
    <3> HIDE DEF row
    <3>1. QED
      BY <2>4, <2>5 DEF CacheInv, RowsGood
  <2>7. Fits(rows)'
    BY <2>3 DEF Fits
  <2>8. QED
    BY <1>4, <2>6, <2>7 DEF CacheInv
<1>7. QED
  BY <1>5, <1>6

(* Time, edits, reloads and clears.  Neither moves what a process has      *)
(* loaded of a pinned source.                                              *)
LEMMA OutsideKeeps ==
    ASSUME CacheInv,
           \/ Tick
           \/ \E p \in Processes : Clear(p) \/ \E s \in Sources : ReloadSource(p, s)
           \/ \E s \in Sources : EditSource(s)
    PROVE  CacheInv'
<1>1. LeftOf(rows', rows) /\ calls' = calls
  BY WithoutLeaves DEF Tick, Clear, EditSource, ReloadSource, LeftOf
<1>2. /\ DataTypeOK'
      /\ \A q \in Processes, x \in Sources : Pinned(x) => loaded'[q][x] = loaded[q][x]
  <2>1. CASE Tick \/ \E p \in Processes : Clear(p)
    BY <2>1 DEF Tick, Clear, CacheInv, DataTypeOK
  <2>2. ASSUME NEW p \in Processes, NEW s \in Sources, ReloadSource(p, s)
        PROVE  /\ DataTypeOK'
               /\ \A q \in Processes, x \in Sources : Pinned(x) => loaded'[q][x] = loaded[q][x]
    <3>1. loaded' = [q \in Processes |->
             IF q = p THEN [x \in Sources |-> IF x = s THEN files[s] ELSE loaded[p][x]] ELSE loaded[q]]
      BY <2>2 DEF ReloadSource, CacheInv, DataTypeOK
    <3>2. QED
      BY <2>2, <3>1 DEF ReloadSource, CacheInv, DataTypeOK, Pinned
  <2>3. ASSUME NEW s \in Sources, EditSource(s)
        PROVE  /\ DataTypeOK'
               /\ \A q \in Processes, x \in Sources : Pinned(x) => loaded'[q][x] = loaded[q][x]
    <3>1. files' \in [Sources -> Nat] /\ files[s] + 1 \in Nat
      BY <2>3 DEF EditSource, CacheInv, DataTypeOK
    <3>2. CASE TokenKind[s] = "opaque"
      <4>1. loaded' = [q \in Processes |->
               [x \in Sources |-> IF x = s THEN files[s] + 1 ELSE loaded[q][x]]]
        BY <2>3, <3>2 DEF EditSource, CacheInv, DataTypeOK
      <4>2. QED
        BY <2>3, <3>1, <3>2, <4>1 DEF EditSource, CacheInv, DataTypeOK, Pinned
    <3>3. CASE TokenKind[s] # "opaque"
      BY <2>3, <3>1, <3>3 DEF EditSource, CacheInv, DataTypeOK
    <3>4. QED
      BY <3>2, <3>3
  <2>4. QED
    BY <2>1, <2>2, <2>3
<1>3. \A r \in Requests : ProcessOf[r] \in Processes
  BY CacheAssumption
<1>4. CallsGood'
  BY <1>1, <1>2, <1>3 DEF CacheInv, CallsGood, GoodCall, Pinned
<1>5. QED
  BY <1>1, <1>2, <1>4, FewerRows DEF CacheInv

(* A process that starts again has no request, and the others keep theirs. *)
LEMMA RestartKeeps ==
    ASSUME CacheInv, NEW p \in Processes, Restart(p)
    PROVE  CacheInv'
<1>1. /\ loaded' = [q \in Processes |-> IF q = p THEN files ELSE loaded[q]]
      /\ calls' = [r \in Requests |-> IF ProcessOf[r] = p THEN [at |-> "idle"] ELSE calls[r]]
      /\ UNCHANGED <<rows, clock, files>>
  BY DEF Restart, CacheInv, DataTypeOK
<1>2. DataTypeOK'
  BY <1>1 DEF CacheInv, DataTypeOK
<1>3. \A r \in Requests : ProcessOf[r] \in Processes
  BY CacheAssumption
<1>4. CallsGood'
  <2>1. ASSUME NEW r \in Requests, ProcessOf[r] = p PROVE GoodCall(ProcessOf[r], calls[r])'
    BY <1>1, <2>1 DEF GoodCall
  <2>2. ASSUME NEW r \in Requests, ProcessOf[r] # p PROVE GoodCall(ProcessOf[r], calls[r])'
    <3>1. calls'[r] = calls[r] /\ loaded'[ProcessOf[r]] = loaded[ProcessOf[r]]
      BY <1>1, <1>3, <2>2
    <3>2. QED
      BY <3>1 DEF GoodCall, CacheInv, CallsGood
  <2>3. QED
    BY <2>1, <2>2 DEF CallsGood
<1>5. LeftOf(rows', rows)
  BY <1>1 DEF LeftOf
<1>6. QED
  BY <1>2, <1>4, <1>5, FewerRows DEF CacheInv

LEMMA CacheInductive == CacheInv /\ [CacheNext]_cvars => CacheInv'
<1>1. ASSUME CacheInv, UNCHANGED cvars PROVE CacheInv'
  BY <1>1 DEF cvars, CacheInv, DataTypeOK, RowsGood, CallsGood, GoodCall, Fits
<1>2. QED
  BY <1>1, WrapKeeps, HitKeeps, DelegateKeeps, AnswerOrFailKeeps, OutsideKeeps, RestartKeeps
  DEF CacheNext

(* Rows and requests carry the version and commit that the executor gave   *)
(* them (core query-cache), in every behaviour.                            *)
THEOREM CacheInvariant == CacheSpec => []CacheInv
  BY CacheInitial, CacheInductive, PTL DEF CacheSpec

(* Whichever processes share the store, come and go, and whatever refs     *)
(* move meanwhile, a hit was computed by the version that asks, and for a  *)
(* pinned source from the commit that the asking process resolved          *)
(* (deriveCacheKey, freshnessTokenFromFacts).                              *)
THEOREM HitsAreAlwaysOwn == CacheSpec => []HitsAreOwn
<1>1. CacheInv => HitsAreOwn
  BY DEF CacheInv, CallsGood, GoodCall, Pinned, HitsAreOwn
<1>2. QED
  BY <1>1, CacheInvariant, PTL

(* However requests, expiry, clears and evictions interleave, the store    *)
(* never outgrows the global budget, nor a source its cap (writeEntryTxn). *)
THEOREM StoreAlwaysFits == CacheSpec => []StoreFits
<1>1. CacheInv => StoreFits
  BY DEF CacheInv, Fits, StoreFits
<1>2. QED
  BY <1>1, CacheInvariant, PTL

(* While the store as a whole has room for an answer, writing it evicts no *)
(* other source's row (evictToSourceBudget before evictToGlobalBudget).    *)
LEMMA AnswerSpares ==
    ASSUME CacheInv, NEW r \in Requests, NEW size \in BodySizes, Answer(r, size, TRUE),
           TotalBytes(DOMAIN Purged(rows) \ {calls[r].key}, rows) + size <= MaxBytes,
           NEW k \in DOMAIN Purged(rows), k.source # calls[r].key.source
    PROVE  k \in DOMAIN rows'
<1> DEFINE key == calls[r].key
           row == [ver |-> Version[ProcessOf[r]], gen |-> calls[r].gen, bytes |-> size,
                   at |-> clock, used |-> clock]
           u == Upserted(key, row, Purged(rows))
<1>1. rows' = rows \/ rows' \in WriteEntry(key, row)
  BY DEF Answer
<1>2. row.bytes = size /\ size \in Nat
  BY CacheAssumption
<1>3. k \in DOMAIN rows /\ k \in DOMAIN u
  BY DEF Purged, Without, Upserted
<1> HIDE DEF row
<1>4. CASE rows' = rows
  BY <1>3, <1>4
<1>5. CASE rows' # rows
  <2>1. row.bytes <= MaxEntry
    BY <1>1, <1>2, <1>5, CacheAssumption DEF WriteEntry
  <2>2. PICK capped \in EvictToSource(key.source, u) :
           rows' \in EvictToGlobal(capped) /\ LeftOf(rows', capped) /\ LeftOf(capped, u)
    BY <1>1, <1>2, <1>5, <2>1, WritePasses
  <2>3. Sized(DOMAIN u, u) /\ TotalBytes(DOMAIN u, u) <= MaxBytes
    BY <1>2, UpsertedSized DEF CacheInv, Fits
  <2> HIDE DEF u
  <2>4. k \in DOMAIN capped
    <3>1. CASE Cap[key.source] = NoCap
      BY <3>1, <2>2, <1>3 DEF EvictToSource
    <3>2. CASE Cap[key.source] # NoCap
      <4>1. PICK gone \in Victims(Live(key.source, u), Cap[key.source], u) : capped = Without(gone, u)
        BY <3>2, <2>2 DEF EvictToSource, EvictVictims
      <4>2. k \notin gone
        BY <4>1 DEF Victims, Live
      <4>3. QED
        BY <4>1, <4>2, <1>3 DEF Without
    <3>3. QED
      BY <3>1, <3>2
  <2>5. Sized(DOMAIN capped, capped) /\ TotalBytes(DOMAIN capped, capped) <= MaxBytes
    <3>1. /\ Sized(DOMAIN capped, capped)
          /\ TotalBytes(DOMAIN capped, capped) \in Nat /\ TotalBytes(DOMAIN u, u) \in Nat
          /\ TotalBytes(DOMAIN capped, capped) <= TotalBytes(DOMAIN u, u)
      BY <2>2, <2>3, LeftIsLighter, LiveLighter
    <3>2. QED
      BY <3>1, <2>3, CacheAssumption
  <2>6. PICK gone \in Victims(DOMAIN capped, MaxBytes, capped) : rows' = Without(gone, capped)
    BY <2>2 DEF EvictToGlobal, EvictVictims
  <2>7. gone = {}
    <3>1. SUFFICES ASSUME gone # {} PROVE FALSE
      OBVIOUS
    <3>2. PICK last \in gone :
             TotalBytes((DOMAIN capped \ gone) \cup {last}, capped) > MaxBytes
      BY <3>1, <2>6 DEF Victims
    <3>3. (DOMAIN capped \ gone) \cup {last} \in SUBSET DOMAIN capped
      BY <2>6 DEF Victims
    <3>4. /\ TotalBytes((DOMAIN capped \ gone) \cup {last}, capped) \in Nat
          /\ TotalBytes(DOMAIN capped, capped) \in Nat
          /\ TotalBytes((DOMAIN capped \ gone) \cup {last}, capped) <= TotalBytes(DOMAIN capped, capped)
      BY <3>3, <2>5, FewerBytes
    <3>5. QED
      BY <3>2, <3>4, <2>5, CacheAssumption
  <2>8. QED
    BY <2>4, <2>6, <2>7 DEF Without
<1>6. QED
  BY <1>4, <1>5

(* The cap of one source's answers is paid by that source: as long as the  *)
(* store has room, nobody else's row is evicted for it.                    *)
THEOREM CapsSpareOthers == CacheSpec => CapSparesOthers
<1>1. CacheInv /\ [CacheNext]_cvars =>
        [\A r \in Requests, size \in BodySizes :
           /\ calls[r].at = "running"
           /\ TotalBytes(DOMAIN Purged(rows) \ {calls[r].key}, rows) + size <= MaxBytes
           /\ Answer(r, size, TRUE)
           => \A k \in DOMAIN Purged(rows) :
                  k.source # calls[r].key.source => k \in DOMAIN rows']_cvars
  BY AnswerSpares
<1>2. QED
  BY <1>1, CacheInvariant, PTL DEF CacheSpec, CapSparesOthers

-----------------------------------------------------------------------------
(* The write mutex of the saved-query sidecar.                             *)
IsDoc(f) == f = [s \in Slugs |-> f[s]]

(* The mutation that holds the mutex, if there is one, has loaded the file *)
(* as it is, unless somebody edited the file by hand since.                *)
Holds(w) ==
    /\ w = [doc |-> w.doc, call |-> w.call, clean |-> w.clean]
    /\ IsDoc(w.doc)
    /\ w.clean => w.doc = file
MutexInv ==
    /\ IsDoc(file)
    /\ \A w \in writing : Holds(w)
    /\ \A v, w \in writing : v = w

LEMMA MutexInit == QueriesInit => MutexInv
  BY DEF QueriesInit, MutexInv, IsDoc

(* The pages and the reads leave the file and the mutex alone.             *)
LEMMA PagesLeaveIt ==
    ASSUME \/ \E t \in Tabs :
                \/ \E s \in Slugs : LoadSlug(t, s) \/ \E e \in Entries : Create(t, s, e)
                \/ \E b \in Bodies, p \in ParameterLists : EditDraft(t, b, p)
                \/ Save(t) \/ StartDelete(t)
                \/ \E then \in {"reload", "overwrite", "reload after delete", "delete over"} :
                      AfterStale(t, then)
           \/ \E reply \in replies :
                \/ EntryArrives(reply) \/ ReloadArrives(reply) \/ FetchedForWrite(reply)
                \/ SaveArrives(reply) \/ NobodyHears(reply)
           \/ \E call \in asked : GetOne(call)
    PROVE  UNCHANGED <<file, writing>>
  BY DEF LoadSlug, Create, EditDraft, Save, StartDelete, AfterStale, EntryArrives, ReloadArrives,
         FetchedForWrite, SaveArrives, NobodyHears, Keeps, GetOne

(* A page that goes away is forgotten by the mutation it asked for.        *)
LEMMA LeavingKeeps ==
    ASSUME MutexInv, NEW t, NEW more, LeavesPage(t, more)
    PROVE  MutexInv'
<1>1. file' = file /\ writing' = {[w EXCEPT !.call = Deaf(t, w.call)] : w \in writing}
  BY DEF LeavesPage
<1>2. ASSUME NEW w \in writing
      PROVE  LET v == [w EXCEPT !.call = Deaf(t, w.call)] IN Holds(v)
  <2> DEFINE c == Deaf(t, w.call)
  <2>1. w = [doc |-> w.doc, call |-> w.call, clean |-> w.clean]
    BY DEF MutexInv, Holds
  <2>2. [w EXCEPT !.call = c] = [doc |-> w.doc, call |-> c, clean |-> w.clean]
    <3> HIDE DEF c
    <3>1. QED
      BY <2>1
  <2>3. QED
    BY <2>2 DEF MutexInv, Holds
<1>3. QED
  BY <1>1, <1>2 DEF MutexInv, Holds

LEMMA MutexInductive == MutexInv /\ [QueriesNext]_qvars => MutexInv'
<1> SUFFICES ASSUME MutexInv, [QueriesNext]_qvars PROVE MutexInv'
  OBVIOUS
<1>1. CASE UNCHANGED <<file, writing>>
  BY <1>1 DEF MutexInv, Holds
<1>2. ASSUME NEW reply \in replies, DeleteArrives(reply) \/ CreateArrives(reply)
      PROVE  MutexInv'
  <2>1. UNCHANGED <<file, writing>> \/ \E more : LeavesPage(reply.tab, more)
    BY <1>2 DEF DeleteArrives, CreateArrives, Keeps
  <2>2. QED
    BY <1>1, <2>1, LeavingKeeps
<1>3. ASSUME NEW call \in asked, LoadDoc(call) PROVE MutexInv'
  BY <1>3 DEF LoadDoc, MutexFree, MutexInv, Holds
<1>4. ASSUME NEW w \in writing, WriteFile(w) PROVE MutexInv'
  <2>1. writing' = {}
    BY <1>4 DEF WriteFile, MutexInv
  <2>2. IsDoc(file')
    BY <1>4 DEF WriteFile, MutexInv, Holds, IsDoc
  <2>3. QED
    BY <2>1, <2>2 DEF MutexInv
<1>5. ASSUME NEW w \in writing, WriteFails(w) PROVE MutexInv'
  BY <1>5 DEF WriteFails, MutexInv, Holds
<1>6. ASSUME NEW s \in Slugs, NEW e \in Entries \cup {NoEntry}, HandEdit(s, e) PROVE MutexInv'
  <2>1. file' = [file EXCEPT ![s] = e] /\ writing' = {[w EXCEPT !.clean = FALSE] : w \in writing}
    BY <1>6 DEF HandEdit
  <2>2. IsDoc(file')
    BY <2>1 DEF MutexInv, IsDoc
  <2>3. ASSUME NEW w \in writing
        PROVE  [w EXCEPT !.clean = FALSE] = [doc |-> w.doc, call |-> w.call, clean |-> FALSE]
    <3> DEFINE no == FALSE
    <3>1. PICK d, c, k : w = [doc |-> d, call |-> c, clean |-> k]
      BY DEF MutexInv, Holds
    <3>2. [w EXCEPT !.clean = no] = [doc |-> w.doc, call |-> w.call, clean |-> no]
      <4> HIDE DEF no
      <4>1. QED
        BY <3>1
    <3>3. QED
      BY <3>2
  <2>4. QED
    BY <2>1, <2>2, <2>3 DEF MutexInv, Holds
<1>7. QED
  BY <1>1, <1>2, <1>3, <1>4, <1>5, <1>6, PagesLeaveIt DEF QueriesNext, qvars

(* One mutation at a time, on the file as it is.                           *)
THEOREM OneWriter == QueriesSpec => []MutexInv
  BY MutexInit, MutexInductive, PTL DEF QueriesSpec

(* A conditional write that goes through replaces an entry that still has  *)
(* the ETag it was sent with, and no other entry                           *)
(* (saved-queries, runExclusive and the ETag check before atomicWriteFile).*)
THEOREM ConditionalWrites == QueriesSpec => WritesAreAtomic
<1>1. ASSUME MutexInv, NEW w \in writing, WriteFile(w), w.clean, Verdict(w.doc, w.call) = "ok"
      PROVE  /\ \A s \in Slugs \ {w.call.slug} : file'[s] = file[s]
             /\ w.call.etag # NoEtag /\ file[w.call.slug] # NoEntry
                  => Etag(w.call.slug, file[w.call.slug]) = w.call.etag
             /\ w.call.etag = NoEtag => file[w.call.slug] = NoEntry
  <2>1. w.doc = file /\ IsDoc(file)
    BY <1>1 DEF MutexInv, Holds
  <2>2. \A s \in Slugs \ {w.call.slug} : file'[s] = file[s]
    BY <1>1, <2>1 DEF WriteFile, IsDoc
  <2>3. w.call.etag # NoEtag /\ file[w.call.slug] # NoEntry
          => Etag(w.call.slug, file[w.call.slug]) = w.call.etag
    BY <1>1, <2>1 DEF Verdict
  <2>4. w.call.etag = NoEtag => file[w.call.slug] = NoEntry
    BY <1>1, <2>1 DEF Verdict, Etag, NoEtag
  <2>5. QED
    BY <2>2, <2>3, <2>4
<1>2. MutexInv /\ [QueriesNext]_qvars =>
        [\A w \in writing : WriteFile(w) /\ w.clean /\ Verdict(w.doc, w.call) = "ok" =>
           /\ \A s \in Slugs \ {w.call.slug} : file'[s] = file[s]
           /\ w.call.etag # NoEtag /\ file[w.call.slug] # NoEntry
                => Etag(w.call.slug, file[w.call.slug]) = w.call.etag
           /\ w.call.etag = NoEtag => file[w.call.slug] = NoEntry]_qvars
  BY <1>1
<1>3. QED
  BY <1>2, OneWriter, PTL DEF QueriesSpec, WritesAreAtomic

-----------------------------------------------------------------------------
(* The runs of the diff page.                                              *)
RunsInv ==
    /\ \E S : sent \in Seq(S)
    /\ board = [running |-> board.running, shown |-> board.shown]
    /\ DiffShowsItsRun

LEMMA SentGrows ==
    ASSUME RunsInv, NEW request, Send(request)
    PROVE  /\ \E S : sent' \in Seq(S)
           /\ open' = open \cup {Len(sent')}
<1>1. PICK S : sent \in Seq(S)
  BY DEF RunsInv
<1>2. sent \in Seq(S \cup {request}) /\ request \in S \cup {request}
  BY <1>1, SeqMonotonic
<1>3. /\ sent' = Append(sent, request) /\ open' = open \cup {Len(sent) + 1}
      /\ sent' \in Seq(S \cup {request}) /\ Len(sent') = Len(sent) + 1
  BY <1>2 DEF Send
<1>4. QED
  BY <1>3

LEMMA RunsInit == PagesInit => RunsInv
<1>1. <<>> \in Seq({})
  OBVIOUS
<1>2. QED
  BY <1>1 DEF PagesInit, RunsInv, DiffShowsItsRun

(* The button starts a run when none is under way.                         *)
LEMMA RunKeeps ==
    ASSUME RunsInv, Run
    PROVE  RunsInv'
<1>1. Send(form) /\ ~board.running /\ board' = [running |-> TRUE, shown |-> Empty]
  BY DEF Run, ButtonEnabled
<1>2. /\ \E S : sent' \in Seq(S)
      /\ open' = open \cup {Len(sent')}
  BY <1>1, SentGrows
<1>3. open = {}
  BY <1>1 DEF RunsInv, DiffShowsItsRun
<1>4. board'.running /\ board'.shown = Empty
      /\ board' = [running |-> board'.running, shown |-> board'.shown]
  BY <1>1
<1>5. QED
  BY <1>2, <1>3, <1>4 DEF RunsInv, DiffShowsItsRun

(* Edits leave the runs alone, and drop at most what is shown.             *)
LEMMA EditsKeep ==
    ASSUME RunsInv,
           \/ SwapSides
           \/ \E side \in Sides :
                 \/ \E i \in Inputs : OnSourceChange(side, i)
                 \/ \E x \in Texts : OnTextChange(side, x)
    PROVE  RunsInv'
<1>1. /\ sent' = sent /\ open' = open
      /\ board' = board \/ board' = [board EXCEPT !.shown = Empty]
  BY DEF SwapSides, OnSourceChange, OnTextChange
<1>2. [board EXCEPT !.shown = Empty] = [running |-> board.running, shown |-> Empty]
  BY DEF RunsInv
<1>3. /\ board' = [running |-> board'.running, shown |-> board'.shown]
      /\ board'.running = board.running
      /\ board'.shown = board.shown \/ board'.shown = Empty
  BY <1>1, <1>2 DEF RunsInv
<1>4. QED
  BY <1>1, <1>3 DEF RunsInv, DiffShowsItsRun

(* An answer to a diff is to the last run, the only one under way.         *)
LEMMA ArrivalKeeps ==
    ASSUME RunsInv, NEW n \in open, NEW kind, Arrives(n, kind)
    PROVE  RunsInv'
<1>1. /\ sent' = sent /\ open' = open \ {n}
      /\ board' = [running |-> FALSE, shown |-> [kind |-> kind, of |-> n]]
  BY DEF Arrives
<1>2. open' = {} /\ n = Len(sent)
  BY <1>1 DEF RunsInv, DiffShowsItsRun
<1>3. board'.shown.of = n /\ board' = [running |-> board'.running, shown |-> board'.shown]
  BY <1>1
<1>4. QED
  BY <1>1, <1>2, <1>3 DEF RunsInv, DiffShowsItsRun

LEMMA RunsInductive == RunsInv /\ [PagesNext]_rvars => RunsInv'
<1>1. ASSUME RunsInv, UNCHANGED rvars PROVE RunsInv'
  BY <1>1 DEF rvars, RunsInv, DiffShowsItsRun
<1>2. QED
  BY <1>1, RunKeeps, EditsKeep, ArrivalKeeps DEF PagesNext, Answered, RunFails

(* The diff page never shows an answer to a run but the last, and waits    *)
(* for no other, whatever the user edits or swaps meanwhile: its button is *)
(* disabled while a run is under way (diff.page.ts).                       *)
THEOREM DiffShowsLastRun == PagesSpec => []DiffShowsItsRun
<1>1. RunsInv => DiffShowsItsRun
  BY DEF RunsInv
<1>2. QED
  BY <1>1, RunsInit, RunsInductive, PTL DEF PagesSpec

-----------------------------------------------------------------------------
(* The source picker: what is loaded is what is staged.  The overlay is the *)
(* record of its fields, which is all that its updates need of its type.    *)
IsOverlay ==
    overlay = [staged |-> overlay.staged, ref |-> overlay.ref, refOf |-> overlay.refOf,
               refs |-> overlay.refs, commits |-> overlay.commits, scope |-> overlay.scope,
               seen |-> overlay.seen]

PanelsInv == IsOverlay /\ PanelsFollow

LEMMA FocusKeepsPanels ==
    ASSUME PanelsInv, NEW id, FocusSource(id)
    PROVE  PanelsInv'
  BY DEF FocusSource, PanelsInv, IsOverlay, PanelsFollow, Loading, NotAsked

(* Pages kept or fetched for the scope are shown for that scope.            *)
LEMMA ScopeKeepsPanels ==
    ASSUME PanelsInv, NEW scope, OnScopeChange(scope)
    PROVE  PanelsInv'
<1>1. ASSUME NEW list,
             overlay' = [overlay EXCEPT !.scope = scope,
                !.commits = [kind |-> "loaded", of |-> <<overlay.staged, scope>>, list |-> list]]
      PROVE  PanelsInv'
  BY <1>1 DEF PanelsInv, IsOverlay, PanelsFollow
<1>2. CASE overlay' = [overlay EXCEPT !.scope = scope, !.commits = Loading]
  BY <1>2 DEF PanelsInv, IsOverlay, PanelsFollow, Loading
<1>3. QED
  BY <1>1, <1>2 DEF OnScopeChange, LoadCommits

(* Only what a panel shows can be picked, and that is of the staged source. *)
LEMMA PickKeepsPanels ==
    ASSUME PanelsInv, NEW c, Pick(c)
    PROVE  PanelsInv'
<1>1. ASSUME NEW id, id = overlay.staged, overlay' = [overlay EXCEPT !.ref = c, !.refOf = id]
      PROVE  PanelsInv'
  BY <1>1 DEF PanelsInv, IsOverlay, PanelsFollow
<1>2. CASE overlay.commits.kind = "loaded" /\ c \in Range(overlay.commits.list.commits)
  <2>1. overlay.commits.of[1] = overlay.staged
    BY <1>2 DEF PanelsInv, PanelsFollow
  <2>2. overlay' = [overlay EXCEPT !.ref = c, !.refOf = overlay.commits.of[1]]
    BY <1>2 DEF Pick
  <2>3. QED
    BY <1>1, <2>1, <2>2
<1>3. CASE ~(overlay.commits.kind = "loaded" /\ c \in Range(overlay.commits.list.commits))
  <2>1. overlay.refs.of = overlay.staged
    BY <1>3 DEF Pick, PanelsInv, PanelsFollow
  <2>2. overlay' = [overlay EXCEPT !.ref = c, !.refOf = overlay.refs.of]
    BY <1>3 DEF Pick
  <2>3. QED
    BY <1>1, <2>1, <2>2
<1>4. QED
  BY <1>2, <1>3

(* A late answer is shown only if its source, and for commits its scope, is *)
(* still the one selected.                                                  *)
LEMMA RefsKeepPanels ==
    ASSUME PanelsInv, NEW ask, RefsArrive(ask)
    PROVE  PanelsInv'
<1>1. CASE UNCHANGED overlay
  BY <1>1 DEF PanelsInv, IsOverlay, PanelsFollow
<1>2. CASE overlay' = [overlay EXCEPT !.refs = [kind |-> "no history"]]
  BY <1>2 DEF PanelsInv, IsOverlay, PanelsFollow
<1>3. ASSUME NEW list, overlay.staged = ask.id, NEW commits,
             \/ commits = Loading
             \/ commits = [kind |-> "loaded", of |-> <<ask.id, overlay.scope>>, list |-> list],
             overlay' = [overlay EXCEPT !.refs = [kind |-> "loaded", of |-> ask.id],
                                        !.commits = commits]
      PROVE  PanelsInv'
  <2>1. commits.kind = "loaded" => commits.of = <<overlay.staged, overlay.scope>>
    BY <1>3 DEF Loading
  <2>2. QED
    BY <1>3, <2>1 DEF PanelsInv, IsOverlay, PanelsFollow
<1>4. QED
  BY <1>1, <1>2, <1>3 DEF RefsArrive

LEMMA CommitsKeepPanels ==
    ASSUME PanelsInv, NEW ask, CommitsArrive(ask)
    PROVE  PanelsInv'
<1>1. CASE UNCHANGED overlay
  BY <1>1 DEF PanelsInv, IsOverlay, PanelsFollow
<1>2. ASSUME NEW list, NEW seen, Shown(ask),
             overlay' = [overlay EXCEPT
                !.commits = [kind |-> "loaded", of |-> <<ask.id, ask.scope>>, list |-> list],
                !.seen = seen]
      PROVE  PanelsInv'
  BY <1>2 DEF Shown, PanelsInv, IsOverlay, PanelsFollow
<1>3. QED
  BY <1>1, <1>2 DEF CommitsArrive

(* Every step leaves the panels to the staged source.                      *)
LEMMA PanelsInductive == PanelsInv /\ [PickerNext]_pvars => PanelsInv'
<1> SUFFICES ASSUME PanelsInv, [PickerNext]_pvars PROVE PanelsInv'
  OBVIOUS
<1>1. ASSUME UNCHANGED overlay PROVE PanelsInv'
  BY <1>1 DEF PanelsInv, IsOverlay, PanelsFollow
<1>2. ASSUME NEW ask, FetchArrives(ask) PROVE PanelsInv'
  BY <1>2 DEF FetchArrives, PanelsInv, IsOverlay, PanelsFollow
<1>3. QED
  BY <1>1, <1>2, FocusKeepsPanels, ScopeKeepsPanels, PickKeepsPanels, RefsKeepPanels,
     CommitsKeepPanels DEF PickerNext, pvars, OnShowMore, OnRefreshRemotes, Lost

-----------------------------------------------------------------------------
(* The pages of commits.  A finite set of numbers, counted off from the     *)
(* least: the count of those below rises, and takes every value.            *)
Below(c, S) == {d \in S : d < c}

LEMMA BelowRises ==
    ASSUME NEW S \in SUBSET Nat, IsFiniteSet(S), NEW c \in S
    PROVE  /\ Cardinality(Below(c, S)) \in Nat
           /\ Cardinality(Below(c, S)) < Cardinality(S)
           /\ \A d \in S : c < d => Cardinality(Below(c, S)) < Cardinality(Below(d, S))
<1>1. Below(c, S) \in SUBSET S /\ Below(c, S) # S
  BY DEF Below
<1>2. IsFiniteSet(Below(c, S)) /\ Cardinality(Below(c, S)) \in Nat /\ Cardinality(S) \in Nat
  BY <1>1, FS_Subset, FS_CardinalityType
<1>3. Cardinality(Below(c, S)) < Cardinality(S)
  BY <1>1, <1>2, FS_Subset
<1>4. ASSUME NEW d \in S, c < d PROVE Cardinality(Below(c, S)) < Cardinality(Below(d, S))
  <2>1. Below(c, S) \in SUBSET Below(d, S) /\ Below(c, S) # Below(d, S)
    <3>1. c \in Nat /\ d \in Nat  OBVIOUS
    <3>2. c \in Below(d, S) /\ c \notin Below(c, S)  BY <1>4, <3>1 DEF Below
    <3>3. ASSUME NEW e \in Below(c, S) PROVE e \in Below(d, S)
      BY <1>4, <3>1 DEF Below
    <3> QED  BY <3>2, <3>3
  <2>2. IsFiniteSet(Below(d, S)) /\ Cardinality(Below(d, S)) \in Nat
    <3>1. Below(d, S) \in SUBSET S  BY DEF Below
    <3> QED  BY <3>1, FS_Subset, FS_CardinalityType
  <2> QED  BY <2>1, <2>2, <1>2, FS_Subset
<1> QED  BY <1>2, <1>3, <1>4

LEMMA BelowCountsOff ==
    ASSUME NEW S \in SUBSET Nat, IsFiniteSet(S), NEW n \in 1..Cardinality(S)
    PROVE  \E c \in S : Cardinality(Below(c, S)) = n - 1
<1> DEFINE size == Cardinality(S)
           f == [c \in S |-> Cardinality(Below(c, S)) + 1]
<1>1. size \in Nat
  BY FS_CardinalityType
<1>2. f \in [S -> 1..size]
  BY <1>1, BelowRises
<1>3. f \in Injection(S, 1..size)
  <2>1. ASSUME NEW c \in S, NEW d \in S, f[c] = f[d] PROVE c = d
    <3>1. c \in Nat /\ d \in Nat  OBVIOUS
    <3>2. Cardinality(Below(c, S)) \in Nat /\ Cardinality(Below(d, S)) \in Nat
      BY BelowRises
    <3>3. Cardinality(Below(c, S)) = Cardinality(Below(d, S))
      BY <2>1, <3>2
    <3>4. ~(c < d) /\ ~(d < c)
      BY <3>2, <3>3, BelowRises
    <3> QED  BY <3>1, <3>4
  <2> HIDE DEF f
  <2> QED  BY <1>2, <2>1 DEF Injection, IsInjective
<1>4. IsFiniteSet(1..size) /\ Cardinality(1..size) = size
  <2>1. 1 \in Int /\ size \in Int  BY <1>1
  <2>2. IsFiniteSet(1..size) /\ Cardinality(1..size) = IF 1 > size THEN 0 ELSE size - 1 + 1
    <3> HIDE DEF size
    <3> QED  BY <2>1, FS_Interval
  <2> HIDE DEF size
  <2> QED  BY <1>1, <2>2
<1>5. f \in Surjection(S, 1..size)
  <2> HIDE DEF f
  <2> QED  BY <1>3, <1>4, FS_Injection
<1>6. PICK c \in S : f[c] = n
  <2> HIDE DEF f
  <2> QED  BY <1>5, <1>1 DEF Surjection
<1>7. Cardinality(Below(c, S)) \in Nat
  BY BelowRises
<1> QED  BY <1>6, <1>7

-----------------------------------------------------------------------------
(* What git log walks, and what is in a page of it.                         *)
Rising(s) == s \in Seq(Nat) /\ \A i, j \in 1..Len(s) : i < j => s[i] < s[j]

RisesIn(s, S) == Rising(s) /\ \A i \in 1..Len(s) : s[i] \in S

(* The least closed set is below every closed set, and closed.              *)
LEMMA ReachableLeast ==
    ASSUME NEW tips, NEW S \in SUBSET Commits, tips \subseteq S, \A d \in S : ParentsOf[d] \subseteq S
    PROVE  Reachable(tips) \subseteq S
  BY DEF Reachable

LEMMA ReachableClosed ==
    ASSUME NEW tips, NEW c \in Reachable(tips)
    PROVE  c \in Commits /\ ParentsOf[c] \subseteq Reachable(tips)
<1>1. c \in Commits /\ ParentsOf[c] \subseteq Commits
  BY PickerAssumption DEF Reachable
<1>2. ASSUME NEW d \in ParentsOf[c],
             NEW S \in SUBSET Commits, tips \subseteq S, \A e \in S : ParentsOf[e] \subseteq S
      PROVE  d \in S
  BY <1>2 DEF Reachable
<1> QED  BY <1>1, <1>2 DEF Reachable

(* Behind a commit of the scope come commits of the scope, all of them older. *)
LEMMA BehindIsOlder ==
    ASSUME NEW tips, NEW before \in Reachable(tips), NEW c \in Reachable(ParentsOf[before])
    PROVE  c \in Reachable(tips) /\ before < c
<1> DEFINE S == {d \in Reachable(tips) : d > before}
<1>1. S \in SUBSET Commits /\ before \in Commits
  BY ReachableClosed
<1>2. ParentsOf[before] \subseteq S
  BY <1>1, ReachableClosed, PickerAssumption
<1>3. ASSUME NEW d \in S PROVE ParentsOf[d] \subseteq S
  <2>1. d \in Commits /\ ParentsOf[d] \subseteq Reachable(tips) /\ before \in Nat /\ d \in Nat
    BY <1>1, ReachableClosed, PickerAssumption
  <2>2. ASSUME NEW e \in ParentsOf[d] PROVE e > before
    <3>1. e \in Nat /\ e > d  BY <2>1, PickerAssumption
    <3> QED  BY <3>1, <2>1
  <2> QED  BY <2>1, <2>2
<1> HIDE DEF S
<1>4. c \in S
  BY <1>1, <1>2, <1>3, ReachableLeast
<1> QED  BY <1>4, <1>1, PickerAssumption DEF S

LEMMA LogShows ==
    ASSUME NEW id, NEW tips
    PROVE  RisesIn(GitLog(id, tips), Reachable(tips))
<1> DEFINE S == Reachable(tips) \cap Touching[id]
           log == GitLog(id, tips)
<1>1. S \in SUBSET Nat /\ IsFiniteSet(S) /\ Cardinality(S) \in Nat
  <2>1. S \in SUBSET Commits  BY DEF Reachable
  <2> HIDE DEF S
  <2> QED  BY <2>1, PickerAssumption, FS_Subset, FS_CardinalityType
<1>2. log = [n \in 1..Cardinality(S) |-> CHOOSE c \in S : Cardinality(Below(c, S)) = n - 1]
  BY DEF GitLog, Below
<1> HIDE DEF S, log
<1>3. \A n \in 1..Cardinality(S) : log[n] \in S /\ Cardinality(Below(log[n], S)) = n - 1
  <2>1. ASSUME NEW n \in 1..Cardinality(S)
        PROVE  log[n] \in S /\ Cardinality(Below(log[n], S)) = n - 1
    <3>1. \E c \in S : Cardinality(Below(c, S)) = n - 1
      BY <1>1, BelowCountsOff
    <3>2. log[n] = CHOOSE c \in S : Cardinality(Below(c, S)) = n - 1
      BY <1>2
    <3> QED  BY <3>1, <3>2
  <2> QED  BY <2>1
<1>4. log \in Seq(Nat) /\ Len(log) = Cardinality(S)
  <2>1. log \in [1..Cardinality(S) -> Nat]
    BY <1>1, <1>2, <1>3
  <2> QED  BY <2>1, <1>1
<1>5. ASSUME NEW i \in 1..Len(log), NEW j \in 1..Len(log), i < j PROVE log[i] < log[j]
  <2>1. log[i] \in S /\ log[j] \in S /\ log[i] \in Nat /\ log[j] \in Nat
    BY <1>1, <1>3, <1>4
  <2>2. Cardinality(Below(log[i], S)) = i - 1 /\ Cardinality(Below(log[j], S)) = j - 1
    BY <1>3, <1>4
  <2>3. log[i] # log[j]
    BY <2>2, <1>5
  <2>4. ~(log[j] < log[i])
    <3>1. SUFFICES ASSUME log[j] < log[i] PROVE FALSE  OBVIOUS
    <3>2. Cardinality(Below(log[j], S)) < Cardinality(Below(log[i], S))
      BY <1>1, <2>1, <3>1, BelowRises
    <3> QED  BY <3>2, <2>2, <1>5
  <2> QED  BY <2>1, <2>3, <2>4
<1>6. \A i \in 1..Len(log) : log[i] \in Reachable(tips)
  BY <1>3, <1>4 DEF S
<1> QED  BY <1>4, <1>5, <1>6 DEF RisesIn, Rising, log

(* The commit a page ends at, if there is another.                          *)
EndsAt(list) == list.next # Nothing => Len(list.commits) > 0 /\ list.next = Last(list.commits)

LEMMA PageShows ==
    ASSUME NEW id, NEW scope, NEW before
    PROVE  LET page == ListCommits(id, scope, before)
               tips == IF before = Nothing THEN Heads[id][scope] ELSE ParentsOf[before]
           IN  RisesIn(page.commits, Reachable(tips)) /\ EndsAt(page)
<1> DEFINE tips == IF before = Nothing THEN Heads[id][scope] ELSE ParentsOf[before]
           log == GitLog(id, tips)
           page == ListCommits(id, scope, before)
           first == SubSeq(log, 1, PageSize)
<1>1. RisesIn(log, Reachable(tips)) /\ log \in Seq(Nat) /\ Len(log) \in Nat /\ PageSize \in Nat \ {0}
  BY LogShows, PickerAssumption DEF RisesIn, Rising
<1>2. page = [commits |-> IF Len(log) > PageSize THEN first ELSE log,
              next |-> IF Len(log) > PageSize THEN Last(IF Len(log) > PageSize THEN first ELSE log)
                       ELSE Nothing]
  BY DEF ListCommits
<1> HIDE DEF log, page, tips
<1>3. CASE Len(log) > PageSize
  <2>1. /\ first \in Seq(Nat) /\ Len(first) = PageSize
        /\ \A i \in 1..PageSize : first[i] = log[i]
    <3>1. \A i \in 1..PageSize : log[i] \in Nat
      BY <1>1, <1>3
    <3>2. 1 \in Int /\ PageSize \in Int /\ 1 <= PageSize
      BY <1>1
    <3>3. /\ first \in Seq(Nat) /\ Len(first) = IF 1 <= PageSize THEN PageSize - 1 + 1 ELSE 0
          /\ \A i \in 1..(PageSize - 1 + 1) : first[i] = log[1 + i - 1]
      BY <3>1, <3>2, SubSeqProperties
    <3> HIDE DEF first
    <3>4. Len(first) = PageSize /\ PageSize - 1 + 1 = PageSize
      BY <3>2, <3>3
    <3>5. \A i \in 1..PageSize : first[i] = log[i]
      <4>1. \A i \in 1..PageSize : 1 + i - 1 = i  BY <1>1
      <4> QED  BY <3>3, <3>4, <4>1
    <3> QED  BY <3>3, <3>4, <3>5
  <2> HIDE DEF first
  <2>2. RisesIn(first, Reachable(tips))
    <3>1. \A i \in 1..Len(first) : i \in 1..Len(log) /\ first[i] = log[i]
      <4>1. Len(log) \in Nat /\ PageSize \in Nat /\ Len(log) > PageSize  BY <1>1, <1>3
      <4>2. \A i \in 1..PageSize : i \in 1..Len(log)  BY <4>1
      <4> QED  BY <4>2, <2>1
    <3> QED  BY <3>1, <2>1, <1>1 DEF RisesIn, Rising
  <2>3. page = [commits |-> first, next |-> Last(first)]
    BY <1>2, <1>3
  <2> QED  BY <2>1, <2>2, <2>3, <1>1 DEF EndsAt, page, tips
<1>4. CASE ~(Len(log) > PageSize)
  <2>1. page = [commits |-> log, next |-> Nothing]
    BY <1>2, <1>4
  <2> QED  BY <2>1, <1>1 DEF EndsAt, page, tips
<1> QED  BY <1>3, <1>4

-----------------------------------------------------------------------------
(* The lists that are shown, kept and asked to be continued are commits of  *)
(* their scope, newest first, and a next page is asked from their last.     *)
WalkedTo(id, scope) == Reachable(Heads[id][scope])

ListOf(list, id, scope) == RisesIn(list.commits, WalkedTo(id, scope)) /\ EndsAt(list)

PanelLists ==
    overlay.commits.kind = "loaded" =>
        ListOf(overlay.commits.list, overlay.commits.of[1], overlay.commits.of[2])

KeptLists == \A s \in overlay.seen : ListOf(s.list, s.id, s.scope)

AskContinues(ask) ==
    /\ ListOf(ask.base, ask.id, ask.scope)
    /\ \/ ask.before = Nothing /\ ask.base = NoCommits
       \/ /\ ask.before # Nothing /\ Len(ask.base.commits) > 0
          /\ ask.before = Last(ask.base.commits)

AskedLists == \A ask \in underway : ask.kind = "commits" => AskContinues(ask)

ListsInv == PanelLists /\ KeptLists /\ AskedLists

LEMMA EmptyIsAList == \A id, scope : ListOf(NoCommits, id, scope)
<1>1. NoCommits.commits = << >> /\ NoCommits.next = Nothing
  BY DEF NoCommits
<1>2. Rising(<< >>) /\ Len(<< >>) = 0
  BY DEF Rising
<1> QED  BY <1>1, <1>2 DEF ListOf, RisesIn, EndsAt

(* A first page may be asked for at any time.                               *)
LEMMA AskedAtFirst ==
    ASSUME AskedLists, NEW id, NEW scope, NEW rest \in SUBSET underway,
           underway' = rest \cup {Ask("commits", id, scope, Nothing, NoCommits)}
    PROVE  AskedLists'
<1> DEFINE new == Ask("commits", id, scope, Nothing, NoCommits)
<1>1. new.before = Nothing /\ new.base = NoCommits
  BY DEF Ask
<1>2. AskContinues(new)
  BY <1>1, EmptyIsAList DEF AskContinues
<1> HIDE DEF new
<1>3. \A ask \in underway' : ask = new \/ ask \in underway
  BY DEF new
<1> QED  BY <1>2, <1>3 DEF AskedLists, AskContinues, ListOf, EndsAt, WalkedTo

(* Other questions, and answers, leave those for pages as they are.         *)
LEMMA FewerAsked ==
    ASSUME AskedLists, \A ask \in underway' : ask \in underway \/ ask.kind # "commits"
    PROVE  AskedLists'
  BY DEF AskedLists, AskContinues, ListOf, EndsAt, WalkedTo

(* What comes after the first n of n + m places is one of m places.         *)
LEMMA PlacesBehind ==
    ASSUME NEW n \in Nat, NEW m \in Nat, NEW k, k = n + m
    PROVE  /\ \A i \in 1..k : n < i => i - n \in 1..m /\ ~(i <= n)
           /\ \A i, j \in 1..k : i < j => i - n < j - n
  OBVIOUS

(* A page put below the list that ends where it begins goes on rising: it   *)
(* is of what lies behind the list's last commit.                           *)
LEMMA ContinuedIsAList ==
    ASSUME NEW ask, AskContinues(ask)
    PROVE  LET page == ListCommits(ask.id, ask.scope, ask.before)
           IN  ListOf([commits |-> ask.base.commits \o page.commits, next |-> page.next],
                      ask.id, ask.scope)
<1> DEFINE page == ListCommits(ask.id, ask.scope, ask.before)
           tips == IF ask.before = Nothing THEN Heads[ask.id][ask.scope] ELSE ParentsOf[ask.before]
           top == ask.base.commits
           both == top \o page.commits
           list == [commits |-> both, next |-> page.next]
           all == WalkedTo(ask.id, ask.scope)
<1>1. RisesIn(page.commits, Reachable(tips)) /\ EndsAt(page)
  BY PageShows
<1>2. RisesIn(top, all)
  BY DEF AskContinues, ListOf
<1> HIDE DEF page, top
<1>3. /\ both \in Seq(Nat) /\ Len(both) = Len(top) + Len(page.commits)
      /\ \A i \in 1..Len(both) :
            both[i] = IF i <= Len(top) THEN top[i] ELSE page.commits[i - Len(top)]
      /\ Len(top) \in Nat /\ Len(page.commits) \in Nat
  BY <1>1, <1>2, ConcatProperties DEF RisesIn, Rising
<1>7. \A i \in 1..Len(both) : Len(top) < i =>
         /\ i - Len(top) \in 1..Len(page.commits)
         /\ both[i] = page.commits[i - Len(top)]
  <2>1. \A i \in 1..Len(both) :
           Len(top) < i => i - Len(top) \in 1..Len(page.commits) /\ ~(i <= Len(top))
    BY <1>3, PlacesBehind
  <2> QED  BY <1>3, <2>1
<1>4. CASE ask.before = Nothing /\ ask.base = NoCommits
  <2>1. tips = Heads[ask.id][ask.scope] /\ top = << >>
    BY <1>4 DEF NoCommits, top
  <2>2. both = page.commits
    BY <2>1, <1>1, ConcatEmptySeq DEF RisesIn, Rising
  <2>3. RisesIn(both, all)
    BY <1>1, <2>1, <2>2 DEF WalkedTo
  <2> QED  BY <1>1, <2>2, <2>3 DEF ListOf, EndsAt, page, top
<1>5. CASE ask.before # Nothing /\ Len(top) > 0 /\ ask.before = Last(top)
  <2>1. tips = ParentsOf[ask.before] /\ ask.before = top[Len(top)] /\ Len(top) \in 1..Len(top)
    BY <1>5, <1>3 DEF Last
  <2>2. ask.before \in all /\ ask.before \in Nat
    BY <2>1, <1>2 DEF RisesIn, Rising
  <2>3. \A i \in 1..Len(page.commits) :
           page.commits[i] \in all /\ ask.before < page.commits[i] /\ page.commits[i] \in Nat
    <3>1. ASSUME NEW i \in 1..Len(page.commits)
          PROVE  page.commits[i] \in all /\ ask.before < page.commits[i]
      <4>1. page.commits[i] \in Reachable(ParentsOf[ask.before])
        BY <1>1, <2>1 DEF RisesIn
      <4> QED  BY <4>1, <2>2, BehindIsOlder DEF WalkedTo
    <3>2. \A i \in 1..Len(page.commits) : page.commits[i] \in Nat
      BY <1>1 DEF RisesIn, Rising
    <3> QED  BY <3>1, <3>2
  <2>4. \A i \in 1..Len(top) : top[i] \in all /\ top[i] <= ask.before /\ top[i] \in Nat
    <3>1. ASSUME NEW i \in 1..Len(top) PROVE top[i] <= ask.before
      <4>1. i = Len(top) \/ i < Len(top)  BY <1>3
      <4>2. top[i] \in Nat  BY <1>2 DEF RisesIn, Rising
      <4> QED  BY <4>1, <4>2, <2>1, <1>2 DEF RisesIn, Rising
    <3> QED  BY <3>1, <1>2 DEF RisesIn, Rising
  <2> HIDE DEF both, all, tips
  <2>5. ASSUME NEW i \in 1..Len(both), NEW j \in 1..Len(both), i < j PROVE both[i] < both[j]
    <3>1. CASE j <= Len(top)
      <4>1. i \in 1..Len(top) /\ j \in 1..Len(top) /\ both[i] = top[i] /\ both[j] = top[j]
        BY <3>1, <2>5, <1>3
      <4> QED  BY <4>1, <2>5, <1>2 DEF RisesIn, Rising
    <3>2. CASE i <= Len(top) /\ Len(top) < j
      <4>1. i \in 1..Len(top) /\ both[i] = top[i]
        <5>1. i \in Nat /\ 1 <= i /\ Len(top) \in Nat  BY <2>5, <1>3
        <5>2. i \in 1..Len(top)  BY <5>1, <3>2
        <5> QED  BY <5>2, <1>3
      <4>2. j - Len(top) \in 1..Len(page.commits) /\ both[j] = page.commits[j - Len(top)]
        BY <3>2, <1>7
      <4>3. top[i] <= ask.before /\ ask.before < page.commits[j - Len(top)]
        BY <4>1, <4>2, <2>3, <2>4
      <4>4. top[i] \in Nat /\ ask.before \in Nat /\ page.commits[j - Len(top)] \in Nat
        BY <4>1, <4>2, <2>2, <2>3, <2>4
      <4> QED  BY <4>1, <4>2, <4>3, <4>4
    <3>3. CASE Len(top) < i
      <4>1. /\ i - Len(top) \in 1..Len(page.commits) /\ both[i] = page.commits[i - Len(top)]
            /\ j - Len(top) \in 1..Len(page.commits) /\ both[j] = page.commits[j - Len(top)]
            /\ i - Len(top) < j - Len(top)
        <5>1. Len(top) < j  BY <3>3, <2>5, <1>3
        <5>2. i - Len(top) < j - Len(top)  BY <2>5, <1>3
        <5> QED  BY <3>3, <5>1, <5>2, <1>7
      <4> QED  BY <4>1, <1>1 DEF RisesIn, Rising
    <3> QED  BY <3>1, <3>2, <3>3, <2>5, <1>3
  <2>6. ASSUME NEW i \in 1..Len(both) PROVE both[i] \in all
    <3>1. CASE i <= Len(top)
      <4>1. i \in 1..Len(top) /\ both[i] = top[i]  BY <3>1, <1>3
      <4> QED  BY <4>1, <2>4
    <3>2. CASE Len(top) < i
      <4>1. i - Len(top) \in 1..Len(page.commits) /\ both[i] = page.commits[i - Len(top)]
        BY <3>2, <1>7
      <4> QED  BY <4>1, <2>3
    <3> QED  BY <3>1, <3>2, <1>3
  <2>7. RisesIn(both, all)
    BY <1>3, <2>5, <2>6 DEF RisesIn, Rising
  <2>8. EndsAt(list)
    <3>1. CASE page.next # Nothing
      <4>1. Len(page.commits) > 0 /\ page.next = page.commits[Len(page.commits)]
        BY <3>1, <1>1 DEF EndsAt, Last
      <4>2. Len(both) \in 1..Len(both) /\ ~(Len(both) <= Len(top)) /\ Len(both) > 0
            /\ Len(both) - Len(top) = Len(page.commits)
        BY <4>1, <1>3
      <4>3. both[Len(both)] = page.commits[Len(page.commits)]
        BY <4>2, <1>3
      <4> QED  BY <4>1, <4>2, <4>3 DEF EndsAt, Last
    <3>2. CASE page.next = Nothing
      BY <3>2 DEF EndsAt
    <3> QED  BY <3>1, <3>2
  <2> QED  BY <2>7, <2>8 DEF ListOf, all, both, page, top
<1> QED  BY <1>4, <1>5 DEF AskContinues, top

-----------------------------------------------------------------------------
(* Each step keeps the lists.                                               *)
PickerInv == PanelsInv /\ ListsInv

(* What is kept for a scope is a list of it.                                *)
LEMMA KeptIsAList ==
    ASSUME KeptLists, NEW id, NEW scope,
           {s \in overlay.seen : s.id = id /\ s.scope = scope} # {}
    PROVE  ListOf((CHOOSE s \in {x \in overlay.seen : x.id = id /\ x.scope = scope} : TRUE).list,
                  id, scope)
<1> DEFINE kept == {s \in overlay.seen : s.id = id /\ s.scope = scope}
           s == CHOOSE x \in kept : TRUE
<1>1. s \in kept
  OBVIOUS
<1>2. s \in overlay.seen /\ s.id = id /\ s.scope = scope
  <2> HIDE DEF s
  <2> QED  BY <1>1
<1> HIDE DEF s
<1>3. ListOf(s.list, id, scope)
  BY <1>2 DEF KeptLists
<1> QED  BY <1>3 DEF s

LEMMA FocusKeepsLists ==
    ASSUME PickerInv, NEW id, FocusSource(id)
    PROVE  ListsInv'
<1>1. AskedLists'
  <2>1. Ask("refs", id, "HEAD", Nothing, NoCommits).kind = "refs"
    BY DEF Ask
  <2> QED  BY <2>1, FewerAsked DEF FocusSource, PickerInv, ListsInv
<1>2. overlay'.commits = NotAsked /\ overlay'.seen \subseteq overlay.seen
  BY DEF FocusSource, PickerInv, PanelsInv, IsOverlay
<1>3. PanelLists'
  BY <1>2 DEF PanelLists, NotAsked
<1>4. KeptLists'
  BY <1>2 DEF KeptLists, PickerInv, ListsInv, ListOf, EndsAt, WalkedTo
<1> QED  BY <1>1, <1>3, <1>4 DEF ListsInv

LEMMA ScopeKeepsLists ==
    ASSUME PickerInv, NEW scope, OnScopeChange(scope)
    PROVE  ListsInv'
<1> DEFINE kept == {s \in overlay.seen : s.id = overlay.staged /\ s.scope = scope}
           list == (CHOOSE s \in kept : TRUE).list
<1>1. ASSUME NEW commits, overlay' = [overlay EXCEPT !.scope = scope, !.commits = commits]
      PROVE  overlay'.commits = commits /\ overlay'.seen = overlay.seen
  BY <1>1 DEF PickerInv, PanelsInv, IsOverlay
<1>2. KeptLists'
  BY <1>1 DEF OnScopeChange, LoadCommits, KeptLists, PickerInv, ListsInv, ListOf, EndsAt, WalkedTo
<1>3. CASE kept # {}
  <2>1. ListOf(list, overlay.staged, scope)
    BY <1>3, KeptIsAList DEF PickerInv, ListsInv
  <2>2. /\ overlay'.commits = [kind |-> "loaded", of |-> <<overlay.staged, scope>>, list |-> list]
        /\ UNCHANGED underway
    BY <1>1, <1>3 DEF OnScopeChange, LoadCommits
  <2> HIDE DEF list
  <2>3. PanelLists'
    BY <2>1, <2>2 DEF PanelLists, ListOf, EndsAt, WalkedTo
  <2> QED  BY <1>2, <2>2, <2>3, FewerAsked DEF ListsInv, PickerInv
<1>4. CASE kept = {}
  <2>1. /\ overlay'.commits = Loading
        /\ underway' = underway \cup {Ask("commits", overlay.staged, scope, Nothing, NoCommits)}
    BY <1>1, <1>4 DEF OnScopeChange, LoadCommits
  <2>2. PanelLists'
    BY <2>1 DEF PanelLists, Loading
  <2>3. AskedLists
    BY DEF PickerInv, ListsInv
  <2> HIDE DEF kept, list
  <2>4. AskedLists'
    BY <2>1, <2>3, AskedAtFirst
  <2> QED  BY <1>2, <2>2, <2>4 DEF ListsInv
<1> QED  BY <1>3, <1>4

LEMMA MoreKeepsLists ==
    ASSUME PickerInv, OnShowMore
    PROVE  ListsInv'
<1> DEFINE list == overlay.commits.list
           new == Ask("commits", overlay.staged, overlay.scope, list.next, list)
<1>1. ListOf(list, overlay.staged, overlay.scope) /\ list.next # Nothing
  BY DEF OnShowMore, PickerInv, PanelsInv, PanelsFollow, ListsInv, PanelLists
<1>2. /\ new.id = overlay.staged /\ new.scope = overlay.scope
      /\ new.before = list.next /\ new.base = list
  BY DEF Ask
<1>3. underway' = underway \cup {new} /\ UNCHANGED overlay
  BY DEF OnShowMore
<1> HIDE DEF new, list
<1>4. AskContinues(new)
  BY <1>1, <1>2 DEF AskContinues, ListOf, EndsAt
<1>5. AskedLists'
  BY <1>3, <1>4 DEF AskedLists, PickerInv, ListsInv, AskContinues, ListOf, EndsAt, WalkedTo
<1> QED
  BY <1>3, <1>5 DEF ListsInv, PickerInv, PanelLists, KeptLists, ListOf, EndsAt, WalkedTo

LEMMA PickKeepsLists ==
    ASSUME PickerInv, NEW c, Pick(c)
    PROVE  ListsInv'
<1>1. ASSUME NEW of, overlay' = [overlay EXCEPT !.ref = c, !.refOf = of]
      PROVE  overlay'.commits = overlay.commits /\ overlay'.seen = overlay.seen
  BY <1>1 DEF PickerInv, PanelsInv, IsOverlay
<1>2. overlay'.commits = overlay.commits /\ overlay'.seen = overlay.seen /\ UNCHANGED underway
  BY <1>1 DEF Pick
<1> QED
  BY <1>2, FewerAsked DEF ListsInv, PickerInv, PanelLists, KeptLists, ListOf, EndsAt, WalkedTo

LEMMA RefsKeepLists ==
    ASSUME PickerInv, NEW ask, RefsArrive(ask)
    PROVE  ListsInv'
<1> DEFINE rest == underway \ {ask}
           kept == {s \in overlay.seen : s.id = ask.id /\ s.scope = overlay.scope}
           list == (CHOOSE s \in kept : TRUE).list
           panel == [kind |-> "loaded", of |-> <<ask.id, overlay.scope>>, list |-> list]
<1>1. ASSUME underway' = rest, UNCHANGED overlay PROVE ListsInv'
  BY <1>1, FewerAsked DEF ListsInv, PickerInv, PanelLists, KeptLists, ListOf, EndsAt, WalkedTo
<1>2. ASSUME underway' = rest, overlay' = [overlay EXCEPT !.refs = [kind |-> "no history"]]
      PROVE  ListsInv'
  <2>1. overlay'.commits = overlay.commits /\ overlay'.seen = overlay.seen
    BY <1>2 DEF PickerInv, PanelsInv, IsOverlay
  <2> QED
    BY <1>2, <2>1, FewerAsked
    DEF ListsInv, PickerInv, PanelLists, KeptLists, ListOf, EndsAt, WalkedTo
<1>3. ASSUME NEW commits, overlay' = [overlay EXCEPT !.refs = [kind |-> "loaded", of |-> ask.id],
                                                     !.commits = commits]
      PROVE  overlay'.commits = commits /\ KeptLists'
  <2>1. overlay'.commits = commits /\ overlay'.seen = overlay.seen
    BY <1>3 DEF PickerInv, PanelsInv, IsOverlay
  <2> QED  BY <2>1 DEF PickerInv, ListsInv, KeptLists, ListOf, EndsAt, WalkedTo
<1>4. CASE /\ kept = {}
           /\ overlay' = [overlay EXCEPT !.refs = [kind |-> "loaded", of |-> ask.id],
                                         !.commits = Loading]
           /\ underway' = rest \cup {Ask("commits", ask.id, overlay.scope, Nothing, NoCommits)}
  <2>1. overlay'.commits = Loading /\ KeptLists'
    BY <1>3, <1>4
  <2>2. PanelLists'
    BY <2>1 DEF PanelLists, Loading
  <2>3. rest \in SUBSET underway
    OBVIOUS
  <2>4. underway' = rest \cup {Ask("commits", ask.id, overlay.scope, Nothing, NoCommits)}
    BY <1>4
  <2>5. AskedLists
    BY DEF PickerInv, ListsInv
  <2> HIDE DEF rest, kept, list, panel
  <2>6. AskedLists'
    BY <2>3, <2>4, <2>5, AskedAtFirst
  <2> QED  BY <2>1, <2>2, <2>6 DEF ListsInv
<1>5. CASE /\ kept # {}
           /\ overlay' = [overlay EXCEPT !.refs = [kind |-> "loaded", of |-> ask.id],
                                         !.commits = panel]
           /\ underway' = rest
  <2>1. overlay'.commits = panel /\ KeptLists'
    BY <1>3, <1>5
  <2>2. ListOf(list, ask.id, overlay.scope)
    BY <1>5, KeptIsAList DEF PickerInv, ListsInv
  <2> HIDE DEF list
  <2>3. PanelLists'
    BY <2>1, <2>2 DEF PanelLists, ListOf, EndsAt, WalkedTo
  <2> QED  BY <1>5, <2>1, <2>3, FewerAsked DEF ListsInv, PickerInv
<1> QED  BY <1>1, <1>2, <1>4, <1>5 DEF RefsArrive

(* The page is put below the list it was asked to continue, and kept.       *)
LEMMA CommitsKeepLists ==
    ASSUME PickerInv, NEW ask, CommitsArrive(ask)
    PROVE  ListsInv'
<1> DEFINE page == ListCommits(ask.id, ask.scope, ask.before)
           list == [commits |-> ask.base.commits \o page.commits, next |-> page.next]
           panel == [kind |-> "loaded", of |-> <<ask.id, ask.scope>>, list |-> list]
           new == [id |-> ask.id, scope |-> ask.scope, list |-> list]
           others == {s \in overlay.seen : s.id # ask.id \/ s.scope # ask.scope}
<1>1. ask \in underway /\ ask.kind = "commits" /\ underway' = underway \ {ask}
  BY DEF CommitsArrive
<1>2. AskedLists'
  BY <1>1, FewerAsked DEF PickerInv, ListsInv
<1>3. ListOf(list, ask.id, ask.scope)
  BY <1>1, ContinuedIsAList DEF PickerInv, ListsInv, AskedLists
<1>4. \/ UNCHANGED overlay
      \/ overlay' = [overlay EXCEPT !.commits = panel, !.seen = others \cup {new}]
  BY DEF CommitsArrive
<1> HIDE DEF list
<1>5. CASE UNCHANGED overlay
  BY <1>2, <1>5 DEF ListsInv, PickerInv, PanelLists, KeptLists, ListOf, EndsAt, WalkedTo
<1>6. CASE overlay' = [overlay EXCEPT !.commits = panel, !.seen = others \cup {new}]
  <2>1. overlay'.commits = panel /\ overlay'.seen = others \cup {new}
    BY <1>6 DEF PickerInv, PanelsInv, IsOverlay
  <2>2. PanelLists'
    BY <2>1, <1>3 DEF PanelLists, ListOf, EndsAt, WalkedTo
  <2>3. \A s \in others \cup {new} : ListOf(s.list, s.id, s.scope)
    BY <1>3 DEF PickerInv, ListsInv, KeptLists
  <2>4. KeptLists'
    BY <2>1, <2>3 DEF KeptLists, ListOf, EndsAt, WalkedTo
  <2> QED  BY <1>2, <2>2, <2>4 DEF ListsInv
<1> QED  BY <1>4, <1>5, <1>6

LEMMA FetchKeepsLists ==
    ASSUME PickerInv, NEW ask, FetchArrives(ask)
    PROVE  ListsInv'
<1>1. overlay'.commits = overlay.commits /\ overlay'.seen = overlay.seen /\ underway' \subseteq underway
  BY DEF FetchArrives, PickerInv, PanelsInv, IsOverlay
<1> QED
  BY <1>1, FewerAsked DEF ListsInv, PickerInv, PanelLists, KeptLists, ListOf, EndsAt, WalkedTo

LEMMA ListsInductive == PickerInv /\ [PickerNext]_pvars => ListsInv'
<1> SUFFICES ASSUME PickerInv, [PickerNext]_pvars PROVE ListsInv'
  OBVIOUS
<1>1. ASSUME UNCHANGED overlay, underway' \subseteq underway PROVE ListsInv'
  BY <1>1, FewerAsked DEF ListsInv, PickerInv, PanelLists, KeptLists, ListOf, EndsAt, WalkedTo
<1>2. ASSUME NEW ask, Lost(ask) PROVE ListsInv'
  BY <1>1, <1>2 DEF Lost
<1>3. ASSUME OnRefreshRemotes PROVE ListsInv'
  <2>1. Ask("fetch", overlay.staged, "HEAD", Nothing, NoCommits).kind = "fetch"
    BY DEF Ask
  <2> QED
    BY <1>3, <2>1, FewerAsked
    DEF OnRefreshRemotes, ListsInv, PickerInv, PanelLists, KeptLists, ListOf, EndsAt, WalkedTo
<1>4. QED
  BY <1>1, <1>2, <1>3, FocusKeepsLists, ScopeKeepsLists, MoreKeepsLists, PickKeepsLists,
     RefsKeepLists, CommitsKeepLists, FetchKeepsLists DEF PickerNext, pvars

(* What rises shows nothing twice.                                          *)
LEMMA RisingIsInjective ==
    ASSUME NEW s, NEW S, RisesIn(s, S)
    PROVE  IsInjective(s) /\ Range(s) \subseteq S
<1>1. DOMAIN s = 1..Len(s) /\ \A i \in 1..Len(s) : i \in Nat /\ s[i] \in Nat
  BY DEF RisesIn, Rising
<1>2. ASSUME NEW i \in 1..Len(s), NEW j \in 1..Len(s), s[i] = s[j] PROVE i = j
  <2>1. ~(i < j) /\ ~(j < i)
    BY <1>1, <1>2 DEF RisesIn, Rising
  <2> QED  BY <1>1, <2>1
<1> QED  BY <1>1, <1>2 DEF IsInjective, Range, RisesIn

(* Whatever sources are staged, scopes selected and refs picked meanwhile,  *)
(* no answer that comes late, out of order or not at all makes the panels   *)
(* show, or Apply pin, anything of a source that is not the staged one; and *)
(* the pages put below one another, however often more is asked for, are    *)
(* commits of the selected scope, none of them shown twice.                 *)
THEOREM PanelsFollowStaging == PickerSpec => []PanelsOfStaged
<1>1. PickerInit => PickerInv
  BY DEF PickerInit, PickerInv, PanelsInv, IsOverlay, PanelsFollow, NotAsked,
         ListsInv, PanelLists, KeptLists, AskedLists
<1>2. PickerInv /\ [PickerNext]_pvars => PickerInv'
  BY PanelsInductive, ListsInductive DEF PickerInv
<1>3. PickerInv => PanelsOfStaged
  <2> SUFFICES ASSUME PickerInv, overlay.commits.kind = "loaded"
               PROVE  /\ IsInjective(overlay.commits.list.commits)
                      /\ Range(overlay.commits.list.commits)
                            \subseteq Reachable(Heads[overlay.staged][overlay.scope])
    BY DEF PanelsOfStaged, PickerInv, PanelsInv
  <2>1. RisesIn(overlay.commits.list.commits, WalkedTo(overlay.staged, overlay.scope))
    BY DEF PickerInv, PanelsInv, PanelsFollow, ListsInv, PanelLists, ListOf
  <2> QED  BY <2>1, RisingIsInjective DEF WalkedTo
<1>4. QED
  BY <1>1, <1>2, <1>3, PTL DEF PickerSpec

-----------------------------------------------------------------------------
(* A source on the heap of `serve' and its watcher, for every number of     *)
(* loads, edits and unloads: what the runner leaves when it is done is      *)
(* fresh, and what it does after the watcher was closed is nothing.         *)
HeapTypeOK ==
    /\ disk \in Nat /\ allowed \in Nat
    /\ event \in BOOLEAN /\ timer \in BOOLEAN /\ queued \in BOOLEAN
    /\ disposed \in BOOLEAN /\ missed \in BOOLEAN /\ failed \in BOOLEAN
    /\ runner \in [at : {"idle", "walking", "building"}, since : Nat, ref : Loads \cup {NoLoad}]
    /\ load \in [Loads -> [at : {"unused", "reading", "over"}, from : Nat, again : BOOLEAN,
                           prev : Loads \cup {NoLoad}]]
    /\ store \in [Loads -> Nat] /\ refOf \in [Loads -> Loads]
    /\ current \in Loads \cup {NoLoad}

(* Something that will make the runner walk again.                         *)
AwaitsWalk == event \/ timer \/ queued

(* Nothing reads a version that is still to come, a rebuild has a store,   *)
(* and a trigger waits only for a runner that is busy.                     *)
HeapBounds ==
    /\ runner.since <= disk
    /\ \A l \in Loads : load[l].from <= disk
    /\ runner.at = "building" => runner.ref \in Loads
    /\ runner.at = "idle" => runner = Idle
    /\ runner.at = "idle" /\ ~disposed => ~queued

(* A load has the StoreRef it made until it exposes itself, and if no edit *)
(* came while loads were reading, those that read began after the last.    *)
LoadsOfNow ==
    /\ \A l \in Loads : load[l].at # "over" => refOf[l] = l
    /\ ~missed => \A l \in Reading : load[l].from = disk

(* The runner reads the last version, or will be asked to.                 *)
RunnerOfNow == runner.at # "idle" => runner.since = disk \/ AwaitsWalk

AllowedOfNow == allowed = disk \/ AwaitsWalk \/ failed \/ runner.at # "idle"

StoreFresh == current # NoLoad => store[refOf[current]] = disk

(* The store that queries read is fresh, or what makes it so is under way: *)
(* a rebuild swaps the store it found, and a load that was exposed since   *)
(* then is fresh by itself.                                                *)
StoreOfNow ==
    \/ StoreFresh \/ AwaitsWalk \/ failed
    \/ runner.at = "walking"
    \/ runner.at = "building" /\ runner.ref = refOf[current]

HeapInv ==
    /\ HeapTypeOK
    /\ HeapBounds
    /\ LoadsOfNow
    /\ ~disposed => RunnerOfNow /\ AllowedOfNow /\ (~missed => StoreOfNow)

-----------------------------------------------------------------------------
(* What Ends leaves: a new walk for a trigger that waited, or nothing.     *)
LEMMA EndsLeaves ==
    ASSUME HeapTypeOK, Ends
    PROVE  /\ runner' \in [at : {"idle", "walking"}, since : Nat, ref : {NoLoad}]
           /\ runner'.since <= disk
           /\ runner'.at = "idle" => runner' = Idle /\ (~disposed => ~queued')
           /\ runner'.at = "walking" => runner'.since = disk
           /\ queued' \in BOOLEAN
           /\ queued' => queued
           /\ ~disposed => ~queued' /\ (queued => runner'.at = "walking")
<1>1. CASE queued /\ ~disposed
  <2>1. queued' = FALSE /\ runner' = [at |-> "walking", since |-> disk, ref |-> NoLoad]
    BY <1>1 DEF Ends, Walking
  <2>2. disk \in Nat
    BY DEF HeapTypeOK
  <2>3. runner' \in [at : {"idle", "walking"}, since : Nat, ref : {NoLoad}]
    BY <2>1, <2>2
  <2>4. runner'.at = "walking" /\ runner'.since = disk /\ disk <= disk
    BY <2>1, <2>2
  <2>5. QED
    BY <1>1, <2>1, <2>3, <2>4
<1>2. CASE ~(queued /\ ~disposed)
  <2>1. queued' = queued /\ runner' = [at |-> "idle", since |-> 0, ref |-> NoLoad]
    BY <1>2 DEF Ends, Idle
  <2>2. disk \in Nat /\ queued \in BOOLEAN /\ disposed \in BOOLEAN
    BY DEF HeapTypeOK
  <2>3. QED
    BY <1>2, <2>1, <2>2 DEF Idle
<1>3. QED
  BY <1>1, <1>2

LEMMA InitInv == Init => HeapInv
<1> SUFFICES ASSUME Init PROVE HeapInv
  OBVIOUS
<1>1. HeapTypeOK
  BY DEF Init, HeapTypeOK, Idle, Unused
<1>2. HeapBounds /\ LoadsOfNow
  BY DEF Init, HeapBounds, LoadsOfNow, Reading, Idle, Unused
<1>3. RunnerOfNow /\ AllowedOfNow /\ StoreOfNow
  BY DEF Init, RunnerOfNow, AllowedOfNow, StoreOfNow, StoreFresh, Idle
<1>4. QED
  BY <1>1, <1>2, <1>3 DEF HeapInv

(* A load that begins reads the version there is.                          *)
LEMMA BeginKeeps ==
    ASSUME HeapInv, NEW l \in Loads, ensureEntry(l) \/ reloadEntry(l)
    PROVE  HeapInv'
<1>1. PICK again \in BOOLEAN, prev \in Loads \cup {NoLoad} : Begin(l, again, prev)
  BY DEF ensureEntry, reloadEntry, HeapInv, HeapTypeOK
<1>2. /\ load[l].at = "unused"
      /\ load' = [load EXCEPT ![l] =
                    [at |-> "reading", from |-> disk, again |-> again, prev |-> prev]]
  BY <1>1 DEF Begin
<1>3. UNCHANGED <<disk, watcher, store, refOf, current, missed>>
  BY DEF ensureEntry, reloadEntry
<1>4. HeapTypeOK'
  BY <1>2, <1>3 DEF HeapInv, HeapTypeOK, watcher
<1>5. HeapBounds'
  BY <1>2, <1>3 DEF HeapInv, HeapTypeOK, HeapBounds, watcher, Idle
<1>6. LoadsOfNow'
  BY <1>2, <1>3 DEF HeapInv, HeapTypeOK, LoadsOfNow, Reading
<1>7. (~disposed => RunnerOfNow /\ AllowedOfNow /\ (~missed => StoreOfNow))'
  BY <1>3 DEF HeapInv, RunnerOfNow, AllowedOfNow, StoreOfNow, StoreFresh, AwaitsWalk, watcher
<1>8. QED
  BY <1>4, <1>5, <1>6, <1>7 DEF HeapInv

(* A load that no edit met exposes the version there is.                   *)
LEMMA SuccessKeeps ==
    ASSUME HeapInv, NEW l \in Loads, LoadSucceeds(l)
    PROVE  HeapInv'
<1> DEFINE prev == load[l].prev
<1>1. PICK v \in load[l].from .. disk :
          store' = [r \in Loads |-> IF r \in {l, prev} THEN v ELSE store[r]]
  BY DEF LoadSucceeds
<1>2. /\ l \in Reading
      /\ refOf' = IF prev = NoLoad THEN refOf ELSE [refOf EXCEPT ![l] = prev]
      /\ load' = [load EXCEPT ![l] = Over]
      /\ current' = l
      /\ UNCHANGED <<disk, watcher, missed>>
  BY DEF LoadSucceeds
<1>3. v \in Nat /\ prev \in Loads \cup {NoLoad}
  BY DEF HeapInv, HeapTypeOK
<1>4. HeapTypeOK'
  BY <1>1, <1>2, <1>3 DEF HeapInv, HeapTypeOK, watcher, Over, Unused
<1>5. HeapBounds'
  BY <1>2 DEF HeapInv, HeapTypeOK, HeapBounds, watcher, Over, Unused, Idle
<1>6. LoadsOfNow'
  BY <1>2 DEF HeapInv, HeapTypeOK, LoadsOfNow, Reading, Over, Unused
<1>7. ASSUME ~missed PROVE StoreFresh'
  <2>1. v = disk
    BY <1>1, <1>2, <1>7 DEF HeapInv, HeapTypeOK, LoadsOfNow
  <2>2. refOf'[l] \in {l, prev} /\ refOf'[l] \in Loads
    BY <1>2, <1>3 DEF HeapInv, HeapTypeOK, LoadsOfNow, Reading
  <2>3. QED
    BY <1>1, <1>2, <2>1, <2>2 DEF StoreFresh
<1>8. (~disposed => RunnerOfNow /\ AllowedOfNow)'
  BY <1>2 DEF HeapInv, RunnerOfNow, AllowedOfNow, AwaitsWalk, watcher
<1>9. QED
  BY <1>2, <1>4, <1>5, <1>6, <1>7, <1>8 DEF HeapInv, StoreOfNow

LEMMA FailureOrUnloadKeeps ==
    ASSUME HeapInv, \/ \E l \in Loads : LoadFails(l)
                \/ unloadEntry
    PROVE  HeapInv'
<1>1. CASE \E l \in Loads : LoadFails(l)
  <2>1. PICK l \in Loads : LoadFails(l)
    BY <1>1
  <2>2. /\ load' = [load EXCEPT ![l] = Over]
        /\ UNCHANGED <<disk, watcher, store, refOf, current, missed>>
    BY <2>1 DEF LoadFails
  <2>3. HeapTypeOK'
    BY <2>2 DEF HeapInv, HeapTypeOK, watcher, Over, Unused
  <2>4. HeapBounds' /\ LoadsOfNow'
    BY <2>2 DEF HeapInv, HeapTypeOK, HeapBounds, LoadsOfNow, Reading, watcher, Over, Unused, Idle
  <2>5. (~disposed => RunnerOfNow /\ AllowedOfNow /\ (~missed => StoreOfNow))'
    BY <2>2 DEF HeapInv, RunnerOfNow, AllowedOfNow, StoreOfNow, StoreFresh, AwaitsWalk, watcher
  <2>6. QED
    BY <2>3, <2>4, <2>5 DEF HeapInv
<1>2. CASE unloadEntry
  <2>1. /\ current' = NoLoad
        /\ UNCHANGED <<disk, watcher, load, store, refOf, missed>>
    BY <1>2 DEF unloadEntry
  <2>2. HeapTypeOK' /\ HeapBounds' /\ LoadsOfNow'
    BY <2>1 DEF HeapInv, HeapTypeOK, HeapBounds, LoadsOfNow, Reading, watcher, Idle
  <2>3. StoreFresh' /\ (~disposed => RunnerOfNow /\ AllowedOfNow)'
    BY <2>1 DEF HeapInv, RunnerOfNow, AllowedOfNow, StoreFresh, AwaitsWalk, watcher
  <2>4. QED
    BY <2>2, <2>3 DEF HeapInv, StoreOfNow
<1>3. QED
  BY <1>1, <1>2

(* An edit, the debounce timer and the closing of the watcher.             *)
LEMMA TriggerKeeps ==
    ASSUME HeapInv, Edit \/ onFileEvent \/ TimerFires \/ dispose
    PROVE  HeapInv'
<1>1. CASE Edit
  <2>1. /\ disk' = disk + 1 /\ event' = ~disposed /\ missed' = (Reading # {})
        /\ UNCHANGED <<timer, runner, queued, disposed, allowed, failed, load, store, refOf, current>>
    BY <1>1 DEF Edit, entry
  <2>2. HeapTypeOK'
    BY <2>1 DEF HeapInv, HeapTypeOK
  <2>3. HeapBounds'
    BY <2>1 DEF HeapInv, HeapTypeOK, HeapBounds, Idle
  <2>4. LoadsOfNow'
    BY <2>1 DEF HeapInv, LoadsOfNow, Reading
  <2>5. disposed' \/ AwaitsWalk'
    BY <2>1 DEF HeapInv, HeapTypeOK, AwaitsWalk
  <2>6. QED
    BY <2>2, <2>3, <2>4, <2>5 DEF HeapInv, RunnerOfNow, AllowedOfNow, StoreOfNow
<1>2. CASE onFileEvent
  <2>1. /\ event' = FALSE /\ timer' = TRUE
        /\ UNCHANGED <<disk, runner, queued, disposed, allowed, failed, load, store, refOf, current,
                       missed>>
    BY <1>2 DEF onFileEvent, entry
  <2>2. HeapTypeOK' /\ HeapBounds' /\ LoadsOfNow' /\ AwaitsWalk'
    BY <2>1 DEF HeapInv, HeapTypeOK, HeapBounds, LoadsOfNow, Reading, Idle, AwaitsWalk
  <2>3. QED
    BY <2>2 DEF HeapInv, RunnerOfNow, AllowedOfNow, StoreOfNow
<1>3. CASE TimerFires
  <2>1. /\ timer /\ timer' = FALSE
        /\ \/ runner.at = "idle" /\ runner' = Walking /\ queued' = queued
           \/ runner.at # "idle" /\ queued' = TRUE /\ runner' = runner
        /\ UNCHANGED <<disk, event, disposed, allowed, failed, load, store, refOf, current, missed>>
    BY <1>3 DEF TimerFires, entry
  <2>2. HeapTypeOK'
    <3>1. Walking \in [at : {"idle", "walking", "building"}, since : Nat, ref : Loads \cup {NoLoad}]
      BY DEF HeapInv, HeapTypeOK, Walking
    <3>2. QED
      BY <2>1, <3>1 DEF HeapInv, HeapTypeOK
  <2>3. HeapBounds' /\ LoadsOfNow'
    BY <2>1 DEF HeapInv, HeapTypeOK, HeapBounds, LoadsOfNow, Reading, Idle, Walking
  <2>4. \/ runner'.at = "walking" /\ runner'.since = disk'
        \/ AwaitsWalk'
    BY <2>1 DEF AwaitsWalk, Walking
  <2>5. QED
    BY <2>2, <2>3, <2>4 DEF HeapInv, RunnerOfNow, AllowedOfNow, StoreOfNow
<1>4. CASE dispose
  <2>1. /\ disposed' = TRUE /\ event' = FALSE /\ timer' = FALSE /\ queued' = FALSE
        /\ UNCHANGED <<disk, runner, allowed, failed, load, store, refOf, current, missed>>
    BY <1>4 DEF dispose, entry
  <2>2. HeapTypeOK' /\ HeapBounds' /\ LoadsOfNow'
    BY <2>1 DEF HeapInv, HeapTypeOK, HeapBounds, LoadsOfNow, Reading, Idle
  <2>3. QED
    BY <2>1, <2>2 DEF HeapInv
<1>5. QED
  BY <1>1, <1>2, <1>3, <1>4

(* The end of a walk.                                                      *)
LEMMA WalkedKeeps == ASSUME HeapInv, Walked PROVE HeapInv'
<1>1. UNCHANGED <<disk, event, timer, disposed, load, store, refOf, current, missed>>
  BY DEF Walked, entry
<1>2. runner.at = "walking"
  BY DEF Walked
<1>3. CASE disposed
  <2>1. Ends /\ UNCHANGED <<allowed, failed>>
    BY <1>3 DEF Walked
  <2>2. HeapTypeOK'
    BY <1>1, <2>1, EndsLeaves DEF HeapInv, HeapTypeOK
  <2>3. HeapBounds' /\ LoadsOfNow'
    BY <1>1, <2>1, EndsLeaves DEF HeapInv, HeapTypeOK, HeapBounds, LoadsOfNow, Reading, Idle
  <2>4. QED
    BY <1>1, <1>3, <2>2, <2>3 DEF HeapInv
<1>4. CASE ~disposed
  <2>1. PICK v \in runner.since .. disk : allowed' = v
    BY <1>4 DEF Walked
  <2>2. v \in Nat /\ failed' = FALSE
    BY <1>4 DEF Walked, HeapInv, HeapTypeOK
  <2>3. runner.since = disk => v = disk
    BY <2>1 DEF HeapInv, HeapTypeOK
  <2>4. CASE current = NoLoad
    <3>1. Ends
      BY <1>4, <2>4 DEF Walked
    <3>2. HeapTypeOK'
      BY <1>1, <2>1, <2>2, <3>1, EndsLeaves DEF HeapInv, HeapTypeOK
    <3>3. HeapBounds' /\ LoadsOfNow'
      BY <1>1, <3>1, EndsLeaves DEF HeapInv, HeapTypeOK, HeapBounds, LoadsOfNow, Reading, Idle
    <3>4. StoreFresh'
      BY <1>1, <2>4 DEF StoreFresh
    <3>5. RunnerOfNow'
      BY <1>1, <3>1, <3>2, EndsLeaves DEF HeapInv, HeapTypeOK, RunnerOfNow
    <3>6. AllowedOfNow'
      <4>1. runner.since = disk \/ event \/ timer \/ queued
        BY <1>2, <1>4 DEF HeapInv, RunnerOfNow, AwaitsWalk
      <4>2. CASE queued
        BY <1>4, <3>1, <4>2, EndsLeaves DEF HeapInv, AllowedOfNow
      <4>3. CASE event \/ timer
        BY <1>1, <4>3 DEF AllowedOfNow, AwaitsWalk
      <4>4. CASE runner.since = disk
        BY <1>1, <2>1, <2>3, <4>4 DEF AllowedOfNow
      <4>5. QED
        BY <4>1, <4>2, <4>3, <4>4
    <3>7. QED
      BY <3>2, <3>3, <3>4, <3>5, <3>6 DEF HeapInv, StoreOfNow
  <2>5. CASE current # NoLoad
    <3>1. /\ runner' = [at |-> "building", since |-> disk, ref |-> refOf[current]]
          /\ queued' = queued
      BY <1>4, <2>5 DEF Walked
    <3>2. refOf[current] \in Loads
      BY <2>5 DEF HeapInv, HeapTypeOK
    <3>3. HeapTypeOK'
      BY <1>1, <2>1, <2>2, <3>1, <3>2 DEF HeapInv, HeapTypeOK
    <3>4. HeapBounds' /\ LoadsOfNow'
      BY <1>1, <3>1, <3>2 DEF HeapInv, HeapTypeOK, HeapBounds, LoadsOfNow, Reading
    <3>5. RunnerOfNow' /\ AllowedOfNow' /\ StoreOfNow'
      BY <1>1, <3>1 DEF RunnerOfNow, AllowedOfNow, StoreOfNow
    <3>6. QED
      BY <3>3, <3>4, <3>5 DEF HeapInv
  <2>6. QED
    BY <2>4, <2>5
<1>5. QED
  BY <1>3, <1>4

(* The end of a rebuild, well or not.                                      *)
LEMMA RebuiltKeeps == ASSUME HeapInv, Rebuilt PROVE HeapInv'
<1>1. /\ Ends
      /\ UNCHANGED <<disk, event, timer, disposed, failed, load, refOf, current, missed>>
  BY DEF Rebuilt
<1>2. runner.at = "building" /\ runner.ref \in Loads
  BY DEF Rebuilt, HeapInv, HeapBounds
<1>3. HeapBounds' /\ LoadsOfNow'
  BY <1>1, EndsLeaves DEF HeapInv, HeapTypeOK, HeapBounds, LoadsOfNow, Reading, Idle
<1>4. CASE disposed
  <2>1. UNCHANGED <<store, allowed>>
    BY <1>4 DEF Rebuilt
  <2>2. HeapTypeOK'
    BY <1>1, <2>1, EndsLeaves DEF HeapInv, HeapTypeOK
  <2>3. QED
    BY <1>1, <1>3, <1>4, <2>2 DEF HeapInv
<1>5. CASE ~disposed
  <2>1. PICK v \in runner.since .. disk :
            store' = [store EXCEPT ![runner.ref] = v] /\ allowed' = v
    BY <1>5 DEF Rebuilt, Swap
  <2>2. v \in Nat
    BY <2>1 DEF HeapInv, HeapTypeOK
  <2>3. HeapTypeOK'
    BY <1>1, <1>2, <2>1, <2>2, EndsLeaves DEF HeapInv, HeapTypeOK
  <2>4. RunnerOfNow'
    BY <1>1, <2>3, EndsLeaves DEF HeapInv, HeapTypeOK, RunnerOfNow
  <2>5. CASE queued
    <3>1. runner'.at = "walking"
      BY <1>1, <1>5, <2>5, EndsLeaves DEF HeapInv
    <3>2. QED
      BY <1>3, <2>3, <2>4, <3>1 DEF HeapInv, AllowedOfNow, StoreOfNow
  <2>6. CASE event \/ timer
    BY <1>1, <1>3, <2>3, <2>4, <2>6 DEF HeapInv, AllowedOfNow, StoreOfNow, AwaitsWalk
  <2>7. CASE ~queued /\ ~event /\ ~timer
    <3>1. runner.since = disk
      BY <1>2, <1>5, <2>7 DEF HeapInv, RunnerOfNow, AwaitsWalk
    <3>2. v = disk
      BY <2>1, <3>1 DEF HeapInv, HeapTypeOK
    <3>3. AllowedOfNow'
      BY <1>1, <2>1, <3>2 DEF AllowedOfNow
    <3>4. ASSUME ~missed PROVE StoreOfNow'
      <4>1. StoreFresh \/ failed \/ runner.ref = refOf[current]
        BY <1>2, <1>5, <2>7, <3>4 DEF HeapInv, StoreOfNow, AwaitsWalk
      <4>2. CASE failed
        BY <1>1, <4>2 DEF StoreOfNow
      <4>3. CASE StoreFresh
        BY <1>1, <2>1, <3>2, <4>3 DEF HeapInv, HeapTypeOK, StoreFresh, StoreOfNow
      <4>4. CASE runner.ref = refOf[current]
        BY <1>1, <1>2, <2>1, <3>2, <4>4 DEF HeapInv, HeapTypeOK, StoreFresh, StoreOfNow
      <4>5. QED
        BY <4>1, <4>2, <4>3, <4>4
    <3>5. QED
      BY <1>1, <1>3, <2>3, <2>4, <3>3, <3>4 DEF HeapInv
  <2>8. QED
    BY <2>5, <2>6, <2>7
<1>6. QED
  BY <1>4, <1>5

LEMMA RebuildFailsKeeps == ASSUME HeapInv, RebuildFails PROVE HeapInv'
<1>1. /\ failed' = TRUE /\ Ends
      /\ UNCHANGED <<disk, event, timer, disposed, allowed, load, store, refOf, current, missed>>
  BY DEF RebuildFails, entry
<1>2. HeapTypeOK'
  BY <1>1, EndsLeaves DEF HeapInv, HeapTypeOK
<1>3. HeapBounds' /\ LoadsOfNow'
  BY <1>1, EndsLeaves DEF HeapInv, HeapTypeOK, HeapBounds, LoadsOfNow, Reading, Idle
<1>4. RunnerOfNow' /\ AllowedOfNow' /\ StoreOfNow'
  BY <1>1, <1>2, EndsLeaves DEF HeapInv, HeapTypeOK, RunnerOfNow, AllowedOfNow, StoreOfNow
<1>5. QED
  BY <1>2, <1>3, <1>4 DEF HeapInv

LEMMA InvInductive == HeapInv /\ [Next]_vars => HeapInv'
<1> SUFFICES ASSUME HeapInv, [Next]_vars PROVE HeapInv'
  OBVIOUS
<1>1. CASE UNCHANGED vars
  BY <1>1 DEF vars, watcher, entry, HeapInv, HeapTypeOK, HeapBounds, LoadsOfNow, Reading, RunnerOfNow,
              AllowedOfNow, StoreOfNow, StoreFresh, AwaitsWalk, Idle
<1>2. CASE Next
  BY <1>2, BeginKeeps, SuccessKeeps, FailureOrUnloadKeeps, TriggerKeeps, WalkedKeeps,
     RebuiltKeeps, RebuildFailsKeeps DEF Next
<1>3. QED
  BY <1>1, <1>2

(* The invariant of every behaviour.                                       *)
THEOREM HeapInvariant == Spec => []HeapInv
  BY InitInv, InvInductive, PTL DEF Spec

(* When the runner is done, the allow-list lists the files as they are and *)
(* the store of the source has their contents, whatever overlapped         *)
(* (multi-source-watcher.ts, engine-map.ts, engine-map-actions.ts).        *)
THEOREM QuietIsFresh == Spec => []QuietMeansFresh
<1>1. HeapInv => QuietMeansFresh
  BY DEF HeapInv, HeapBounds, AllowedOfNow, StoreOfNow, StoreFresh, AwaitsWalk, QuietMeansFresh, Quiet, Idle
<1>2. QED
  BY <1>1, HeapInvariant, PTL

(* Once the watcher is closed nothing a rebuild does is seen: the          *)
(* allow-list stays, and stores change only with a load of their own       *)
(* (multi-source-watcher.ts:242-245).                                      *)
THEOREM TeardownIsFinal == Spec => TeardownDeterministic
<1>1. ASSUME HeapInv, [Next]_vars, disposed
      PROVE  allowed' = allowed /\ (store' = store \/ load' # load)
  <2>1. ASSUME NEW l \in Loads, LoadSucceeds(l) PROVE allowed' = allowed /\ load' # load
    <3>1. load[l].at = "reading" /\ load' = [load EXCEPT ![l] = Over] /\ UNCHANGED watcher
      BY <2>1 DEF LoadSucceeds, Reading
    <3>2. l \in DOMAIN load
      BY <1>1, <2>1 DEF HeapInv, HeapTypeOK
    <3>3. load'[l] = Over
      BY <3>1, <3>2
    <3>4. Over.at = "over"
      BY DEF Over, Unused
    <3>5. load' # load
      BY <3>1, <3>3, <3>4
    <3>6. QED
      BY <3>1, <3>5 DEF watcher
  <2>2. ASSUME NEW l \in Loads, ensureEntry(l) \/ reloadEntry(l) \/ LoadFails(l)
        PROVE  UNCHANGED <<allowed, store>>
    BY <2>2 DEF ensureEntry, reloadEntry, LoadFails, watcher
  <2>3. ASSUME \/ unloadEntry \/ Edit \/ onFileEvent \/ TimerFires \/ Walked \/ Rebuilt
               \/ RebuildFails \/ dispose \/ UNCHANGED vars
        PROVE  UNCHANGED <<allowed, store>>
    BY <1>1, <2>3 DEF unloadEntry, Edit, onFileEvent, TimerFires, Walked, Rebuilt, RebuildFails,
                      dispose, vars, watcher, entry
  <2>4. QED
    BY <1>1, <2>1, <2>2, <2>3 DEF Next
<1>2. HeapInv /\ [Next]_vars => [disposed => allowed' = allowed /\ (store' = store \/ load' # load)]_vars
  BY <1>1
<1>3. QED
  BY <1>2, HeapInvariant, PTL DEF Spec, TeardownDeterministic
=============================================================================
