---------------------------- MODULE QueryCache ----------------------------
(* The query cache: one on-disk store shared by the requests of a server    *)
(* and by CLI invocations (core/src/lib/query-cache), the executor that     *)
(* reads through it, and the freshness token that names the generation of   *)
(* a source inside the key.  A request takes its token, looks the key up    *)
(* and stores its answer in separate steps; edits, reloads, expiry, other   *)
(* processes that come and go, perhaps of another version of sparqly, and   *)
(* their requests happen in between.                                        *)
EXTENDS Naturals, FiniteSets

CONSTANTS
    Requests,     \* the requests under way at a time
    Processes,    \* the processes that share the store: servers and shells
    ProcessOf,    \* request -> the process that serves it
    Version,      \* process -> the version of sparqly it runs
    Sources,      \* opted-in sources
    TokenKind,    \* source -> "opaque" (endpoint), "sha" (pinned) or "stat" (live files)
    Ttl, Cap,     \* source -> its time-to-live and its byte cap (NoCap: none)
    NoCap,
    MaxBytes,     \* the global byte budget
    MaxEntry,     \* the per-entry ceiling
    BodySizes,    \* the sizes an answer can have
    Queries,      \* query texts
    Volatile,     \* the queries that call NOW, RAND, UUID or STRUUID
    MaxClock, MaxEdits   \* bounds of the model: time, and edits of all sources

ASSUME CacheAssumption ==
    /\ Volatile \subseteq Queries
    /\ MaxBytes \in Nat /\ MaxEntry \in Nat /\ BodySizes \subseteq Nat \ {0}
    /\ Ttl \in [Sources -> Nat] /\ Cap \in [Sources -> Nat \cup {NoCap}]
    /\ TokenKind \in [Sources -> {"opaque", "sha", "stat"}]
    /\ ProcessOf \in [Requests -> Processes] /\ DOMAIN Version = Processes
    /\ MaxClock \in Nat /\ MaxEdits \in Nat

VARIABLES
    rows,      \* key -> [ver, gen, bytes, at, used]: the table `entries`
    stamp,     \* the version in the table `cache_meta`
    opened,    \* the processes that have the store open
    clock,
    files,     \* source -> generation of its data outside: files, or a ref's commit
    loaded,    \* process -> source -> generation its engine answers from
    calls      \* request -> its progress

cvars == <<rows, stamp, opened, clock, files, loaded, calls>>

(* A key is the digest of its parts; the digest is injective. *)
CacheKeyOfAnyVersion(version, source, query, token) ==
    [version |-> "any", source |-> source, query |-> query, token |-> token]
CacheKey(version, source, query, token) ==
    [version |-> version, source |-> source, query |-> query, token |-> token]

(* An opaque source has the empty token, and a pinned one the SHA that the  *)
(* process resolved when it started (expandSplitGlobs, or the load of a     *)
(* shell); live files are stat'ed at every request.                         *)
TokenOfTheRef(p, source) ==
    IF TokenKind[source] = "opaque" THEN 0 ELSE files[source]
Token(p, source) ==
    CASE TokenKind[source] = "opaque" -> 0
      [] TokenKind[source] = "sha"    -> loaded[p][source]
      [] TokenKind[source] = "stat"   -> files[source]

Live(s, table) == {k \in DOMAIN table : k.source = s}

(* The bytes that rows take, counted one by one. *)
TotalBytes(ks, table) ==
    Cardinality(UNION {{k} \X (1..table[k].bytes) : k \in ks})

Without(ks, table) == [k \in DOMAIN table \ ks |-> table[k]]

(* purgeExpiredStmt: every row past its own time-to-live. *)
Expired(k, table) == clock - table[k].at > Ttl[k.source]

Purged(table) == Without({k \in DOMAIN table : Expired(k, table)}, table)

Upserted(k, row, table) ==
    [x \in DOMAIN table \cup {k} |-> IF x = k THEN row ELSE table[x]]

(* evictVictims: oldest access first, until what is left of `among' fits. *)
(* Rows of the same age go in the order of their keys, digests: any order. *)
Victims(among, budget, table) ==
    {gone \in SUBSET among :
        /\ \A v \in gone, k \in among \ gone : table[v].used <= table[k].used
        /\ TotalBytes(among \ gone, table) <= budget
        /\ gone # {} =>
             \E last \in gone :
                /\ \A v \in gone : table[v].used <= table[last].used
                /\ TotalBytes((among \ gone) \cup {last}, table) > budget}

EvictVictims(among, budget, table) == {Without(gone, table) : gone \in Victims(among, budget, table)}

EvictToSourceAmongAll(s, table) ==
    IF Cap[s] = NoCap THEN {table} ELSE EvictVictims(DOMAIN table, Cap[s], table)
EvictToSource(s, table) ==
    IF Cap[s] = NoCap THEN {table} ELSE EvictVictims(Live(s, table), Cap[s], table)
EvictToGlobal(table) == EvictVictims(DOMAIN table, MaxBytes, table)

(* writeEntryTxn: one transaction, so no other writer sees it half done.    *)
(* The tables it may leave.                                                 *)
WriteEntryEvictingFirst(k, row) ==
    IF row.bytes > MaxEntry THEN {rows}
    ELSE {Upserted(k, row, fitting) :
            fitting \in UNION {EvictToGlobal(capped) : capped \in EvictToSource(k.source, Purged(rows))}}
WriteEntry(k, row) ==
    IF row.bytes > MaxEntry THEN {rows}
    ELSE UNION {EvictToGlobal(capped) :
                   capped \in EvictToSource(k.source, Upserted(k, row, Purged(rows)))}

(* The edits made so far, one by one. *)
Edits == UNION {{s} \X (2..files[s]) : s \in Sources}

(* A store that is not there yet is an empty one with any stamp; time may   *)
(* have passed, and files have been edited, before.                         *)
CacheInit ==
    /\ rows = [k \in {} |-> 0]
    /\ \E p \in Processes : stamp = Version[p]
    /\ opened = {}
    /\ clock \in 0..MaxClock
    /\ files \in [Sources -> 1..MaxEdits + 1] /\ Cardinality(Edits) <= MaxEdits
    /\ loaded = [p \in Processes |-> files]
    /\ calls = [r \in Requests |-> [at |-> "idle"]]

(* enforceSchemaVersion: a process that opens a store with another          *)
(* version's stamp empties it.  A process that has it open looks no more.   *)
Open(p) ==
    /\ opened' = opened \cup {p}
    /\ stamp' = IF p \in opened THEN stamp ELSE Version[p]

FoundBy(p) ==
    IF p \in opened \/ stamp = Version[p] THEN rows ELSE Without(DOMAIN rows, rows)

(* wrapWithQueryCache: the token is taken from the facts of this moment,    *)
(* then the store is opened.  A token that cannot be computed opens nothing *)
(* and leaves the request uncached, which is the mode "bypass" here.        *)
Wrap(r, s, q, mode) ==
    LET p == ProcessOf[r] IN
    /\ calls[r].at \in {"idle", "hit"}
    /\ calls' = [calls EXCEPT ![r] =
           [at |-> "wrapped", source |-> s, query |-> q, mode |-> mode, since |-> loaded[p][s],
            key |-> CacheKey(Version[p], s, q, Token(p, s))]]
    /\ IF mode = "bypass" THEN UNCHANGED <<rows, stamp, opened>>
       ELSE rows' = FoundBy(p) /\ Open(p)
    /\ UNCHANGED <<clock, files, loaded>>

Bypasses(c) == c.query \in Volatile \/ c.mode = "bypass"

(* executeResult, the lookup: a hit touches its row, an expired row is      *)
(* deleted in passing, and a miss starts the delegate on the loaded data.   *)
Usable(c) ==
    /\ ~Bypasses(c) /\ c.mode = "normal"
    /\ c.key \in DOMAIN rows /\ ~Expired(c.key, rows)

Hit(r) ==
    LET c == calls[r] IN
    /\ c.at = "wrapped" /\ Usable(c)
    /\ rows' = [rows EXCEPT ![c.key].used = clock]
    /\ calls' = [calls EXCEPT ![r] =
           [at |-> "hit", source |-> c.source, since |-> c.since,
            ver |-> rows[c.key].ver, gen |-> rows[c.key].gen]]
    /\ UNCHANGED <<stamp, opened, clock, files, loaded>>

Delegate(r) ==
    LET c == calls[r] IN
    /\ c.at = "wrapped" /\ ~Usable(c)
    /\ rows' = IF ~Bypasses(c) /\ c.mode = "normal" /\ c.key \in DOMAIN rows
               THEN Without({c.key}, rows) ELSE rows
    /\ calls' = [calls EXCEPT ![r] =
           [at |-> "running", key |-> c.key, stores |-> ~Bypasses(c),
            gen |-> loaded[ProcessOf[r]][c.source]]]
    /\ UNCHANGED <<stamp, opened, clock, files, loaded>>

(* The delegate answers: a cacheable answer is stored, unless the write     *)
(* fails, which is swallowed.                                               *)
Answer(r, size, written) ==
    LET c == calls[r]
        row == [ver |-> Version[ProcessOf[r]], gen |-> c.gen, bytes |-> size,
                at |-> clock, used |-> clock]
    IN  /\ c.at = "running"
        /\ rows' \in IF written /\ c.stores THEN WriteEntry(c.key, row) ELSE {rows}
        /\ calls' = [calls EXCEPT ![r] = [at |-> "idle"]]
        /\ UNCHANGED <<stamp, opened, clock, files, loaded>>

(* The delegate fails: nothing is stored. *)
Fail(r) ==
    /\ calls[r].at = "running"
    /\ calls' = [calls EXCEPT ![r] = [at |-> "idle"]]
    /\ UNCHANGED <<rows, stamp, opened, clock, files, loaded>>

(* Outside: time passes, files change or a ref moves, and the watcher or a  *)
(* reload brings live data up to date; a pinned source is loaded again at   *)
(* the commit it has.                                                       *)
Tick ==
    /\ clock < MaxClock /\ clock' = clock + 1
    /\ UNCHANGED <<rows, stamp, opened, files, loaded, calls>>

EditSource(s) ==
    /\ Cardinality(Edits) < MaxEdits
    /\ files' = [files EXCEPT ![s] = @ + 1]
    /\ loaded' = IF TokenKind[s] = "opaque"
                 THEN [p \in Processes |-> [loaded[p] EXCEPT ![s] = files[s] + 1]] ELSE loaded
    /\ UNCHANGED <<rows, stamp, opened, clock, calls>>

ReloadSource(p, s) ==
    /\ TokenKind[s] # "sha" /\ loaded[p][s] < files[s]
    /\ loaded' = [loaded EXCEPT ![p][s] = files[s]]
    /\ UNCHANGED <<rows, stamp, opened, clock, files, calls>>

(* A server is started again, or a shell runs its next command: refs are    *)
(* resolved and sources loaded anew, and the store is not open.             *)
Restart(p) ==
    /\ opened' = opened \ {p}
    /\ loaded' = [loaded EXCEPT ![p] = files]
    /\ calls' = [r \in Requests |-> IF ProcessOf[r] = p THEN [at |-> "idle"] ELSE calls[r]]
    /\ UNCHANGED <<rows, stamp, clock, files>>

(* POST cache/clear and `sparqly cache clear`, which open the store first. *)
Clear(p) ==
    /\ DOMAIN rows # {}
    /\ rows' = Without(DOMAIN rows, rows)
    /\ Open(p)
    /\ UNCHANGED <<clock, files, loaded, calls>>

CacheNext ==
    \/ \E r \in Requests :
         \/ \E s \in Sources, q \in Queries, m \in {"normal", "refresh", "bypass"} :
               Wrap(r, s, q, m)
         \/ Hit(r) \/ Delegate(r) \/ Fail(r)
         \/ \E size \in BodySizes, written \in BOOLEAN : Answer(r, size, written)
    \/ Tick
    \/ \E p \in Processes :
         Clear(p) \/ Restart(p) \/ \E s \in Sources : ReloadSource(p, s)
    \/ \E s \in Sources : EditSource(s)

CacheSpec == CacheInit /\ [][CacheNext]_cvars

(* The store never outgrows its budgets, whoever writes in what order, and  *)
(* a source with a cap never outgrows it (cache-store.ts:243-268).          *)
StoreFits ==
    /\ TotalBytes(DOMAIN rows, rows) <= MaxBytes
    /\ \A s \in Sources : Cap[s] # NoCap => TotalBytes(Live(s, rows), rows) <= Cap[s]

(* "A chatty cheap source cannot crowd out an expensive one": while the     *)
(* store as a whole has room for an answer, storing it costs no other       *)
(* source a row that is still alive, whatever the writer's own cap.         *)
CapSparesOthers ==
    [][\A r \in Requests, size \in BodySizes :
         /\ calls[r].at = "running"
         /\ TotalBytes(DOMAIN Purged(rows) \ {calls[r].key}, rows) + size <= MaxBytes
         /\ Answer(r, size, TRUE)
         => \A k \in DOMAIN Purged(rows) :
                k.source # calls[r].key.source => k \in DOMAIN rows']_cvars

(* A hit is an answer that the asking process could have given itself: one  *)
(* of its own version, although a process of another version that still has *)
(* the store open writes rows after the newcomer emptied it                 *)
(* (cache-store.ts:320-336, cache-key.ts:57), and for a pinned source one   *)
(* of the commit this process resolved, although another process may have   *)
(* resolved the ref after it moved (freshness-token-from-facts.ts:54-56).   *)
HitsAreOwn ==
    \A r \in Requests :
        calls[r].at = "hit" =>
            /\ calls[r].ver = Version[ProcessOf[r]]
            /\ TokenKind[calls[r].source] = "sha" =>
                 calls[r].gen = loaded[ProcessOf[r]][calls[r].source]

(* "a file edited and reloaded misses" (engine-map-query-cache.ts:71-72):   *)
(* a request that starts after a reload, or a restart, is not answered from *)
(* the data of an earlier load, if the source's token follows its files.    *)
ReloadedMisses ==
    \A r \in Requests :
        calls[r].at = "hit" /\ TokenKind[calls[r].source] = "stat"
            => calls[r].gen >= calls[r].since
===========================================================================
