---------------------------- MODULE SourceTargets ----------------------------
(***************************************************************************)
(* Which source a command or a request means, and what it reads of it: the  *)
(* CLI commands query, hash and diff (apps/cli/commands), the SPARQL route  *)
(* (server/sparql) and the diff route (server/diff), with the address @id   *)
(* or @id:ref, the --at override, and the inline query that scopes a side.  *)
(*                                                                          *)
(* An address is [id, ref], ref = NoPin for a bare @id.  A surface either   *)
(* refuses (a Failed result) or reads the quads of a tree.                  *)
(***************************************************************************)
EXTENDS SourceResolution

EmptyRef == ""

(* "@id:" with nothing after it is no address; neither is "@" alone.        *)
ParsesAddress(address) == address.id # NoId /\ address.ref # EmptyRef

(***************************************************************************)
(* Selection                                                                *)
(***************************************************************************)
Named(registry, id) == {source \in registry : source.id = id}

(* core: the pin of the address goes on a glob and is dropped elsewhere.    *)
ApplyAddressPin(entry, ref) ==
    IF entry.kind = "glob" THEN [entry EXCEPT !.ref = ref] ELSE entry

ResolveRef(registry, address) ==
    LET found == Named(registry, address.id) IN
    IF ~ParsesAddress(address) \/ found = {} THEN Failed("unknown-ref")
    ELSE LET entry == CHOOSE source \in found : TRUE IN
         IF address.ref = NoPin THEN entry ELSE ApplyAddressPin(entry, address.ref)

Unresolved(target) == "mode" \in DOMAIN target

SelectTarget(registry, address) ==
    LET entry == ResolveRef(registry, address) IN
    IF Unresolved(entry) THEN entry
    ELSE IF entry.kind = "reference" THEN Failed("ref-as-target") ELSE entry

(* Without an address: the one marked default, else the only one.           *)
SelectDefault(registry) ==
    LET marked == {source \in registry : source.default} IN
    IF marked # {} THEN CHOOSE source \in marked : TRUE
    ELSE IF Cardinality(registry) = 1 THEN CHOOSE source \in registry : TRUE
    ELSE IF registry = {} THEN Failed("empty-registry")
    ELSE Failed("no-default-multi")

(* serve: what is routed, and where the bare route forwards.                *)
ServeScope(registry, address) ==
    LET candidates == {source \in registry : source.kind # "reference"}
        Lone(served) == Cardinality(served) = 1 /\ \A s \in served : s.id = NoId
        served == IF address # Absent THEN {ResolveRef(candidates, address)}
                  ELSE IF ~Lone(candidates) THEN candidates
                  ELSE {[s EXCEPT !.id = <<"default">>, !.default = TRUE] : s \in candidates}
        marked == {source \in served : source.default}
    IN [served |-> served,
        default |-> IF marked # {} THEN (CHOOSE s \in marked : TRUE).id
                    ELSE IF Cardinality(served) = 1 THEN (CHOOSE s \in served : TRUE).id
                    ELSE NoId]

(***************************************************************************)
(* CLI: --at, and the positional pin of query and diff, go on globs only    *)
(* and are refused elsewhere; hash leaves its positional pin to core.       *)
(***************************************************************************)
ApplyAtOverride(target, at) ==
    IF Unresolved(target) \/ at = NoPin THEN target
    ELSE IF target.kind = "glob" THEN [target EXCEPT !.ref = at]
    ELSE Failed("at-override")

Positional(registry, address) ==
    IF ~ParsesAddress(address) THEN Failed("unknown-ref")
    ELSE ApplyAtOverride(SelectTarget(registry, [address EXCEPT !.ref = NoPin]), address.ref)

QueryTarget(registry, address, at) == ApplyAtOverride(Positional(registry, address), at)
HashTarget(registry, address, at)  == ApplyAtOverride(SelectTarget(registry, address), at)

Resolved(target) == IF Unresolved(target) THEN target ELSE ResolveSource(target)

QuerySide(registry, address, at) == Resolved(QueryTarget(registry, address, at))

(* hash and diff read a heap store or, through an inline query, its view.   *)
RawPassThrough(target) == target.kind = "endpoint" \/ StorageTier(target) = "disk"

RawSide(target) ==
    IF Unresolved(target) THEN target
    ELSE IF RawPassThrough(target) THEN Failed("raw-pass-through-target")
    ELSE ResolveSource(target)

(***************************************************************************)
(* Inline queries: the upstream is written down as a spec and parsed anew.  *)
(***************************************************************************)
GlobText(source) == Text("glob", source.files, source.prefix)

(* CLI: a glob is only its pattern, a child only its path.                  *)
InlineQueryUpstream(target) ==
    IF target.kind = "endpoint" THEN Text("endpoint", {}, << >>) ELSE GlobText(target)

(* Server: a pinned glob keeps its pin, its gitRoot, its split and its id.  *)
GlobUpstreamSpec(target) ==
    IF target.kind # "glob" \/ target.ref = NoPin THEN InlineQueryUpstream(target)
    ELSE [text |-> Absent, forms |-> {"glob"}, id |-> target.id, bad |-> {},
          files |-> target.files, prefix |-> target.prefix, ref |-> target.ref,
          root |-> target.root, transforms |-> << >>, union |-> Absent,
          storage |-> Absent, cache |-> Absent, headers |-> Absent, of |-> NoId,
          given |-> {"gitRef"} \union (IF target.root = NoId THEN {} ELSE {"gitRoot"})
                               \union (IF target.split THEN {"splitByFile"} ELSE {})]

ExecuteInlineQuery(upstream) ==
    IF upstream.kind = "rejected" THEN Failed("parse")
    ELSE IF upstream.kind = "reference" THEN Failed("inline-query-validation")
    ELSE IF upstream.kind \in {"endpoint", "empty"} THEN ResolveSource(upstream)
    ELSE IF upstream.kind = "glob" /\ (StorageTier(upstream) = "disk" \/ upstream.ref # NoPin)
         THEN IF StorageTier(upstream) = "disk"
              THEN ResolveDiskBackedIndex(upstream, upstream.list)
              ELSE ResolveSource(upstream)
    ELSE LoadTree(Working, Matched(upstream, Working), upstream.list, NoPin)

(* A table needs the heap: the whole store, or nothing.                     *)
ExecuteSelectBindings(upstream) ==
    IF upstream.kind = "rejected" THEN Failed("parse")
    ELSE LET sources == ResolveSource(upstream) IN
         IF sources.mode = "disk-backed" THEN Failed("glob-load") ELSE sources

Scoped(target, Upstream(_)) ==
    IF Unresolved(target) THEN target
    ELSE IF target.kind \notin {"glob", "file", "endpoint"} THEN Failed("inline-upstream-kind")
    ELSE ExecuteInlineQuery(ParseSourceSpec(Upstream(target)))

HashSide(registry, address, at, inline) ==
    LET target == HashTarget(registry, address, at) IN
    IF inline THEN Scoped(target, InlineQueryUpstream) ELSE RawSide(target)

CliDiffSide(registry, address, at, inline) ==
    LET target == QueryTarget(registry, address, at) IN
    IF inline THEN Scoped(target, InlineQueryUpstream) ELSE RawSide(target)

(***************************************************************************)
(* Server: the SPARQL route and the diff route.  A registered source is     *)
(* loaded by the engine map, which hosts disk-backed sources from an index  *)
(* of the working directory and does not look at their pin.                 *)
(***************************************************************************)
EnsureRegistered(source) ==
    IF StorageTier(source) = "disk" THEN ResolveDiskBackedIndex(source, source.list)
    ELSE ResolveSource(source)

(* An ad-hoc pin is loaded by a worker under id@sha, or on main.            *)
EnsureAdHoc(target) ==
    LET sources == ResolveSource(target) IN
    IF sources.mode = "disk-backed" THEN Failed("glob-load") ELSE sources

IsAdHocPin(registry, target) ==
    \E declared \in Named(registry, target.id) : declared.ref # target.ref

RouteSide(registry, address) ==
    LET target == SelectTarget(registry, address) IN
    IF Unresolved(target) THEN target
    ELSE IF IsAdHocPin(registry, target) THEN EnsureAdHoc(target)
    ELSE EnsureRegistered(target)

(* The diff route pins a child as a one-file glob under the child's id.     *)
PinSide(entry, ref) ==
    IF entry.kind # "file" THEN ApplyAddressPin(entry, ref)
    ELSE [Blank EXCEPT !.id = entry.id, !.files = entry.files, !.prefix = Front(CHOOSE f \in entry.files : TRUE),
                       !.ref = ref, !.declared = entry.declared, !.list = entry.list]

SelectFromRegistry(registry, address) ==
    LET found == {source \in Named(registry, address.id) : source.kind # "reference"} IN
    IF ~ParsesAddress(address) \/ found = {} THEN Failed("unknown-ref")
    ELSE LET entry == CHOOSE source \in found : TRUE IN
         IF address.ref = NoPin THEN entry ELSE PinSide(entry, address.ref)

HasRuntimePinOverride(registry, target) ==
    \E declared \in Named(registry, target.id) :
        \/ declared.kind # target.kind
        \/ target.kind = "glob" /\ declared.ref # target.ref

LoadSideSources(registry, target) ==
    IF HasRuntimePinOverride(registry, target) THEN ResolveSource(target)
    ELSE EnsureRegistered(target)

ServerDiffSide(registry, address, inline) ==
    LET target == SelectFromRegistry(registry, address) IN
    IF inline THEN Scoped(target, GlobUpstreamSpec)
    ELSE IF Unresolved(target) THEN target
    ELSE IF RawPassThrough(target) THEN Failed("raw-pass-through-target")
    ELSE LoadSideSources(registry, target)

(***************************************************************************)
(* What must hold of one declared source and the addresses of its registry. *)
(***************************************************************************)
Reads(result) == result.mode \in {"materialized", "disk-backed"}

Registry(spec) == ExpandSplitGlobs({ParseSourceSpec(spec)})

RawSides(registry, address) ==
    {QuerySide(registry, address, NoPin), HashSide(registry, address, NoPin, FALSE),
     CliDiffSide(registry, address, NoPin, FALSE), RouteSide(registry, address),
     ServerDiffSide(registry, address, FALSE)}

PinOf(registry, address) ==
    IF address.ref # NoPin THEN address.ref
    ELSE (CHOOSE source \in Named(registry, address.id) : TRUE).ref

TreeOf(pin) == IF pin = NoPin THEN Working ELSE ShaOf[pin]

(* A pinned address never reads the working directory where the code passes *)
(* its pin on: on heap-loaded globs and, without an address, on their       *)
(* children, every surface that does not refuse reads the named tree, and   *)
(* all of them read the same quads; the diff route keeps the pin of a glob  *)
(* under an inline query too, and of a child that an address pins.  (The    *)
(* inline queries of the CLI, and disk-backed children, do not.)            *)
SurfacesReadThePin(registry, address) ==
    LET found  == Named(registry, address.id)
        entry  == CHOOSE source \in found : TRUE
        named  == TreeOf(PinOf(registry, address))
        raw    == {side \in RawSides(registry, address) : Reads(side)}
        server == ServerDiffSide(registry, address, FALSE)
        scoped == ServerDiffSide(registry, address, TRUE)
    IN found # {} /\ address.ref # EmptyRef =>
        /\ StorageTier(entry) = "memory" /\ (entry.kind = "glob" \/ address.ref = NoPin) =>
              \A side \in raw : side.tree = named /\ \A other \in raw : side.quads = other.quads
        /\ entry.kind = "glob" /\ Reads(scoped) => scoped.tree = named
        /\ StorageTier(entry) = "memory" /\ Reads(server) => server.tree = named

(* Splitting a glob moves no quad: the children of one that loads carry     *)
(* distinct ids, load from the glob's own tree, and together hold what the  *)
(* glob itself loads, in the heap and on disk.                              *)
SplitCoversMeta(meta) ==
    LET whole    == ResolveSource([meta EXCEPT !.split = FALSE])
        children == ExpandedChildren(meta)
    IN Expands(meta) /\ Rejected \notin children /\ Reads(whole) =>
        /\ \A a, b \in children : a.id = b.id => a = b
        /\ \A child \in children : /\ Reads(ResolveSource(child))
                                    /\ ResolveSource(child).tree = whole.tree
        /\ UNION {ResolveSource(child).quads : child \in children} = whole.quads

(* The tier is no part of a source's meaning: whatever list of transforms   *)
(* both accept, the quads streamed into an index are those of the heap.     *)
TierTransparent(source) ==
    LET heap == ResolveSource([source EXCEPT !.storage = Absent])
        disk == ResolveSource([source EXCEPT !.storage = "disk"])
    IN Reads(heap) /\ Reads(disk) => heap.quads = disk.quads

=============================================================================
