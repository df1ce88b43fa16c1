-------------------------- MODULE SourceTransforms --------------------------
(***************************************************************************)
(* The transform pipeline of a glob source: how a declared list of          *)
(* transforms is parsed, what each transform does to the quads of the       *)
(* loaded files, in the heap (resolve-source-result.ts) and while a         *)
(* disk-backed index is streamed to disk (glob-index-builder.ts), and when  *)
(* the index built from a list counts as stale.                             *)
(*                                                                          *)
(* A quad is [t |-> term, g |-> graph]: t is <<triple>>, or                 *)
(* <<triple, file, pin>> for the record annotateSource writes about one     *)
(* asserted triple.  A graph is a sequence: DefaultGraph, a declared name,  *)
(* or the path of a file (its file:// graph).  `perFile' maps each loaded   *)
(* file to the set of its quads.                                            *)
(***************************************************************************)
EXTENDS Naturals, Sequences, SequencesExt

DefaultGraph == <<"default graph">>
NoGraph      == << >>    \* no `graph:' override declared
NoPin        == "none"     \* no gitRef

GraphModes   == {"preserve", "fillDefault", "forceAll", "flatten"}

(* One entry of a `transforms:' list as it is written down.                 *)
Entry(key, mode, graph) == [key |-> key, mode |-> mode, graph |-> graph]

(* A graph override is meaningless where no quad is given a new name.       *)
ParsesGraphName(entry) ==
    /\ entry.mode \in GraphModes
    /\ entry.graph # NoGraph => entry.mode \notin {"preserve", "flatten"}

ParsesTransform(entry) ==
    \/ entry.key = "graphName" /\ ParsesGraphName(entry)
    \/ entry.key = "annotateSource"

(* A list parses when every entry does and no key is declared twice.        *)
ParsesTransformList(list) ==
    /\ \A i \in DOMAIN list : ParsesTransform(list[i])
    /\ \A i, j \in DOMAIN list : list[i].key = list[j].key => i = j

Annotates(list) == \E i \in DOMAIN list : list[i].key = "annotateSource"

(* The declared list verbatim, else the surface's default graph mode.       *)
EffectiveTransforms(declared, list, graphMode) ==
    IF declared THEN list
    ELSE IF graphMode = "preserve" THEN << >>
    ELSE << Entry("graphName", graphMode, NoGraph) >>

(***************************************************************************)
(* Applying the list.                                                       *)
(***************************************************************************)
Renamed(quad, graph) == [quad EXCEPT !.g = graph]

GraphNameQuadRewriter(entry, file, quad) ==
    LET target == IF entry.graph = NoGraph THEN file ELSE entry.graph IN
    CASE entry.mode = "preserve"    -> quad
      [] entry.mode = "flatten"     -> Renamed(quad, DefaultGraph)
      [] entry.mode = "fillDefault" -> IF quad.g = DefaultGraph
                                       THEN Renamed(quad, target) ELSE quad
      [] entry.mode = "forceAll"    -> Renamed(quad, target)

RewriteFlatten(store) == {Renamed(quad, DefaultGraph) : quad \in store}

(* The rewrite starts over from the records of the loader: whatever an      *)
(* earlier transform of the list added to the store is not in its result.   *)
RewriteWithFileGraphs(entry, perFile) ==
    UNION {{GraphNameQuadRewriter(entry, f, quad) : quad \in perFile[f]} :
              f \in DOMAIN perFile}

SourceRecords(perFile, pin) ==
    UNION {{[t |-> <<quad.t[1], f, pin>>, g |-> DefaultGraph] : quad \in perFile[f]} :
              f \in DOMAIN perFile}

ApplyTransform(entry, store, perFile, pin) ==
    IF entry.key = "annotateSource" THEN store \union SourceRecords(perFile, pin)
    ELSE CASE entry.mode = "preserve" -> store
           [] entry.mode = "flatten"  -> RewriteFlatten(store)
           [] entry.mode \in {"fillDefault", "forceAll"} ->
                                         RewriteWithFileGraphs(entry, perFile)

Merged(perFile) == UNION {perFile[f] : f \in DOMAIN perFile}

ApplyTransformPipeline(list, perFile, pin) ==
    LET store[n \in 0..Len(list)] ==
            IF n = 0 THEN Merged(perFile)
            ELSE ApplyTransform(list[n], store[n - 1], perFile, pin)
    IN  store[Len(list)]

(***************************************************************************)
(* The streamed ingest of a disk-backed index: quad by quad, no records,    *)
(* and a list that holds anything but graphName fails the build.            *)
(***************************************************************************)
Streams(list) == \A i \in DOMAIN list : list[i].key = "graphName"

Rewritten(list, file, quad) ==
    LET out[n \in 0..Len(list)] ==
            IF n = 0 THEN quad ELSE GraphNameQuadRewriter(list[n], file, out[n - 1])
    IN  out[Len(list)]

StreamGlobQuads(list, perFile) ==
    UNION {{Rewritten(list, f, quad) : quad \in perFile[f]} : f \in DOMAIN perFile}

(* compareGlobIndexManifests: the version, the list, and every file's stat. *)
Manifest(files, list, version) == [files |-> files, list |-> list, version |-> version]

FreshIndex(prior, current) ==
    /\ prior.version = current.version
    /\ prior.list = current.list
    /\ \A f \in DOMAIN current.files : /\ f \in DOMAIN prior.files
                                       /\ prior.files[f] = current.files[f]
    /\ \A f \in DOMAIN prior.files : f \in DOMAIN current.files

(* ensureGlobIndex: what `sparqly index' does with the index it finds.      *)
EnsureGlobIndex(present, prior, current, force) ==
    IF ~force /\ present /\ FreshIndex(prior, current) THEN "skipped"
    ELSE IF force THEN "forced"
    ELSE IF ~present THEN "absent"
    ELSE "stale"

=============================================================================
