----------------------------- MODULE SourceSpecs -----------------------------
(***************************************************************************)
(* The declared sources of a project: what parseSourceSpec accepts          *)
(* (core/sources/source-spec.ts and the source-spec-*.ts helpers), what it  *)
(* keeps, and how a registry of them is checked.                            *)
(*                                                                          *)
(* A spec is written as a text -- a URL, an @id, or a glob pattern -- or as *)
(* an object: `given' is the set of fields it declares, `bad' those whose   *)
(* value has the wrong type or range and fails the field's own check, and   *)
(* the values that matter are members of their own.  A glob pattern is the  *)
(* set of paths it matches when they exist; a path is the sequence of its   *)
(* segments; an id is a sequence too, of length 1 when a user may declare   *)
(* it and longer for a synthesized child, whose id holds slashes.           *)
(***************************************************************************)
EXTENDS SourceTransforms, FiniteSets

Absent   == "absent"
NoId     == << >>
Rejected == [kind |-> "rejected"]

Given(spec, field)  == field \in spec.given
Sound(spec, fields) == fields \intersect spec.bad = {}
Free(spec, fields)  == fields \intersect spec.given = {}

(***************************************************************************)
(* A parsed source: every field it can carry, at its default.               *)
(***************************************************************************)
Blank == [kind |-> "glob", id |-> NoId, files |-> {}, prefix |-> << >>, parent |-> NoId,
          declared |-> FALSE, list |-> << >>, split |-> FALSE, union |-> Absent,
          storage |-> Absent, ref |-> NoPin, root |-> NoId, sha |-> NoPin,
          repo |-> NoId, cache |-> Absent, auth |-> FALSE, default |-> FALSE]

(* The defaulting points: callers read these, never the raw fields.         *)
StorageTier(source) ==
    IF source.kind \in {"glob", "file"} /\ source.storage # Absent
    THEN source.storage ELSE "memory"

UnionDefaultGraphEnabled(source) ==
    source.kind \in {"glob", "file"} /\ source.union \in {Absent, "yes"}

(* References and empty sources never cache.                                *)
SourceQueryCacheOptIn(source) ==
    IF source.kind \in {"endpoint", "glob", "file"} THEN source.cache ELSE Absent

(***************************************************************************)
(* parseSourceSpec                                                          *)
(***************************************************************************)
FromText(spec) ==
    CASE spec.text = "endpoint"  -> [Blank EXCEPT !.kind = "endpoint"]
      [] spec.text = "reference" -> [Blank EXCEPT !.kind = "reference", !.parent = spec.of]
      [] spec.text = "glob"      -> [Blank EXCEPT !.files = spec.files, !.prefix = spec.prefix]

EndpointFields == {"auth", "headers", "timeoutMs"}
LegacyFields   == {"graphMode", "graph"}
GlobFields     == {"transforms", "splitByFile", "unionDefaultGraph", "storage",
                   "gitRef", "gitRoot"}

ValidateSourceId(id) == Len(id) = 1

(* gitRoot only says where to look for the repository of a gitRef.          *)
PicksGitFields(spec) ==
    /\ Sound(spec, {"gitRef", "gitRoot"})
    /\ Given(spec, "gitRoot") => Given(spec, "gitRef")

(* The embedded store cannot persist the quoted triples of annotateSource.  *)
RejectsAnnotateSourceOnDisk(spec) ==
    /\ Given(spec, "storage") /\ spec.storage = "disk"
    /\ Given(spec, "transforms") /\ Annotates(spec.transforms)

ParsesGlobSpec(spec) ==
    /\ Free(spec, EndpointFields \union LegacyFields)
    /\ Given(spec, "transforms") => ParsesTransformList(spec.transforms)
    /\ Sound(spec, {"splitByFile", "unionDefaultGraph", "storage", "queryCache", "default"})
    /\ PicksGitFields(spec)
    /\ ~RejectsAnnotateSourceOnDisk(spec)

ParsesEndpointSpec(spec) ==
    /\ Free(spec, GlobFields \union LegacyFields)
    /\ Sound(spec, {"auth", "queryCache", "default"})
    /\ ~(Given(spec, "auth") /\ Given(spec, "headers") /\ spec.headers = "authorization")

(* `queryCache' is not among the fields an empty source forbids.            *)
ParsesEmptySpec(spec) ==
    /\ spec.id # NoId
    /\ Free(spec, EndpointFields \union GlobFields \union LegacyFields)
    /\ Sound(spec, {"default"})

ParsesObject(spec) ==
    /\ Cardinality(spec.forms) = 1
    /\ spec.id # NoId => ValidateSourceId(spec.id)
    /\ CASE "empty" \in spec.forms    -> ParsesEmptySpec(spec)
         [] "glob" \in spec.forms     -> ParsesGlobSpec(spec)
         [] "endpoint" \in spec.forms -> ParsesEndpointSpec(spec)

Kept(spec, field, value, otherwise) == IF Given(spec, field) THEN value ELSE otherwise

(* `queryCache: false' is no opt-in.                                        *)
PickQueryCache(spec) ==
    IF Given(spec, "queryCache") /\ spec.cache # "off" THEN spec.cache ELSE Absent

FromObject(spec) ==
    LET common == [Blank EXCEPT !.id = spec.id, !.default = Given(spec, "default")] IN
    CASE "empty" \in spec.forms -> [common EXCEPT !.kind = "empty"]
      [] "glob" \in spec.forms ->
            [common EXCEPT
                !.files = spec.files, !.prefix = spec.prefix,
                !.declared = Given(spec, "transforms"),
                !.list = Kept(spec, "transforms", spec.transforms, << >>),
                !.split = Given(spec, "splitByFile"),
                !.union = Kept(spec, "unionDefaultGraph", spec.union, Absent),
                !.storage = Kept(spec, "storage", spec.storage, Absent),
                !.ref = Kept(spec, "gitRef", spec.ref, NoPin),
                !.root = Kept(spec, "gitRoot", spec.root, NoId),
                !.cache = PickQueryCache(spec)]
      [] "endpoint" \in spec.forms ->
            [common EXCEPT !.kind = "endpoint", !.auth = Given(spec, "auth"),
                           !.cache = PickQueryCache(spec)]

ParseSourceSpec(spec) ==
    IF spec.text # Absent THEN FromText(spec)
    ELSE IF ParsesObject(spec) THEN FromObject(spec)
    ELSE Rejected

(* A text as surfaces hand it to parseSourceSpec again.                     *)
Text(kind, files, prefix) ==
    [text |-> kind, files |-> files, prefix |-> prefix, of |-> NoId]

(* parseSourceSpecs: distinct ids, at most one default.                     *)
ParseSourceSpecs(specs) ==
    LET parsed == [i \in DOMAIN specs |-> ParseSourceSpec(specs[i])] IN
    IF /\ \A i \in DOMAIN parsed : parsed[i] # Rejected
       /\ \A i, j \in DOMAIN parsed :
             parsed[i].id = parsed[j].id /\ parsed[i].id # NoId => i = j
       /\ \A i, j \in DOMAIN parsed : parsed[i].default /\ parsed[j].default => i = j
    THEN [kind |-> "registry", sources |-> parsed]
    ELSE Rejected

(* resolveSourceReferences: an @id entry stands for the last spec declared  *)
(* under that id, inlined without it.                                       *)
ResolveSourceReferences(specs, registry) ==
    LET Named(id) == {i \in DOMAIN registry : registry[i].text = Absent
                                              /\ registry[i].id = id}
        Inlined(spec) == IF spec.text # "reference" THEN spec
                         ELSE IF Named(spec.of) = {} THEN Rejected
                         ELSE [registry[Max(Named(spec.of))] EXCEPT !.id = NoId]
    IN [i \in DOMAIN specs |-> Inlined(specs[i])]

=============================================================================
