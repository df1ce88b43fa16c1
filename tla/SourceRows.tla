----------------------------- MODULE SourceRows -----------------------------
(***************************************************************************)
(* What the Sources page says of a source: EngineMap.readState projects an *)
(* entry to a state (engine-map-read-state.ts), source-row-projector.ts    *)
(* makes it a row and folds the children of a split glob under it, the     *)
(* browser recomputes the row when a child's changes                       *)
(* (sources-registry.service.ts), and the page counts, filters and shows   *)
(* the rows, each with the actions that fit its state                      *)
(* (source-card.component.ts) and that SourcesController takes or refuses. *)
(*                                                                         *)
(* Optional fields of a row are the domain of a function: a row without    *)
(* metrics has metrics << >>.  Ids, byte counts and messages are left out, *)
(* `error' says whether there is one.                                      *)
(***************************************************************************)
EXTENDS Naturals, Sequences, SequencesExt, FiniteSetsExt, TLC

None == "none"

-----------------------------------------------------------------------------
(* EngineMap.readState.  The facts of an entry: its tier; whether the pool *)
(* builds it; `lastError'; whether it is loaded or loading; its manifest   *)
(* ("none", "torn", "readable") and what comparing it with the files says  *)
(* ("fresh", "stale", "unreadable"); its metrics, with a `loadedAt' of 0   *)
(* while there are none, and no quads for an engine that does not count.   *)
collectMetrics(entry) ==
    IF entry.loadedAt = 0 THEN << >>
    ELSE ("files" :> 1 @@ "loadedAt" :> entry.loadedAt)
         @@ (IF entry.quads = 0 THEN << >> ELSE "quads" :> entry.quads)

Runtime(mode, state, metrics, error, reason) ==
    [mode |-> mode, state |-> state, metrics |-> metrics, error |-> error, reason |-> reason]

(* The quads of an index are the manifest's, with or without an open. *)
WithManifest(loaded, manifestQuads) ==
    LET base == IF loaded = << >> THEN "files" :> 1 @@ "loadedAt" :> 0 ELSE loaded
    IN  IF manifestQuads = 0 THEN loaded ELSE "quads" :> manifestQuads @@ base

diskBackedRuntime(entry, state, manifestQuads) ==
    Runtime("disk-backed", state, WithManifest(collectMetrics(entry), manifestQuads), FALSE,
            IF state = "stale" THEN "edited" ELSE None)

projectDiskBackedState(entry) ==
    CASE entry.building -> diskBackedRuntime(entry, "indexing", 0)
      [] ~entry.building /\ entry.failed ->
             Runtime("disk-backed", "failed", collectMetrics(entry), TRUE, None)
      [] ~entry.building /\ ~entry.failed /\ entry.manifest # "readable" ->
             diskBackedRuntime(entry, "not-built", 0)
      [] OTHER ->
             diskBackedRuntime(entry, IF entry.freshness = "stale" THEN "stale" ELSE "ready", 3)

projectEntryState(entry) ==
    CASE entry.mode = "endpoint" -> Runtime("endpoint", "endpoint", << >>, FALSE, None)
      [] entry.mode = "disk-backed" -> projectDiskBackedState(entry)
      [] entry.mode = "in-memory" /\ entry.current ->
             Runtime("in-memory", "loaded", collectMetrics(entry), FALSE, None)
      [] entry.mode = "in-memory" /\ ~entry.current /\ entry.loading ->
             Runtime("in-memory", "loading", << >>, FALSE, None)
      [] OTHER ->
             Runtime("in-memory", IF entry.failed THEN "failed" ELSE "not-loaded", << >>,
                     entry.failed, None)

-----------------------------------------------------------------------------
(* source-row-projector.ts. *)
LoadedStates == {"loaded", "ready"}

(* Metrics are of loaded rows, a reason of stale ones, an error of failed.  *)
projectSourceRow(id, runtime) ==
    [id |-> id, mode |-> runtime.mode, state |-> runtime.state,
     metrics |-> IF runtime.state \in LoadedStates THEN runtime.metrics ELSE << >>,
     error |-> runtime.state = "failed" /\ runtime.error,
     reason |-> IF runtime.state = "stale" THEN runtime.reason ELSE None,
     children |-> << >>]

aggregateChildState(children, fallback) ==
    LET states == {child.state : child \in ToSet(children)}
    IN  CASE states = {} -> fallback
          [] Cardinality(states) = 1 -> CHOOSE s \in states : TRUE
          [] OTHER -> "mixed"

SumOf(children, field) ==
    FoldSeq(LAMBDA child, sum : child.metrics[field] + sum, 0,
            SelectSeq(children, LAMBDA child : field \in DOMAIN child.metrics))
LatestOf(children) ==
    Max({child.metrics["loadedAt"] :
            child \in {c \in ToSet(children) : "loadedAt" \in DOMAIN c.metrics}})

(* The children that are loaded, added up; nothing if there are none. *)
summarizeChildMetrics(children) ==
    LET loaded == SelectSeq(children, LAMBDA child : child.state \in LoadedStates)
        told == UNION {DOMAIN child.metrics : child \in ToSet(loaded)}
    IN  IF told = {} THEN << >>
        ELSE "files" :> SumOf(loaded, "files")
             @@ (IF "quads" \in told THEN "quads" :> SumOf(loaded, "quads") ELSE << >>)
             @@ (IF "loadedAt" \in told THEN "loadedAt" :> LatestOf(loaded) ELSE << >>)

(* A union that was itself touched shows its own state; only an untouched  *)
(* one, or an index, shows what its children add up to.                    *)
projectSplitGlobMeta(row, children) ==
    IF row.mode = "in-memory" /\ row.state # "not-loaded"
    THEN [row EXCEPT !.children = children]
    ELSE [row EXCEPT !.children = children, !.metrics = summarizeChildMetrics(children),
                     !.state = aggregateChildState(children, row.state)]

(* A family is its top-level entry and those of its children, in order. *)
ChildRows(family) ==
    [i \in DOMAIN family.children |->
        projectSourceRow(<<family.id, i>>, projectEntryState(family.children[i]))]
projectTopLevelRow(family) ==
    LET row == projectSourceRow(<<family.id>>, projectEntryState(family.top))
    IN  IF family.children = << >> THEN row ELSE projectSplitGlobMeta(row, ChildRows(family))

-----------------------------------------------------------------------------
(* sources-registry.service.ts: the browser's own sum over the children,   *)
(* spread over the row it had.                                             *)
summarizeMeta(children, meta) ==
    [state |-> aggregateChildState(children, meta.state),
     metrics |-> summarizeChildMetrics(children)]

Appended(children, child) == Append(children, child)

Replaced(children, child) ==
    IF \E i \in DOMAIN children : children[i].id = child.id
    THEN [i \in DOMAIN children |-> IF children[i].id = child.id THEN child ELSE children[i]]
    ELSE Append(children, child)

(* The fields of `over' in front of those of `row'. *)
Spread(row, over) ==
    [f \in DOMAIN row \cup DOMAIN over |-> IF f \in DOMAIN over THEN over[f] ELSE row[f]]

reaggregateMeta(meta, child) ==
    LET children == Replaced(meta.children, child)
        summary == summarizeMeta(children, meta)
    IN  [meta EXCEPT !.children = children, !.state = summary.state,
                     !.metrics = Spread(meta.metrics, summary.metrics)]

-----------------------------------------------------------------------------
(* sources.page.ts: what is counted on the chips, and what is visible under *)
(* a filter, with some of the split globs expanded.  A row is known by its  *)
(* id, so the rows are a set here.                                          *)
displayRows(rows, expanded) ==
    UNION {{row} \cup (IF row.id \in expanded THEN ToSet(row.children) ELSE {}) : row \in rows}

Filters == {"all", "loaded", "ready", "not-loaded", "not-built", "failed", "stale", "loading",
            "indexing", "endpoint"}

counts(rows) ==
    LET every == displayRows(rows, {row.id : row \in rows})
        counted(row) == IF row.mode = "endpoint" THEN "endpoint" ELSE row.state
    IN  [f \in Filters |-> Cardinality({row \in every : f = "all" \/ counted(row) = f})]

visibleRows(rows, expanded, filter) ==
    {row \in displayRows(rows, expanded) :
        CASE filter = "all" -> TRUE
          [] filter = "endpoint" -> row.mode = "endpoint"
          [] OTHER -> row.mode # "endpoint" /\ row.state = filter}

-----------------------------------------------------------------------------
(* source-card.component.ts: the actions of a row, each a verb and the row *)
(* it is sent for.                                                         *)
Verb(name, row) == [verb |-> name, id |-> row.id]
loadedChildren(row) == {child \in ToSet(row.children) : child.state \in LoadedStates}

actions(row, allowAdminActions) ==
    IF ~allowAdminActions THEN {}
    ELSE
      (CASE row.mode = "endpoint" -> {Verb("test-connection", row)}
         [] row.mode = "in-memory" /\ row.state \in {"not-loaded", "failed"} -> {Verb("load", row)}
         [] row.mode = "in-memory" /\ row.state = "loaded" ->
                {Verb("reload", row), Verb("unload", row)}
         [] row.mode = "disk-backed" /\ row.state = "indexing" -> {Verb("cancel-build", row)}
         [] row.mode = "disk-backed" /\ row.state # "indexing" -> {Verb("index-build", row)}
         [] OTHER -> {})
      \cup {Verb("reload", child) : child \in loadedChildren(row)}

(* What the card shows besides: the badge, metrics, the reason, the error. *)
Shown(row) ==
    [badge |-> IF row.mode = "endpoint" THEN "remote" ELSE row.state,
     figures |-> IF row.mode = "endpoint" THEN << >> ELSE row.metrics,
     warning |-> IF row.mode = "disk-backed" /\ row.state = "stale" THEN row.reason ELSE None,
     error |-> row.mode # "endpoint" /\ row.state = "failed" /\ row.error]

(* The chip of a probe: an answer, an error of the endpoint, or none at all. *)
testConnection(reply) ==
    CASE reply = "answer" -> "ok"
      [] reply = "refusal" -> "error"
      [] OTHER -> "transport"

(* SourcesController and the EngineMap behind it: what a verb comes to.     *)
(* Reload of an index takes the engine of an entry that may never have been *)
(* opened.                                                                  *)
Response(verb, entry, allowAdminActions) ==
    CASE ~allowAdminActions -> "forbidden"
      [] allowAdminActions /\ verb = "test-connection" ->
             IF entry.mode = "endpoint" THEN "accepted" ELSE "unknown-endpoint"
      [] allowAdminActions /\ verb = "index-build" ->
             IF entry.mode = "disk-backed" THEN "accepted" ELSE "not-disk-backed"
      [] allowAdminActions /\ verb = "reload" ->
             IF entry.mode = "disk-backed" /\ ~entry.current THEN "crash" ELSE "accepted"
      [] OTHER -> "accepted"

-----------------------------------------------------------------------------
(* Properties. *)
EntryOf(family, id) ==
    IF Len(id) = 1 THEN family.top ELSE family.children[id[2]]

(* A source that is being built can be cancelled from its own card and is   *)
(* not offered another build, one that is in flight is offered nothing, and *)
(* any other can be moved on: no order of the facts of an entry hides what  *)
(* can be done about it.  The card of a split glob answers for its children *)
(* only.                                                                    *)
CardFits(entry) ==
    LET row == projectSourceRow(<<"id">>, projectEntryState(entry))
        verbs == {a.verb : a \in actions(row, TRUE)}
    IN  /\ entry.mode = "disk-backed" => ("cancel-build" \in verbs <=> entry.building)
        /\ verbs = {} <=> entry.mode = "in-memory" /\ entry.loading /\ ~entry.current
        /\ Shown(row).error => entry.failed /\ "unload" \notin verbs

(* The server takes every verb a card offers, except the reload of a child *)
(* whose index was built but never opened.                                  *)
ButtonsWork(family, allowAdminActions) ==
    \A a \in actions(projectTopLevelRow(family), allowAdminActions) :
        \/ Response(a.verb, EntryOf(family, a.id), allowAdminActions) = "accepted"
        \/ EntryOf(family, a.id).mode = "disk-backed" /\ ~EntryOf(family, a.id).current

(* While nobody touched the union itself, the row the browser puts together *)
(* from a child's new row tells what the server's row would.                *)
BrowserAgrees(family, i, entry) ==
    LET after == [family EXCEPT !.children[i] = entry]
        served == projectTopLevelRow(after)
        shown == reaggregateMeta(projectTopLevelRow(family), ChildRows(after)[i])
    IN  (family.top.mode = "disk-backed"
         \/ projectEntryState(family.top).state = "not-loaded") =>
            /\ shown.state = served.state /\ shown.children = served.children
            /\ \A f \in DOMAIN served.metrics : shown.metrics[f] = served.metrics[f]

(* A chip counts what its filter shows once everything is expanded, and     *)
(* expanding never hides a row.                                             *)
CountsAgree(rows) ==
    LET all == {row.id : row \in rows}
    IN  \A f \in Filters :
            /\ counts(rows)[f] = Cardinality(visibleRows(rows, all, f))
            /\ \A e \in SUBSET all : visibleRows(rows, e, f) \subseteq visibleRows(rows, all, f)
=============================================================================
