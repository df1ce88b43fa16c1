------------------------------ MODULE Describe ------------------------------
(***************************************************************************)
(* The description of a resource, from the store or the SPARQL endpoint    *)
(* that answers (libs/core/src/lib/describe, libs/server/src/lib/describe) *)
(* to the sections of the describe page (apps/web/src/app/pages/describe). *)
(*                                                                         *)
(* A quad has fields s, p, o, g; an RDF-star annotation has s = "quoted"   *)
(* and the quad it is about in `of', which is empty for other quads.       *)
(* Literals that differ in their language only share their LexicalForm.    *)
(* A store is a sequence: the order in which match() finds its quads.      *)
(***************************************************************************)
EXTENDS Naturals, SequencesExt, FiniteSetsExt

CONSTANTS
    BNodes,       \* blank nodes
    LexicalForm,  \* literal -> its text without language and datatype
    IdChars,      \* characters a blank node label may have, "_" among them
    MaxSteps,     \* longest path that is walked
    HardLimit     \* most quads of a description

Default == "default graph"
Seed == "seed"
Nil == "nil"

Terms(q) == {q.s, q.o}
Blank(q) == Terms(q) \cap BNodes
Plain(q) == q.of = {}

(* The text quads are compared by.                                         *)
Lexical(t) == IF t \in DOMAIN LexicalForm THEN LexicalForm[t] ELSE t
quadKey(q) ==
    [q EXCEPT !.o = Lexical(@), !.of = {[i EXCEPT !.o = Lexical(@)] : i \in @}]
Keys(quads) == {quadKey(q) : q \in quads}

-----------------------------------------------------------------------------
(* describeStore().  The work in progress: the quads collected, the blank  *)
(* nodes still to visit, and whether the annotations' loop has ended.      *)
Nothing_ == [quads |-> << >>, truncated |-> FALSE, frontier |-> << >>, visited |-> {},
             ended |-> FALSE]
Has(work, q) == quadKey(q) \in Keys(ToSet(work.quads))

add(limit, work, q) ==
    CASE Len(work.quads) >= limit -> [work EXCEPT !.truncated = TRUE]
      [] Len(work.quads) < limit /\ Has(work, q) -> work
      [] OTHER -> [work EXCEPT !.quads = Append(@, q)]
AddAll(limit, work, quads) == FoldLeft(LAMBDA w, q : add(limit, w, q), work, quads)

EnqueueObject(work, q) ==
    IF q.o \in BNodes \ work.visited THEN [work EXCEPT !.frontier = Append(@, q.o)] ELSE work
enqueueBnodes(work, q) ==
    LET new(t) == IF t \in BNodes \ work.visited THEN <<t>> ELSE << >>
    IN  [work EXCEPT !.frontier = @ \o new(q.s) \o new(q.o)]

(* The quads about a blank node that are not collected yet.                *)
Pull(limit, work, quads) ==
    FoldLeft(LAMBDA w, q : IF Has(w, q) THEN w
                           ELSE IF Len(w.quads) >= limit THEN add(limit, w, q)
                           ELSE enqueueBnodes(add(limit, w, q), q), work, quads)

RECURSIVE Chase(_, _, _)
Chase(store, limit, work) ==
    IF work.frontier = << >> THEN work
    ELSE IF Len(work.quads) >= limit THEN [work EXCEPT !.truncated = TRUE]
    ELSE LET b == Head(work.frontier)
             rest == [work EXCEPT !.frontier = Tail(@), !.visited = @ \cup {b}]
             out == SelectSeq(store, LAMBDA q : q.s = b)
             in == SelectSeq(store, LAMBDA q : q.o = b)
         IN  Chase(store, limit,
                   IF b \in work.visited THEN rest
                   ELSE Pull(limit, Pull(limit, rest, out), in))

(* The annotations of collected quads, up to the first that add() refuses. *)
AddAnnotations(store, limit, work) ==
    LET inResult == Keys(ToSet(work.quads))
        wanted == SelectSeq(store, LAMBDA q : ~Plain(q) /\ Keys(q.of) \subseteq inResult)
        step(w, q) ==
            LET after == add(limit, w, q)
            IN  IF w.ended THEN w ELSE [after EXCEPT !.ended = after.quads = w.quads]
    IN  FoldLeft(step, work, wanted)

Queued(direct) == FoldLeft(enqueueBnodes, direct, direct.quads)
Result(work) == [quads |-> ToSet(work.quads), truncated |-> work.truncated]

describeStore(store, limit) ==
    LET out == SelectSeq(store, LAMBDA q : q.s = Seed)
        in == SelectSeq(store, LAMBDA q : q.o = Seed)
        direct == AddAll(limit, AddAll(limit, Nothing_, out), in)
    IN  Result(AddAnnotations(store, limit, Chase(store, limit, Queued(direct))))

-----------------------------------------------------------------------------
(* describeEndpointResult().  An endpoint holds a store; its default graph *)
(* may be the union of all its graphs; `down' names the kinds of query it  *)
(* fails to answer.  A path is a sequence of [p, inverse].                 *)
View(e) ==
    ToSet(e.store) \cup (IF e.union THEN {[q EXCEPT !.g = Default] : q \in ToSet(e.store)} ELSE {})

(* buildPathExpansionQuery(): the hops look in the default graph only.     *)
Hop(e, nodes, step) ==
    LET edges == {q \in View(e) : q.g = Default /\ q.p = step.p}
    IN  IF step.inverse THEN {q.s : q \in {x \in edges : x.o \in nodes}} \cap BNodes
        ELSE {q.o : q \in {x \in edges : x.s \in nodes}} \cap BNodes
Terminals(e, path) == FoldLeft(LAMBDA nodes, step : Hop(e, nodes, step), {Seed}, path)
OutgoingOnly(e, path) == {q \in View(e) : q.s \in Terminals(e, path)}
Expansion(e, path) == {q \in View(e) : Terms(q) \cap Terminals(e, path) # {}}

preferNamedGraphs(quads) ==
    LET Triple(q) == [quadKey(q) EXCEPT !.g = Default]
        inNamed == {Triple(q) : q \in {x \in quads : x.g # Default}}
    IN  {q \in quads : ~(q.g = Default /\ Triple(q) \in inNamed)}

(* The annotations come from a CONSTRUCT, and so lose their graph.         *)
fetchAnnotations(e, quads) ==
    LET asked == {[q EXCEPT !.g = Default] :
                      q \in {x \in quads : Plain(x) /\ x.s \notin BNodes /\ x.o \notin BNodes}}
        about(a) == {[i EXCEPT !.g = Default] : i \in a.of}
    IN  IF "annotations" \in e.down THEN {}
        ELSE {[a EXCEPT !.g = Default, !.of = about(a)] :
                 a \in {x \in View(e) : ~Plain(x) /\ x.g = Default /\ about(x) \subseteq asked}}

WithAnnotations(limit, desc, stars) ==
    IF stars = {} THEN desc
    ELSE describeStore(SetToSeq(desc.quads) \o SetToSeq(stars \ desc.quads), limit)
Annotated(e, limit, desc) == WithAnnotations(limit, desc, fetchAnnotations(e, desc.quads))

EndpointAnswer(e, paths, final) ==
    IF {"out", "in"} \subseteq e.down THEN [failed |-> TRUE, quads |-> {}, truncated |-> TRUE]
    ELSE [failed |-> FALSE, quads |-> final.quads,
          truncated |-> \/ final.truncated
                        \/ {"out", "in"} \cap e.down # {}
                        \/ paths # {} /\ "paths" \in e.down
                        \/ \E q \in final.quads : Blank(q) # {}]

describeEndpoint(e, limit, paths) ==
    LET direct == {q \in View(e) : \/ "out" \notin e.down /\ q.s = Seed
                                   \/ "in" \notin e.down /\ q.o = Seed}
        expanded == IF "paths" \in e.down THEN {} ELSE UNION {Expansion(e, path) : path \in paths}
        desc == describeStore(SetToSeq(preferNamedGraphs(direct \cup expanded)), limit)
    IN  EndpointAnswer(e, paths, Annotated(e, limit, desc))

-----------------------------------------------------------------------------
(* DescribeService.runDescribe() on the source that a request resolves to. *)
(* A request may name the source and carry paths to expand.                *)
Refused(kind) == [failed |-> TRUE, quads |-> {}, truncated |-> TRUE, error |-> kind]
Answered(d) == [failed |-> FALSE, quads |-> d.quads, truncated |-> d.truncated, error |-> "none"]
Clamped(path) == SubSeq(path, 1, Min({Len(path), MaxSteps}))

Remote(d, paths) ==
    IF d.failed THEN Refused("endpoint-describe")
    ELSE Answered([d EXCEPT !.truncated = @ \/ \E path \in paths : Len(path) > MaxSteps])

describeOneResult(source, limit, paths) ==
    LET clamped == {Clamped(path) : path \in paths}
    IN  CASE source.kind = "endpoint" -> Remote(describeEndpoint(source, limit, clamped), paths)
          [] source.kind = "empty" -> Refused("empty-source")
          [] source.kind = "reference" -> Refused("reference-source")
          [] source.kind = "disk-backed" -> Refused("disk-backed-source")
          [] source.kind = "heap" -> Answered(describeStore(source.store, limit))

runDescribe(source, req) ==
    CASE req.paths # {} /\ ~req.named -> Refused("expanded-paths-without-source")
      [] req.paths # {} /\ req.named /\ source.kind # "endpoint" ->
            Refused("expanded-paths-non-endpoint-source")
      [] OTHER -> describeOneResult(source, Min({req.limit, HardLimit}), req.paths)

-----------------------------------------------------------------------------
(* The page: which dangling blank nodes it can expand, and by which path.  *)
(* The label of a node starts with the id of its source.                   *)
Relabelled(id) == [i \in DOMAIN id |-> IF id[i] \in IdChars THEN id[i] ELSE "_"] \o <<"_", "_">>
recoverSourceId(id) ==
    LET label == Relabelled(id)
        at == Min({i \in 1..(Len(label) - 1) : label[i] = "_" /\ label[i + 1] = "_"})
    IN  SubSeq(label, 1, at - 1)

isExpandableBnode(quads, b, id, endpointIds) ==
    /\ recoverSourceId(id) # << >> /\ recoverSourceId(id) \in endpointIds
    /\ \A q \in quads : q.s # b
    /\ \E q \in quads : q.o = b

Steps(quads, node) ==
    {[to |-> q.o, step |-> [p |-> q.p, inverse |-> FALSE]] :
        q \in {x \in quads : x.s = node /\ x.o \in BNodes}}
    \cup {[to |-> q.s, step |-> [p |-> q.p, inverse |-> TRUE]] :
        q \in {x \in quads : x.o = node /\ x.s \in BNodes}}

(* Breadth first; a shortest path, or none.                                *)
NoPath == << >>
RECURSIVE Search(_, _, _, _)
Search(quads, target, seen, frontier) ==
    LET reached == UNION {{[at |-> st.to, path |-> Append(n.path, st.step)] :
                               st \in Steps(quads, n.at)} : n \in frontier}
        hits == {n \in reached : n.at = target}
        new == {n.at : n \in reached} \ seen
    IN  CASE frontier = {} -> NoPath
          [] frontier # {} /\ hits # {} -> (CHOOSE n \in hits : TRUE).path
          [] OTHER -> Search(quads, target, seen \cup new,
                             {CHOOSE n \in reached : n.at = b : b \in new})
describeBnodePath(quads, b) == Search(quads, b, {Seed}, {[at |-> Seed, path |-> << >>]})

computeExpand(quads, b, id) ==
    LET path == describeBnodePath(quads, b)
    IN  IF isExpandableBnode(quads, b, id, {id}) /\ Len(path) <= MaxSteps THEN path ELSE NoPath

-----------------------------------------------------------------------------
(* buildDescribeSections(): which statements about blank nodes a section   *)
(* shows.  `emitted' are the nodes whose block has been written, `trying'  *)
(* the list cells whose first item is being built.                         *)
Out(quads, b) == SelectSeq(quads, LAMBDA q : q.s = b)
Fresh_ == [emitted |-> {}, shown |-> << >>, trying |-> {}, overflow |-> FALSE]

isListLink(quads, b) ==
    LET out == Out(quads, b)
    IN  Len(out) = 2 /\ {out[1].p, out[2].p} = {"first", "rest"}
ValueOf(quads, cell, p) == (CHOOSE q \in ToSet(Out(quads, cell)) : q.p = p).o

RECURSIVE buildNestedForBnode(_, _, _), buildAnnotations(_, _, _), tryBuildListBlock(_, _, _, _)
Member(quads, q, term, page) ==
    buildAnnotations(quads, q,
        IF term \in BNodes THEN buildNestedForBnode(quads, term, page) ELSE page)

buildAnnotations(quads, q, page) ==
    FoldLeft(LAMBDA x, a : [Member(quads, a, a.o, x) EXCEPT !.shown = Append(@, a)], page,
             SelectSeq(quads, LAMBDA a : ~Plain(a) /\ Keys(a.of) = {quadKey(q)}))

buildBnodeBlock(quads, b, page) ==
    IF b \in page.emitted THEN page
    ELSE FoldLeft(LAMBDA x, q : [Member(quads, q, q.o, x) EXCEPT !.shown = Append(@, q)],
                  [page EXCEPT !.emitted = @ \cup {b}], Out(quads, b))

(* A chain that turns out to be no list keeps the cells it has emitted.    *)
tryBuildListBlock(quads, cell, visited, page) ==
    LET first == ValueOf(quads, cell, "first")
        rest == ValueOf(quads, cell, "rest")
        open == [page EXCEPT !.trying = @ \cup {cell}]
        item == IF first \in BNodes THEN buildNestedForBnode(quads, first, open) ELSE open
        after == [item EXCEPT !.emitted = @ \cup {cell}, !.trying = page.trying,
                              !.shown = @ \o Out(quads, cell)]
    IN  IF cell \in visited \/ ~isListLink(quads, cell) THEN [ok |-> FALSE, page |-> page]
        ELSE IF cell \in page.trying THEN [ok |-> FALSE, page |-> [page EXCEPT !.overflow = TRUE]]
        ELSE IF rest \in BNodes /\ ~item.overflow
             THEN tryBuildListBlock(quads, rest, visited \cup {cell}, after)
             ELSE [ok |-> rest = Nil, page |-> after]

buildNestedForBnode(quads, b, page) ==
    LET list == tryBuildListBlock(quads, b, {}, page)
        back == [list.page EXCEPT !.shown = page.shown]
    IN  IF b \in page.emitted THEN buildBnodeBlock(quads, b, page)
        ELSE IF list.ok THEN list.page
        ELSE buildBnodeBlock(quads, b, back)

(* The members of a section and what is nested in them.                    *)
Selected(quads, direction) ==
    SelectSeq(quads, LAMBDA q : IF direction = "outbound" THEN q.s = Seed
                                ELSE q.s # Seed /\ q.o = Seed)
buildSection(quads, direction) ==
    FoldLeft(LAMBDA x, q : Member(quads, q, IF direction = "outbound" THEN q.o ELSE q.s, x),
             Fresh_, Selected(quads, direction))

-----------------------------------------------------------------------------
(* What is to be described: the least set of quads that has all those of   *)
(* the seed and, with a blank node, all those of the node; and the         *)
(* annotations of its quads.                                               *)
Whole(store) ==
    LET all == ToSet(store)
        Closed(X) == \A q \in all :
            (Seed \in Terms(q) \/ \E x \in X : Blank(q) \cap Blank(x) # {}) => q \in X
        closed == {X \in SUBSET all : Closed(X)}
    IN  CHOOSE X \in closed : \A Y \in closed : X \subseteq Y
Description(store) ==
    Whole(store) \cup {a \in ToSet(store) : ~Plain(a) /\ a.of \subseteq Whole(store)}

(* A description that is not flagged as truncated has every quad, up to    *)
(* language and datatype; none has a quad too many.                        *)
Asking(limit, paths) == [named |-> TRUE, limit |-> limit, paths |-> paths]
OfStore(d, store, limit) ==
    /\ Keys(d.quads) \subseteq Keys(Description(store)) /\ Cardinality(d.quads) <= limit
    /\ ~d.truncated => Keys(Whole(store)) \subseteq Keys(d.quads)
HonestOfStore(source, limit) ==
    OfStore(runDescribe(source, Asking(limit, {})), source.store, limit)

(* An unflagged description by an endpoint has every quad of the seed.     *)
TellsAllAbout(d, e, t) ==
    Keys(preferNamedGraphs({q \in View(e) : t \in Terms(q)})) \subseteq Keys(d.quads)
OfEndpoint(d, e) == ~d.truncated => TellsAllAbout(d, e, Seed)
HonestOfEndpoint(e, limit) == OfEndpoint(runDescribe(e, Asking(limit, {})), e)

(* Where the hops can be seen, the path of a node that the page offers to  *)
(* expand leads back to it: the next description has all that the endpoint *)
(* knows about the node.  Checked for two expansions in a row.             *)
HopsVisible(e) == e.union \/ \A q \in ToSet(e.store) : q.g = Default
Leads(e, paths, path, b) ==
    path # NoPath =>
        TellsAllAbout(runDescribe(e, Asking(HardLimit, paths \cup {path})), e, b)
ExpansionAnswers(e, paths, id, d) ==
    \A b \in BNodes : Leads(e, paths, computeExpand(d.quads, b, id), b)
Offered(d, id) == {computeExpand(d.quads, b, id) : b \in BNodes} \ {NoPath}
ExpandingReveals(e, id) ==
    LET ask(paths) == runDescribe(e, Asking(HardLimit, paths))
    IN  HopsVisible(e) /\ e.down \cap {"out", "in", "paths"} = {} =>
           \A paths \in {{}} \cup {{path} : path \in Offered(ask({}), id)} :
               ExpansionAnswers(e, paths, id, ask(paths))

(* Every statement about a blank node that a section leads to is in it,    *)
(* once; for graphs whose list cells are the cells of lists of their own.  *)
LedTo(quads, direction) ==
    LET members == {IF direction = "outbound" THEN q.o ELSE q.s :
                        q \in ToSet(Selected(quads, direction))} \cap BNodes
        Closed(X) == members \subseteq X /\ \A b \in X : \A q \in ToSet(Out(quads, b)) :
                                                q.o \in BNodes => q.o \in X
        closed == {X \in SUBSET BNodes : Closed(X)}
    IN  CHOOSE X \in closed : \A Y \in closed : X \subseteq Y
Lists(quads) ==
    \A cell \in {b \in BNodes : isListLink(quads, b)} :
        /\ Cardinality({q \in ToSet(quads) : cell \in Terms(q) /\ q.s # cell}) <= 1
        /\ tryBuildListBlock(quads, cell, {}, Fresh_).ok
SectionTellsAll(quads, direction) ==
    LET page == buildSection(quads, direction)
        due == UNION {ToSet(Out(quads, b)) : b \in LedTo(quads, direction)}
    IN  /\ ~page.overflow
        /\ due \subseteq ToSet(page.shown)
        /\ \A q \in due : Cardinality({i \in DOMAIN page.shown : page.shown[i] = q}) = 1
SectionsTellAll(quads) ==
    Lists(quads) => \A direction \in {"outbound", "inbound"} : SectionTellsAll(quads, direction)
=============================================================================
