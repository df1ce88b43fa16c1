------------------------------ MODULE RdfFormat ------------------------------
(***************************************************************************)
(* What `sparqly format' does to the graph it prints (formatter.ts,         *)
(* detect-lists.ts, inline-blank-nodes.ts): lists become ( ... ), blank     *)
(* nodes used once become [ ... ], and everything else keeps its label.     *)
(*                                                                          *)
(* The text is modelled by the quads a parser reads back from it.  A node   *)
(* of the result is a sequence: <<term>> where the term or its label was    *)
(* printed, and the place in the text, a longer sequence, where an          *)
(* anonymous node was.  Order, prefixes and layout carry no meaning and are *)
(* left out.                                                                *)
(***************************************************************************)
EXTENDS Naturals, Sequences, FiniteSets, SequencesExt, TLC

CONSTANTS BNodes,   \* labels of blank nodes
          Graphs    \* the graphs of a document, in its order; may be blank nodes

First == "first"
Rest  == "rest"
Nil   == "nil"

Out(quads, graph, node)  == {q \in quads : q.g = graph /\ q.s = node}
Into(quads, graph, node) == {q \in quads : q.g = graph /\ q.o = node}

(***************************************************************************)
(* detectLists(): the chains, graph by graph, that can be written ( ... ).  *)
(***************************************************************************)
IsListLink(quads, graph, node) ==
    LET out == Out(quads, graph, node)
        with(p) == {q \in out : q.p = p}
    IN  /\ node \in BNodes /\ Cardinality(out) = 2
        /\ Cardinality(with(First)) = 1 /\ Cardinality(with(Rest)) = 1

GetFirst(quads, graph, cell) == (CHOOSE q \in Out(quads, graph, cell) : q.p = First).o
GetRest(quads, graph, cell)  == (CHOOSE q \in Out(quads, graph, cell) : q.p = Rest).o

(* No cell before it, and one reference from outside.                       *)
IsHead(quads, graph, node) ==
    LET internal == {q \in Into(quads, graph, node) :
                        q.p = Rest /\ IsListLink(quads, graph, q.s)}
    IN  /\ IsListLink(quads, graph, node)
        /\ internal = {}
        /\ Cardinality(Into(quads, graph, node) \ internal) = 1

(* The cells from `cell' to the end, or none where the chain goes astray.   *)
RECURSIVE Cells(_, _, _, _)
Cells(quads, graph, cell, before) ==
    IF \/ ~IsListLink(quads, graph, cell)
       \/ cell \in Range(before)
       \/ before # << >> /\ Cardinality(Into(quads, graph, cell)) # 1
    THEN << >>
    ELSE IF GetRest(quads, graph, cell) = Nil THEN Append(before, cell)
    ELSE Cells(quads, graph, GetRest(quads, graph, cell), Append(before, cell))

DetectListsInGraph(quads, graph, lists) ==
    LET heads == {b \in BNodes \ DOMAIN lists :
                     IsHead(quads, graph, b) /\ Cells(quads, graph, b, << >>) # << >>}
        found(b) == LET cells == Cells(quads, graph, b, << >>) IN
                    [graph |-> graph, cells |-> cells,
                     elements |-> [i \in DOMAIN cells |-> GetFirst(quads, graph, cells[i])]]
    IN  lists @@ [b \in heads |-> found(b)]

(* By the label of the head alone, whichever graph the list was found in.   *)
DetectLists(quads) ==
    FoldLeft(LAMBDA lists, graph : DetectListsInGraph(quads, graph, lists), << >>, Graphs)

Consumed(quads, lists) ==
    {q \in quads : \E h \in DOMAIN lists : q.g = lists[h].graph /\ q.s \in Range(lists[h].cells)}

(***************************************************************************)
(* inlineSingleUseBlankNodes(): the blank nodes to be written [ ... ].      *)
(***************************************************************************)
Appearances(lists, label) ==
    IF label \in DOMAIN lists THEN {}
    ELSE UNION {{<<h, i>> : i \in {j \in DOMAIN lists[h].elements : lists[h].elements[j] = label}} :
                   h \in DOMAIN lists}

(* Variant: a node that another graph describes is inlined, too.            *)
CandidatesOfAnyGraph(quads, lists) ==
    LET rest == quads \ Consumed(quads, lists) IN
    {b \in BNodes \ DOMAIN lists :
        /\ Cardinality({q \in rest : q.o = b}) + Cardinality(Appearances(lists, b)) = 1
        /\ b \notin {q.g : q \in rest}}

(* Referenced once, by a quad or by a list, in the graph that describes it. *)
Candidates(quads, lists) ==
    LET rest == quads \ Consumed(quads, lists)
        incoming(b) == {q \in rest : q.o = b}
        places(b) == {q.g : q \in {r \in rest : r.s = b}}
        used(b) ==
            IF Appearances(lists, b) = {} THEN {q.g : q \in incoming(b)}
            ELSE {lists[x[1]].graph : x \in Appearances(lists, b)}
    IN  {b \in BNodes :
            /\ Cardinality(incoming(b)) + Cardinality(Appearances(lists, b)) = 1
            /\ b \notin {q.g : q \in rest}
            /\ b \notin DOMAIN lists
            /\ places(b) \subseteq used(b)}

(* What the three passes make of a document.                                *)
Plan(quads) ==
    LET lists == DetectLists(quads)
        candidates == Candidates(quads, lists)
    IN  [lists |-> lists, candidates |-> candidates, rest |-> quads \ Consumed(quads, lists)]

(***************************************************************************)
(* The text, read back.  A blank node is encoded when its brackets are      *)
(* built; a list inside it is encoded with it, and that is before the       *)
(* brackets of its elements are put in their place: `early'.                *)
(***************************************************************************)
Read(s, p, o, g) == [s |-> s, p |-> p, o |-> o, g |-> g]

RECURSIVE Brackets(_, _, _, _), Parens(_, _, _, _, _)

(* buildInline() *)
Brackets(plan, label, at, graph) ==
    LET item(q) ==
            LET here == at \o <<q.p, q.o>> IN
            CASE q.o \in plan.candidates ->
                     {Read(at, q.p, here, graph)} \cup Brackets(plan, q.o, here, graph)
              [] q.o \in DOMAIN plan.lists ->
                     {Read(at, q.p, here, graph)} \cup Parens(plan, q.o, here, graph, TRUE)
              [] OTHER -> {Read(at, q.p, <<q.o>>, graph)}
    IN  UNION {item(q) : q \in {r \in plan.rest : r.s = label}}

(* The writer's list() over the elements as they are at that time.          *)
Parens(plan, head, at, graph, early) ==
    LET elements == plan.lists[head].elements
        cell(i) == IF i = 1 THEN at ELSE IF i > Len(elements) THEN <<Nil>>
                   ELSE at \o <<"cell", ToString(i)>>
        slot(i) == at \o <<"item", ToString(i)>>
        item(i) ==
            LET e == elements[i] IN
            CASE e \in DOMAIN plan.lists ->
                     {Read(cell(i), First, slot(i), graph)}
                     \cup Parens(plan, e, slot(i), graph, early)
              [] e \in plan.candidates /\ ~early ->
                     {Read(cell(i), First, slot(i), graph)} \cup Brackets(plan, e, slot(i), graph)
              [] OTHER -> {Read(cell(i), First, <<e>>, graph)}
    IN  UNION {item(i) \cup {Read(cell(i), Rest, cell(i + 1), graph)} : i \in DOMAIN elements}

(* One quad that is left to the writer.  A subject that heads a list is     *)
(* written as the list, too.                                                *)
Written(plan, q) ==
    LET sAt == <<q.g, q.s>>
        oAt == <<q.g, q.s, q.p, q.o>>
        listed == DOMAIN plan.lists
        subject == IF q.s \in listed THEN sAt ELSE <<q.s>>
        object == IF q.o \in listed \cup plan.candidates THEN oAt ELSE <<q.o>>
    IN  {Read(subject, q.p, object, q.g)}
        \cup (IF q.s \in listed THEN Parens(plan, q.s, sAt, q.g, FALSE) ELSE {})
        \cup (IF q.o \in listed THEN Parens(plan, q.o, oAt, q.g, FALSE) ELSE {})
        \cup (IF q.o \in plan.candidates THEN Brackets(plan, q.o, oAt, q.g) ELSE {})

FormatRdf(plan) == UNION {Written(plan, q) : q \in {r \in plan.rest : r.s \notin plan.candidates}}

-----------------------------------------------------------------------------
(* What the properties say.                                                 *)
Anonymous(node) == Len(node) > 1 \/ node[1] \in BNodes

(* Two documents are one graph, up to the names of their blank nodes.       *)
SameGraph(quads, read) ==
    LET of(S) == UNION {{q.s, q.o, <<q.g>>} : q \in S}
        given == {Read(<<q.s>>, q.p, <<q.o>>, q.g) : q \in quads}
        left == {n \in of(given) : Anonymous(n)}
        right == {n \in of(read) : Anonymous(n)}
        as(f, n) == IF n \in left THEN f[n] ELSE n
    IN  /\ Cardinality(given) = Cardinality(read)
        /\ Cardinality(left) = Cardinality(right)
        /\ \E f \in [left -> right] :
              {Read(as(f, q.s), q.p, as(f, q.o), as(f, <<q.g>>)[1]) : q \in given} = read

(* Inlined nodes and lists that contain one another in a circle: building   *)
(* the brackets does not end, or nothing refers to the circle from outside. *)
Knotted(plan) ==
    LET leads(a, b) ==
            \/ a \in DOMAIN plan.lists /\ b \in Range(plan.lists[a].elements)
            \/ a \in plan.candidates /\ \E q \in plan.rest : q.s = a /\ q.o = b
    IN  \E C \in SUBSET (DOMAIN plan.lists \cup plan.candidates) \ {{}} :
           \A a \in C : \E b \in C : leads(a, b)

(* A cell of a list that also occurs in another graph, or names one.        *)
Straddles(quads, plan) ==
    \E h \in DOMAIN plan.lists : \E c \in Range(plan.lists[h].cells) : \E q \in quads :
        q.g = c \/ (c \in {q.s, q.o} /\ q.g # plan.lists[h].graph)

(* A list is printed within brackets if the one reference to it is.         *)
RECURSIVE WithinBrackets(_, _)
WithinBrackets(plan, head) ==
    \/ \E q \in plan.rest : q.o = head /\ q.s \in plan.candidates
    \/ \E h \in DOMAIN plan.lists :
          head \in Range(plan.lists[h].elements) /\ WithinBrackets(plan, h)

(* Brackets in a list in brackets.                                          *)
Nested(plan) ==
    \E h \in DOMAIN plan.lists :
        /\ Range(plan.lists[h].elements) \cap plan.candidates # {}
        /\ WithinBrackets(plan, h)

(* Formatting keeps the graph, unless one of the three shapes is there.     *)
KeepsTheGraph(quads) ==
    LET plan == Plan(quads) IN
    ~Knotted(plan) /\ ~Straddles(quads, plan) /\ ~Nested(plan) =>
        SameGraph(quads, FormatRdf(plan))

(* Formatting keeps every document whose blank nodes are nested as a parser *)
(* nests brackets and lists: each used once, and none in two graphs.        *)
RoundTrips(quads) ==
    LET plan == Plan(quads)
        graphsOf(b) == {q.g : q \in {r \in quads : b \in {r.s, r.o}}}
    IN  /\ ~Knotted(plan)
        /\ \A b \in BNodes : /\ Cardinality(graphsOf(b)) <= 1 /\ b \notin {q.g : q \in quads}
                             /\ Cardinality({q \in quads : q.o = b}) <= 1
        => SameGraph(quads, FormatRdf(plan))
=============================================================================
