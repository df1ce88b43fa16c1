---------------------------- MODULE MC_Services ----------------------------
(* The parts of the program that neither share state nor call one another,  *)
(* each on a small instance of its own, checked in one run: an initial      *)
(* state picks the part, and the part alone moves.  The pure functions are  *)
(* parts too: `probe' picks an argument in two steps, and the properties    *)
(* are stated of every argument reached.                                    *)
EXTENDS QueryCache, SavedQueries, SourcesPicker, PageRequests, HeapEntry, PureParts, TLC

Off == "off"

-----------------------------------------------------------------------------
(* The instances. *)
MCTokenKind == [s \in Sources |-> IF s = "pin" THEN "sha" ELSE "stat"]
MCTtl == [s \in Sources |-> IF s = "pin" THEN 1 ELSE 0]
MCCap == [s \in Sources |-> IF s = "pin" THEN NoCap ELSE 1]

(* A server, and a shell with an older version of sparqly. *)
MCProcessOf == [r \in Requests |-> IF r = "r1" THEN "serve" ELSE "shell"]
MCVersion == [p \in Processes |-> IF p = "serve" THEN "new" ELSE "old"]

(* One source that may not be compared without a query. *)
MCUnscoped == {<<"b", "">>}

(* The picker's history: commit 1 merges 2 and 3, whose common parent is 4. *)
MCCommits == 1..4
MCParents == <<{2, 3}, {4}, {4}, {}>>
MCHeads == [id \in Ids |-> ("HEAD" :> {1} @@ "side" :> {3})]
MCTouching == [id \in Ids |-> Commits]

(* Graphs up to the names of their blank nodes, some with an annotation. *)
Rdf == INSTANCE RdfDiff WITH
    Labels <- <<"b0", "b1">>, Iris <- {"x"}, Predicates <- {"p", "q", "note"},
    AnnotationPredicates <- {"note"}
SmallGraphs ==
    {g \in UNION {kSubset(n, {st \in Rdf!Statements : st.p # "note"}) : n \in 0..2} :
        Rdf!Canonical(g) = g}
Noted == [s |-> "b1", p |-> "note", o |-> "x"]

(* Lists of one and two cells, a second way into a cell, and a cycle. *)
Hunks == INSTANCE EntityHunks WITH
    BNodeOrder <- <<"b0", "b1">>, Named <- {"s", "x", "nil"}
St(s, p, o) == [s |-> s, p |-> p, o |-> o]
ListStatements ==
    {St("s", "p", "b0"), St("s", "q", "b0"), St("b0", "first", "x"), St("b0", "rest", "nil"),
     St("b0", "rest", "b1"), St("b1", "first", "x"), St("b1", "rest", "nil"),
     St("b1", "p", "b0"), St("x", "p", "b1")}
ListStores == UNION {kSubset(n, ListStatements) : n \in 0..3}

(* A working directory and two commits, one with a file that does not       *)
(* parse, in one repository.                                                *)
PathA == <<"r", "d", "a">>
PathB == <<"r", "d", "b">>
PathC == <<"r", "d", "n", "c">>
Quad(t, g) == [t |-> <<t>>, g |-> g]
Here == <<"default graph">>
MCTrees ==
    "working" :> (PathA :> {Quad("t1", Here)} @@ PathB :> {Quad("t2", <<"g">>)})
    @@ "s1" :> (PathA :> {Quad("t3", Here)} @@ PathC :> {Quad("t1", <<"g">>)})
    @@ "s2" :> (PathA :> {Quad("t4", Here)} @@ PathB :> {Quad("t1", Here), Quad("t4", <<"g">>)})
MCMalformed == {<<"s2", PathA>>}
MCShaOf == "v1" :> "s1" @@ "v2" :> "s2" @@ "gone" :> "none"
MCGitDirs == {<<"r">>}

Naming(mode, graph) == Targets!Entry("graphName", mode, graph)
Annotating == Targets!Entry("annotateSource", "preserve", << >>)
TransformLists ==
    {<< >>, <<Naming("preserve", << >>)>>, <<Naming("flatten", << >>)>>,
     <<Naming("forceAll", << >>)>>, <<Naming("fillDefault", <<"h">>)>>, <<Annotating>>,
     <<Naming("fillDefault", <<"h">>), Annotating>>, <<Annotating, Naming("flatten", << >>)>>}
GlobSpec(list, split, tier, ref, root) ==
    [text |-> Targets!Absent, of |-> << >>, forms |-> {"glob"}, id |-> <<"m">>, bad |-> {},
     files |-> {PathA, PathB, PathC}, prefix |-> <<"r", "d">>, transforms |-> list,
     union |-> Targets!Absent, storage |-> tier, ref |-> ref, root |-> root,
     cache |-> Targets!Absent, headers |-> Targets!Absent,
     given |-> (IF list = << >> THEN {} ELSE {"transforms"})
               \cup (IF split THEN {"splitByFile"} ELSE {})
               \cup (IF tier = "disk" THEN {"storage"} ELSE {})
               \cup (IF ref = "none" THEN {} ELSE {"gitRef"})
               \cup (IF root = << >> THEN {} ELSE {"gitRoot"})]
GlobSpecs ==
    {GlobSpec(list, split, tier, ref, root) :
        list \in TransformLists, split \in BOOLEAN, tier \in {Targets!Absent, "disk"},
        ref \in {"none", "v1", "gone"}, root \in {<< >>, <<"r">>, <<"x">>}}
Addresses ==
    [id : {<<"m">>, <<"m", "a">>, <<"m", "b">>, <<"m", "n", "c">>},
     ref : {"none", "v1", "v2", "gone", ""}]
Declarable(spec) == "rejected" \notin {source.kind : source \in Targets!Registry(spec)}

(* Two variables, and terms that print alike; sides of several rows have    *)
(* the same query.                                                          *)
Term(kind, tag) == [kind |-> kind, value |-> "v", tag |-> tag]
TableRows ==
    [{"a", "b"} -> {Term("iri", ""), Term("literal", "en"), Term("blank", ""), Tables!Unbound}]
Column(name, alias) == [name |-> name, alias |-> alias]
TableQueries ==
    {Tables!NoQuery, [type |-> "construct", columns |-> << >>],
     [type |-> "ask", columns |-> << >>],
     [type |-> "select", columns |-> Tables!Star],
     [type |-> "select", columns |-> <<Column("a", FALSE)>>],
     [type |-> "select", columns |-> <<Column("b", TRUE), Column("a", FALSE)>>],
     [type |-> "select", columns |-> <<Column("a", FALSE), Column("b", FALSE)>>],
     [type |-> "select", columns |-> <<Column("s", TRUE), Column("p", FALSE), Column("o", FALSE)>>]}
ShortTables == {<< >>} \cup [1..1 -> TableRows] \cup [1..2 -> TableRows]
TableSides ==
    {x \in TableQueries \X ShortTables :
        x[2] = << >> \/ (Tables!HasShape(x[1]) /\ Tables!Shape(x[1]) = "tuples")}

(* A seed with lists, annotations, labels in two languages, and blank nodes *)
(* that lead back to it; stores that reach their limit, endpoints that fail.*)
Page == INSTANCE Describe WITH
    BNodes <- {"b0", "b1"}, LexicalForm <- ("y@en" :> "y" @@ "y@fr" :> "y"),
    IdChars <- {"a", "_"}, MaxSteps <- 2, HardLimit <- 9
Q(s, p, o, g) == [s |-> s, p |-> p, o |-> o, g |-> g, of |-> {}]
Known == Q(Page!Seed, "p", "x", Page!Default)
About(q, o) == [s |-> "quoted", p |-> "note", o |-> o, g |-> q.g, of |-> {q}]
DescribedQuads ==
    {Known, About(Known, "y@en"), About(Known, "b0"), Q(Page!Seed, "p", "b0", Page!Default),
     Q(Page!Seed, "p", "b0", "g"), Q(Page!Seed, "l", "y@en", Page!Default),
     Q(Page!Seed, "l", "y@fr", Page!Default), Q("b0", "q", "b1", Page!Default),
     Q("b1", "q", Page!Seed, Page!Default), Q("b1", "p", "x", "g"),
     Q("b0", "first", "b1", Page!Default), Q("b0", "rest", Page!Nil, Page!Default),
     Q("b0", "rest", "b1", Page!Default), Q("b1", "first", "x", Page!Default),
     Q("b1", "rest", Page!Nil, Page!Default)}
DescribedStores == UNION {kSubset(n, DescribedQuads) : n \in 0..4}
Endpoints ==
    [limit : {1, 2, 9}, union : BOOLEAN, down : {{}, {"annotations"}, {"out"}, {"out", "in"}, {"paths"}}]

(* A source, or a split glob with up to two children, of either tier, and   *)
(* what one of the children becomes.                                        *)
InMemoryEntries ==
    {[Facts("in-memory", FALSE, hasFailed, FALSE, "none", "fresh", 0, 0) EXCEPT !.loading = l] :
        hasFailed, l \in BOOLEAN}
    \cup {Facts("in-memory", FALSE, hasFailed, TRUE, "none", "fresh", at, 2) :
            hasFailed \in BOOLEAN, at \in {1, 2}}
    \cup {Facts("in-memory", FALSE, FALSE, TRUE, "none", "fresh", 1, 0)}
DiskBackedEntries ==
    {Facts("disk-backed", building, hasFailed, FALSE, manifest, "stale", 0, 0) :
        building, hasFailed \in BOOLEAN, manifest \in {"none", "readable"}}
    \cup {Facts("disk-backed", FALSE, FALSE, FALSE, "torn", "fresh", 0, 0),
          Facts("disk-backed", FALSE, FALSE, TRUE, "readable", "fresh", 1, 0),
          Facts("disk-backed", FALSE, FALSE, FALSE, "readable", "unreadable", 0, 0)}
Families(entries) ==
    [id : {"g"}, top : entries, children : UNION {[1..n -> entries] : n \in 0..2}]

(* A hunk that changed a pinned file, also a blob that is gone, and on the  *)
(* other side the working tree, which is shorter and of which the loader    *)
(* did not open everything.                                                 *)
Snippet == INSTANCE Snippets WITH
    Content <- [at \in {"s1", "none"} \X (1..3) |->
                   [n \in 1..(IF at[1] = "s1" THEN 6 ELSE 4) |-> <<at[1], at[2], n>>]],
    Missing <- {<<"s1", 3>>}, Opened <- {1, 3}
Record(sha, of, line, endLine, predicate) ==
    [file |-> of, line |-> line, endLine |-> endLine, sha |-> sha, predicate |-> predicate]
PinnedRecords ==
    {Record("s1", 1, 1, 0, 1), Record("s1", 1, 3, 4, 1), Record("s1", 1, 4, 0, 1),
     Record("s1", 1, 6, 0, 1), Record("s1", 3, 2, 0, 1)}
WorkingRecords ==
    {Record("none", 1, 0, 0, 1), Record("none", 1, 2, 0, 1), Record("none", 1, 1, 3, 2),
     Record("none", 1, 5, 0, 1), Record("none", 2, 1, 0, 2), Record("none", 3, 1, 0, 2)}
ShortLists(S, n) == UNION {[1..k -> S] : k \in 0..n}
HunkOf(pinned, right) ==
    LET site == IF right.changed \/ right.records = << >> THEN << >>
                ELSE Snippet!anchorDefinitionSite(right.records, {1})
    IN  [changed |-> <<pinned, IF right.changed THEN right.records ELSE << >>>>,
         site |-> <<<< >>, site>>]

(* Declarations as the editor leaves them, one with a datatype that only a   *)
(* file can declare; addresses with one key, a repeated one, a foreign one; *)
(* what is entered, the first time perhaps under another query's parameter. *)
Template == INSTANCE Templates WITH
    Names <- {"c", "d"},
    ParseInt <- [t \in {"", "1", "1.5", "x"} |->
                    IF t \in {"1", "1.5"} THEN "1" ELSE "NaN"],
    ParseFloat <- [t \in {"", "1", "1.5", "x"} |-> IF t \in {"1", "1.5"} THEN t ELSE "NaN"]
Edited(acts) ==
    FoldLeft(LAMBDA ps, act : Template!UpdateAt(ps, 1, act),
             Template!OnAdd(<< >>), acts)
Act(op, text) == [op |-> op, text |-> text]
FirstParameters ==
    {Edited(<<Act("name", "c"), Act("type", type), Act("cardinality", cardinality),
              Act("default", default), Act("enum", enum)>>)[1] :
        type \in Template!Types \ {"date", "dateTime", "iri", "literal"},
        cardinality \in Template!Cardinalities, default \in {"", "1"}, enum \in {"", "1.5"}}
    \cup {[Template!NewParameter EXCEPT !.name = "c", !.type = "literal", !.datatype = "dt",
                                        !.cardinality = "0..n"]}
OtherParameters ==
    {<< >>} \cup {<<[Template!NewParameter EXCEPT !.name = "d", !.type = x[1], !.cardinality = x[2]]>> :
                     x \in {"iri", "integer"} \X {"0..n", "1..1"}}
Openings ==
    {Template!Nowhere, [Template!Nowhere EXCEPT !["c"] = Template!One(Template!Text("x"))],
     [Template!Nowhere EXCEPT !["c"] = Template!Many(<<Template!Text("1"), Template!Text("x")>>),
                              !["d"] = Template!One(Template!Text("x"))]}
Acts == [op : {"add"}, text : {"", "1", "1.5", "x"}, on : {"c", "d"}]
        \cup [op : {"remove"}, text : {"x"}, on : {"c", "d"}]
EarlierQuery == [Template!NewParameter EXCEPT !.name = "c", !.cardinality = "0..n"]
EnteredForm(params, initial, typed) ==
    LET declared(ps, name) == SelectSeq(ps, LAMBDA p : p.name = name)
        step(ps, overrides, act) ==
            IF declared(ps, act.on) = << >> THEN overrides
            ELSE Template!Entered(declared(ps, act.on)[1], initial, overrides, act)
        before == IF typed.earlier = << >> THEN Template!Nowhere
                  ELSE step(<<EarlierQuery>>, Template!Nowhere, typed.earlier[1])
    IN  FoldLeft(LAMBDA overrides, act : step(params, overrides, act), before, typed.acts)
Body(named, projection) == [vars |-> named, projection |-> projection, star |-> projection = named]
QueryBodies == {Body({"c", "d"}, {"d"}), Body({"c", "v"}, {"v"}), Body({"c", "d", "v"}, {"c", "d", "v"})}

(* Brackets in lists and lists in brackets, shared, circular and broken     *)
(* ones, and a blank node that is also a graph.                             *)
Formatter == INSTANCE RdfFormat WITH
    BNodes <- {"b0", "b1", "b2"}, Graphs <- <<"default", "g", "b0">>
FQ(s, p, o, g) == [s |-> s, p |-> p, o |-> o, g |-> g]
FormatterTrees ==
    {FQ("s", "p", "b0", "default"), FQ("b0", "q", "b1", "default"), FQ("b0", "q", "x", "default"),
     FQ("b0", "first", "b2", "default"), FQ("b0", "first", "x", "default"),
     FQ("b0", "rest", "nil", "default"), FQ("b0", "rest", "b1", "default")}
FormatterTails ==
    {FQ("b1", "first", "b2", "default"), FQ("b1", "first", "x", "default"),
     FQ("b1", "rest", "nil", "default"), FQ("b2", "r", "x", "default"),
     FQ("b2", "r", "b0", "default"), FQ("s", "p", "b1", "g"), FQ("b1", "q", "x", "g"),
     FQ("b2", "r", "x", "b0")}

(* A flag, an environment and two directories that may each name a config; *)
(* calls with one thing wrong besides their sides or files; files that an   *)
(* editor saves while they are read.                                       *)
Directories == [configs : SUBSET {"a", "b"}, git : BOOLEAN] \X [configs : SUBSET {"c"}, git : BOOLEAN]
ConfigCalls ==
    [flag : {"a", "none", "--no-config"}, env : {"b", "none", ""}, dirs : Directories]
FlagsOf(command) ==
    CASE command = "hash"   -> SUBSET {"compare-with", "out", "query", "query-file"}
      [] command = "diff"   -> SUBSET {"out", "query", "query-file"}
      [] command = "query"  -> SUBSET {"query", "query-file", "stdin", "out"}
      [] command = "format" -> SUBSET {"check", "write", "out"}
Untroubled(command, flags) ==
    [command |-> command, flags |-> flags, positionals |-> "fine", config |-> "fine",
     registry |-> "none", queryFile |-> "fine", out |-> "fine", shapes |-> "none"]
Calls ==
    UNION {LET call == Untroubled(command, flags)
           IN  {call, [call EXCEPT !.positionals = "too many"], [call EXCEPT !.config = "refused"],
                [call EXCEPT !.registry = "plain"], [call EXCEPT !.queryFile = "unreadable"],
                [call EXCEPT !.out = "breaks"], [call EXCEPT !.shapes = "mixed-shape"]} :
           <<command, flags>> \in UNION {{c} \X FlagsOf(c) : c \in {"hash", "diff", "query", "format"}}}
SideOf(target, at, loading, graph) ==
    [target |-> target, at |-> at, load |-> loading, graph |-> graph]
CallSides ==
    {SideOf("none", "none", "none", "g1"), SideOf("none", "none", "none", "g2"),
     SideOf("unknown-ref", "none", "none", "g1"), SideOf("none", "plain", "none", "g1"),
     SideOf("none", "none", "glob-load", "g1"), SideOf("none", "none", "plain", "g1")}
TextOf(graph, tidy, broken) == [graph |-> graph, tidy |-> tidy, broken |-> broken]
Tidy == TextOf("g1", TRUE, FALSE)
Untidy == TextOf("g1", FALSE, FALSE)
Other == TextOf("g2", FALSE, FALSE)
Broken == TextOf("g2", FALSE, TRUE)
FileOf(first, again, read) == [first |-> first, again |-> again, read |-> read]
CallFiles ==
    {FileOf(Tidy, Tidy, Tidy), FileOf(Untidy, Untidy, Untidy), FileOf(Tidy, Tidy, Other),
     FileOf(Untidy, Other, Other), FileOf(Broken, Broken, Broken), FileOf(Tidy, Broken, Broken),
     FileOf(Tidy, Tidy, Broken), FileOf(Tidy, Untidy, Tidy)}
NoSide == SideOf("none", "none", "none", "g1")
CallInputs(command) ==
    IF command = "format"
    THEN [left : {NoSide}, right : {NoSide}, files : ShortLists(CallFiles, 2)]
    ELSE [left : CallSides, files : {<< >>},
          right : IF command = "query" THEN {NoSide}
                  ELSE {side \in CallSides : command = "diff" \/ side.at = "none"}]
SubsetsUpTo(n, S) == UNION {kSubset(k, S) : k \in 0..n}

-----------------------------------------------------------------------------
(* The sum of the parts. *)
Functions_ == {"graphs", "hunks", "targets", "tables", "describe", "rows", "snippets", "templates", "format",
               "config", "exits"}

HoldCache   == UNCHANGED cvars
HoldSidecar == UNCHANGED qvars
HoldPicker  == UNCHANGED pvars
HoldPages   == UNCHANGED rvars
HoldHeap    == UNCHANGED vars

(* A part that does not move stays at an idle state of its own. *)
NoSidecar == /\ file = Off /\ writing = {} /\ tabs = Off /\ asked = Off /\ replies = Off
             /\ writes = Off /\ handEdits = Off
NoPages   == form = Off /\ board = [running |-> FALSE, shown |-> Empty] /\ sent = << >> /\ open = {}
NoCache   == stamp = "new" /\ clock = 0 /\ Edits = {}

(* The cache begins where no time is left to pass, or where the edits have  *)
(* been made: rows expire, or data moves, not both.                         *)
OneThingAtATime == IF clock = 0 THEN files["live"] = MaxEdits + 1 ELSE Edits = {}

FirstArgument ==
    CASE part = "graphs"  -> probe \in [left : SmallGraphs]
      [] part = "hunks"   -> probe \in [left : ListStores]
      [] part = "targets" -> probe \in [left : {s \in GlobSpecs : Declarable(s)}]
      [] part = "tables"  -> probe \in [left : TableSides]
      [] part = "describe" -> probe \in [left : DescribedStores]
      [] part = "rows" -> probe \in [left : Families(InMemoryEntries) \cup Families(DiskBackedEntries)]
      [] part = "snippets" -> probe \in [left : ShortLists(PinnedRecords, 3)]
      [] part = "templates" -> \E p \in FirstParameters : \E rest \in OtherParameters :
                                   \E initial \in Openings :
                                       probe = [left |-> [params |-> <<p>> \o rest,
                                                          initial |-> initial]]
      [] part = "format" -> probe \in [left : SubsetsUpTo(4, FormatterTrees)]
      [] part = "config" -> probe \in [left : ConfigCalls]
      [] part = "exits" -> probe \in [left : Calls]

SecondArguments ==
    CASE part = "graphs"  -> SmallGraphs \cup {g \cup {Noted} : g \in SmallGraphs}
      [] part = "hunks"   -> ListStores
      [] part = "targets" -> Addresses
      [] part = "tables"  ->
             {x \in TableSides : Len(x[2]) <= 1 \/ x[1] = probe.left[1]}
      [] part = "describe" -> Endpoints
      [] part = "rows" -> IF probe.left.top.mode = "in-memory" THEN InMemoryEntries
                          ELSE DiskBackedEntries
      [] part = "snippets" -> [records : ShortLists(WorkingRecords, 2), changed : BOOLEAN,
                               context : {0, 1}]
      [] part = "templates" ->
             [earlier : {<< >>}, acts : ShortLists(Acts, 2)]
             \cup [earlier : {<<[op |-> "add", text |-> "x", on |-> "c"]>>},
                   acts : ShortLists(Acts, 1)]
      [] part = "format" -> SubsetsUpTo(4, FormatterTails)
      [] part = "config" -> Directories
      [] part = "exits" -> CallInputs(probe.left.command)

ServicesInit ==
    /\ PickerInit
    /\ Init
    /\ \/ part = "sidecar" /\ QueriesInit /\ NoPages /\ probe = Off
       \/ part = "pages" /\ PagesInit /\ NoSidecar /\ probe = Off
       \/ part \in {"cache", "picker", "heap"} /\ NoSidecar /\ NoPages /\ probe = Off
       \/ part \in Functions_ /\ FirstArgument /\ NoSidecar /\ NoPages
    /\ CacheInit
    /\ IF part = "cache" THEN OneThingAtATime ELSE NoCache

TakeSecond ==
    /\ part \in Functions_ /\ ~Reached(part)
    /\ \E x \in SecondArguments : probe' = [left |-> probe.left, right |-> x]

ServicesNext ==
    /\ UNCHANGED part
    /\ \/ /\ part = "cache" /\ CacheNext
          /\ HoldSidecar /\ HoldPicker /\ HoldPages /\ HoldHeap /\ UNCHANGED probe
       \/ /\ part = "sidecar" /\ QueriesNext
          /\ HoldCache /\ HoldPicker /\ HoldPages /\ HoldHeap /\ UNCHANGED probe
       \/ /\ part = "picker" /\ PickerNext
          /\ HoldCache /\ HoldSidecar /\ HoldPages /\ HoldHeap /\ UNCHANGED probe
       \/ /\ part = "pages" /\ PagesNext
          /\ HoldCache /\ HoldSidecar /\ HoldPicker /\ HoldHeap /\ UNCHANGED probe
       \/ /\ part = "heap" /\ Next
          /\ HoldCache /\ HoldSidecar /\ HoldPicker /\ HoldPages /\ UNCHANGED probe
       \/ TakeSecond /\ HoldCache /\ HoldSidecar /\ HoldPicker /\ HoldPages /\ HoldHeap

svars == <<part, probe, cvars, qvars, pvars, rvars, vars>>
ServicesSpec == ServicesInit /\ [][ServicesNext]_svars

-----------------------------------------------------------------------------
(* The properties of the functions that PureParts does not state; those of  *)
(* the parts that move are their modules' own.                              *)
(* RdfDiff: what a graph diff leaves out is one graph on both sides, and    *)
(* the sides are treated alike (diff.ts, canonical/).  EntityHunks: every   *)
(* change is told in some hunk, in its own words or as part of a folded     *)
(* list, and a hunk's state agrees with its lines.                          *)
DiffTellsAll ==
    /\ Reached("graphs") =>
           LET diff == Rdf!DiffStores(probe)
           IN  Rdf!KeepsOneGraph(probe, diff) /\ Rdf!Fair(probe, diff)
    /\ Reached("hunks") =>
           LET diff == [minus |-> probe.left \ probe.right, plus |-> probe.right \ probe.left]
               hunks == Hunks!GroupRdfDiffByEntity(diff, probe)
           IN  Hunks!NothingDropped(diff, probe, hunks) /\ Hunks!StateAgrees(hunks)

(* Snippets: what is painted beside a hunk are the lines its records name,  *)
(* in the version they were computed against, once.                         *)
SnippetsAlign ==
    Reached("snippets") =>
        /\ Snippet!RecordsPainted(HunkOf(probe.left, probe.right), probe.right.context)
        /\ \A changed \in {{}, {1}} :
              probe.right.records # << >> => Snippet!SiteIsEarliest(probe.right.records, changed)

(* Templates: a submitted form asks for what it shows, and so does the      *)
(* address of the page, unless the form refuses it.                         *)
FormAsksWhatItShows ==
    Reached("templates") =>
        LET params == probe.left.params
            initial == probe.left.initial
            overrides == EnteredForm(params, initial, probe.right)
        IN  /\ Template!AsksWhatIsBound(params, initial, overrides)
            /\ Template!LinkAsksTheSame(params, initial, overrides)
            /\ Template!ComplaintsRefuse(params, initial, overrides)
            /\ \A body \in QueryBodies :
                  Template!LintedIsBound(params, Template!BuildBindings(params, initial, overrides), body)

(* RdfFormat: what is printed is the graph that was read.                   *)
FormatKeepsTheGraph ==
    Reached("format") => Formatter!KeepsTheGraph(probe.left \cup probe.right)

(* RdfFormat: the contract of the command, without exceptions for brackets  *)
(* in a list in brackets.                                                   *)
FormatRoundTrips ==
    Reached("format") => Formatter!RoundTrips(probe.left \cup probe.right)

Described(kind) ==
    [kind |-> kind, store |-> SetToSeq(probe.left), union |-> probe.right.union,
     down |-> probe.right.down]

(* Describe: a description that is not flagged has lost nothing but copies  *)
(* in another language and annotations, at a store and at an endpoint; the  *)
(* path of a node the page offers to expand leads back to the node, and a   *)
(* section tells each statement about its blank nodes once.                 *)
DescribeIsHonest ==
    Reached("describe") =>
        /\ Page!HonestOfStore(Described("heap"), probe.right.limit)
        /\ Page!HonestOfEndpoint(Described("endpoint"), probe.right.limit)
        /\ Page!ExpandingReveals(Described("endpoint"), <<"a">>)
        /\ Page!SectionsTellAll(SetToSeq(probe.left))
=============================================================================
