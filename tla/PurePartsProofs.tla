--------------------------- MODULE PurePartsProofs ---------------------------
(***************************************************************************)
(* What the pure functions of PureParts compute, for every argument: the   *)
(* properties that MC_Services checks on small sets of arguments.          *)
(***************************************************************************)
EXTENDS PureParts, Integers, Sequences, FiniteSets, FiniteSetTheorems,
        SequenceTheorems, WellFoundedInduction, TLAPS

IsList(s) == \E S : s \in Seq(S)

(* A finite list is indexed from one to its length.                         *)
LEMMA ListDomain ==
    ASSUME NEW s, IsList(s)
    PROVE  Len(s) \in Nat /\ DOMAIN s = 1..Len(s)
BY DEF IsList

-----------------------------------------------------------------------------
(* Tables.                                                                  *)

RowsWith(rows, variables, key) ==
    {i \in DOMAIN rows : Tables!TabularRowKey(rows[i], variables) = key}

(* The rows of a key are finitely many: there is one unless the key occurs  *)
(* nowhere.                                                                 *)
LEMMA CountsAreNatural ==
    ASSUME NEW rows, IsList(rows), NEW variables, NEW key
    PROVE  /\ Tables!CountRows(rows, variables, key) \in Nat
           /\ Tables!CountRows(rows, variables, key) > 0
                <=> key \in Tables!RowKeys(rows, variables)
<1> DEFINE at == RowsWith(rows, variables, key)
<1>1. DOMAIN rows = 1..Len(rows) /\ Len(rows) \in Nat
  BY ListDomain
<1>2. IsFiniteSet(1..Len(rows))
  BY <1>1, FS_Interval
<1>3. IsFiniteSet(at)
  BY <1>1, <1>2, FS_Subset DEF RowsWith
<1>4. Tables!CountRows(rows, variables, key) = Cardinality(at)
  BY DEF Tables!CountRows, RowsWith, Tables!Cardinality, Cardinality
<1>5. Cardinality(at) \in Nat
  BY <1>3, FS_CardinalityType
<1>6. Cardinality(at) = 0 <=> at = {}
  BY <1>3, FS_EmptySet
<1>7. at # {} <=> key \in Tables!RowKeys(rows, variables)
  BY DEF RowsWith, Tables!RowKeys
<1> HIDE DEF at
<1> QED
  BY <1>4, <1>5, <1>6, <1>7

(* A nonempty set of indices has a least one.                               *)
LEMMA LeastIndex ==
    ASSUME NEW at \in SUBSET Nat, at # {}
    PROVE  \E i \in at : \A j \in at : i <= j
<1> DEFINE I == {0 .. n : n \in at}
<1>1. I \subseteq FiniteSubsetsOf(Int) /\ I # {}
  <2>1. \A n \in at : (0 .. n) \in SUBSET Int /\ IsFiniteSet(0 .. n)
    BY FS_Interval
  <2> QED
    BY <2>1 DEF FiniteSubsetsOf
<1>2. PICK X \in I : \A Y \in I : ~(<<Y, X>> \in StrictSubsetOrdering(Int))
  BY <1>1, WFMin, FS_StrictSubsetOrderingWellFounded
<1>3. PICK i \in at : X = 0 .. i
  OBVIOUS
<1>4. ASSUME NEW j \in at, ~(i <= j)
      PROVE  FALSE
  <2>1. i \in Nat /\ j \in Nat /\ j < i
    BY <1>4
  <2>2. i \in X /\ ~(i \in 0 .. j) /\ 0 .. j \subseteq X /\ X \subseteq Int
    BY <1>3, <2>1
  <2>3. <<0 .. j, X>> \in StrictSubsetOrdering(Int)
    BY <2>2 DEF StrictSubsetOrdering
  <2> QED
    BY <1>2, <1>4, <2>3
<1> QED
  BY <1>4

(* The first row of a key that occurs has that key.                         *)
LEMMA FirstRowHasKey ==
    ASSUME NEW rows, IsList(rows), NEW variables,
           NEW key \in Tables!RowKeys(rows, variables)
    PROVE  Tables!TabularRowKey(Tables!FirstRow(rows, variables, key), variables) = key
<1> DEFINE at == RowsWith(rows, variables, key)
           first == CHOOSE i \in at : \A j \in at : i <= j
<1>1. at \in SUBSET Nat
  BY ListDomain DEF RowsWith
<1>2. at # {}
  BY DEF RowsWith, Tables!RowKeys
<1>3. first \in at
  <2> HIDE DEF at
  <2> QED
    BY <1>1, <1>2, LeastIndex
<1>4. Tables!FirstRow(rows, variables, key) = rows[first]
  BY DEF Tables!FirstRow, RowsWith
<1>5. Tables!TabularRowKey(rows[first], variables) = key
  <2> HIDE DEF first
  <2> QED
    BY <1>3 DEF RowsWith
<1> QED
  BY <1>4, <1>5

(* What is read back from a JSON entry.                                     *)
ReadBack(e, variables) ==
    Tables!TabularRowKey([v \in variables |-> IF v \in DOMAIN e.row THEN e.row[v]
                                              ELSE Tables!Unbound], variables)
CountOf(e) == IF "count" \in DOMAIN e THEN e.count ELSE 1

(* A JSON entry says which row it is about, and how often: the columns it   *)
(* leaves out are the unbound ones, the count it leaves out is one.         *)
LEMMA JsonSaysAll ==
    ASSUME NEW row, NEW n, NEW variables
    PROVE  LET json == Tables!EntryToJson([row |-> row, count |-> n], variables)
           IN  /\ ReadBack(json, variables) = Tables!TabularRowKey(row, variables)
               /\ CountOf(json) = n
<1> DEFINE entry == [row |-> row, count |-> n]
           short == Tables!RowToJson(row, variables)
           json == Tables!EntryToJson(entry, variables)
<1>1. json.row = short /\ CountOf(json) = n
  <2>1. CASE n = 1
    <3>1. json = [row |-> short]
      BY <2>1 DEF Tables!EntryToJson
    <3>2. DOMAIN json = {"row"}
      BY <3>1
    <3> QED
      BY <2>1, <3>1, <3>2 DEF CountOf
  <2>2. CASE n # 1
    <3>1. json = [row |-> short, count |-> n]
      BY <2>2 DEF Tables!EntryToJson
    <3> QED
      BY <3>1 DEF CountOf
  <2> QED
    BY <2>1, <2>2
<1>2. \A v \in variables : (IF v \in DOMAIN short THEN short[v] ELSE Tables!Unbound) = row[v]
  BY DEF Tables!RowToJson
<1>3. ReadBack(json, variables) = Tables!TabularRowKey(row, variables)
  <2> HIDE DEF short, json
  <2> QED
    BY <1>1, <1>2 DEF ReadBack, Tables!TabularRowKey
<1> QED
  BY <1>1, <1>3

(* Read back from the JSON report, a key is mentioned with its excess, and  *)
(* only when it is in excess.                                               *)
LEMMA TimesOfExcess ==
    ASSUME NEW from, NEW to, IsList(from), IsList(to), NEW variables, NEW key
    PROVE  LET excess == Tables!CountRows(to, variables, key)
                         - Tables!CountRows(from, variables, key)
           IN  Tables!Times({Tables!EntryToJson(e, variables) :
                                e \in Tables!Excess(from, to, variables)}, variables, key)
               = IF excess > 0 THEN excess ELSE 0
<1> DEFINE Count(rows, k) == Tables!CountRows(rows, variables, k)
           More == {k \in Tables!RowKeys(to, variables) : Count(to, k) > Count(from, k)}
           EntryOf(k) == [row |-> Tables!FirstRow(to, variables, k),
                          count |-> Count(to, k) - Count(from, k)]
           JsonOf(k) == Tables!EntryToJson(EntryOf(k), variables)
           report == {Tables!EntryToJson(e, variables) : e \in Tables!Excess(from, to, variables)}
           found == {e \in report : ReadBack(e, variables) = key}
<1>1. report = {JsonOf(k) : k \in More}
  BY DEF Tables!Excess
<1>2. \A k \in More : /\ ReadBack(JsonOf(k), variables) = k
                      /\ CountOf(JsonOf(k)) = Count(to, k) - Count(from, k)
  <2>1. ASSUME NEW k \in More
        PROVE  /\ ReadBack(JsonOf(k), variables)
                    = Tables!TabularRowKey(Tables!FirstRow(to, variables, k), variables)
               /\ CountOf(JsonOf(k)) = Count(to, k) - Count(from, k)
    BY JsonSaysAll
  <2>2. ASSUME NEW k \in More
        PROVE  Tables!TabularRowKey(Tables!FirstRow(to, variables, k), variables) = k
    BY FirstRowHasKey
  <2> QED
    BY <2>1, <2>2
<1>3. found = IF key \in More THEN {JsonOf(key)} ELSE {}
  <2> HIDE DEF JsonOf, More, report
  <2> QED
    BY <1>1, <1>2
<1>4. Tables!Times(report, variables, key)
        = IF found = {} THEN 0 ELSE CountOf(CHOOSE e \in found : TRUE)
  <2> HIDE DEF report
  <2> QED
    BY DEF Tables!Times, ReadBack, CountOf
<1>5. Tables!Times(report, variables, key)
        = IF key \in More THEN Count(to, key) - Count(from, key) ELSE 0
  <2>1. CASE key \in More
    <3>1. (CHOOSE e \in found : TRUE) = JsonOf(key) /\ found # {}
      <4> HIDE DEF JsonOf, More, found
      <4> QED
        BY <1>3, <2>1
    <3> HIDE DEF JsonOf, More, found, report, Count
    <3> QED
      BY <1>2, <1>4, <2>1, <3>1
  <2>2. CASE key \notin More
    <3> HIDE DEF JsonOf, More, found, report, Count
    <3> QED
      BY <1>3, <1>4, <2>2
  <2> QED
    BY <2>1, <2>2
<1>6. /\ Count(to, key) \in Nat /\ Count(from, key) \in Nat
      /\ Count(to, key) > 0 <=> key \in Tables!RowKeys(to, variables)
  BY CountsAreNatural
<1>7. key \in More <=> Count(to, key) - Count(from, key) > 0
  <2>1. key \in More <=> /\ key \in Tables!RowKeys(to, variables)
                         /\ Count(to, key) > Count(from, key)
    OBVIOUS
  <2> HIDE DEF More, Count
  <2> QED
    BY <1>6, <2>1
<1> HIDE DEF More, Count, report
<1>8. Tables!Times(report, variables, key)
        = IF Count(to, key) - Count(from, key) > 0 THEN Count(to, key) - Count(from, key) ELSE 0
  BY <1>5, <1>7
<1> QED
  BY <1>8 DEF Count, report

(* What a comparison of tables that nothing refuses reports.                *)
LEMMA TabularResult ==
    ASSUME NEW left, NEW right
    PROVE  LET variables == Tables!Names(right.query)
               keyable == /\ Tables!Keyable(left.rows, variables)
                          /\ Tables!Keyable(right.rows, variables)
               ours == Tables!RunTabularOnServer(left, right)
               cli == Tables!RunTabularOnCli(left, right)
               report == [kind |-> "tabular",
                          added |-> Tables!Excess(left.rows, right.rows, variables),
                          removed |-> Tables!Excess(right.rows, left.rows, variables),
                          totals |-> [left |-> Len(left.rows),
                                      right |-> Len(right.rows)]]
           IN  IF Tables!SetsMatch(left, right) /\ keyable
               THEN ours = report /\ cli = report
               ELSE ours.kind = "error" /\ cli.kind = "error"
<1> DEFINE variables == Tables!Names(right.query)
           keyable == /\ Tables!Keyable(left.rows, variables)
                      /\ Tables!Keyable(right.rows, variables)
           result == Tables!TabularDiffOf(left.rows, right.rows, variables)
           report == [kind |-> "tabular",
                      added |-> Tables!Excess(left.rows, right.rows, variables),
                      removed |-> Tables!Excess(right.rows, left.rows, variables),
                      totals |-> [left |-> Len(left.rows),
                                  right |-> Len(right.rows)]]
           blank == {side \in {"left", "right"} :
                        ~Tables!Keyable(IF side = "left" THEN left.rows ELSE right.rows,
                                        variables)}
<1>1. result = IF keyable THEN report ELSE Tables!BlankNodeError
  BY DEF Tables!TabularDiffOf
<1>2. report # Tables!BlankNodeError
  <2>1. report.kind = "tabular" /\ Tables!BlankNodeError.kind = "tabular-blank-node"
    BY DEF Tables!BlankNodeError
  <2> QED
    BY <2>1
<1>3. blank = {} <=> keyable
  OBVIOUS
<1>4. Tables!RunTabularOnServer(left, right)
        = IF ~Tables!SetsMatch(left, right) THEN [kind |-> "error", at |-> {"top"}]
          ELSE IF blank # {} THEN [kind |-> "error", at |-> blank] ELSE result
  BY DEF Tables!RunTabularOnServer
<1>5. Tables!RunTabularOnCli(left, right)
        = IF ~Tables!SetsMatch(left, right) \/ result = Tables!BlankNodeError
          THEN [kind |-> "error", at |-> {"top"}] ELSE result
  BY DEF Tables!RunTabularOnCli
<1> HIDE DEF keyable, report, result, blank
<1>6. IF Tables!SetsMatch(left, right) /\ keyable
      THEN Tables!RunTabularOnServer(left, right) = report /\ Tables!RunTabularOnCli(left, right) = report
      ELSE /\ Tables!RunTabularOnServer(left, right).kind = "error"
           /\ Tables!RunTabularOnCli(left, right).kind = "error"
  BY <1>1, <1>2, <1>3, <1>4, <1>5
<1> QED
  BY <1>6 DEF keyable, report

(* A report turns the left bag of rows into the right one, and is empty     *)
(* exactly when they are the same bag.                                      *)
LEMMA ReportAddsUp ==
    ASSUME NEW left, NEW right, IsList(left.rows), IsList(right.rows)
    PROVE  Tables!BagsAddUp(left, right)
<1> DEFINE variables == Tables!Names(right.query)
           result == Tables!RunTabularOnServer(left, right)
           added == Tables!Excess(left.rows, right.rows, variables)
           removed == Tables!Excess(right.rows, left.rows, variables)
           Json(entries) == {Tables!EntryToJson(e, variables) : e \in entries}
           Left(key) == Tables!CountRows(left.rows, variables, key)
           Right(key) == Tables!CountRows(right.rows, variables, key)
           keys == Tables!RowKeys(left.rows, variables) \union Tables!RowKeys(right.rows, variables)
<1>1. SUFFICES ASSUME result.kind = "tabular"
               PROVE  /\ \A key \in keys :
                            Right(key) = Left(key)
                                         - Tables!Times(Json(result.removed), variables, key)
                                         + Tables!Times(Json(result.added), variables, key)
                      /\ Tables!DiffPresent(result)
                            <=> \E key \in keys : Left(key) # Right(key)
  BY DEF Tables!BagsAddUp
<1>2. result.added = added /\ result.removed = removed
  BY <1>1, TabularResult
<1>3. \A key : Left(key) \in Nat /\ Right(key) \in Nat
  BY CountsAreNatural
<1>4. ASSUME NEW key \in keys
      PROVE  Right(key) = Left(key) - Tables!Times(Json(result.removed), variables, key)
                                    + Tables!Times(Json(result.added), variables, key)
  <2>1. Tables!Times(Json(added), variables, key)
          = IF Right(key) - Left(key) > 0 THEN Right(key) - Left(key) ELSE 0
    BY TimesOfExcess
  <2>2. Tables!Times(Json(removed), variables, key)
          = IF Left(key) - Right(key) > 0 THEN Left(key) - Right(key) ELSE 0
    BY TimesOfExcess
  <2> DEFINE gone == Tables!Times(Json(removed), variables, key)
             came == Tables!Times(Json(added), variables, key)
  <2>3. Right(key) = Left(key) - gone + came
    <3>1. /\ gone = IF Left(key) - Right(key) > 0 THEN Left(key) - Right(key) ELSE 0
          /\ came = IF Right(key) - Left(key) > 0 THEN Right(key) - Left(key) ELSE 0
      BY <2>1, <2>2
    <3> HIDE DEF gone, came, Left, Right
    <3> QED
      BY <1>3, <3>1
  <2> QED
    BY <1>2, <2>3
<1>5. /\ added # {} <=> \E k \in Tables!RowKeys(right.rows, variables) : Right(k) > Left(k)
      /\ removed # {} <=> \E k \in Tables!RowKeys(left.rows, variables) : Left(k) > Right(k)
  BY DEF Tables!Excess
<1>6. \A k : /\ Right(k) > 0 => k \in Tables!RowKeys(right.rows, variables)
             /\ Left(k) > 0 => k \in Tables!RowKeys(left.rows, variables)
  BY CountsAreNatural
<1>7. Tables!DiffPresent(result) <=> \E key \in keys : Left(key) # Right(key)
  <2>1. Tables!DiffPresent(result) <=> added # {} \/ removed # {}
    BY <1>2 DEF Tables!DiffPresent
  <2> HIDE DEF result, added, removed, Left, Right
  <2> QED
    BY <1>3, <1>5, <1>6, <2>1
<1> QED
  BY <1>4, <1>7

(* Both orders of the sides and both surfaces report the same rows, or      *)
(* refuse the same comparisons.                                             *)
LEMMA SidesAlwaysAlike ==
    ASSUME NEW left, NEW right
    PROVE  Tables!SidesAreAlike(left, right)
<1> DEFINE here == Tables!RunTabularOnServer(left, right)
           there == Tables!RunTabularOnServer(right, left)
           cli == Tables!RunTabularOnCli(left, right)
           V == Tables!Names(right.query)
           W == Tables!Names(left.query)
           keyable == Tables!Keyable(left.rows, V) /\ Tables!Keyable(right.rows, V)
           keyableToo == Tables!Keyable(left.rows, W) /\ Tables!Keyable(right.rows, W)
           match == Tables!SetsMatch(left, right)
<1>1. /\ match <=> V = W
      /\ Tables!SetsMatch(right, left) <=> V = W
  BY DEF Tables!SetsMatch
<1>2. match => (keyable <=> keyableToo)
  BY <1>1
<1>3. IF match /\ keyable
      THEN /\ here.kind = "tabular" /\ cli = here
           /\ here.added = Tables!Excess(left.rows, right.rows, V)
           /\ here.removed = Tables!Excess(right.rows, left.rows, V)
      ELSE here.kind = "error" /\ cli.kind = "error"
  BY TabularResult
<1>4. IF Tables!SetsMatch(right, left) /\ keyableToo
      THEN /\ there.kind = "tabular"
           /\ there.added = Tables!Excess(right.rows, left.rows, W)
           /\ there.removed = Tables!Excess(left.rows, right.rows, W)
      ELSE there.kind = "error"
  BY TabularResult
<1>5. Tables!DetectTabularDispatch(left.query, right.query)
        = Tables!DetectTabularDispatch(right.query, left.query)
  BY DEF Tables!DetectTabularDispatch
<1>6. /\ here.kind = there.kind
      /\ here.kind = "tabular" => here.added = there.removed /\ here.removed = there.added
      /\ cli.kind = here.kind /\ (here.kind = "tabular" => cli = here)
  <2> HIDE DEF here, there, cli, keyable, keyableToo, match, V, W
  <2> QED
    BY <1>1, <1>2, <1>3, <1>4
<1> QED
  BY <1>5, <1>6 DEF Tables!SidesAreAlike

(* What the dispatch sends to the tabular diff is a query that it takes.    *)
LEMMA DispatchAlwaysAccepted ==
    ASSUME NEW left, NEW right
    PROVE  Tables!DispatchIsAccepted(left, right)
BY DEF Tables!DispatchIsAccepted, Tables!DetectTabularDispatch, Tables!HasShape,
       Tables!ValidateInlineQuery

(* A side of a comparison: its query, and the finite list of its rows.      *)
IsTable(side) == IsList(side[2])

(* Whatever the two queries select and however often each row occurs: the   *)
(* report turns the left bag of rows into the right one, it is the same     *)
(* from both sides and on both surfaces, and no query that is sent to the   *)
(* tabular diff is refused there.                                           *)
THEOREM TablesAlwaysAddUp ==
    ASSUME Reached("tables") => IsTable(probe.left) /\ IsTable(probe.right)
    PROVE  TablesAddUp
<1> DEFINE Side(x) == [query |-> x[1], rows |-> x[2]]
           left == Side(probe.left)
           right == Side(probe.right)
<1>1. SUFFICES ASSUME Reached("tables")
               PROVE  /\ Tables!DispatchIsAccepted(left.query, right.query)
                      /\ Tables!BagsAddUp(left, right)
                      /\ Tables!SidesAreAlike(left, right)
  BY DEF TablesAddUp
<1>2. IsList(left.rows) /\ IsList(right.rows)
  BY <1>1 DEF IsTable
<1> HIDE DEF left, right
<1> QED
  BY <1>2, DispatchAlwaysAccepted, ReportAddsUp, SidesAlwaysAlike

-----------------------------------------------------------------------------
(* The rows of the Sources page.  An entry of the engine map; a family is   *)
(* an entry with the children a split glob has, which are files.            *)
IsEntry(e) ==
    /\ e.mode \in {"in-memory", "disk-backed", "endpoint"}
    /\ {e.building, e.failed, e.current, e.loading} \subseteq BOOLEAN
IsFamily(f) ==
    /\ f = [id |-> f.id, top |-> f.top, children |-> f.children]
    /\ IsEntry(f.top) /\ IsList(f.children)
    /\ \A i \in DOMAIN f.children : IsEntry(f.children[i]) /\ f.children[i].mode # "endpoint"

RowOf(id, entry) == SourcesTable!projectSourceRow(id, SourcesTable!projectEntryState(entry))

(* The states of the three tiers do not overlap where it matters.           *)
LEMMA StatesByMode ==
    ASSUME NEW entry, IsEntry(entry), NEW id
    PROVE  LET row == RowOf(id, entry)
           IN  /\ row.id = id /\ row.children = << >>
               /\ row.mode = entry.mode
               /\ row.mode = "endpoint" => row.state = "endpoint"
               /\ row.mode = "in-memory" =>
                      row.state \in {"loaded", "loading", "failed", "not-loaded"}
               /\ row.mode = "disk-backed" =>
                      row.state \in {"indexing", "failed", "not-built", "stale", "ready"}
               /\ row.mode = "disk-backed" => (row.state = "indexing" <=> entry.building)
               /\ row.mode = "in-memory" =>
                      (row.state = "loading" <=> entry.loading /\ ~entry.current)
               /\ row.error => row.state = "failed" /\ entry.failed
<1> DEFINE run == SourcesTable!projectEntryState(entry)
<1>1. /\ RowOf(id, entry).id = id
      /\ RowOf(id, entry).children = << >>
      /\ RowOf(id, entry).mode = run.mode
      /\ RowOf(id, entry).state = run.state
      /\ RowOf(id, entry).error = (run.state = "failed" /\ run.error)
  BY DEF RowOf, SourcesTable!projectSourceRow
<1>2. CASE entry.mode = "endpoint"
  <2>1. run = SourcesTable!Runtime("endpoint", "endpoint", << >>, FALSE, SourcesTable!None)
    BY <1>2 DEF SourcesTable!projectEntryState
  <2>2. run.mode = "endpoint" /\ run.state = "endpoint"
    BY <2>1 DEF SourcesTable!Runtime
  <2> QED
    BY <1>1, <1>2, <2>2
<1>3. CASE entry.mode = "disk-backed"
  <2>1. run = SourcesTable!projectDiskBackedState(entry)
    BY <1>3 DEF SourcesTable!projectEntryState
  <2>2. ASSUME NEW state, NEW quads
        PROVE  LET r == SourcesTable!diskBackedRuntime(entry, state, quads)
               IN  r.mode = "disk-backed" /\ r.state = state
    BY DEF SourcesTable!diskBackedRuntime, SourcesTable!Runtime
  <2>3. ASSUME NEW metrics
        PROVE  LET r == SourcesTable!Runtime("disk-backed", "failed", metrics, TRUE, SourcesTable!None)
               IN  r.mode = "disk-backed" /\ r.state = "failed"
    BY DEF SourcesTable!Runtime
  <2>4. CASE entry.building
    <3>1. run = SourcesTable!diskBackedRuntime(entry, "indexing", 0)
      BY <2>1, <2>4 DEF SourcesTable!projectDiskBackedState
    <3>2. run.mode = "disk-backed" /\ run.state = "indexing"
      BY <2>2, <3>1
    <3> QED
      BY <1>1, <1>3, <2>4, <3>2
  <2>5. CASE ~entry.building /\ entry.failed
    <3>1. run = SourcesTable!Runtime("disk-backed", "failed",
                    SourcesTable!collectMetrics(entry), TRUE, SourcesTable!None)
      BY <2>1, <2>5 DEF SourcesTable!projectDiskBackedState
    <3>2. run.mode = "disk-backed" /\ run.state = "failed"
      BY <2>3, <3>1
    <3> QED
      BY <1>1, <1>3, <2>5, <3>2
  <2>6. CASE ~entry.building /\ ~entry.failed
    <3>1. \E state \in {"not-built", "stale", "ready"}, quads \in {0, 3} :
             run = SourcesTable!diskBackedRuntime(entry, state, quads)
      <4>1. CASE entry.manifest # "readable"
        BY <2>1, <2>6, <4>1 DEF SourcesTable!projectDiskBackedState
      <4>2. CASE entry.manifest = "readable"
        BY <2>1, <2>6, <4>2 DEF SourcesTable!projectDiskBackedState
      <4> QED
        BY <4>1, <4>2
    <3>2. run.mode = "disk-backed" /\ run.state \in {"not-built", "stale", "ready"}
      BY <2>2, <3>1
    <3> QED
      BY <1>1, <1>3, <2>6, <3>2
  <2> QED
    BY <2>4, <2>5, <2>6 DEF IsEntry
<1>4. CASE entry.mode = "in-memory"
  <2>1. /\ entry.current =>
              run = SourcesTable!Runtime("in-memory", "loaded",
                        SourcesTable!collectMetrics(entry), FALSE, SourcesTable!None)
        /\ ~entry.current /\ entry.loading =>
              run = SourcesTable!Runtime("in-memory", "loading", << >>, FALSE, SourcesTable!None)
        /\ ~entry.current /\ ~entry.loading =>
              run = SourcesTable!Runtime("in-memory",
                        IF entry.failed THEN "failed" ELSE "not-loaded", << >>,
                        entry.failed, SourcesTable!None)
    BY <1>4 DEF SourcesTable!projectEntryState
  <2>2. /\ run.mode = "in-memory"
        /\ entry.current => run.state = "loaded"
        /\ ~entry.current /\ entry.loading => run.state = "loading"
        /\ ~entry.current /\ ~entry.loading =>
              run.state = (IF entry.failed THEN "failed" ELSE "not-loaded") /\ run.error = entry.failed
    BY <2>1 DEF SourcesTable!Runtime, IsEntry
  <2> QED
    BY <1>1, <1>4, <2>2 DEF IsEntry
<1> QED
  BY <1>2, <1>3, <1>4 DEF IsEntry

(* What a card offers fits what is known of its entry.                      *)
LEMMA CardsAlwaysFit ==
    ASSUME NEW entry, IsEntry(entry)
    PROVE  SourcesTable!CardFits(entry)
<1> DEFINE row == RowOf(<<"id">>, entry)
           verbs == {a.verb : a \in SourcesTable!actions(row, TRUE)}
<1>1. /\ row.children = << >>
      /\ row.mode = entry.mode
      /\ row.mode = "endpoint" => row.state = "endpoint"
      /\ row.mode = "in-memory" => row.state \in {"loaded", "loading", "failed", "not-loaded"}
      /\ row.mode = "disk-backed" => row.state \in {"indexing", "failed", "not-built", "stale", "ready"}
      /\ row.mode = "disk-backed" => (row.state = "indexing" <=> entry.building)
      /\ row.mode = "in-memory" => (row.state = "loading" <=> entry.loading /\ ~entry.current)
      /\ row.error => row.state = "failed" /\ entry.failed
  BY StatesByMode
<1>2. SourcesTable!CardFits(entry) <=>
        /\ entry.mode = "disk-backed" => ("cancel-build" \in verbs <=> entry.building)
        /\ verbs = {} <=> entry.mode = "in-memory" /\ entry.loading /\ ~entry.current
        /\ SourcesTable!Shown(row).error => entry.failed /\ "unload" \notin verbs
  BY DEF SourcesTable!CardFits, RowOf
<1> HIDE DEF row
<1>3. SourcesTable!loadedChildren(row) = {}
  BY <1>1 DEF SourcesTable!loadedChildren, SourcesTable!ToSet
<1>4. /\ row.mode = "endpoint" => verbs = {"test-connection"}
      /\ row.mode = "in-memory" =>
            /\ row.state \in {"not-loaded", "failed"} => verbs = {"load"}
            /\ row.state = "loaded" => verbs = {"reload", "unload"}
            /\ row.state = "loading" => verbs = {}
      /\ row.mode = "disk-backed" =>
            verbs = IF row.state = "indexing" THEN {"cancel-build"} ELSE {"index-build"}
  <2>1. ASSUME NEW offered, SourcesTable!actions(row, TRUE) = {SourcesTable!Verb(v, row) : v \in offered}
        PROVE  verbs = offered
    <3>1. \A v \in offered : SourcesTable!Verb(v, row).verb = v
      BY DEF SourcesTable!Verb
    <3>2. verbs = {a.verb : a \in {SourcesTable!Verb(v, row) : v \in offered}}
      BY <2>1
    <3> HIDE DEF verbs
    <3>3. ASSUME NEW v PROVE v \in verbs <=> v \in offered
      BY <3>1, <3>2
    <3> QED
      BY <3>3
  <2>2. SourcesTable!actions(row, TRUE) =
          (CASE row.mode = "endpoint" -> {SourcesTable!Verb("test-connection", row)}
             [] row.mode = "in-memory" /\ row.state \in {"not-loaded", "failed"} ->
                    {SourcesTable!Verb("load", row)}
             [] row.mode = "in-memory" /\ row.state = "loaded" ->
                    {SourcesTable!Verb("reload", row), SourcesTable!Verb("unload", row)}
             [] row.mode = "disk-backed" /\ row.state = "indexing" ->
                    {SourcesTable!Verb("cancel-build", row)}
             [] row.mode = "disk-backed" /\ row.state # "indexing" ->
                    {SourcesTable!Verb("index-build", row)}
             [] OTHER -> {})
    BY <1>3 DEF SourcesTable!actions
  <2> HIDE DEF verbs
  <2>3. CASE row.mode = "endpoint"
    <3>1. SourcesTable!actions(row, TRUE) = {SourcesTable!Verb(v, row) : v \in {"test-connection"}}
      BY <2>2, <2>3
    <3> QED
      BY <2>1, <2>3, <3>1
  <2>4. CASE row.mode = "in-memory" /\ row.state \in {"not-loaded", "failed"}
    <3>1. SourcesTable!actions(row, TRUE) = {SourcesTable!Verb(v, row) : v \in {"load"}}
      BY <2>2, <2>4
    <3> QED
      BY <2>1, <2>4, <3>1
  <2>5. CASE row.mode = "in-memory" /\ row.state = "loaded"
    <3>1. SourcesTable!actions(row, TRUE) = {SourcesTable!Verb(v, row) : v \in {"reload", "unload"}}
      BY <2>2, <2>5
    <3> QED
      BY <2>1, <2>5, <3>1
  <2>6. CASE row.mode = "in-memory" /\ row.state = "loading"
    <3>1. SourcesTable!actions(row, TRUE) = {SourcesTable!Verb(v, row) : v \in {}}
      BY <2>2, <2>6
    <3> QED
      BY <2>1, <2>6, <3>1
  <2>7. CASE row.mode = "disk-backed" /\ row.state = "indexing"
    <3>1. SourcesTable!actions(row, TRUE) = {SourcesTable!Verb(v, row) : v \in {"cancel-build"}}
      BY <2>2, <2>7
    <3> QED
      BY <2>1, <2>7, <3>1
  <2>8. CASE row.mode = "disk-backed" /\ row.state # "indexing"
    <3>1. SourcesTable!actions(row, TRUE) = {SourcesTable!Verb(v, row) : v \in {"index-build"}}
      BY <2>2, <2>8
    <3> QED
      BY <2>1, <2>8, <3>1
  <2> QED
    BY <2>3, <2>4, <2>5, <2>6, <2>7, <2>8
<1>5. SourcesTable!Shown(row).error = (row.mode # "endpoint" /\ row.state = "failed" /\ row.error)
  BY DEF SourcesTable!Shown
<1> HIDE DEF verbs
<1>6. CASE entry.mode = "endpoint"
  <2>1. verbs = {"test-connection"}
    BY <1>1, <1>4, <1>6
  <2> QED
    BY <1>1, <1>2, <1>5, <1>6, <2>1
<1>7. CASE entry.mode = "in-memory"
  <2>1. /\ row.state \in {"not-loaded", "failed"} => verbs = {"load"}
        /\ row.state = "loaded" => verbs = {"reload", "unload"}
        /\ row.state = "loading" => verbs = {}
    BY <1>1, <1>4, <1>7
  <2> QED
    BY <1>1, <1>2, <1>5, <1>7, <2>1
<1>8. CASE entry.mode = "disk-backed"
  <2>1. /\ row.state = "indexing" => verbs = {"cancel-build"}
        /\ row.state # "indexing" => verbs = {"index-build"}
    BY <1>1, <1>4, <1>8
  <2> QED
    BY <1>1, <1>2, <1>5, <1>8, <2>1
<1> QED
  BY <1>6, <1>7, <1>8 DEF IsEntry

(* The rows of the children, and what becomes of the row above them.        *)
LEMMA ChildRowsAre ==
    ASSUME NEW family, IsFamily(family)
    PROVE  /\ IsList(SourcesTable!ChildRows(family))
           /\ DOMAIN SourcesTable!ChildRows(family) = DOMAIN family.children
           /\ \A i \in DOMAIN family.children :
                 SourcesTable!ChildRows(family)[i] = RowOf(<<family.id, i>>, family.children[i])
<1>1. DOMAIN family.children = 1..Len(family.children) /\ Len(family.children) \in Nat
  BY ListDomain DEF IsFamily
<1>2. SourcesTable!ChildRows(family) =
        [i \in 1..Len(family.children) |-> RowOf(<<family.id, i>>, family.children[i])]
  BY <1>1 DEF SourcesTable!ChildRows, RowOf
<1>3. SourcesTable!ChildRows(family) \in
        Seq({RowOf(<<family.id, i>>, family.children[i]) : i \in 1..Len(family.children)})
  BY <1>1, <1>2
<1> QED
  BY <1>1, <1>2, <1>3 DEF IsList

LEMMA TopRowIs ==
    ASSUME NEW family, IsFamily(family)
    PROVE  LET row == SourcesTable!projectTopLevelRow(family)
               own == RowOf(<<family.id>>, family.top)
               children == SourcesTable!ChildRows(family)
           IN  /\ row = [own EXCEPT !.children = row.children, !.metrics = row.metrics,
                                    !.state = row.state]
               /\ row.id = <<family.id>> /\ row.mode = family.top.mode
               /\ row.children = children
               /\ IF family.children = << >> \/ (own.mode = "in-memory" /\ own.state # "not-loaded")
                  THEN row.state = own.state /\ row.metrics = own.metrics
                  ELSE /\ row.state = SourcesTable!aggregateChildState(children, own.state)
                       /\ row.metrics = SourcesTable!summarizeChildMetrics(children)
<1> DEFINE own == RowOf(<<family.id>>, family.top)
           children == SourcesTable!ChildRows(family)
           row == SourcesTable!projectTopLevelRow(family)
<1>1. own = [id |-> own.id, mode |-> own.mode, state |-> own.state, metrics |-> own.metrics,
             error |-> own.error, reason |-> own.reason, children |-> own.children]
  BY DEF RowOf, SourcesTable!projectSourceRow
<1>2. own.id = <<family.id>> /\ own.mode = family.top.mode /\ own.children = << >>
  BY StatesByMode DEF IsFamily
<1>3. row = IF family.children = << >> THEN own ELSE SourcesTable!projectSplitGlobMeta(own, children)
  BY DEF SourcesTable!projectTopLevelRow, RowOf
<1>4. family.children = << >> => children = << >>
  BY DEF SourcesTable!ChildRows
<1>5. SourcesTable!projectSplitGlobMeta(own, children) =
        IF own.mode = "in-memory" /\ own.state # "not-loaded"
        THEN [own EXCEPT !.children = children]
        ELSE [own EXCEPT !.children = children,
                         !.metrics = SourcesTable!summarizeChildMetrics(children),
                         !.state = SourcesTable!aggregateChildState(children, own.state)]
  BY DEF SourcesTable!projectSplitGlobMeta
<1> HIDE DEF own, children, row
<1> DEFINE sum == SourcesTable!summarizeChildMetrics(children)
           state == SourcesTable!aggregateChildState(children, own.state)
<1> HIDE DEF sum, state
<1>6. CASE family.children = << >>
  <2>1. row = own /\ row.children = children
    BY <1>2, <1>3, <1>4, <1>6
  <2>2. own = [own EXCEPT !.children = own.children, !.metrics = own.metrics, !.state = own.state]
    BY <1>1
  <2> QED
    BY <1>2, <1>6, <2>1, <2>2 DEF own, children, row
<1>7. CASE family.children # << >> /\ own.mode = "in-memory" /\ own.state # "not-loaded"
  <2>1. row = [own EXCEPT !.children = children]
    BY <1>3, <1>5, <1>7
  <2>2. /\ row.children = children /\ row.metrics = own.metrics /\ row.state = own.state
        /\ row.id = own.id /\ row.mode = own.mode
        /\ row = [own EXCEPT !.children = row.children, !.metrics = row.metrics, !.state = row.state]
    BY <1>1, <2>1
  <2> QED
    BY <1>2, <1>7, <2>2 DEF own, children, row
<1>8. CASE family.children # << >> /\ ~(own.mode = "in-memory" /\ own.state # "not-loaded")
  <2>1. row = [own EXCEPT !.children = children, !.metrics = sum, !.state = state]
    BY <1>3, <1>5, <1>8 DEF sum, state
  <2>2. /\ row.children = children /\ row.metrics = sum /\ row.state = state
        /\ row.id = own.id /\ row.mode = own.mode
        /\ row = [own EXCEPT !.children = row.children, !.metrics = row.metrics, !.state = row.state]
    BY <1>1, <2>1
  <2> QED
    BY <1>2, <1>8, <2>2 DEF own, children, row, sum, state
<1> QED
  BY <1>6, <1>7, <1>8

(* Whatever a card offers is for its row or for one of its children, and    *)
(* of its tier.                                                             *)
LEMMA OffersAre ==
    ASSUME NEW row, NEW admin \in BOOLEAN, NEW a \in SourcesTable!actions(row, admin)
    PROVE  /\ admin
           /\ \/ /\ a.id = row.id
                 /\ \/ row.mode = "endpoint" /\ a.verb = "test-connection"
                    \/ row.mode = "in-memory" /\ a.verb \in {"load", "reload", "unload"}
                    \/ row.mode = "disk-backed" /\ a.verb \in {"cancel-build", "index-build"}
              \/ /\ a.verb = "reload"
                 /\ \E i \in DOMAIN row.children : a.id = row.children[i].id
<1>1. admin
  BY DEF SourcesTable!actions
<1> DEFINE own ==
       CASE row.mode = "endpoint" -> {SourcesTable!Verb("test-connection", row)}
         [] row.mode = "in-memory" /\ row.state \in {"not-loaded", "failed"} ->
                {SourcesTable!Verb("load", row)}
         [] row.mode = "in-memory" /\ row.state = "loaded" ->
                {SourcesTable!Verb("reload", row), SourcesTable!Verb("unload", row)}
         [] row.mode = "disk-backed" /\ row.state = "indexing" ->
                {SourcesTable!Verb("cancel-build", row)}
         [] row.mode = "disk-backed" /\ row.state # "indexing" ->
                {SourcesTable!Verb("index-build", row)}
         [] OTHER -> {}
<1>2. SourcesTable!actions(row, admin) =
        own \cup {SourcesTable!Verb("reload", child) : child \in SourcesTable!loadedChildren(row)}
  BY <1>1 DEF SourcesTable!actions
<1>3. \/ row.mode = "endpoint" /\ own = {SourcesTable!Verb("test-connection", row)}
      \/ row.mode = "in-memory" /\ own = {SourcesTable!Verb("load", row)}
      \/ row.mode = "in-memory" /\ own = {SourcesTable!Verb("reload", row), SourcesTable!Verb("unload", row)}
      \/ row.mode = "disk-backed" /\ own = {SourcesTable!Verb("cancel-build", row)}
      \/ row.mode = "disk-backed" /\ own = {SourcesTable!Verb("index-build", row)}
      \/ own = {}
  <2>1. CASE row.mode = "endpoint"
    BY <2>1
  <2>2. CASE row.mode = "in-memory"
    <3>1. CASE row.state \in {"not-loaded", "failed"}
      BY <2>2, <3>1
    <3>2. CASE row.state = "loaded"
      BY <2>2, <3>2
    <3>3. CASE row.state \notin {"not-loaded", "failed", "loaded"}
      BY <2>2, <3>3
    <3> QED
      BY <3>1, <3>2, <3>3
  <2>3. CASE row.mode = "disk-backed"
    <3>1. CASE row.state = "indexing"
      BY <2>3, <3>1
    <3>2. CASE row.state # "indexing"
      BY <2>3, <3>2
    <3> QED
      BY <3>1, <3>2
  <2>4. CASE row.mode \notin {"endpoint", "in-memory", "disk-backed"}
    BY <2>4
  <2> QED
    BY <2>1, <2>2, <2>3, <2>4
<1>4. \A name, of : SourcesTable!Verb(name, of).verb = name /\ SourcesTable!Verb(name, of).id = of.id
  BY DEF SourcesTable!Verb
<1> HIDE DEF own
<1>5. CASE a \in own
  BY <1>1, <1>3, <1>4, <1>5
<1>6. ASSUME NEW child \in SourcesTable!loadedChildren(row), a = SourcesTable!Verb("reload", child)
      PROVE  a.verb = "reload" /\ \E i \in DOMAIN row.children : a.id = row.children[i].id
  <2>1. \E i \in DOMAIN row.children : child = row.children[i]
    BY DEF SourcesTable!loadedChildren, SourcesTable!ToSet
  <2> QED
    BY <1>4, <1>6, <2>1
<1> QED
  BY <1>1, <1>2, <1>5, <1>6

(* The server takes what a card offers.                                     *)
LEMMA ButtonsAlwaysWork ==
    ASSUME NEW family, IsFamily(family), NEW admin \in BOOLEAN
    PROVE  SourcesTable!ButtonsWork(family, admin)
<1> DEFINE row == SourcesTable!projectTopLevelRow(family)
<1>1. row.id = <<family.id>> /\ row.mode = family.top.mode
      /\ row.children = SourcesTable!ChildRows(family)
  BY TopRowIs
<1>2. SUFFICES ASSUME NEW a \in SourcesTable!actions(row, admin)
               PROVE  \/ SourcesTable!Response(a.verb, SourcesTable!EntryOf(family, a.id), admin) = "accepted"
                      \/ /\ SourcesTable!EntryOf(family, a.id).mode = "disk-backed"
                         /\ ~SourcesTable!EntryOf(family, a.id).current
  BY DEF SourcesTable!ButtonsWork
<1> HIDE DEF row
<1>3. /\ admin
      /\ \/ /\ a.id = row.id
            /\ \/ row.mode = "endpoint" /\ a.verb = "test-connection"
               \/ row.mode = "in-memory" /\ a.verb \in {"load", "reload", "unload"}
               \/ row.mode = "disk-backed" /\ a.verb \in {"cancel-build", "index-build"}
         \/ /\ a.verb = "reload"
            /\ \E i \in DOMAIN row.children : a.id = row.children[i].id
  BY OffersAre
<1>4. ASSUME NEW verb, NEW entry,
             \/ entry.mode = "endpoint" /\ verb = "test-connection"
             \/ entry.mode = "in-memory" /\ verb \in {"load", "reload", "unload"}
             \/ entry.mode = "disk-backed" /\ verb \in {"cancel-build", "index-build"}
             \/ verb = "reload" /\ ~(entry.mode = "disk-backed" /\ ~entry.current)
      PROVE  SourcesTable!Response(verb, entry, TRUE) = "accepted"
  <2>1. CASE verb = "test-connection"
    BY <1>4, <2>1 DEF SourcesTable!Response
  <2>2. CASE verb = "index-build"
    BY <1>4, <2>2 DEF SourcesTable!Response
  <2>3. CASE verb = "reload"
    BY <1>4, <2>3 DEF SourcesTable!Response
  <2>4. CASE verb \notin {"test-connection", "index-build", "reload"}
    BY <1>4, <2>4 DEF SourcesTable!Response
  <2> QED
    BY <2>1, <2>2, <2>3, <2>4
<1>5. CASE a.id = row.id
  <2>1. SourcesTable!EntryOf(family, a.id) = family.top
    BY <1>1, <1>5 DEF SourcesTable!EntryOf
  <2> QED
    BY <1>1, <1>3, <1>4, <2>1
<1>6. CASE a.verb = "reload"
  BY <1>3, <1>4, <1>6
<1> QED
  BY <1>3, <1>5, <1>6

(* The browser's sum over the children is the server's.                     *)
LEMMA BrowserAlwaysAgrees ==
    ASSUME NEW family, IsFamily(family), NEW i \in DOMAIN family.children,
           NEW entry, IsEntry(entry), entry.mode # "endpoint"
    PROVE  SourcesTable!BrowserAgrees(family, i, entry)
<1> DEFINE after == [family EXCEPT !.children[i] = entry]
           served == SourcesTable!projectTopLevelRow(after)
           meta == SourcesTable!projectTopLevelRow(family)
           child == SourcesTable!ChildRows(after)[i]
           shown == SourcesTable!reaggregateMeta(meta, child)
           own == RowOf(<<family.id>>, family.top)
<1>1. SUFFICES ASSUME \/ family.top.mode = "disk-backed"
                      \/ SourcesTable!projectEntryState(family.top).state = "not-loaded"
               PROVE  /\ shown.state = served.state /\ shown.children = served.children
                      /\ \A f \in DOMAIN served.metrics : shown.metrics[f] = served.metrics[f]
  BY DEF SourcesTable!BrowserAgrees
<1>2. /\ after = [id |-> after.id, top |-> after.top, children |-> after.children]
      /\ after.id = family.id /\ after.top = family.top
      /\ after.children = [family.children EXCEPT ![i] = entry]
  BY DEF IsFamily
<1>3. DOMAIN family.children = 1..Len(family.children) /\ Len(family.children) \in Nat
  BY ListDomain DEF IsFamily
<1>4. DOMAIN after.children = DOMAIN family.children /\ IsList(after.children)
  <2>1. PICK S : family.children \in Seq(S)
    BY DEF IsFamily, IsList
  <2>2. after.children \in Seq(S \cup {entry})
    BY <1>2, <2>1
  <2> QED
    BY <1>2, <2>2 DEF IsList
<1>5. \A k \in DOMAIN family.children :
         after.children[k] = IF k = i THEN entry ELSE family.children[k]
  BY <1>2
<1> HIDE DEF after
<1>6. IsFamily(after)
  BY <1>2, <1>4, <1>5 DEF IsFamily
<1>7. /\ DOMAIN SourcesTable!ChildRows(family) = DOMAIN family.children
      /\ DOMAIN SourcesTable!ChildRows(after) = DOMAIN family.children
      /\ \A k \in DOMAIN family.children :
            /\ SourcesTable!ChildRows(family)[k] = RowOf(<<family.id, k>>, family.children[k])
            /\ SourcesTable!ChildRows(after)[k] =
                  RowOf(<<family.id, k>>, IF k = i THEN entry ELSE family.children[k])
  BY <1>2, <1>4, <1>5, <1>6, ChildRowsAre
<1>8. \A k \in DOMAIN family.children :
         /\ SourcesTable!ChildRows(family)[k].id = <<family.id, k>>
         /\ SourcesTable!ChildRows(after)[k].id = <<family.id, k>>
  <2>1. \A id, e : IsEntry(e) => RowOf(id, e).id = id
    BY StatesByMode
  <2>2. \A k \in DOMAIN family.children :
           IsEntry(family.children[k]) /\ IsEntry(IF k = i THEN entry ELSE family.children[k])
    BY DEF IsFamily
  <2>3. ASSUME NEW k \in DOMAIN family.children
        PROVE  /\ RowOf(<<family.id, k>>, family.children[k]).id = <<family.id, k>>
               /\ RowOf(<<family.id, k>>, IF k = i THEN entry ELSE family.children[k]).id
                     = <<family.id, k>>
    <3> DEFINE e == IF k = i THEN entry ELSE family.children[k]
    <3>1. IsEntry(family.children[k]) /\ IsEntry(e)
      BY <2>2
    <3> HIDE DEF e
    <3>2. RowOf(<<family.id, k>>, e).id = <<family.id, k>>
          /\ RowOf(<<family.id, k>>, family.children[k]).id = <<family.id, k>>
      BY <2>1, <3>1
    <3> QED
      BY <3>2 DEF e
  <2> QED
    BY <1>7, <2>3
<1>9. SourcesTable!Replaced(SourcesTable!ChildRows(family), child) = SourcesTable!ChildRows(after)
  <2> DEFINE before == SourcesTable!ChildRows(family)
             then == SourcesTable!ChildRows(after)
  <2>1. then = [k \in DOMAIN before |-> then[k]]
    <3>1. then = [k \in 1..Len(family.children) |->
                    RowOf(<<after.id, k>>, after.children[k])]
      BY <1>3, <1>4 DEF SourcesTable!ChildRows, RowOf
    <3> QED
      BY <1>3, <1>7, <3>1
  <2>2. \A k \in DOMAIN before :
           then[k] = IF before[k].id = child.id THEN child ELSE before[k]
    <3>1. \A k \in DOMAIN before : k # i => <<family.id, k>> # <<family.id, i>>
      OBVIOUS
    <3> QED
      BY <1>7, <1>8, <3>1
  <2>3. before[i].id = child.id /\ i \in DOMAIN before
    BY <1>7, <1>8
  <2> HIDE DEF before, then, child
  <2>4. SourcesTable!Replaced(before, child) =
          [k \in DOMAIN before |-> IF before[k].id = child.id THEN child ELSE before[k]]
    BY <2>3 DEF SourcesTable!Replaced
  <2>5. SourcesTable!Replaced(before, child) = [k \in DOMAIN before |-> then[k]]
    BY <2>2, <2>4
  <2> QED
    BY <2>1, <2>5 DEF before, then
<1> DEFINE children == SourcesTable!ChildRows(after)
           sum == SourcesTable!summarizeChildMetrics(children)
<1>10. /\ meta = [own EXCEPT !.children = meta.children, !.metrics = meta.metrics, !.state = meta.state]
       /\ meta.children = SourcesTable!ChildRows(family)
  BY TopRowIs
<1>11. own.state = SourcesTable!projectEntryState(family.top).state
       /\ own = [id |-> own.id, mode |-> own.mode, state |-> own.state, metrics |-> own.metrics,
                 error |-> own.error, reason |-> own.reason, children |-> own.children]
  BY DEF RowOf, SourcesTable!projectSourceRow
<1>12. /\ served.children = children
       /\ served.state = SourcesTable!aggregateChildState(children, own.state)
       /\ served.metrics = sum
  <2>1. after.children # << >>
    BY <1>3, <1>4
  <2>2. own.mode = family.top.mode
    BY StatesByMode DEF IsFamily
  <2>3. ~(own.mode = "in-memory" /\ own.state # "not-loaded")
    BY <1>1, <1>11, <2>2
  <2>4. own = RowOf(<<after.id>>, after.top)
    BY <1>2
  <2> HIDE DEF own, children, sum
  <2>5. /\ served.children = SourcesTable!ChildRows(after)
        /\ served.state = SourcesTable!aggregateChildState(SourcesTable!ChildRows(after), own.state)
        /\ served.metrics = SourcesTable!summarizeChildMetrics(SourcesTable!ChildRows(after))
    BY <1>6, <2>1, <2>3, <2>4, TopRowIs
  <2> QED
    BY <2>5 DEF children, sum
<1>13. /\ shown.children = children
       /\ shown.state = SourcesTable!aggregateChildState(children, meta.state)
       /\ shown.metrics = SourcesTable!Spread(meta.metrics, sum)
  <2> DEFINE summary == SourcesTable!summarizeMeta(children, meta)
  <2>1. shown = [meta EXCEPT !.children = children, !.state = summary.state,
                             !.metrics = SourcesTable!Spread(meta.metrics, summary.metrics)]
    BY <1>9, <1>10 DEF SourcesTable!reaggregateMeta
  <2>2. summary.state = SourcesTable!aggregateChildState(children, meta.state)
        /\ summary.metrics = sum
    BY DEF SourcesTable!summarizeMeta
  <2>3. {"children", "state", "metrics"} \subseteq DOMAIN meta
    BY <1>10, <1>11
  <2> HIDE DEF shown, meta, children, summary, sum
  <2> QED
    BY <2>1, <2>2, <2>3
<1>14. SourcesTable!aggregateChildState(children, meta.state)
         = SourcesTable!aggregateChildState(children, own.state)
  <2> DEFINE states == {c.state : c \in SourcesTable!ToSet(children)}
  <2>1. children[i].state \in states
    BY <1>7 DEF SourcesTable!ToSet
  <2>2. ASSUME NEW fallback
        PROVE  SourcesTable!aggregateChildState(children, fallback) =
                 CASE states = {} -> fallback
                   [] SourcesTable!Cardinality(states) = 1 -> CHOOSE s \in states : TRUE
                   [] OTHER -> "mixed"
    BY DEF SourcesTable!aggregateChildState
  <2> HIDE DEF states
  <2>3. ASSUME NEW fallback
        PROVE  SourcesTable!aggregateChildState(children, fallback) =
                 IF SourcesTable!Cardinality(states) = 1 THEN CHOOSE s \in states : TRUE ELSE "mixed"
    <3>1. CASE SourcesTable!Cardinality(states) = 1
      BY <2>1, <2>2, <3>1
    <3>2. CASE SourcesTable!Cardinality(states) # 1
      BY <2>1, <2>2, <3>2
    <3> QED
      BY <3>1, <3>2
  <2> HIDE DEF children, meta, own
  <2> QED
    BY <2>3
<1>15. \A f \in DOMAIN sum : SourcesTable!Spread(meta.metrics, sum)[f] = sum[f]
  <2> HIDE DEF sum, meta
  <2> QED
    BY DEF SourcesTable!Spread
<1> HIDE DEF shown, served, children, sum, meta, own
<1> QED
  BY <1>12, <1>13, <1>14, <1>15

(* Among the rows of a family those of mode endpoint are those in that      *)
(* state, also where the state is summed up from the children.              *)
EndpointsApart(row) == row.mode = "endpoint" <=> row.state = "endpoint"

LEMMA RowsApart ==
    ASSUME NEW family, IsFamily(family)
    PROVE  LET row == SourcesTable!projectTopLevelRow(family)
           IN  /\ (family.top.mode = "endpoint" => family.children = << >>) => EndpointsApart(row)
               /\ \A c \in SourcesTable!ToSet(row.children) : EndpointsApart(c)
<1> DEFINE row == SourcesTable!projectTopLevelRow(family)
           own == RowOf(<<family.id>>, family.top)
           children == SourcesTable!ChildRows(family)
<1>1. /\ row.children = children /\ row.mode = family.top.mode
      /\ IF family.children = << >> \/ (own.mode = "in-memory" /\ own.state # "not-loaded")
         THEN row.state = own.state
         ELSE row.state = SourcesTable!aggregateChildState(children, own.state)
  BY TopRowIs
<1>2. own.mode = family.top.mode /\ EndpointsApart(own)
  BY StatesByMode DEF IsFamily, IsEntry, EndpointsApart
<1>3. \A i \in DOMAIN family.children :
         children[i].mode # "endpoint" /\ children[i].state # "endpoint"
  <2>1. ASSUME NEW e, NEW id, IsEntry(e), e.mode # "endpoint"
        PROVE  RowOf(id, e).mode # "endpoint" /\ RowOf(id, e).state # "endpoint"
    BY <2>1, StatesByMode DEF IsEntry
  <2> HIDE DEF children
  <2>2. \A i \in DOMAIN family.children :
           children[i] = RowOf(<<family.id, i>>, family.children[i])
    BY ChildRowsAre DEF children
  <2> QED
    BY <2>1, <2>2 DEF IsFamily
<1>4. DOMAIN children = DOMAIN family.children
  BY ChildRowsAre
<1>5. \A c \in SourcesTable!ToSet(children) : c.mode # "endpoint" /\ c.state # "endpoint"
  <2> HIDE DEF children
  <2> QED
    BY <1>3, <1>4 DEF SourcesTable!ToSet
<1>6. ASSUME family.children # << >>
      PROVE  SourcesTable!aggregateChildState(children, own.state) # "endpoint"
  <2> DEFINE states == {c.state : c \in SourcesTable!ToSet(children)}
  <2>1. 1 \in DOMAIN children
    <3>1. PICK S : family.children \in Seq(S)
      BY DEF IsFamily, IsList
    <3> QED
      BY <1>4, <1>6, <3>1
  <2>2. children[1].state \in states
    <3> HIDE DEF children
    <3> QED
      BY <2>1 DEF SourcesTable!ToSet
  <2>3. "endpoint" \notin states
    BY <1>5
  <2>4. SourcesTable!aggregateChildState(children, own.state) =
          CASE states = {} -> own.state
            [] SourcesTable!Cardinality(states) = 1 -> CHOOSE s \in states : TRUE
            [] OTHER -> "mixed"
    BY DEF SourcesTable!aggregateChildState
  <2> HIDE DEF states, own, children
  <2>5. CASE SourcesTable!Cardinality(states) = 1
    <3>1. SourcesTable!aggregateChildState(children, own.state) = CHOOSE s \in states : TRUE
      BY <2>2, <2>4, <2>5
    <3>2. (CHOOSE s \in states : TRUE) \in states
      BY <2>2
    <3> QED
      BY <2>3, <3>1, <3>2
  <2>6. CASE SourcesTable!Cardinality(states) # 1
    <3>1. SourcesTable!aggregateChildState(children, own.state) = "mixed"
      BY <2>2, <2>4, <2>6
    <3> QED
      BY <3>1
  <2> QED
    BY <2>5, <2>6
<1> HIDE DEF row, own, children
<1>7. (family.top.mode = "endpoint" => family.children = << >>) => EndpointsApart(row)
  BY <1>1, <1>2, <1>6 DEF EndpointsApart
<1>8. \A c \in SourcesTable!ToSet(row.children) : EndpointsApart(c)
  BY <1>1, <1>5 DEF EndpointsApart
<1> QED
  BY <1>7, <1>8 DEF row

(* A chip counts what its filter shows.                                     *)
LEMMA CountsAlwaysAgree ==
    ASSUME NEW rows,
           \A row \in rows : /\ EndpointsApart(row)
                             /\ \A c \in SourcesTable!ToSet(row.children) : EndpointsApart(c)
    PROVE  SourcesTable!CountsAgree(rows)
<1> DEFINE all == {row.id : row \in rows}
           every == SourcesTable!displayRows(rows, all)
<1>1. ASSUME NEW row \in every
      PROVE  EndpointsApart(row)
  BY DEF SourcesTable!displayRows
<1>2. ASSUME NEW e \in SUBSET all
      PROVE  SourcesTable!displayRows(rows, e) \subseteq every
  BY DEF SourcesTable!displayRows
<1> DEFINE Counted(f) == {row \in every :
              f = "all" \/ (IF row.mode = "endpoint" THEN "endpoint" ELSE row.state) = f}
<1>3. ASSUME NEW f \in SourcesTable!Filters
      PROVE  SourcesTable!counts(rows)[f] = SourcesTable!Cardinality(Counted(f))
  BY DEF SourcesTable!counts
<1> DEFINE Fits(row, f) == CASE f = "all" -> TRUE
                             [] f = "endpoint" -> row.mode = "endpoint"
                             [] OTHER -> row.mode # "endpoint" /\ row.state = f
<1>4. ASSUME NEW f, NEW e
      PROVE  SourcesTable!visibleRows(rows, e, f) =
                {row \in SourcesTable!displayRows(rows, e) : Fits(row, f)}
  BY DEF SourcesTable!visibleRows
<1>5. ASSUME NEW f, NEW row
      PROVE  Fits(row, f) <=> \/ f = "all"
                              \/ f = "endpoint" /\ row.mode = "endpoint"
                              \/ f \notin {"all", "endpoint"} /\ row.mode # "endpoint" /\ row.state = f
  <2>1. CASE f = "all"
    BY <2>1
  <2>2. CASE f = "endpoint"
    BY <2>2
  <2>3. CASE f \notin {"all", "endpoint"}
    BY <2>3
  <2> QED
    BY <2>1, <2>2, <2>3
<1> HIDE DEF Fits, every
<1>6. ASSUME NEW f \in SourcesTable!Filters
      PROVE  Counted(f) = SourcesTable!visibleRows(rows, all, f)
  <2>1. ASSUME NEW row \in every
        PROVE  (f = "all" \/ (IF row.mode = "endpoint" THEN "endpoint" ELSE row.state) = f)
                 <=> Fits(row, f)
    BY <1>1, <1>5 DEF EndpointsApart
  <2> QED
    BY <1>4, <2>1 DEF every
<1>7. ASSUME NEW f \in SourcesTable!Filters, NEW e \in SUBSET all
      PROVE  SourcesTable!visibleRows(rows, e, f) \subseteq SourcesTable!visibleRows(rows, all, f)
  BY <1>2, <1>4 DEF every
<1> HIDE DEF Counted, all
<1> QED
  BY <1>3, <1>6, <1>7 DEF SourcesTable!CountsAgree, all

(* Whatever becomes of the entries of a source and of the children of a     *)
(* split glob: its card offers what can be done about it, the server takes  *)
(* what is offered, the browser's rows are the server's, and the chips      *)
(* count what they filter.                                                  *)
THEOREM RowsAlwaysTrue ==
    ASSUME Reached("rows") => /\ IsFamily(probe.left) /\ probe.left.top.mode # "endpoint"
                              /\ IsEntry(probe.right) /\ probe.right.mode # "endpoint"
    PROVE  RowsAreTrue
<1> DEFINE family == probe.left
<1>1. SUFFICES ASSUME Reached("rows"), IsFamily(family), family.top.mode # "endpoint",
                      IsEntry(probe.right), probe.right.mode # "endpoint"
               PROVE  /\ SourcesTable!CardFits(probe.right)
                      /\ \A admin \in BOOLEAN : SourcesTable!ButtonsWork(family, admin)
                      /\ \A i \in DOMAIN family.children :
                            SourcesTable!BrowserAgrees(family, i, probe.right)
                      /\ SourcesTable!CountsAgree({SourcesTable!projectTopLevelRow(family),
                                                   SourcesTable!projectTopLevelRow(EndpointFamily)})
  BY DEF RowsAreTrue
<1>2. IsFamily(EndpointFamily) /\ EndpointFamily.children = << >>
  <2> DEFINE e == EndpointFamily.top
  <2>1. /\ EndpointFamily = [id |-> "e", top |-> e, children |-> << >>]
        /\ EndpointFamily.id = "e" /\ EndpointFamily.children = << >>
    BY DEF EndpointFamily
  <2>2. e.mode = "endpoint" /\ {e.building, e.failed, e.current, e.loading} \subseteq BOOLEAN
    BY DEF EndpointFamily, Facts
  <2> HIDE DEF e
  <2>3. IsEntry(e) /\ IsList(<< >>)
    BY <2>2 DEF IsEntry, IsList
  <2> QED
    BY <2>1, <2>3 DEF IsFamily, e
<1>3. /\ EndpointsApart(SourcesTable!projectTopLevelRow(family))
      /\ \A c \in SourcesTable!ToSet(SourcesTable!projectTopLevelRow(family).children) : EndpointsApart(c)
      /\ EndpointsApart(SourcesTable!projectTopLevelRow(EndpointFamily))
      /\ \A c \in SourcesTable!ToSet(SourcesTable!projectTopLevelRow(EndpointFamily).children) : EndpointsApart(c)
  BY <1>1, <1>2, RowsApart
<1>4. SourcesTable!CountsAgree({SourcesTable!projectTopLevelRow(family),
                                SourcesTable!projectTopLevelRow(EndpointFamily)})
  BY <1>3, CountsAlwaysAgree
<1> HIDE DEF family
<1> QED
  BY <1>1, <1>4, CardsAlwaysFit, ButtonsAlwaysWork, BrowserAlwaysAgrees

-----------------------------------------------------------------------------
(* The transforms of a source.  The list is applied entry by entry: what    *)
(* there is after n of them is store[n].                                    *)
Applied(list, perFile, pin, store, N) ==
    store = [n \in 0 .. N |->
               IF n = 0 THEN Targets!Merged(perFile)
               ELSE Targets!ApplyTransform(list[n], store[n - 1], perFile, pin)]

(* A set that holds zero, and each number after one it holds, has all to N. *)
LEMMA CountedUpTo ==
    ASSUME NEW N \in Nat, NEW T, 0 \in T, \A n \in 1 .. N : n - 1 \in T => n \in T
    PROVE  0 .. N \subseteq T
<1> DEFINE missing == {n \in 0 .. N : n \notin T}
<1>1. SUFFICES ASSUME missing # {} PROVE FALSE
  OBVIOUS
<1>2. PICK n \in missing : \A m \in missing : n <= m
  <2>1. missing \in SUBSET Nat
    OBVIOUS
  <2> HIDE DEF missing
  <2> QED
    BY <1>1, <2>1, LeastIndex
<1>3. n \in 1 .. N /\ n - 1 \in 0 .. N /\ ~(n <= n - 1)
  BY <1>2
<1> QED
  BY <1>2, <1>3

(* The pipeline is the last of the stores that its steps build.             *)
LEMMA PipelineDefined ==
    ASSUME NEW list, IsList(list), NEW perFile, NEW pin
    PROVE  \E store : /\ Applied(list, perFile, pin, store, Len(list))
                      /\ Targets!ApplyTransformPipeline(list, perFile, pin) = store[Len(list)]
<1> DEFINE N == Len(list)
           P == {M \in 0 .. N : \E f : Applied(list, perFile, pin, f, M)}
<1>1. N \in Nat
  BY ListDomain
<1>2. 0 \in P
  <2> DEFINE f == [n \in 0 .. 0 |-> Targets!Merged(perFile)]
  <2>1. Applied(list, perFile, pin, f, 0)
    BY DEF Applied
  <2> QED
    BY <1>1, <2>1
<1>3. ASSUME NEW M \in 1 .. N, M - 1 \in P
      PROVE  M \in P
  <2>1. PICK f : Applied(list, perFile, pin, f, M - 1)
    BY <1>3
  <2> DEFINE e == Targets!ApplyTransform(list[M], f[M - 1], perFile, pin)
             g == [n \in 0 .. M |-> IF n = M THEN e ELSE f[n]]
             step(h, n) == IF n = 0 THEN Targets!Merged(perFile)
                           ELSE Targets!ApplyTransform(list[n], h[n - 1], perFile, pin)
  <2>2. ASSUME NEW n \in 0 .. M
        PROVE  g[n] = step(g, n)
    <3>1. CASE n = M
      <4>1. g[n] = e /\ g[n - 1] = f[n - 1] /\ n # 0
        BY <3>1
      <4> QED
        BY <3>1, <4>1
    <3>2. CASE n # M
      <4>1. n \in 0 .. M - 1 /\ g[n] = f[n] /\ (n # 0 => g[n - 1] = f[n - 1])
        BY <3>2
      <4>2. f[n] = step(f, n)
        BY <2>1, <4>1 DEF Applied
      <4> QED
        BY <4>1, <4>2
    <3> QED
      BY <3>1, <3>2
  <2>3. g = [n \in 0 .. M |-> g[n]]
    <3> HIDE DEF e
    <3> QED
      OBVIOUS
  <2>4. Applied(list, perFile, pin, g, M)
    <3> HIDE DEF g
    <3> QED
      BY <2>2, <2>3 DEF Applied
  <2>5. \E h : Applied(list, perFile, pin, h, M)
    BY <2>4
  <2> QED
    BY <2>5
<1>4. 0 .. N \subseteq P
  <2> HIDE DEF P, N
  <2> QED
    BY <1>1, <1>2, <1>3, CountedUpTo
<1> DEFINE store == CHOOSE f : Applied(list, perFile, pin, f, N)
<1>5. Targets!ApplyTransformPipeline(list, perFile, pin) = store[N]
  BY DEF Targets!ApplyTransformPipeline, Applied
<1>6. Applied(list, perFile, pin, store, N)
  BY <1>1, <1>4
<1> QED
  BY <1>5, <1>6

(* What a transform does to the quads of several files it does to those of  *)
(* each.                                                                    *)
OneFile(perFile, f) == [g \in {f} |-> perFile[f]]
Joined(parts) == UNION {parts[f] : f \in DOMAIN parts}

LEMMA TransformsFileByFile ==
    ASSUME NEW entry, Targets!ParsesTransform(entry), NEW perFile, NEW pin,
           NEW parts, DOMAIN parts = DOMAIN perFile
    PROVE  Targets!ApplyTransform(entry, Joined(parts), perFile, pin)
             = Joined([f \in DOMAIN perFile |->
                         Targets!ApplyTransform(entry, parts[f], OneFile(perFile, f), pin)])
<1> DEFINE out(f) == Targets!ApplyTransform(entry, parts[f], OneFile(perFile, f), pin)
           whole == Targets!ApplyTransform(entry, Joined(parts), perFile, pin)
<1>1. Joined([f \in DOMAIN perFile |-> out(f)]) = UNION {out(f) : f \in DOMAIN perFile}
  <2> HIDE DEF out
  <2> QED
    BY DEF Joined
<1>2. whole = UNION {out(f) : f \in DOMAIN perFile}
  <2>1. CASE entry.key = "annotateSource"
    <3> DEFINE records(f) == {[t |-> <<quad.t[1], f, pin>>, g |-> Targets!DefaultGraph] :
                                 quad \in perFile[f]}
    <3>1. whole = Joined(parts) \union UNION {records(f) : f \in DOMAIN perFile}
      BY <2>1 DEF Targets!ApplyTransform, Targets!SourceRecords
    <3>2. \A f \in DOMAIN perFile : out(f) = parts[f] \union records(f)
      BY <2>1 DEF Targets!ApplyTransform, Targets!SourceRecords, OneFile
    <3> HIDE DEF records, out, whole
    <3> QED
      BY <3>1, <3>2 DEF Joined
  <2>2. CASE entry.key # "annotateSource" /\ entry.mode = "preserve"
    <3>1. whole = Joined(parts) /\ \A f \in DOMAIN perFile : out(f) = parts[f]
      BY <2>2 DEF Targets!ApplyTransform
    <3> HIDE DEF out, whole
    <3> QED
      BY <3>1 DEF Joined
  <2>3. CASE entry.key # "annotateSource" /\ entry.mode = "flatten"
    <3>1. /\ whole = {Targets!Renamed(quad, Targets!DefaultGraph) : quad \in Joined(parts)}
          /\ \A f \in DOMAIN perFile :
                out(f) = {Targets!Renamed(quad, Targets!DefaultGraph) : quad \in parts[f]}
      BY <2>3 DEF Targets!ApplyTransform, Targets!RewriteFlatten
    <3> HIDE DEF out, whole
    <3> QED
      BY <3>1 DEF Joined
  <2>4. CASE entry.key # "annotateSource" /\ entry.mode \in {"fillDefault", "forceAll"}
    <3> DEFINE named(f) == {Targets!GraphNameQuadRewriter(entry, f, quad) : quad \in perFile[f]}
    <3>1. whole = UNION {named(f) : f \in DOMAIN perFile}
      BY <2>4 DEF Targets!ApplyTransform, Targets!RewriteWithFileGraphs
    <3>2. \A f \in DOMAIN perFile : out(f) = named(f)
      BY <2>4 DEF Targets!ApplyTransform, Targets!RewriteWithFileGraphs, OneFile
    <3> HIDE DEF named, out, whole
    <3> QED
      BY <3>1, <3>2
  <2> QED
    BY <2>1, <2>2, <2>3, <2>4 DEF Targets!ParsesTransform, Targets!ParsesGraphName, Targets!GraphModes
<1> QED
  BY <1>1, <1>2

(* So does a whole list: no transform looks at two files at once.           *)
LEMMA PipelineFileByFile ==
    ASSUME NEW list, IsList(list), Targets!ParsesTransformList(list), NEW perFile, NEW pin
    PROVE  Targets!ApplyTransformPipeline(list, perFile, pin)
             = UNION {Targets!ApplyTransformPipeline(list, OneFile(perFile, f), pin) :
                        f \in DOMAIN perFile}
<1> DEFINE N == Len(list)
           files == DOMAIN perFile
           Of(f) == CHOOSE h : /\ Applied(list, OneFile(perFile, f), pin, h, N)
                               /\ Targets!ApplyTransformPipeline(list, OneFile(perFile, f), pin) = h[N]
<1>1. N \in Nat /\ DOMAIN list = 1 .. N
  BY ListDomain
<1>2. PICK store : /\ Applied(list, perFile, pin, store, N)
                   /\ Targets!ApplyTransformPipeline(list, perFile, pin) = store[N]
  BY PipelineDefined
<1>3. ASSUME NEW f \in files
      PROVE  /\ Applied(list, OneFile(perFile, f), pin, Of(f), N)
             /\ Targets!ApplyTransformPipeline(list, OneFile(perFile, f), pin) = Of(f)[N]
  BY PipelineDefined
<1> HIDE DEF Of, files, N
<1> DEFINE at(n) == [f \in files |-> Of(f)[n]]
           T == {n \in 0 .. N : store[n] = Joined(at(n))}
<1>4. 0 \in T
  <2>1. 0 \in 0 .. N
    BY <1>1
  <2>2. store[0] = Targets!Merged(perFile)
    BY <1>2, <2>1 DEF Applied
  <2>3. \A f \in files : Of(f)[0] = perFile[f]
    <3>1. ASSUME NEW f \in files
          PROVE  Of(f)[0] = Targets!Merged(OneFile(perFile, f))
      BY <1>3, <2>1 DEF Applied
    <3>2. \A f \in files : Targets!Merged(OneFile(perFile, f)) = perFile[f]
      <4> SUFFICES ASSUME NEW f \in files
                   PROVE  Targets!Merged(OneFile(perFile, f)) = perFile[f]
        OBVIOUS
      <4> DEFINE one == OneFile(perFile, f)
      <4>1. DOMAIN one = {f} /\ one[f] = perFile[f]
        BY DEF OneFile
      <4> HIDE DEF one
      <4>2. {one[g] : g \in DOMAIN one} = {perFile[f]}
        BY <4>1
      <4>3. Targets!Merged(one) = UNION {one[g] : g \in DOMAIN one}
        BY DEF Targets!Merged
      <4> QED
        BY <4>2, <4>3 DEF one
    <3> QED
      BY <3>1, <3>2
  <2>4. Joined(at(0)) = UNION {perFile[f] : f \in files}
    BY <2>3 DEF Joined
  <2> QED
    BY <2>1, <2>2, <2>4 DEF Targets!Merged, files
<1>5. ASSUME NEW n \in 1 .. N, n - 1 \in T
      PROVE  n \in T
  <2>1. n \in 0 .. N /\ n - 1 \in 0 .. N /\ n # 0 /\ n \in DOMAIN list
    BY <1>1
  <2>2. store[n] = Targets!ApplyTransform(list[n], store[n - 1], perFile, pin)
    BY <1>2, <2>1 DEF Applied
  <2>3. ASSUME NEW f \in files
        PROVE  Of(f)[n] = Targets!ApplyTransform(list[n], Of(f)[n - 1], OneFile(perFile, f), pin)
    BY <1>3, <2>1 DEF Applied
  <2>4. Targets!ParsesTransform(list[n])
    BY <2>1 DEF Targets!ParsesTransformList
  <2> DEFINE before == at(n - 1)
             next == [f \in files |->
                        Targets!ApplyTransform(list[n], before[f], OneFile(perFile, f), pin)]
  <2>5. store[n - 1] = Joined(before)
    BY <1>5
  <2>6. DOMAIN before = files /\ \A f \in files : before[f] = Of(f)[n - 1]
    OBVIOUS
  <2>7. next = at(n)
    <3> HIDE DEF before
    <3> QED
      BY <2>3, <2>6
  <2>8. Targets!ApplyTransform(list[n], Joined(before), perFile, pin) = Joined(next)
    <3> HIDE DEF before
    <3> QED
      BY <2>4, <2>6, TransformsFileByFile DEF files
  <2> HIDE DEF at, before, next
  <2> QED
    BY <2>1, <2>2, <2>5, <2>7, <2>8
<1>6. N \in T
  <2>1. 0 .. N \subseteq T
    <3> HIDE DEF T
    <3> QED
      BY <1>1, <1>4, <1>5, CountedUpTo
  <2> QED
    BY <1>1, <2>1
<1>7. store[N] = UNION {Of(f)[N] : f \in files}
  BY <1>6 DEF Joined
<1> QED
  BY <1>2, <1>3, <1>7 DEF files

(* A list that the index accepts has at most one entry, and a quad is then  *)
(* renamed as the heap renames it.                                          *)
LEMMA RewrittenByAtMostOne ==
    ASSUME NEW list, IsList(list), Len(list) <= 1, NEW file, NEW quad
    PROVE  Targets!Rewritten(list, file, quad)
             = IF Len(list) = 0 THEN quad
               ELSE Targets!GraphNameQuadRewriter(list[1], file, quad)
<1> DEFINE N == Len(list)
           step(h) == [n \in 0 .. N |->
                         IF n = 0 THEN quad
                         ELSE Targets!GraphNameQuadRewriter(list[n], file, h[n - 1])]
           out == CHOOSE h : h = step(h)
           first == Targets!GraphNameQuadRewriter(list[1], file, quad)
           given == [n \in 0 .. N |-> IF n = 0 THEN quad ELSE first]
<1>1. N \in {0, 1}
  <2>1. N \in Nat /\ N <= 1
    BY ListDomain
  <2> HIDE DEF N
  <2> QED
    BY <2>1
<1>2. Targets!Rewritten(list, file, quad) = out[N]
  BY DEF Targets!Rewritten
<1>3. given = step(given)
  <2>1. \A n \in 0 .. N : n = 0 \/ (n = 1 /\ N = 1 /\ given[n - 1] = quad)
    BY <1>1
  <2>2. \A n \in 0 .. N : given[n] = IF n = 0 THEN quad ELSE first
    OBVIOUS
  <2> HIDE DEF given, N
  <2>3. \A n \in 0 .. N : given[n] = IF n = 0 THEN quad
                 ELSE Targets!GraphNameQuadRewriter(list[n], file, given[n - 1])
    BY <2>1, <2>2
  <2>4. given = [n \in 0 .. N |-> given[n]]
    BY DEF given
  <2> QED
    BY <2>3, <2>4
<1>4. out = step(out)
  <2> HIDE DEF given, step
  <2> QED
    BY <1>3
<1>5. out[0] = quad /\ (N = 1 => out[1] = Targets!GraphNameQuadRewriter(list[1], file, out[0]))
  <2>1. 0 \in 0 .. N /\ (N = 1 => 1 \in 0 .. N)
    BY <1>1
  <2>2. \A n \in 0 .. N : out[n] = IF n = 0 THEN quad
                 ELSE Targets!GraphNameQuadRewriter(list[n], file, out[n - 1])
    <3> HIDE DEF out
    <3> QED
      BY <1>4
  <2> HIDE DEF out, N
  <2> QED
    BY <2>1, <2>2
<1>6. out[N] = IF N = 0 THEN quad ELSE Targets!GraphNameQuadRewriter(list[1], file, quad)
  <2> HIDE DEF out, N
  <2> QED
    BY <1>1, <1>5
<1> QED
  BY <1>2, <1>6

(* What such a list streams into an index is what the heap would hold.      *)
LEMMA StreamedAsLoaded ==
    ASSUME NEW list, IsList(list), Targets!ParsesTransformList(list), Targets!Streams(list),
           NEW perFile, NEW pin
    PROVE  Targets!StreamGlobQuads(list, perFile) = Targets!ApplyTransformPipeline(list, perFile, pin)
<1> DEFINE N == Len(list)
           streamed == Targets!StreamGlobQuads(list, perFile)
<1>1. N \in Nat /\ DOMAIN list = 1 .. N
  BY ListDomain
<1>2. N \in {0, 1}
  <2>1. ASSUME N > 1
        PROVE  FALSE
    <3>1. 1 \in DOMAIN list /\ 2 \in DOMAIN list
      BY <1>1, <2>1
    <3>2. list[1].key = list[2].key
      BY <3>1 DEF Targets!Streams
    <3> QED
      BY <3>1, <3>2 DEF Targets!ParsesTransformList
  <2> QED
    BY <1>1, <2>1
<1>3. PICK store : /\ Applied(list, perFile, pin, store, N)
                   /\ Targets!ApplyTransformPipeline(list, perFile, pin) = store[N]
  BY PipelineDefined
<1>4. CASE N = 0
  <2>1. store[0] = Targets!Merged(perFile)
    BY <1>3, <1>4 DEF Applied
  <2>2. \A f, quad : Targets!Rewritten(list, f, quad) = quad
    <3>1. N <= 1
      BY <1>4
    <3> QED
      BY <1>4, <3>1, RewrittenByAtMostOne
  <2>3. streamed = UNION {{quad : quad \in perFile[f]} : f \in DOMAIN perFile}
    BY <2>2 DEF Targets!StreamGlobQuads
  <2>4. \A f : {quad : quad \in perFile[f]} = perFile[f]
    OBVIOUS
  <2> QED
    BY <1>3, <1>4, <2>1, <2>3, <2>4 DEF Targets!Merged
<1>5. CASE N = 1
  <2>1. store[1] = Targets!ApplyTransform(list[1], Targets!Merged(perFile), perFile, pin)
    <3>1. 0 \in 0 .. 1 /\ 1 \in 0 .. 1 /\ 1 - 1 = 0
      OBVIOUS
    <3>2. store[0] = Targets!Merged(perFile)
      BY <1>3, <1>5, <3>1 DEF Applied
    <3>3. store[1] = Targets!ApplyTransform(list[1], store[1 - 1], perFile, pin)
      BY <1>3, <1>5, <3>1 DEF Applied
    <3> QED
      BY <3>1, <3>2, <3>3
  <2>2. \A f, quad : Targets!Rewritten(list, f, quad)
                       = Targets!GraphNameQuadRewriter(list[1], f, quad)
    <3>1. N <= 1 /\ N # 0
      BY <1>5
    <3> QED
      BY <3>1, RewrittenByAtMostOne
  <2>3. streamed = UNION {{Targets!GraphNameQuadRewriter(list[1], f, quad) : quad \in perFile[f]} :
                             f \in DOMAIN perFile}
    BY <2>2 DEF Targets!StreamGlobQuads
  <2>4. /\ list[1].key = "graphName"
        /\ list[1].mode \in {"preserve", "fillDefault", "forceAll", "flatten"}
    <3>1. 1 \in DOMAIN list
      BY <1>1, <1>5
    <3> QED
      BY <3>1 DEF Targets!Streams, Targets!ParsesTransformList, Targets!ParsesTransform,
                  Targets!ParsesGraphName, Targets!GraphModes
  <2>5. CASE list[1].mode = "preserve"
    <3>1. \A f, quad : Targets!GraphNameQuadRewriter(list[1], f, quad) = quad
      BY <2>5 DEF Targets!GraphNameQuadRewriter
    <3>2. store[1] = Targets!Merged(perFile)
      BY <2>1, <2>4, <2>5 DEF Targets!ApplyTransform
    <3>3. streamed = UNION {{quad : quad \in perFile[f]} : f \in DOMAIN perFile}
      BY <2>3, <3>1
    <3>4. \A f : {quad : quad \in perFile[f]} = perFile[f]
      OBVIOUS
    <3> QED
      BY <1>3, <1>5, <3>2, <3>3, <3>4 DEF Targets!Merged
  <2>6. CASE list[1].mode = "flatten"
    <3>1. \A f, quad : Targets!GraphNameQuadRewriter(list[1], f, quad)
                         = Targets!Renamed(quad, Targets!DefaultGraph)
      BY <2>6 DEF Targets!GraphNameQuadRewriter
    <3>2. store[1] = {Targets!Renamed(quad, Targets!DefaultGraph) : quad \in Targets!Merged(perFile)}
      BY <2>1, <2>4, <2>6 DEF Targets!ApplyTransform, Targets!RewriteFlatten
    <3>3. streamed = UNION {{Targets!Renamed(quad, Targets!DefaultGraph) : quad \in perFile[f]} :
                               f \in DOMAIN perFile}
      BY <2>3, <3>1
    <3> DEFINE flat(quad) == Targets!Renamed(quad, Targets!DefaultGraph)
    <3>4. store[1] = streamed
      <4>1. {flat(quad) : quad \in UNION {perFile[f] : f \in DOMAIN perFile}}
              = UNION {{flat(quad) : quad \in perFile[f]} : f \in DOMAIN perFile}
        <5> HIDE DEF flat
        <5> QED
          OBVIOUS
      <4> HIDE DEF streamed
      <4> QED
        BY <3>2, <3>3, <4>1 DEF Targets!Merged
    <3> QED
      BY <1>3, <1>5, <3>4
  <2>7. CASE list[1].mode \in {"fillDefault", "forceAll"}
    <3>1. store[1] = Targets!RewriteWithFileGraphs(list[1], perFile)
      BY <2>1, <2>4, <2>7 DEF Targets!ApplyTransform
    <3> QED
      BY <1>3, <1>5, <2>3, <3>1 DEF Targets!RewriteWithFileGraphs
  <2> QED
    BY <2>4, <2>5, <2>6, <2>7
<1> QED
  BY <1>2, <1>4, <1>5

(* A parsed source is a record of these fields.                             *)
SourceFields == {"kind", "id", "files", "prefix", "parent", "declared", "list", "split",
                 "union", "storage", "ref", "root", "sha", "repo", "cache", "auth", "default"}
IsSource(source) == DOMAIN source = SourceFields

Pinned(entry, ref) == IF ref = Targets!NoPin THEN entry ELSE [entry EXCEPT !.ref = ref]

(* An address pin changes one field.                                        *)
LEMMA PinnedFields ==
    ASSUME NEW entry, IsSource(entry), NEW ref
    PROVE  /\ IsSource(Pinned(entry, ref))
           /\ \A field \in SourceFields \ {"ref"} : Pinned(entry, ref)[field] = entry[field]
           /\ Pinned(entry, ref).ref = IF ref = Targets!NoPin THEN entry.ref ELSE ref
BY DEF IsSource, SourceFields, Pinned

(* It moves no source between the tiers.                                    *)
LEMMA TierOfPinned ==
    ASSUME NEW entry, IsSource(entry), NEW ref
    PROVE  /\ Targets!StorageTier(Pinned(entry, ref)) = Targets!StorageTier(entry)
           /\ Pinned(entry, ref).kind = entry.kind
           /\ ~Targets!Unresolved(Pinned(entry, ref))
<1> DEFINE target == Pinned(entry, ref)
<1>1. IsSource(target) /\ \A field \in SourceFields \ {"ref"} : target[field] = entry[field]
  BY PinnedFields
<1>2. target.kind = entry.kind /\ target.storage = entry.storage
  BY <1>1 DEF SourceFields
<1>3. "mode" \notin DOMAIN target
  BY <1>1 DEF IsSource, SourceFields
<1> HIDE DEF target
<1>4. /\ Targets!StorageTier(target) = Targets!StorageTier(entry)
      /\ target.kind = entry.kind
      /\ ~Targets!Unresolved(target)
  BY <1>2, <1>3 DEF Targets!StorageTier, Targets!Unresolved
<1> QED
  BY <1>4 DEF target

(* A refusal is no source and reads nothing.                                *)
LEMMA FailuresDoNotRead ==
    ASSUME NEW why
    PROVE  Targets!Unresolved(Targets!Failed(why)) /\ ~Targets!Reads(Targets!Failed(why))
BY DEF Targets!Failed, Targets!Unresolved, Targets!Reads

(* The surfaces mean the same source by an address, and load it in the same *)
(* way.                                                                     *)
LEMMA SelectedEntry ==
    ASSUME NEW registry, NEW address, NEW entry, IsSource(entry),
           Targets!Named(registry, address.id) = {entry},
           entry.kind = "glob" \/ entry.kind = "file",
           entry.kind = "glob" \/ address.ref = Targets!NoPin,
           DOMAIN address = {"id", "ref"}
    PROVE  LET target == Pinned(entry, address.ref)
               Means(selected) == selected = target \/ \E why : selected = Targets!Failed(why)
           IN  /\ Means(Targets!QueryTarget(registry, address, Targets!NoPin))
               /\ Means(Targets!HashTarget(registry, address, Targets!NoPin))
               /\ Means(Targets!SelectTarget(registry, address))
               /\ Means(Targets!SelectFromRegistry(registry, address))
<1> DEFINE target == Pinned(entry, address.ref)
           Means(selected) == selected = target \/ \E why : selected = Targets!Failed(why)
           bare == [address EXCEPT !.ref = Targets!NoPin]
<1>1. bare.id = address.id /\ bare.ref = Targets!NoPin
  OBVIOUS
<1>2. (CHOOSE source \in {entry} : TRUE) = entry /\ {entry} # {}
  OBVIOUS
<1>3. "mode" \notin DOMAIN entry /\ "mode" \notin DOMAIN target
  BY PinnedFields DEF IsSource, SourceFields
<1>4. entry.kind # "reference" /\ target.kind # "reference" /\ target.kind = entry.kind
  BY TierOfPinned
<1>5. \A why : "mode" \in DOMAIN Targets!Failed(why)
  BY DEF Targets!Failed
<1>6. Means(Targets!ResolveRef(registry, address))
  BY <1>2 DEF Targets!ResolveRef, Targets!ApplyAddressPin, Pinned
<1>7. Means(Targets!SelectTarget(registry, address))
  BY <1>3, <1>4, <1>5, <1>6 DEF Targets!SelectTarget, Targets!Unresolved
<1>8. \/ Targets!SelectTarget(registry, bare) = entry
      \/ \E why : Targets!SelectTarget(registry, bare) = Targets!Failed(why)
  <2>1. \/ Targets!ResolveRef(registry, bare) = entry
        \/ \E why : Targets!ResolveRef(registry, bare) = Targets!Failed(why)
    BY <1>1, <1>2 DEF Targets!ResolveRef
  <2> QED
    BY <1>3, <1>4, <1>5, <2>1 DEF Targets!SelectTarget, Targets!Unresolved
<1>9. Means(Targets!Positional(registry, address))
  <2>1. Means(Targets!ApplyAtOverride(Targets!SelectTarget(registry, bare), address.ref))
    <3> HIDE DEF bare
    <3> QED
      BY <1>3, <1>4, <1>5, <1>8 DEF Targets!ApplyAtOverride, Targets!Unresolved, Pinned
  <2> HIDE DEF target
  <2> QED
    BY <2>1 DEF Targets!Positional
<1>10. \A selected : Targets!ApplyAtOverride(selected, Targets!NoPin) = selected
  BY DEF Targets!ApplyAtOverride
<1>11. Means(Targets!QueryTarget(registry, address, Targets!NoPin))
  BY <1>9, <1>10 DEF Targets!QueryTarget
<1>12. Means(Targets!HashTarget(registry, address, Targets!NoPin))
  BY <1>7, <1>10 DEF Targets!HashTarget
<1>13. Means(Targets!SelectFromRegistry(registry, address))
  <2> DEFINE found == {source \in Targets!Named(registry, address.id) : source.kind # "reference"}
  <2>1. found = {entry}
    BY <1>4
  <2>2. Targets!SelectFromRegistry(registry, address)
          = IF ~Targets!ParsesAddress(address) \/ found = {} THEN Targets!Failed("unknown-ref")
            ELSE IF address.ref = Targets!NoPin THEN CHOOSE source \in found : TRUE
            ELSE Targets!PinSide(CHOOSE source \in found : TRUE, address.ref)
    BY DEF Targets!SelectFromRegistry
  <2>3. address.ref # Targets!NoPin => Targets!PinSide(entry, address.ref) = target
    BY DEF Targets!PinSide, Targets!ApplyAddressPin, Pinned
  <2>4. address.ref = Targets!NoPin => target = entry
    BY DEF Pinned
  <2> HIDE DEF found, target
  <2> QED
    BY <1>2, <2>1, <2>2, <2>3, <2>4
<1> QED
  BY <1>7, <1>11, <1>12, <1>13

(* Every surface that reads anything reads what the pinned source holds.    *)
LEMMA SidesLoadAlike ==
    ASSUME NEW registry, NEW address, NEW entry, IsSource(entry),
           Targets!Named(registry, address.id) = {entry},
           entry.kind = "glob" \/ entry.kind = "file",
           entry.kind = "glob" \/ address.ref = Targets!NoPin,
           DOMAIN address = {"id", "ref"},
           Targets!StorageTier(entry) = "memory",
           NEW side \in Targets!RawSides(registry, address), Targets!Reads(side)
    PROVE  side = Targets!ResolveSource(Pinned(entry, address.ref))
<1> DEFINE target == Pinned(entry, address.ref)
           loaded == Targets!ResolveSource(target)
           Means(selected) == selected = target \/ \E why : selected = Targets!Failed(why)
           Loads(result) == Targets!Reads(result) => result = loaded
<1>1. /\ Targets!StorageTier(target) = "memory"
      /\ target.kind # "endpoint"
      /\ ~Targets!Unresolved(target)
  BY TierOfPinned
<1>2. \A why : Targets!Unresolved(Targets!Failed(why)) /\ ~Targets!Reads(Targets!Failed(why))
  BY FailuresDoNotRead
<1>3. /\ Means(Targets!QueryTarget(registry, address, Targets!NoPin))
      /\ Means(Targets!HashTarget(registry, address, Targets!NoPin))
      /\ Means(Targets!SelectTarget(registry, address))
      /\ Means(Targets!SelectFromRegistry(registry, address))
  BY SelectedEntry
<1> HIDE DEF target
<1>4. \A selected : Means(selected) => Loads(Targets!Resolved(selected))
  BY <1>1, <1>2 DEF Targets!Resolved
<1>5. \A selected : Means(selected) => Loads(Targets!RawSide(selected))
  BY <1>1, <1>2 DEF Targets!RawSide, Targets!RawPassThrough
<1>6. Loads(Targets!QuerySide(registry, address, Targets!NoPin))
  BY <1>3, <1>4 DEF Targets!QuerySide
<1>7. Loads(Targets!HashSide(registry, address, Targets!NoPin, FALSE))
  BY <1>3, <1>5 DEF Targets!HashSide
<1>8. Loads(Targets!CliDiffSide(registry, address, Targets!NoPin, FALSE))
  BY <1>3, <1>5 DEF Targets!CliDiffSide
<1>9. Targets!EnsureRegistered(target) = loaded
  BY <1>1 DEF Targets!EnsureRegistered
<1>10. Loads(Targets!EnsureAdHoc(target))
  BY <1>2 DEF Targets!EnsureAdHoc
<1>11. Loads(Targets!RouteSide(registry, address))
  BY <1>1, <1>2, <1>3, <1>9, <1>10 DEF Targets!RouteSide
<1>12. Loads(Targets!LoadSideSources(registry, target))
  BY <1>9 DEF Targets!LoadSideSources
<1>13. Loads(Targets!ServerDiffSide(registry, address, FALSE))
  BY <1>1, <1>2, <1>3, <1>12 DEF Targets!ServerDiffSide, Targets!RawPassThrough
<1>14. Loads(side)
  <2> HIDE DEF Loads
  <2> QED
    BY <1>6, <1>7, <1>8, <1>11, <1>13 DEF Targets!RawSides
<1> QED
  BY <1>14 DEF target

(* A load reads one tree: that of the pin.                                  *)
LEMMA GlobReadsItsPin ==
    ASSUME NEW source, source.kind = "glob", Targets!StorageTier(source) # "disk",
           Targets!Reads(Targets!ResolveSource(source))
    PROVE  Targets!ResolveSource(source).tree = Targets!TreeOf(source.ref)
<1> DEFINE list == Targets!EffectiveTransforms(source.declared, source.list, "preserve")
           loaded == Targets!LoadGlobIntoStore(source, list)
           pinned == Targets!PinGlobSource(source)
           walked == Targets!WalkGitTree(source, pinned)
<1>1. Targets!ResolveSource(source) = loaded
  BY DEF Targets!ResolveSource, Targets!ResolveGlob
<1>2. ASSUME NEW tree, NEW files, NEW pin, Targets!Reads(Targets!LoadTree(tree, files, list, pin))
      PROVE  Targets!LoadTree(tree, files, list, pin).tree = tree
  BY <1>2, FailuresDoNotRead DEF Targets!LoadTree
<1> HIDE DEF list
<1>3. CASE source.ref = Targets!NoPin
  BY <1>1, <1>2, <1>3 DEF Targets!LoadGlobIntoStore, Targets!TreeOf
<1>4. CASE source.ref # Targets!NoPin
  <2>1. loaded = IF Targets!IsFailed(pinned) THEN pinned
                 ELSE IF Targets!IsFailed(walked) THEN walked
                 ELSE Targets!LoadTree(pinned.sha, walked.files, list, source.ref)
    BY <1>4 DEF Targets!LoadGlobIntoStore, Targets!LoadPinnedGlobFromTree
  <2>2. \A result : Targets!IsFailed(result) => ~Targets!Reads(result)
    BY DEF Targets!IsFailed, Targets!Reads
  <2>3. ~Targets!IsFailed(pinned) => pinned.sha = ShaOf[source.ref]
    BY DEF Targets!PinGlobSource, Targets!IsFailed, Targets!Failed
  <2> HIDE DEF pinned, walked, loaded
  <2> QED
    BY <1>1, <1>2, <1>4, <2>1, <2>2, <2>3 DEF Targets!TreeOf
<1> QED
  BY <1>3, <1>4

(* What the diff route loads of a glob under an inline query.               *)
Requoted(target) ==
    Targets!ExecuteInlineQuery(Targets!ParseSourceSpec(Targets!GlobUpstreamSpec(target)))

LEMMA ScopedSide ==
    ASSUME NEW registry, NEW address
    PROVE  LET target == Targets!SelectFromRegistry(registry, address)
           IN  Targets!ServerDiffSide(registry, address, TRUE)
                 = IF Targets!Unresolved(target) THEN target
                   ELSE IF target.kind \notin {"glob", "file", "endpoint"}
                        THEN Targets!Failed("inline-upstream-kind")
                   ELSE Requoted(target)
BY DEF Targets!ServerDiffSide, Targets!Scoped, Requoted

LEMMA ScopedGlobReadsItsPin ==
    ASSUME NEW target, IsSource(target), target.kind = "glob", Targets!Reads(Requoted(target))
    PROVE  Requoted(target).tree = Targets!TreeOf(target.ref)
<1> DEFINE spec == Targets!GlobUpstreamSpec(target)
           upstream == Targets!ParseSourceSpec(spec)
           result == Targets!ExecuteInlineQuery(upstream)
<1>1. Requoted(target) = result
  BY DEF Requoted
<1>2. CASE target.ref = Targets!NoPin
  <2>1. spec = [text |-> "glob", files |-> target.files, prefix |-> target.prefix, of |-> Targets!NoId]
    BY <1>2 DEF Targets!GlobUpstreamSpec, Targets!InlineQueryUpstream, Targets!GlobText, Targets!Text
  <2>2. upstream = [Targets!Blank EXCEPT !.files = spec.files, !.prefix = spec.prefix]
    BY <2>1 DEF Targets!ParseSourceSpec, Targets!FromText, Targets!Absent
  <2>3. upstream.kind = "glob" /\ upstream.storage = Targets!Absent /\ upstream.ref = Targets!NoPin
    BY <2>2 DEF Targets!Blank
  <2> HIDE DEF upstream
  <2>4. Targets!StorageTier(upstream) # "disk"
    BY <2>3 DEF Targets!StorageTier
  <2>5. result = Targets!LoadTree(Targets!Working, Targets!Matched(upstream, Targets!Working),
                                  upstream.list, Targets!NoPin)
    BY <2>3, <2>4 DEF Targets!ExecuteInlineQuery
  <2> QED
    BY <1>1, <1>2, <2>5, FailuresDoNotRead DEF Targets!LoadTree, Targets!TreeOf
<1>3. CASE target.ref # Targets!NoPin
  <2>1. /\ spec.text = Targets!Absent /\ spec.forms = {"glob"} /\ spec.ref = target.ref
        /\ "gitRef" \in spec.given /\ "storage" \notin spec.given
    BY <1>3 DEF Targets!GlobUpstreamSpec
  <2> HIDE DEF spec
  <2>2. upstream = Targets!Rejected \/ upstream = Targets!FromObject(spec)
    BY <2>1 DEF Targets!ParseSourceSpec
  <2>3. CASE upstream = Targets!Rejected
    BY <1>1, <2>3, FailuresDoNotRead DEF Targets!Rejected, Targets!ExecuteInlineQuery
  <2>4. CASE upstream = Targets!FromObject(spec)
    <3> DEFINE common == [Targets!Blank EXCEPT !.id = spec.id, !.default = Targets!Given(spec, "default")]
    <3>1. upstream.kind = "glob" /\ upstream.ref = target.ref /\ upstream.storage = Targets!Absent
      <4>1. upstream = [common EXCEPT
                !.files = spec.files, !.prefix = spec.prefix,
                !.declared = Targets!Given(spec, "transforms"),
                !.list = Targets!Kept(spec, "transforms", spec.transforms, << >>),
                !.split = Targets!Given(spec, "splitByFile"),
                !.union = Targets!Kept(spec, "unionDefaultGraph", spec.union, Targets!Absent),
                !.storage = Targets!Kept(spec, "storage", spec.storage, Targets!Absent),
                !.ref = Targets!Kept(spec, "gitRef", spec.ref, Targets!NoPin),
                !.root = Targets!Kept(spec, "gitRoot", spec.root, Targets!NoId),
                !.cache = Targets!PickQueryCache(spec)]
        BY <2>1, <2>4 DEF Targets!FromObject
      <4>2. Targets!Kept(spec, "gitRef", spec.ref, Targets!NoPin) = target.ref
        BY <2>1 DEF Targets!Kept, Targets!Given
      <4>3. Targets!Kept(spec, "storage", spec.storage, Targets!Absent) = Targets!Absent
        BY <2>1 DEF Targets!Kept, Targets!Given
      <4>4. common.kind = "glob" /\ {"kind", "ref", "storage"} \subseteq DOMAIN common
        BY DEF Targets!Blank
      <4> HIDE DEF common, upstream
      <4> QED
        BY <4>1, <4>2, <4>3, <4>4
    <3> HIDE DEF upstream
    <3>2. Targets!StorageTier(upstream) # "disk"
      BY <3>1 DEF Targets!StorageTier
    <3>3. result = Targets!ResolveSource(upstream)
      BY <1>3, <3>1, <3>2 DEF Targets!ExecuteInlineQuery
    <3> HIDE DEF result
    <3> QED
      BY <1>1, <3>1, <3>2, <3>3, GlobReadsItsPin
  <2> QED
    BY <2>2, <2>3, <2>4
<1> QED
  BY <1>2, <1>3

(* Paths and ids.  The files of a glob lie below its static prefix, which   *)
(* occurs once in their paths.                                              *)
Below(prefix, path) ==
    /\ Len(prefix) < Len(path)
    /\ \A n \in Len(prefix) .. Len(path) - 1 :
          SubSeq(path, n - Len(prefix) + 1, n) = prefix <=> n = Len(prefix)

(* A file below the prefix starts with it.                                  *)
LEMMA StartsWithPrefix ==
    ASSUME NEW S, NEW prefix \in Seq(S), NEW path \in Seq(S), Below(prefix, path)
    PROVE  /\ Len(prefix) \in Nat /\ Len(path) \in Nat /\ Len(prefix) < Len(path)
           /\ SubSeq(path, 1, Len(prefix)) = prefix
           /\ \A i \in 1 .. Len(prefix) : path[i] = prefix[i]
<1> DEFINE n == Len(prefix)
<1>1. n \in Nat /\ Len(path) \in Nat /\ n < Len(path)
  BY DEF Below
<1>2. n \in n .. Len(path) - 1 /\ n - n + 1 = 1
  BY <1>1
<1>3. SubSeq(path, 1, n) = prefix
  BY <1>2 DEF Below
<1>4. \A i \in 1 .. n : SubSeq(path, 1, n)[i] = path[i]
  BY <1>1
<1> QED
  BY <1>1, <1>3, <1>4

(* What holds the prefix of a glob holds its files.                         *)
LEMMA PrefixOfPrefix ==
    ASSUME NEW S, NEW prefix \in Seq(S), NEW path \in Seq(S), Below(prefix, path),
           NEW repo \in Seq(S), Targets!IsPrefix(repo, prefix)
    PROVE  Targets!IsPrefix(repo, path)
<1> DEFINE n == Len(repo)
<1>1. n \in Nat /\ n <= Len(prefix) /\ SubSeq(repo, 1, n) = SubSeq(prefix, 1, n)
  BY DEF Targets!IsPrefix
<1>2. Len(prefix) \in Nat /\ Len(path) \in Nat /\ Len(prefix) < Len(path)
  BY StartsWithPrefix
<1>3. \A i \in 1 .. n : path[i] = prefix[i]
  BY <1>1, <1>2, StartsWithPrefix
<1>4. SubSeq(prefix, 1, n) = SubSeq(path, 1, n)
  <2>1. /\ SubSeq(prefix, 1, n) = [i \in 1 .. n |-> prefix[i]]
        /\ SubSeq(path, 1, n) = [i \in 1 .. n |-> path[i]]
    BY <1>1, <1>2
  <2> QED
    BY <1>3, <2>1
<1>5. n <= Len(path)
  BY <1>1, <1>2
<1> QED
  BY <1>1, <1>4, <1>5 DEF Targets!IsPrefix

(* A child is named by the path of its file below the prefix.               *)
LEMMA ChildIdIs ==
    ASSUME NEW S, NEW prefix \in Seq(S), prefix # << >>, NEW path \in Seq(S),
           Below(prefix, path), NEW parent
    PROVE  Targets!DeriveFileSourceId(parent, prefix, path)
             = parent \o SubSeq(path, Len(prefix) + 1, Len(path))
<1> DEFINE Ends == {n \in Len(prefix) .. (Len(path) - 1) :
                       SubSeq(path, n - Len(prefix) + 1, n) = prefix}
<1>1. Len(prefix) \in Nat /\ Len(path) \in Nat /\ Len(prefix) < Len(path)
  BY StartsWithPrefix
<1>2. Ends = {Len(prefix)}
  <2>1. Len(prefix) \in Len(prefix) .. (Len(path) - 1)
    BY <1>1
  <2> QED
    BY <2>1 DEF Below
<1>3. Targets!Max({Len(prefix)}) = Len(prefix)
  <2>1. \A x \in {Len(prefix)} : (\A y \in {Len(prefix)} : x >= y) <=> TRUE
    BY <1>1
  <2> QED
    BY <2>1 DEF Targets!Max
<1>4. Targets!DeriveFileSourceId(parent, prefix, path)
        = IF prefix = << >> \/ Ends = {} THEN parent \o <<Targets!Last(path)>>
          ELSE parent \o Targets!Rest(path, Targets!Max(Ends))
  BY DEF Targets!DeriveFileSourceId
<1> HIDE DEF Ends
<1> QED
  BY <1>2, <1>3, <1>4 DEF Targets!Rest

(* Two children have two names, and none has that of the glob.              *)
LEMMA ChildIdsApart ==
    ASSUME NEW S, NEW parent \in Seq(S), NEW prefix \in Seq(S), prefix # << >>,
           NEW p \in Seq(S), Below(prefix, p), NEW q \in Seq(S), Below(prefix, q)
    PROVE  /\ Targets!DeriveFileSourceId(parent, prefix, p) # parent
           /\ Targets!DeriveFileSourceId(parent, prefix, p)
                = Targets!DeriveFileSourceId(parent, prefix, q) => p = q
<1> DEFINE n == Len(prefix)
           k == Len(parent)
           Behind(path) == SubSeq(path, n + 1, Len(path))
           Id(path) == parent \o Behind(path)
<1>1. /\ n \in Nat /\ k \in Nat /\ Len(p) \in Nat /\ Len(q) \in Nat
      /\ n < Len(p) /\ n < Len(q)
      /\ \A i \in 1 .. n : p[i] = prefix[i] /\ q[i] = prefix[i]
  BY StartsWithPrefix
<1>2. \A path \in {p, q} : Targets!DeriveFileSourceId(parent, prefix, path) = Id(path)
  BY ChildIdIs
<1>3. \A path \in {p, q} : /\ Behind(path) \in Seq(S)
                           /\ Len(Behind(path)) = Len(path) - n
                           /\ \A j \in 1 .. Len(path) - n : Behind(path)[j] = path[n + j]
  BY <1>1
<1>4. \A path \in {p, q} : /\ Len(Id(path)) = k + (Len(path) - n)
                           /\ \A j \in 1 .. Len(path) - n : Id(path)[k + j] = path[n + j]
  <2> HIDE DEF Behind
  <2>1. ASSUME NEW path \in {p, q}
        PROVE  /\ Len(Id(path)) = k + (Len(path) - n)
               /\ \A j \in 1 .. Len(path) - n : Id(path)[k + j] = path[n + j]
    <3>1. Behind(path) \in Seq(S) /\ Len(Behind(path)) = Len(path) - n /\ Len(path) \in Nat
      BY <1>1, <1>3
    <3>2. Len(Id(path)) = k + (Len(path) - n)
      <4> DEFINE rest == Behind(path)
      <4>1. Len(parent \o rest) = Len(parent) + Len(rest)
        <5> HIDE DEF rest
        <5> QED
          BY <3>1, ConcatProperties DEF rest
      <4> QED
        BY <3>1, <4>1
    <3>3. \A j \in 1 .. Len(path) - n : Id(path)[k + j] = Behind(path)[j]
      <4> DEFINE rest == Behind(path)
      <4>1. rest \in Seq(S) /\ Len(rest) = Len(path) - n /\ Len(path) - n \in Nat
        BY <1>1, <3>1
      <4>2. \A i \in 1 .. k + Len(rest) :
               (parent \o rest)[i] = IF i <= k THEN parent[i] ELSE rest[i - k]
        BY <4>1, ConcatProperties
      <4>3. \A j \in 1 .. Len(path) - n :
               k + j \in 1 .. k + Len(rest) /\ ~(k + j <= k) /\ (k + j) - k = j
        BY <1>1, <4>1
      <4> HIDE DEF rest
      <4>4. \A j \in 1 .. Len(path) - n : (parent \o rest)[k + j] = rest[j]
        BY <4>2, <4>3
      <4> QED
        BY <4>4 DEF rest
    <3> QED
      BY <1>3, <3>2, <3>3
  <2> QED
    BY <2>1
<1>5. Id(p) # parent
  <2> HIDE DEF Id
  <2> QED
    BY <1>1, <1>4
<1>6. ASSUME Id(p) = Id(q)
      PROVE  p = q
  <2>1. Len(p) = Len(q)
    <3> HIDE DEF Id
    <3> QED
      BY <1>1, <1>4, <1>6
  <2>2. ASSUME NEW i \in 1 .. Len(p)
        PROVE  p[i] = q[i]
    <3>1. CASE i <= n
      BY <1>1, <3>1
    <3>2. CASE i > n
      <4>1. i - n \in 1 .. Len(p) - n /\ n + (i - n) = i
        BY <1>1, <3>2
      <4> HIDE DEF Id
      <4> QED
        BY <1>4, <1>6, <2>1, <4>1
    <3> QED
      BY <1>1, <3>1, <3>2
  <2> QED
    BY <2>1, <2>2, SeqEqual
<1> QED
  BY <1>2, <1>5, <1>6

(* The innermost repository above a directory is one of its ancestors.      *)
LEMMA RepoAboveIsPath ==
    ASSUME NEW S, NEW directory \in Seq(S)
    PROVE  Targets!RepoAbove(directory) \in Seq(S)
<1> DEFINE found == Targets!Ancestors(directory) \intersect GitDirs
           gaps == {Len(directory) - Len(d) : d \in found}
<1>1. CASE found = {}
  BY <1>1 DEF Targets!RepoAbove, Targets!NoId
<1>2. CASE found # {}
  <2>1. \A d \in found : d \in Seq(S) /\ Len(d) \in 0 .. Len(directory) /\ Len(directory) \in Nat
    BY DEF Targets!Ancestors
  <2>2. gaps \in SUBSET Nat /\ gaps # {}
    <3> HIDE DEF found
    <3> QED
      BY <1>2, <2>1
  <2>3. PICK g \in gaps : \A h \in gaps : g <= h
    <3> HIDE DEF gaps
    <3> QED
      BY <2>2, LeastIndex
  <2>4. PICK d \in found : g = Len(directory) - Len(d)
    OBVIOUS
  <2>5. \A e \in found : Len(e) <= Len(d)
    <3>1. ASSUME NEW e \in found
          PROVE  Len(e) <= Len(d)
      <4>1. Len(directory) - Len(d) <= Len(directory) - Len(e)
        BY <2>3, <2>4
      <4> HIDE DEF found
      <4> QED
        BY <2>1, <4>1
    <3> QED
      BY <3>1
  <2>6. Targets!RepoAbove(directory) = CHOOSE x \in found : \A e \in found : Len(e) <= Len(x)
    BY <1>2 DEF Targets!RepoAbove
  <2> HIDE DEF found
  <2> QED
    BY <2>1, <2>5, <2>6
<1> QED
  BY <1>1, <1>2

(* A declared glob, and its children.                                       *)
IsGlob(meta) ==
    /\ IsSource(meta) /\ meta.kind = "glob"
    /\ meta.declared \/ meta.list = << >>
    /\ IsList(meta.list) /\ Targets!ParsesTransformList(meta.list)

CommitOf(meta) == IF meta.ref = Targets!NoPin THEN Targets!NoPin ELSE ShaOf[meta.ref]
RepoOf(meta) == IF meta.ref = Targets!NoPin THEN Targets!NoId ELSE Targets!DiscoverRepoRoot(meta)
FilesOf(meta) == Targets!Matched(meta, Targets!TreeOf(meta.ref))
ChildOf(meta, path) == Targets!SynthesizeChild(meta, path, RepoOf(meta), CommitOf(meta))

(* A glob that declares no transforms is read as it is.                     *)
LEMMA ListOfGlob ==
    ASSUME NEW meta, IsGlob(meta)
    PROVE  Targets!EffectiveTransforms(meta.declared, meta.list, "preserve") = meta.list
BY DEF IsGlob, Targets!EffectiveTransforms

(* The fields of a child.                                                   *)
LEMMA ChildFields ==
    ASSUME NEW meta, IsSource(meta), NEW path
    PROVE  LET child == ChildOf(meta, path)
           IN  /\ IsSource(child) /\ child.kind = "file" /\ child.files = {path}
               /\ child.id = Targets!DeriveFileSourceId(meta.id, meta.prefix, path)
               /\ child.list = meta.list /\ child.storage = meta.storage
               /\ child.ref = meta.ref /\ child.repo = RepoOf(meta) /\ child.sha = CommitOf(meta)
BY DEF IsSource, SourceFields, ChildOf, Targets!SynthesizeChild

(* A child is of the tier of its glob.                                      *)
LEMMA ChildTier ==
    ASSUME NEW meta, IsGlob(meta), NEW path
    PROVE  Targets!StorageTier(ChildOf(meta, path)) = Targets!StorageTier(meta)
BY ChildFields DEF IsGlob, Targets!StorageTier

(* What the pin of a glob is resolved to, once nothing refuses it.          *)
LEMMA PinOfGlob ==
    ASSUME NEW meta, meta.ref # Targets!NoPin,
           ~Targets!IsFailed(Targets!PinGlobSource(meta)),
           ~Targets!IsFailed(Targets!WalkGitTree(meta, Targets!PinGlobSource(meta)))
    PROVE  LET pinned == Targets!PinGlobSource(meta)
               walked == Targets!WalkGitTree(meta, pinned)
           IN  /\ pinned.repo = RepoOf(meta) /\ pinned.sha = CommitOf(meta)
               /\ pinned.sha = Targets!TreeOf(meta.ref)
               /\ RepoOf(meta) # Targets!NoId /\ CommitOf(meta) # Targets!NoPin
               /\ Targets!IsPrefix(RepoOf(meta), meta.prefix)
               /\ walked.files = FilesOf(meta)
<1> DEFINE pinned == Targets!PinGlobSource(meta)
           walked == Targets!WalkGitTree(meta, pinned)
<1>1. \A why : Targets!IsFailed(Targets!Failed(why))
  BY DEF Targets!IsFailed, Targets!Failed
<1>2. /\ RepoOf(meta) # Targets!NoId /\ CommitOf(meta) # Targets!NoPin
      /\ pinned.repo = RepoOf(meta) /\ pinned.sha = CommitOf(meta)
  BY <1>1 DEF Targets!PinGlobSource, RepoOf, CommitOf
<1>3. pinned.sha = Targets!TreeOf(meta.ref)
  BY <1>2 DEF CommitOf, Targets!TreeOf
<1> HIDE DEF pinned
<1>4. /\ Targets!IsPrefix(pinned.repo, meta.prefix)
      /\ walked.files = Targets!Matched(meta, pinned.sha)
  <2>1. ~Targets!IsFailed(walked)
    BY DEF pinned
  <2> QED
    BY <1>1, <2>1 DEF Targets!WalkGitTree
<1>5. walked.files = FilesOf(meta)
  BY <1>3, <1>4 DEF FilesOf
<1> QED
  BY <1>2, <1>3, <1>4, <1>5 DEF pinned

(* A glob that is expanded has one child per file of the tree it reads.     *)
LEMMA ChildrenAre ==
    ASSUME NEW meta, Targets!Rejected \notin Targets!ExpandedChildren(meta)
    PROVE  /\ meta.id # Targets!NoId
           /\ Targets!ExpandedChildren(meta) = {ChildOf(meta, f) : f \in FilesOf(meta)}
           /\ meta.ref # Targets!NoPin => /\ RepoOf(meta) # Targets!NoId
                                          /\ CommitOf(meta) # Targets!NoPin
                                          /\ Targets!IsPrefix(RepoOf(meta), meta.prefix)
<1>1. meta.id # Targets!NoId
  BY DEF Targets!ExpandedChildren
<1>2. CASE meta.ref = Targets!NoPin
  <2>1. /\ RepoOf(meta) = Targets!NoId /\ CommitOf(meta) = Targets!NoPin
        /\ Targets!TreeOf(meta.ref) = Targets!Working
    BY <1>2 DEF RepoOf, CommitOf, Targets!TreeOf
  <2>2. Targets!ExpandedChildren(meta) = Targets!ExpandWorkingTree(meta)
    BY <1>1, <1>2 DEF Targets!ExpandedChildren
  <2>3. Targets!ExpandWorkingTree(meta)
          = {Targets!SynthesizeChild(meta, f, Targets!NoId, Targets!NoPin) :
               f \in Targets!Matched(meta, Targets!Working)}
    BY DEF Targets!ExpandWorkingTree
  <2>4. {ChildOf(meta, f) : f \in FilesOf(meta)}
          = {Targets!SynthesizeChild(meta, f, Targets!NoId, Targets!NoPin) :
               f \in Targets!Matched(meta, Targets!Working)}
    BY <2>1 DEF ChildOf, FilesOf
  <2> QED
    BY <1>1, <1>2, <2>2, <2>3, <2>4
<1>3. CASE meta.ref # Targets!NoPin
  <2> DEFINE pinned == Targets!PinGlobSource(meta)
             walked == Targets!WalkGitTree(meta, pinned)
  <2>1. Targets!ExpandedChildren(meta) = Targets!ExpandPinned(meta)
    BY <1>1, <1>3 DEF Targets!ExpandedChildren
  <2>2. /\ ~Targets!IsFailed(pinned) /\ ~Targets!IsFailed(walked)
        /\ Targets!ExpandPinned(meta)
             = {Targets!SynthesizeChild(meta, f, pinned.repo, pinned.sha) : f \in walked.files}
    BY <2>1 DEF Targets!ExpandPinned
  <2>3. /\ pinned.repo = RepoOf(meta) /\ pinned.sha = CommitOf(meta)
        /\ RepoOf(meta) # Targets!NoId /\ CommitOf(meta) # Targets!NoPin
        /\ Targets!IsPrefix(RepoOf(meta), meta.prefix)
        /\ walked.files = FilesOf(meta)
    BY <1>3, <2>2, PinOfGlob
  <2>4. Targets!ExpandPinned(meta) = {ChildOf(meta, f) : f \in FilesOf(meta)}
    BY <2>2, <2>3 DEF ChildOf
  <2> QED
    BY <1>1, <2>1, <2>3, <2>4
<1> QED
  BY <1>2, <1>3

(* A child loads its file from the tree of the glob, with the glob's list.  *)
LEMMA ChildLoads ==
    ASSUME NEW meta, IsGlob(meta), Targets!StorageTier(meta) # "disk",
           NEW path \in FilesOf(meta),
           meta.ref # Targets!NoPin => /\ RepoOf(meta) # Targets!NoId
                                       /\ CommitOf(meta) # Targets!NoPin
                                       /\ Targets!IsPrefix(RepoOf(meta), path)
    PROVE  Targets!ResolveSource(ChildOf(meta, path))
             = Targets!LoadTree(Targets!TreeOf(meta.ref), {path}, meta.list, meta.ref)
<1> DEFINE child == ChildOf(meta, path)
<1>1. /\ child.kind = "file" /\ child.files = {path} /\ child.list = meta.list
      /\ child.ref = meta.ref /\ child.repo = RepoOf(meta) /\ child.sha = CommitOf(meta)
  BY ChildFields DEF IsGlob
<1>2. Targets!StorageTier(child) # "disk"
  BY ChildTier
<1> HIDE DEF child
<1>3. Targets!ResolveSource(child) = Targets!LoadFileIntoStore(child)
  BY <1>1, <1>2 DEF Targets!ResolveSource, Targets!ResolveFile
<1>4. path \in DOMAIN Content[Targets!TreeOf(meta.ref)]
  BY DEF FilesOf, Targets!Matched
<1>5. Targets!Matched(child, Targets!TreeOf(meta.ref)) = {path}
  BY <1>1, <1>4 DEF Targets!Matched
<1>6. CASE meta.ref = Targets!NoPin
  <2>1. Targets!TreeOf(meta.ref) = Targets!Working
    BY <1>6 DEF Targets!TreeOf
  <2>2. Targets!NoPin \in {child.ref, child.sha}
    BY <1>1, <1>6
  <2>3. Targets!LoadFileIntoStore(child)
          = Targets!LoadTree(Targets!Working, Targets!Matched(child, Targets!Working),
                             child.list, Targets!NoPin)
    BY <2>2 DEF Targets!LoadFileIntoStore
  <2>4. Targets!LoadFileIntoStore(child)
          = Targets!LoadTree(Targets!TreeOf(meta.ref), {path}, meta.list, meta.ref)
    BY <1>1, <1>5, <1>6, <2>1, <2>3
  <2> QED
    BY <1>3, <2>4 DEF child
<1>7. CASE meta.ref # Targets!NoPin
  <2>1. Targets!TreeOf(meta.ref) = CommitOf(meta)
    BY <1>7 DEF Targets!TreeOf, CommitOf
  <2>2. (CHOOSE f \in {path} : TRUE) = path
    OBVIOUS
  <2>3. Targets!Matched(child, child.sha) # {}
    BY <1>1, <1>5, <2>1
  <2>4. Targets!NoPin \notin {child.ref, child.sha} /\ child.repo # Targets!NoId
    BY <1>1, <1>7
  <2>5. Targets!IsPrefix(child.repo, CHOOSE f \in child.files : TRUE)
    BY <1>1, <1>7, <2>2
  <2>6. Targets!LoadFileIntoStore(child)
          = Targets!LoadTree(child.sha, child.files, child.list, child.ref)
    BY <2>3, <2>4, <2>5 DEF Targets!LoadFileIntoStore
  <2>7. Targets!LoadFileIntoStore(child)
          = Targets!LoadTree(Targets!TreeOf(meta.ref), {path}, meta.list, meta.ref)
    BY <1>1, <2>1, <2>6
  <2> QED
    BY <1>3, <2>7 DEF child
<1> QED
  BY <1>3, <1>6, <1>7 DEF child

(* A heap glob loads its files from the tree of its pin.                    *)
LEMMA GlobLoads ==
    ASSUME NEW meta, IsGlob(meta), Targets!StorageTier(meta) # "disk",
           Targets!Reads(Targets!ResolveSource(meta))
    PROVE  Targets!ResolveSource(meta)
             = Targets!LoadTree(Targets!TreeOf(meta.ref), FilesOf(meta), meta.list, meta.ref)
<1> DEFINE pinned == Targets!PinGlobSource(meta)
           walked == Targets!WalkGitTree(meta, pinned)
<1>1. Targets!ResolveSource(meta) = Targets!LoadGlobIntoStore(meta, meta.list)
  BY ListOfGlob DEF IsGlob, Targets!ResolveSource, Targets!ResolveGlob
<1>2. CASE meta.ref = Targets!NoPin
  BY <1>1, <1>2 DEF Targets!LoadGlobIntoStore, Targets!TreeOf, FilesOf
<1>3. CASE meta.ref # Targets!NoPin
  <2>1. Targets!LoadGlobIntoStore(meta, meta.list)
          = IF Targets!IsFailed(pinned) THEN pinned
            ELSE IF Targets!IsFailed(walked) THEN walked
            ELSE Targets!LoadTree(pinned.sha, walked.files, meta.list, meta.ref)
    BY <1>3 DEF Targets!LoadGlobIntoStore, Targets!LoadPinnedGlobFromTree
  <2>2. \A result : Targets!IsFailed(result) => ~Targets!Reads(result)
    BY DEF Targets!IsFailed, Targets!Reads
  <2>3. ~Targets!IsFailed(pinned) /\ ~Targets!IsFailed(walked)
    <3> HIDE DEF pinned, walked
    <3> QED
      BY <1>1, <2>1, <2>2
  <2>4. pinned.sha = Targets!TreeOf(meta.ref) /\ walked.files = FilesOf(meta)
    BY <1>3, <2>3, PinOfGlob
  <2> QED
    BY <1>1, <2>1, <2>3, <2>4
<1> QED
  BY <1>2, <1>3

(* What the paths of a glob and of the repositories are taken to be.        *)
WellPlaced(id, prefix, files) ==
    \E S : /\ id \in Seq(S) /\ prefix \in Seq(S) /\ prefix # << >>
           /\ files \subseteq Seq(S) /\ GitDirs \subseteq Seq(S)
           /\ \A path \in files : Below(prefix, path)

(* The repository of a pinned glob is above each of its files.              *)
LEMMA RepoCoversFiles ==
    ASSUME NEW meta, WellPlaced(meta.id, meta.prefix, meta.files), meta.ref # Targets!NoPin,
           Targets!IsPrefix(RepoOf(meta), meta.prefix), NEW path \in meta.files
    PROVE  Targets!IsPrefix(RepoOf(meta), path)
<1>1. PICK S : /\ meta.prefix \in Seq(S) /\ meta.files \subseteq Seq(S)
               /\ GitDirs \subseteq Seq(S) /\ Below(meta.prefix, path)
  BY DEF WellPlaced
<1>2. RepoOf(meta) = Targets!DiscoverRepoRoot(meta)
  BY DEF RepoOf
<1>3. Targets!RepoAbove(meta.prefix) \in Seq(S) /\ Targets!NoId \in Seq(S)
  BY <1>1, RepoAboveIsPath DEF Targets!NoId
<1>4. RepoOf(meta) \in Seq(S)
  BY <1>1, <1>2, <1>3 DEF Targets!DiscoverRepoRoot
<1>5. path \in Seq(S)
  BY <1>1
<1> QED
  BY <1>1, <1>4, <1>5, PrefixOfPrefix

(* One file of several, taken by itself.                                    *)
LEMMA FileOfMany ==
    ASSUME NEW tree, NEW files, NEW f \in files
    PROVE  OneFile(Targets!PerFile(tree, files), f) = Targets!PerFile(tree, {f})
BY DEF OneFile, Targets!PerFile

(* The children of a heap glob hold what it holds.                          *)
LEMMA ChildrenCoverHeap ==
    ASSUME NEW meta, IsGlob(meta), Targets!StorageTier(meta) # "disk",
           Targets!Reads(Targets!ResolveSource(meta)),
           meta.ref # Targets!NoPin =>
               /\ RepoOf(meta) # Targets!NoId /\ CommitOf(meta) # Targets!NoPin
               /\ \A f \in FilesOf(meta) : Targets!IsPrefix(RepoOf(meta), f)
    PROVE  LET whole == Targets!ResolveSource(meta)
               piece(f) == Targets!ResolveSource(ChildOf(meta, f))
           IN  /\ \A f \in FilesOf(meta) : Targets!Reads(piece(f)) /\ piece(f).tree = whole.tree
               /\ UNION {piece(f).quads : f \in FilesOf(meta)} = whole.quads
<1> DEFINE tree == Targets!TreeOf(meta.ref)
           files == FilesOf(meta)
           list == meta.list
           whole == Targets!ResolveSource(meta)
           Part(f) == Targets!ResolveSource(ChildOf(meta, f))
           Piped(fs) == Targets!ApplyTransformPipeline(list, Targets!PerFile(tree, fs), meta.ref)
           Materialized(fs) == [mode |-> "materialized", tree |-> tree, files |-> fs,
                                quads |-> Piped(fs)]
<1>1. whole = Targets!LoadTree(tree, files, list, meta.ref)
  BY GlobLoads
<1>2. \A f \in files : Part(f) = Targets!LoadTree(tree, {f}, list, meta.ref)
  BY ChildLoads
<1>3. Targets!Reads(whole)
  OBVIOUS
<1> HIDE DEF whole, Part, files, tree
<1>4. Targets!Parses(tree, files)
  BY <1>1, <1>3, FailuresDoNotRead DEF Targets!LoadTree
<1>5. \A f \in files : Targets!Parses(tree, {f})
  BY <1>4 DEF Targets!Parses
<1>6. whole = Materialized(files) /\ \A f \in files : Part(f) = Materialized({f})
  BY <1>1, <1>2, <1>4, <1>5 DEF Targets!LoadTree
<1> HIDE DEF Piped
<1>7. /\ whole.tree = tree /\ whole.quads = Piped(files)
      /\ \A f \in files : /\ Targets!Reads(Part(f)) /\ Part(f).tree = tree
                          /\ Part(f).quads = Piped({f})
  BY <1>6 DEF Targets!Reads
<1>8. Piped(files) = UNION {Piped({f}) : f \in files}
  <2> DEFINE all == Targets!PerFile(tree, files)
             One(f) == Targets!ApplyTransformPipeline(list, OneFile(all, f), meta.ref)
  <2>1. DOMAIN all = files
    BY DEF Targets!PerFile
  <2>2. \A f \in files : One(f) = Piped({f})
    BY FileOfMany DEF Piped
  <2>3. Targets!ApplyTransformPipeline(list, all, meta.ref)
          = UNION {Targets!ApplyTransformPipeline(list, OneFile(all, f), meta.ref) : f \in DOMAIN all}
    <3> HIDE DEF all
    <3> QED
      BY PipelineFileByFile DEF IsGlob
  <2>4. Piped(files) = UNION {One(f) : f \in files}
    BY <2>1, <2>3 DEF Piped
  <2> HIDE DEF One
  <2> QED
    BY <2>2, <2>4
<1>9. UNION {Part(f).quads : f \in files} = whole.quads
  BY <1>7, <1>8
<1> QED
  BY <1>7, <1>9 DEF whole, Part, files

(* The indexes of the children of a glob on disk hold what its index holds. *)
LEMMA ChildrenCoverIndex ==
    ASSUME NEW meta, IsGlob(meta), Targets!StorageTier(meta) = "disk",
           Targets!Reads(Targets!ResolveSource(meta))
    PROVE  LET whole == Targets!ResolveSource(meta)
               piece(f) == Targets!ResolveSource(ChildOf(meta, f))
           IN  /\ \A f \in FilesOf(meta) : Targets!Reads(piece(f)) /\ piece(f).tree = whole.tree
               /\ UNION {piece(f).quads : f \in FilesOf(meta)} = whole.quads
<1> DEFINE tree == Targets!Working
           files == FilesOf(meta)
           list == meta.list
           whole == Targets!ResolveSource(meta)
           Part(f) == Targets!ResolveSource(ChildOf(meta, f))
           Streamed(fs) == Targets!StreamGlobQuads(list, Targets!PerFile(tree, fs))
           Index(fs) == [mode |-> "disk-backed", tree |-> tree, files |-> fs,
                         quads |-> Streamed(fs)]
<1>1. whole = IF meta.ref # Targets!NoPin THEN Targets!Failed("glob-load")
              ELSE Targets!ResolveDiskBackedIndex(meta, list)
  BY ListOfGlob DEF IsGlob, Targets!ResolveSource, Targets!ResolveGlob
<1>2. meta.ref = Targets!NoPin
  <2>1. Targets!Reads(whole)
    OBVIOUS
  <2> HIDE DEF whole
  <2> QED
    BY <1>1, <2>1, FailuresDoNotRead
<1>3. files = Targets!Matched(meta, tree)
  BY <1>2 DEF FilesOf, Targets!TreeOf
<1>4. ASSUME NEW f \in files
      PROVE  /\ Part(f) = Targets!ResolveDiskBackedIndex(ChildOf(meta, f), list)
             /\ Targets!Matched(ChildOf(meta, f), tree) = {f}
  <2> DEFINE child == ChildOf(meta, f)
  <2>1. child.kind = "file" /\ child.files = {f} /\ child.list = list
    BY ChildFields DEF IsGlob
  <2>2. Targets!StorageTier(child) = "disk"
    BY ChildTier
  <2>3. f \in DOMAIN Content[tree]
    BY <1>3 DEF Targets!Matched
  <2> HIDE DEF child
  <2>4. Targets!Matched(child, tree) = {f}
    BY <2>1, <2>3 DEF Targets!Matched
  <2>5. Targets!ResolveSource(child) = Targets!ResolveDiskBackedIndex(child, list)
    BY <2>1, <2>2 DEF Targets!ResolveSource, Targets!ResolveFile
  <2> QED
    BY <2>4, <2>5 DEF child
<1>5. Targets!Reads(whole)
  OBVIOUS
<1> HIDE DEF whole, Part, files, list
<1>6. Targets!Streams(list) /\ Targets!Parses(tree, files)
  BY <1>1, <1>2, <1>3, <1>5, FailuresDoNotRead DEF Targets!ResolveDiskBackedIndex
<1>7. \A f \in files : Targets!Parses(tree, {f})
  BY <1>6 DEF Targets!Parses
<1>8. whole = Index(files) /\ \A f \in files : Part(f) = Index({f})
  BY <1>1, <1>2, <1>3, <1>4, <1>6, <1>7 DEF Targets!ResolveDiskBackedIndex
<1> HIDE DEF Streamed
<1>9. /\ whole.tree = tree /\ whole.quads = Streamed(files)
      /\ \A f \in files : /\ Targets!Reads(Part(f)) /\ Part(f).tree = tree
                          /\ Part(f).quads = Streamed({f})
  BY <1>8 DEF Targets!Reads
<1>10. Streamed(files) = UNION {Streamed({f}) : f \in files}
  <2> DEFINE Of(f) == {Targets!Rewritten(list, f, quad) : quad \in Content[tree][f]}
  <2>1. Streamed(files) = UNION {Of(f) : f \in files}
    BY DEF Streamed, Targets!StreamGlobQuads, Targets!PerFile
  <2>2. \A f : Streamed({f}) = Of(f)
    <3>1. \A f : Streamed({f}) = UNION {Of(g) : g \in {f}}
      BY DEF Streamed, Targets!StreamGlobQuads, Targets!PerFile
    <3> HIDE DEF Of
    <3> QED
      BY <3>1
  <2> HIDE DEF Of
  <2> QED
    BY <2>1, <2>2
<1>11. UNION {Part(f).quads : f \in files} = whole.quads
  BY <1>9, <1>10
<1> QED
  BY <1>9, <1>11 DEF whole, Part, files

(* A glob read whole is the glob without its split.                         *)
LEMMA UnsplitFields ==
    ASSUME NEW meta, IsGlob(meta)
    PROVE  LET bare == [meta EXCEPT !.split = FALSE]
           IN  /\ IsGlob(bare)
               /\ Targets!StorageTier(bare) = Targets!StorageTier(meta)
               /\ bare.ref = meta.ref /\ FilesOf(bare) = FilesOf(meta)
               /\ RepoOf(bare) = RepoOf(meta) /\ CommitOf(bare) = CommitOf(meta)
               /\ \A path : ChildOf(bare, path) = ChildOf(meta, path)
<1> DEFINE bare == [meta EXCEPT !.split = FALSE]
<1>1. DOMAIN meta = SourceFields
  BY DEF IsGlob, IsSource
<1>2. /\ DOMAIN bare = SourceFields
      /\ \A field \in SourceFields \ {"split"} : bare[field] = meta[field]
  BY <1>1
<1>3. \A path, repo, sha : Targets!SynthesizeChild(bare, path, repo, sha)
                             = Targets!SynthesizeChild(meta, path, repo, sha)
  <2>1. ASSUME NEW path, NEW repo, NEW sha
        PROVE  Targets!SynthesizeChild(bare, path, repo, sha)
                 = Targets!SynthesizeChild(meta, path, repo, sha)
    <3> DEFINE a == Targets!SynthesizeChild(bare, path, repo, sha)
               b == Targets!SynthesizeChild(meta, path, repo, sha)
    <3>1. DOMAIN a = SourceFields /\ DOMAIN b = SourceFields
      BY <1>1, <1>2 DEF Targets!SynthesizeChild
    <3>2. \A x \in {"union", "storage", "ref", "cache", "auth", "prefix", "declared", "list"} :
             a[x] = meta[x] /\ b[x] = meta[x]
      BY <1>1, <1>2 DEF Targets!SynthesizeChild, SourceFields
    <3>3. bare.id = meta.id /\ bare.prefix = meta.prefix
      BY <1>2 DEF SourceFields
    <3> HIDE DEF bare
    <3>4. /\ a.kind = b.kind /\ a.parent = b.parent /\ a.files = b.files /\ a.id = b.id
          /\ a.split = b.split /\ a.root = b.root /\ a.default = b.default
          /\ a.repo = b.repo /\ a.sha = b.sha
      BY <1>1, <1>2, <3>3 DEF Targets!SynthesizeChild, SourceFields
    <3>5. \A x \in SourceFields : a[x] = b[x]
      <4> HIDE DEF a, b
      <4> QED
        BY <3>2, <3>4 DEF SourceFields
    <3>6. a = [x \in DOMAIN a |-> a[x]] /\ b = [x \in DOMAIN b |-> b[x]]
      BY DEF Targets!SynthesizeChild
    <3> HIDE DEF a, b
    <3>7. a = b
      BY <3>1, <3>5, <3>6
    <3> QED
      BY <3>7 DEF a, b
  <2> QED
    BY <2>1
<1>4. /\ bare.kind = meta.kind /\ bare.declared = meta.declared /\ bare.list = meta.list
      /\ bare.storage = meta.storage /\ bare.ref = meta.ref /\ bare.files = meta.files
      /\ bare.root = meta.root /\ bare.prefix = meta.prefix
  BY <1>2 DEF SourceFields
<1> HIDE DEF bare
<1>5. IsGlob(bare) /\ Targets!StorageTier(bare) = Targets!StorageTier(meta)
  BY <1>2, <1>4 DEF IsGlob, IsSource, Targets!StorageTier
<1>6. FilesOf(bare) = FilesOf(meta)
  BY <1>4 DEF FilesOf, Targets!Matched
<1>7. RepoOf(bare) = RepoOf(meta) /\ CommitOf(bare) = CommitOf(meta)
  BY <1>4 DEF RepoOf, CommitOf, Targets!DiscoverRepoRoot
<1>8. \A path : ChildOf(bare, path) = ChildOf(meta, path)
  BY <1>3, <1>7 DEF ChildOf
<1> QED
  BY <1>4, <1>5, <1>6, <1>7, <1>8 DEF bare

(* The ids of the children of a glob are its own.                           *)
LEMMA ChildrenApart ==
    ASSUME NEW meta, IsSource(meta), WellPlaced(meta.id, meta.prefix, meta.files)
    PROVE  \A p, q \in meta.files :
              /\ ChildOf(meta, p).id # meta.id
              /\ ChildOf(meta, p).id = ChildOf(meta, q).id => p = q
<1>1. ASSUME NEW p \in meta.files, NEW q \in meta.files
      PROVE  /\ ChildOf(meta, p).id # meta.id
             /\ ChildOf(meta, p).id = ChildOf(meta, q).id => p = q
  <2>1. PICK S : /\ meta.id \in Seq(S) /\ meta.prefix \in Seq(S) /\ meta.prefix # << >>
                 /\ meta.files \subseteq Seq(S)
                 /\ Below(meta.prefix, p) /\ Below(meta.prefix, q)
    BY DEF WellPlaced
  <2>2. /\ ChildOf(meta, p).id = Targets!DeriveFileSourceId(meta.id, meta.prefix, p)
        /\ ChildOf(meta, q).id = Targets!DeriveFileSourceId(meta.id, meta.prefix, q)
    BY ChildFields
  <2>3. p \in Seq(S) /\ q \in Seq(S)
    BY <2>1
  <2> QED
    BY <2>1, <2>2, <2>3, ChildIdsApart
<1> QED
  BY <1>1

(* Splitting a glob loses nothing and adds nothing.                         *)
LEMMA SplitAlwaysCovers ==
    ASSUME NEW meta, IsGlob(meta), WellPlaced(meta.id, meta.prefix, meta.files)
    PROVE  Targets!SplitCoversMeta(meta)
<1> DEFINE bare == [meta EXCEPT !.split = FALSE]
           whole == Targets!ResolveSource(bare)
           children == Targets!ExpandedChildren(meta)
           files == FilesOf(meta)
           Part(f) == Targets!ResolveSource(ChildOf(meta, f))
<1>1. SUFFICES ASSUME Targets!Rejected \notin children, Targets!Reads(whole)
               PROVE  /\ \A a, b \in children : a.id = b.id => a = b
                      /\ \A child \in children :
                            /\ Targets!Reads(Targets!ResolveSource(child))
                            /\ Targets!ResolveSource(child).tree = whole.tree
                      /\ UNION {Targets!ResolveSource(child).quads : child \in children} = whole.quads
  BY DEF Targets!SplitCoversMeta
<1>2. /\ children = {ChildOf(meta, f) : f \in files}
      /\ meta.ref # Targets!NoPin => /\ RepoOf(meta) # Targets!NoId
                                     /\ CommitOf(meta) # Targets!NoPin
                                     /\ Targets!IsPrefix(RepoOf(meta), meta.prefix)
  BY <1>1, ChildrenAre
<1>3. files \subseteq meta.files
  BY DEF FilesOf, Targets!Matched
<1>4. \A a, b \in children : a.id = b.id => a = b
  BY <1>2, <1>3, ChildrenApart DEF IsGlob
<1>5. meta.ref # Targets!NoPin => \A f \in files : Targets!IsPrefix(RepoOf(meta), f)
  BY <1>2, <1>3, RepoCoversFiles
<1>6. /\ IsGlob(bare) /\ FilesOf(bare) = files /\ bare.ref = meta.ref
      /\ RepoOf(bare) = RepoOf(meta) /\ CommitOf(bare) = CommitOf(meta)
      /\ \A f : ChildOf(bare, f) = ChildOf(meta, f)
  BY UnsplitFields
<1> HIDE DEF bare
<1>7. /\ \A f \in files : Targets!Reads(Part(f)) /\ Part(f).tree = whole.tree
      /\ UNION {Part(f).quads : f \in files} = whole.quads
  <2> DEFINE PartOfBare(f) == Targets!ResolveSource(ChildOf(bare, f))
  <2>1. /\ \A f \in FilesOf(bare) : Targets!Reads(PartOfBare(f)) /\ PartOfBare(f).tree = whole.tree
        /\ UNION {PartOfBare(f).quads : f \in FilesOf(bare)} = whole.quads
    <3>1. CASE Targets!StorageTier(bare) = "disk"
      BY <1>1, <1>6, <3>1, ChildrenCoverIndex
    <3>2. CASE Targets!StorageTier(bare) # "disk"
      <4>1. bare.ref # Targets!NoPin =>
               /\ RepoOf(bare) # Targets!NoId /\ CommitOf(bare) # Targets!NoPin
               /\ \A f \in FilesOf(bare) : Targets!IsPrefix(RepoOf(bare), f)
        BY <1>2, <1>5, <1>6
      <4> QED
        BY <1>1, <1>6, <3>2, <4>1, ChildrenCoverHeap
    <3> QED
      BY <3>1, <3>2
  <2>2. \A f : PartOfBare(f) = Part(f)
    BY <1>6
  <2> HIDE DEF PartOfBare, Part, whole, files
  <2> QED
    BY <1>6, <2>1, <2>2
<1>8. UNION {Targets!ResolveSource(child).quads : child \in children}
        = UNION {Part(f).quads : f \in files}
  <2>1. {Targets!ResolveSource(child).quads : child \in children} = {Part(f).quads : f \in files}
    <3> HIDE DEF children, files
    <3> QED
      BY <1>2
  <2> QED
    BY <2>1
<1>9. \A child \in children : /\ Targets!Reads(Targets!ResolveSource(child))
                               /\ Targets!ResolveSource(child).tree = whole.tree
  <2> HIDE DEF children, files, whole
  <2> QED
    BY <1>2, <1>7
<1> QED
  BY <1>4, <1>7, <1>8, <1>9

(* Loaded or streamed from disk, a glob holds the same.                     *)
LEMMA TierAlwaysTransparent ==
    ASSUME NEW meta, IsGlob(meta)
    PROVE  Targets!TierTransparent(meta)
<1> DEFINE heap == [meta EXCEPT !.storage = Targets!Absent]
           disk == [meta EXCEPT !.storage = "disk"]
           loaded == Targets!ResolveSource(heap)
           streamed == Targets!ResolveSource(disk)
           files == Targets!Matched(meta, Targets!Working)
           all == Targets!PerFile(Targets!Working, files)
<1>1. SUFFICES ASSUME Targets!Reads(loaded), Targets!Reads(streamed)
               PROVE  loaded.quads = streamed.quads
  BY DEF Targets!TierTransparent
<1>2. /\ IsGlob(heap) /\ IsGlob(disk)
      /\ heap.ref = meta.ref /\ disk.ref = meta.ref /\ heap.list = meta.list /\ disk.list = meta.list
      /\ heap.files = meta.files /\ disk.files = meta.files
      /\ heap.storage = Targets!Absent /\ disk.storage = "disk"
  BY DEF IsGlob, IsSource, SourceFields
<1>3. Targets!StorageTier(heap) # "disk" /\ Targets!StorageTier(disk) = "disk"
  <2> HIDE DEF heap, disk
  <2> QED
    BY <1>2 DEF IsGlob, Targets!StorageTier, Targets!Absent
<1> HIDE DEF heap, disk
<1>4. streamed = IF disk.ref # Targets!NoPin THEN Targets!Failed("glob-load")
                 ELSE Targets!ResolveDiskBackedIndex(disk, disk.list)
  BY <1>2, <1>3, ListOfGlob DEF IsGlob, Targets!ResolveSource, Targets!ResolveGlob
<1>5. meta.ref = Targets!NoPin /\ streamed = Targets!ResolveDiskBackedIndex(disk, meta.list)
  <2> HIDE DEF streamed
  <2> QED
    BY <1>1, <1>2, <1>4, FailuresDoNotRead
<1>6. Targets!Matched(disk, Targets!Working) = files
  BY <1>2 DEF Targets!Matched
<1>7. Targets!Streams(meta.list) /\ streamed.quads = Targets!StreamGlobQuads(meta.list, all)
  <2>1. streamed = IF ~Targets!Streams(meta.list) \/ ~Targets!Parses(Targets!Working, files)
                   THEN Targets!Failed("glob-load")
                   ELSE [mode |-> "disk-backed", tree |-> Targets!Working, files |-> files,
                         quads |-> Targets!StreamGlobQuads(meta.list, all)]
    BY <1>5, <1>6 DEF Targets!ResolveDiskBackedIndex
  <2> HIDE DEF streamed, files, all
  <2> QED
    BY <1>1, <2>1, FailuresDoNotRead
<1>8. loaded = Targets!LoadTree(Targets!Working, files, meta.list, Targets!NoPin)
  <2>1. loaded = Targets!LoadTree(Targets!TreeOf(heap.ref), FilesOf(heap), heap.list, heap.ref)
    BY <1>1, <1>2, <1>3, GlobLoads
  <2>2. Targets!TreeOf(heap.ref) = Targets!Working
    BY <1>2, <1>5 DEF Targets!TreeOf
  <2>3. FilesOf(heap) = files
    BY <1>2, <2>2 DEF FilesOf, Targets!Matched
  <2> HIDE DEF loaded, files
  <2> QED
    BY <1>2, <1>5, <2>1, <2>2, <2>3
<1>9. loaded.quads = Targets!ApplyTransformPipeline(meta.list, all, Targets!NoPin)
  <2> HIDE DEF loaded
  <2> QED
    BY <1>1, <1>8, FailuresDoNotRead DEF Targets!LoadTree
<1>10. Targets!StreamGlobQuads(meta.list, all)
         = Targets!ApplyTransformPipeline(meta.list, all, Targets!NoPin)
  BY <1>7, StreamedAsLoaded DEF IsGlob
<1> QED
  BY <1>7, <1>9, <1>10

(* A spec that declares one glob, in a config that is accepted with the     *)
(* children of the glob; and an address.                                    *)
DeclaresGlob(spec) ==
    /\ spec.text = Targets!Absent /\ spec.forms = {"glob"}
    /\ Targets!Given(spec, "transforms") => IsList(spec.transforms)
    /\ WellPlaced(spec.id, spec.prefix, spec.files)
    /\ \A source \in Targets!Registry(spec) : source.kind # "rejected"
IsAddress(address) == DOMAIN address = {"id", "ref"}

(* What such a spec is parsed to.                                           *)
LEMMA ParsedGlob ==
    ASSUME NEW spec, DeclaresGlob(spec)
    PROVE  LET meta == Targets!ParseSourceSpec(spec)
           IN  /\ IsGlob(meta)
               /\ meta.id = spec.id /\ meta.prefix = spec.prefix /\ meta.files = spec.files
<1> DEFINE meta == Targets!ParseSourceSpec(spec)
<1>1. meta # Targets!Rejected
  <2>1. meta \in Targets!Registry(spec)
    BY DEF Targets!Registry, Targets!ExpandSplitGlobs
  <2>2. meta.kind # "rejected"
    <3> HIDE DEF meta
    <3> QED
      BY <2>1 DEF DeclaresGlob
  <2> QED
    BY <2>2 DEF Targets!Rejected
<1>2. Targets!ParsesObject(spec) /\ meta = Targets!FromObject(spec)
  BY <1>1 DEF DeclaresGlob, Targets!ParseSourceSpec
<1>3. Targets!Given(spec, "transforms") => Targets!ParsesTransformList(spec.transforms)
  BY <1>2 DEF DeclaresGlob, Targets!ParsesObject, Targets!ParsesGlobSpec
<1>4. /\ IsSource(meta) /\ meta.kind = "glob"
      /\ meta.id = spec.id /\ meta.prefix = spec.prefix /\ meta.files = spec.files
      /\ meta.declared <=> Targets!Given(spec, "transforms")
      /\ meta.list = IF Targets!Given(spec, "transforms") THEN spec.transforms ELSE << >>
  <2> DEFINE kept(field, value, otherwise) == Targets!Kept(spec, field, value, otherwise)
             common == [Targets!Blank EXCEPT !.id = spec.id, !.default = Targets!Given(spec, "default")]
             glob == [common EXCEPT
                        !.files = spec.files, !.prefix = spec.prefix,
                        !.declared = Targets!Given(spec, "transforms"),
                        !.list = kept("transforms", spec.transforms, << >>),
                        !.split = Targets!Given(spec, "splitByFile"),
                        !.union = kept("unionDefaultGraph", spec.union, Targets!Absent),
                        !.storage = kept("storage", spec.storage, Targets!Absent),
                        !.ref = kept("gitRef", spec.ref, Targets!NoPin),
                        !.root = kept("gitRoot", spec.root, Targets!NoId),
                        !.cache = Targets!PickQueryCache(spec)]
  <2>1. meta = glob
    <3>1. "empty" \notin spec.forms /\ "glob" \in spec.forms /\ "endpoint" \notin spec.forms
      BY DEF DeclaresGlob
    <3>2. Targets!FromObject(spec) = glob
      BY <3>1 DEF Targets!FromObject
    <3> HIDE DEF glob, meta
    <3> QED
      BY <1>2, <3>2
  <2>2. DOMAIN common = SourceFields /\ common.kind = "glob" /\ common.id = spec.id
    BY DEF Targets!Blank, SourceFields
  <2> HIDE DEF common, kept
  <2>3. DOMAIN glob = SourceFields /\ glob.kind = "glob" /\ glob.id = spec.id
    BY <2>2 DEF SourceFields
  <2>4. glob.prefix = spec.prefix /\ glob.files = spec.files
    BY <2>2 DEF SourceFields
  <2>5. glob.list = kept("transforms", spec.transforms, << >>)
    BY <2>2 DEF SourceFields
  <2>6. glob.declared <=> Targets!Given(spec, "transforms")
    BY <2>2 DEF SourceFields
  <2> HIDE DEF glob, meta
  <2> QED
    BY <2>1, <2>3, <2>4, <2>5, <2>6 DEF IsSource, kept, Targets!Kept
<1>5. IsList(<< >>) /\ Targets!ParsesTransformList(<< >>)
  BY DEF IsList, Targets!ParsesTransformList
<1>6. IsGlob(meta)
  <2> HIDE DEF meta
  <2> QED
    BY <1>3, <1>4, <1>5 DEF DeclaresGlob, IsGlob
<1> QED
  BY <1>4, <1>6

(* What an id names is the glob or one of its children.                     *)
IsChild(child, meta) ==
    /\ \E f \in FilesOf(meta) : child = ChildOf(meta, f)
    /\ meta.ref # Targets!NoPin => /\ RepoOf(meta) # Targets!NoId
                                   /\ CommitOf(meta) # Targets!NoPin
                                   /\ Targets!IsPrefix(RepoOf(meta), meta.prefix)

LEMMA NamedEntry ==
    ASSUME NEW spec, DeclaresGlob(spec), NEW id, Targets!Named(Targets!Registry(spec), id) # {}
    PROVE  LET meta == Targets!ParseSourceSpec(spec)
           IN  \E entry : /\ Targets!Named(Targets!Registry(spec), id) = {entry}
                          /\ entry = meta \/ IsChild(entry, meta)
<1> DEFINE meta == Targets!ParseSourceSpec(spec)
           children == IF Targets!Expands(meta) THEN Targets!ExpandedChildren(meta) ELSE {}
           registry == Targets!Registry(spec)
<1>1. IsGlob(meta) /\ WellPlaced(meta.id, meta.prefix, meta.files)
  BY ParsedGlob DEF DeclaresGlob
<1>2. registry = {meta} \union children
  <2> DEFINE split == {s \in {meta} : Targets!Expands(s)}
  <2>1. split = IF Targets!Expands(meta) THEN {meta} ELSE {}
    <3> HIDE DEF meta
    <3> QED
      OBVIOUS
  <2>2. UNION {Targets!ExpandedChildren(s) : s \in split} = children
    <3> HIDE DEF split, meta
    <3> QED
      BY <2>1
  <2> QED
    BY <2>2 DEF Targets!Registry, Targets!ExpandSplitGlobs
<1>3. \A source \in registry : source.kind # "rejected"
  BY DEF DeclaresGlob
<1> HIDE DEF meta, registry
<1>4. \A child \in children : IsChild(child, meta)
  <2>1. CASE Targets!Expands(meta)
    <3>1. Targets!Rejected \notin Targets!ExpandedChildren(meta)
      BY <1>2, <1>3, <2>1 DEF Targets!Rejected
    <3> QED
      BY <2>1, <3>1, ChildrenAre DEF IsChild
  <2>2. CASE ~Targets!Expands(meta)
    BY <2>2
  <2> QED
    BY <2>1, <2>2
<1>5. FilesOf(meta) \subseteq meta.files
  BY DEF FilesOf, Targets!Matched
<1>6. \A a, b \in registry : a.id = b.id => a = b
  <2>1. \A a \in children : \E f \in meta.files : a = ChildOf(meta, f)
    BY <1>4, <1>5 DEF IsChild
  <2>2. \A a \in children : a.id # meta.id
    BY <1>1, <2>1, ChildrenApart DEF IsGlob
  <2>3. \A a, b \in children : a.id = b.id => a = b
    BY <1>1, <2>1, ChildrenApart DEF IsGlob
  <2> HIDE DEF children
  <2> QED
    BY <1>2, <2>2, <2>3
<1>7. PICK entry \in registry : entry.id = id
  BY DEF registry, Targets!Named
<1>8. Targets!Named(registry, id) = {entry}
  BY <1>6, <1>7 DEF Targets!Named
<1>9. entry = meta \/ IsChild(entry, meta)
  <2> HIDE DEF children
  <2> QED
    BY <1>2, <1>4, <1>7
<1> QED
  BY <1>8, <1>9 DEF registry, meta

(* A heap child reads the tree that its glob pins.                          *)
LEMMA ChildReadsItsPin ==
    ASSUME NEW meta, IsGlob(meta), WellPlaced(meta.id, meta.prefix, meta.files),
           NEW child, IsChild(child, meta),
           Targets!StorageTier(child) = "memory", Targets!Reads(Targets!ResolveSource(child))
    PROVE  Targets!ResolveSource(child).tree = Targets!TreeOf(child.ref)
<1>1. PICK f \in FilesOf(meta) : child = ChildOf(meta, f)
  BY DEF IsChild
<1>2. f \in meta.files
  BY DEF FilesOf, Targets!Matched
<1>3. Targets!StorageTier(meta) # "disk" /\ child.ref = meta.ref
  BY <1>1, ChildTier, ChildFields DEF IsGlob
<1>4. meta.ref # Targets!NoPin => /\ RepoOf(meta) # Targets!NoId
                                  /\ CommitOf(meta) # Targets!NoPin
                                  /\ Targets!IsPrefix(RepoOf(meta), f)
  BY <1>2, RepoCoversFiles DEF IsChild
<1>5. Targets!ResolveSource(child)
        = Targets!LoadTree(Targets!TreeOf(meta.ref), {f}, meta.list, meta.ref)
  BY <1>1, <1>3, <1>4, ChildLoads
<1> QED
  BY <1>3, <1>5, FailuresDoNotRead DEF Targets!LoadTree

(* A child that an address pins becomes a glob of one file.                 *)
LEMMA PinnedChildReadsThePin ==
    ASSUME NEW registry, NEW address, NEW child, child.kind = "file",
           Targets!Named(registry, address.id) = {child}, address.ref # Targets!NoPin,
           Targets!Reads(Targets!ServerDiffSide(registry, address, FALSE))
    PROVE  Targets!ServerDiffSide(registry, address, FALSE).tree = Targets!TreeOf(address.ref)
<1> DEFINE target == Targets!SelectFromRegistry(registry, address)
           side == Targets!ServerDiffSide(registry, address, FALSE)
           found == {source \in Targets!Named(registry, address.id) : source.kind # "reference"}
           glob == Targets!PinSide(child, address.ref)
<1>1. found = {child} /\ (CHOOSE source \in {child} : TRUE) = child
  OBVIOUS
<1>2. target = IF ~Targets!ParsesAddress(address) \/ found = {} THEN Targets!Failed("unknown-ref")
               ELSE Targets!PinSide(CHOOSE source \in found : TRUE, address.ref)
  BY DEF Targets!SelectFromRegistry
<1>3. target = glob \/ \E why : target = Targets!Failed(why)
  <2> HIDE DEF target, found, glob
  <2> QED
    BY <1>1, <1>2 DEF glob
<1>4. /\ glob.kind = "glob" /\ glob.storage = Targets!Absent /\ glob.ref = address.ref
      /\ ~Targets!Unresolved(glob)
  BY DEF Targets!PinSide, Targets!Blank, Targets!Unresolved
<1> HIDE DEF target, glob, found
<1>5. side = IF Targets!Unresolved(target) THEN target
             ELSE IF Targets!RawPassThrough(target) THEN Targets!Failed("raw-pass-through-target")
             ELSE Targets!LoadSideSources(registry, target)
  BY DEF Targets!ServerDiffSide, target
<1> HIDE DEF side
<1>6. target = glob /\ side = Targets!LoadSideSources(registry, target)
  <2>1. Targets!Reads(side)
    BY DEF side
  <2> QED
    BY <1>3, <1>4, <1>5, <2>1, FailuresDoNotRead
<1>7. Targets!HasRuntimePinOverride(registry, target)
  <2>1. target.kind = "glob" /\ child \in Targets!Named(registry, address.id)
    BY <1>4, <1>6
  <2>2. target.id = address.id
    <3>1. child.id = address.id
      BY DEF Targets!Named
    <3>2. target.id = child.id
      BY <1>6 DEF glob, Targets!PinSide, Targets!Blank
    <3> QED
      BY <3>1, <3>2
  <2> QED
    BY <2>1, <2>2 DEF Targets!HasRuntimePinOverride
<1>8. side = Targets!ResolveSource(target)
  BY <1>6, <1>7 DEF Targets!LoadSideSources
<1>9. Targets!StorageTier(target) # "disk"
  BY <1>4, <1>6 DEF Targets!StorageTier
<1>10. side.tree = Targets!TreeOf(address.ref)
  <2>1. Targets!Reads(Targets!ResolveSource(target))
    BY <1>8 DEF side
  <2> QED
    BY <1>4, <1>6, <1>8, <1>9, <2>1, GlobReadsItsPin
<1> QED
  BY <1>10 DEF side

(* The surfaces, the heap globs and their children.                         *)
LEMMA SurfacesAlwaysReadThePin ==
    ASSUME NEW spec, DeclaresGlob(spec), NEW address, IsAddress(address)
    PROVE  Targets!SurfacesReadThePin(Targets!Registry(spec), address)
<1> DEFINE registry == Targets!Registry(spec)
           found == Targets!Named(registry, address.id)
           meta == Targets!ParseSourceSpec(spec)
           named == Targets!TreeOf(Targets!PinOf(registry, address))
           raw == {side \in Targets!RawSides(registry, address) : Targets!Reads(side)}
           server == Targets!ServerDiffSide(registry, address, FALSE)
           scoped == Targets!ServerDiffSide(registry, address, TRUE)
<1>1. CASE found = {}
  BY <1>1 DEF Targets!SurfacesReadThePin
<1>2. CASE found # {}
  <2>1. PICK entry : found = {entry} /\ (entry = meta \/ IsChild(entry, meta))
    BY <1>2, NamedEntry
  <2>2. IsGlob(meta) /\ WellPlaced(meta.id, meta.prefix, meta.files)
    BY ParsedGlob DEF DeclaresGlob
  <2> HIDE DEF meta
  <2>3. IsSource(entry) /\ (entry.kind = "glob" <=> entry = meta)
                        /\ (entry.kind = "file" <=> IsChild(entry, meta))
    BY <2>1, <2>2, ChildFields DEF IsChild, IsGlob
  <2>4. (CHOOSE source \in found : TRUE) = entry
    BY <2>1
  <2> DEFINE target == Pinned(entry, address.ref)
             loaded == Targets!ResolveSource(target)
  <2>5. named = Targets!TreeOf(target.ref)
    <3>1. target.ref = IF address.ref = Targets!NoPin THEN entry.ref ELSE address.ref
      BY <2>3, PinnedFields
    <3> HIDE DEF target
    <3> QED
      BY <2>4, <3>1 DEF Targets!PinOf
  <2>6. ASSUME Targets!StorageTier(entry) = "memory",
               entry.kind = "glob" \/ address.ref = Targets!NoPin
        PROVE  \A side \in raw : side.tree = named /\ side = loaded
    <3>1. \A side \in raw : side = loaded
      BY <2>1, <2>3, <2>6, SidesLoadAlike DEF IsAddress
    <3>2. ASSUME Targets!Reads(loaded)
          PROVE  loaded.tree = named
      <4>1. CASE entry.kind = "glob"
        <5>1. target.kind = "glob" /\ Targets!StorageTier(target) # "disk"
          BY <2>3, <2>6, <4>1, TierOfPinned
        <5> HIDE DEF target
        <5> QED
          BY <2>5, <3>2, <5>1, GlobReadsItsPin
      <4>2. CASE entry.kind # "glob"
        <5>1. target = entry /\ IsChild(entry, meta)
          BY <2>1, <2>3, <2>6, <4>2 DEF Pinned
        <5>2. Targets!ResolveSource(entry).tree = Targets!TreeOf(entry.ref)
          BY <2>2, <2>6, <3>2, <5>1, ChildReadsItsPin
        <5> QED
          BY <2>5, <5>1, <5>2
      <4> QED
        BY <4>1, <4>2
    <3> HIDE DEF loaded, named
    <3> QED
      BY <3>1, <3>2
  <2>7. Targets!StorageTier(entry) = "memory"
        /\ (entry.kind = "glob" \/ address.ref = Targets!NoPin) =>
           \A side \in raw : side.tree = named /\ \A other \in raw : side.quads = other.quads
    <3> HIDE DEF raw, named, loaded
    <3> QED
      BY <2>6
  <2>8. ASSUME entry.kind = "glob", Targets!Reads(scoped)
        PROVE  scoped.tree = named
    <3> DEFINE selected == Targets!SelectFromRegistry(registry, address)
    <3>1. selected = target \/ \E why : selected = Targets!Failed(why)
      BY <2>1, <2>3, <2>8, SelectedEntry DEF IsAddress
    <3>2. IsSource(target) /\ target.kind = "glob" /\ ~Targets!Unresolved(target)
      BY <2>3, <2>8, PinnedFields, TierOfPinned
    <3>3. scoped = IF Targets!Unresolved(selected) THEN selected
                   ELSE IF selected.kind \notin {"glob", "file", "endpoint"}
                        THEN Targets!Failed("inline-upstream-kind")
                   ELSE Requoted(selected)
      BY ScopedSide
    <3>4. scoped = Requoted(target)
      <4>1. Targets!Reads(scoped)
        BY <2>8
      <4> HIDE DEF scoped, selected, target
      <4> QED
        BY <3>1, <3>2, <3>3, <4>1, FailuresDoNotRead
    <3> HIDE DEF target
    <3> QED
      BY <2>5, <2>8, <3>2, <3>4, ScopedGlobReadsItsPin
  <2>9. ASSUME Targets!StorageTier(entry) = "memory", Targets!Reads(server)
        PROVE  server.tree = named
    <3>1. CASE entry.kind = "glob" \/ address.ref = Targets!NoPin
      <4>1. server \in raw
        BY <2>9 DEF Targets!RawSides
      <4> QED
        BY <2>6, <2>9, <3>1, <4>1
    <3>2. CASE ~(entry.kind = "glob" \/ address.ref = Targets!NoPin)
      <4>1. entry.kind = "file" /\ address.ref # Targets!NoPin
        BY <2>1, <2>3, <3>2
      <4>2. server.tree = Targets!TreeOf(address.ref)
        BY <2>1, <2>9, <4>1, PinnedChildReadsThePin
      <4> QED
        BY <4>1, <4>2 DEF Targets!PinOf
    <3> QED
      BY <3>1, <3>2
  <2> HIDE DEF raw, named, server, scoped, found, registry
  <2> QED
    BY <2>4, <2>7, <2>8, <2>9
       DEF Targets!SurfacesReadThePin, raw, named, server, scoped, found, registry
<1> QED
  BY <1>1, <1>2

(* Whatever one declared glob, its files and commits, and an address of its *)
(* registry are: every surface that passes the pin on reads the tree it     *)
(* names, the children of the glob hold together what it holds, and its     *)
(* index on disk holds what the heap does.                                  *)
THEOREM PinsAlwaysRead ==
    ASSUME Reached("targets") => DeclaresGlob(probe.left) /\ IsAddress(probe.right)
    PROVE  PinsAreRead
<1> DEFINE meta == Targets!ParseSourceSpec(probe.left)
<1>1. SUFFICES ASSUME Reached("targets")
               PROVE  /\ Targets!SurfacesReadThePin(Targets!Registry(probe.left), probe.right)
                      /\ Targets!SplitCoversMeta(meta) /\ Targets!TierTransparent(meta)
  BY DEF PinsAreRead
<1>2. DeclaresGlob(probe.left) /\ IsAddress(probe.right)
  BY <1>1
<1>3. IsGlob(meta) /\ WellPlaced(meta.id, meta.prefix, meta.files)
  BY <1>2, ParsedGlob DEF DeclaresGlob
<1> QED
  BY <1>2, <1>3, SurfacesAlwaysReadThePin, SplitAlwaysCovers, TierAlwaysTransparent

-----------------------------------------------------------------------------
(* Commands: the config that a spawned build reads.                         *)

(* A path of a config file is no flag, and not empty.                       *)
LEMMA PathsAreNoFlags ==
    "none" \notin ConfigPaths /\ "" \notin ConfigPaths /\ "--no-config" \notin ConfigPaths
BY ConfigPathsAssumption

(* The child reads the path that its parent pinned, or none when none was.  *)
LEMMA ChildReadsThePin ==
    ASSUME NEW call, NEW dirs
    PROVE  Shell!ChildReadsSameConfig(call, dirs)
<1> DEFINE child == Shell!makeSpawnIndexBuild(call, dirs)
           crossed == Shell!NoConfig(call) /\ (call.flag \in ConfigPaths \/ call.env \in ConfigPaths)
<1>1. SUFFICES ASSUME NEW p \in ConfigPaths, Shell!ConfigsOf(call) = {p}, ~crossed
               PROVE  Shell!ConfigsOf(child) = {p}
  BY DEF Shell!ChildReadsSameConfig
<1>2. ~Shell!NoConfig(call)
  BY <1>1 DEF Shell!ConfigsOf
<1>3. Shell!Pinned(call) = p
  <2>1. (CHOOSE q \in {p} : TRUE) = p
    OBVIOUS
  <2> QED
    BY <1>1, <1>2, <2>1 DEF Shell!Pinned
<1>4. child.flag = "none" /\ child.env = p
  BY <1>3 DEF Shell!makeSpawnIndexBuild, Shell!None
<1> QED
  BY <1>1, <1>4, PathsAreNoFlags DEF Shell!ConfigsOf

-----------------------------------------------------------------------------
(* Commands: the codes.                                                     *)

(* Every entry of every table.                                              *)
RawCodes == {<<"raw-pass-through-target", n>> : n \in {1, 40, 41}}
AllCodes == Shell!CommonCodes \cup Shell!DiffCodes \cup {<<"git-pin", 39>>} \cup RawCodes

(* A table is read as it is written.                                        *)
LEMMA TableReads ==
    ASSUME NEW entries \in SUBSET AllCodes
    PROVE  /\ DOMAIN Shell!CodeTable(entries) = {entry[1] : entry \in entries}
           /\ \A kind \in DOMAIN Shell!CodeTable(entries) :
                  <<kind, Shell!CodeTable(entries)[kind]>> \in entries
<1>1. DOMAIN Shell!CodeTable(entries) = {entry[1] : entry \in entries}
  BY DEF Shell!CodeTable
<1>2. ASSUME NEW kind \in {entry[1] : entry \in entries}
      PROVE  <<kind, Shell!CodeTable(entries)[kind]>> \in entries
  <2> DEFINE found == CHOOSE entry \in entries : entry[1] = kind
  <2>1. found \in entries /\ found[1] = kind
    OBVIOUS
  <2>2. Shell!CodeTable(entries)[kind] = found[2]
    BY DEF Shell!CodeTable
  <2>3. found = <<found[1], found[2]>>
    BY <2>1 DEF AllCodes, RawCodes, Shell!CommonCodes, Shell!DiffCodes
  <2> HIDE DEF found
  <2> QED
    BY <2>1, <2>2, <2>3
<1> QED
  BY <1>1, <1>2

(* A code stands for one kind of failure, except for 40 and 1.              *)
LEMMA CodesAreDistinct ==
    /\ \A e \in AllCodes : e[2] \in Int /\ e[2] >= 1
    /\ \A e, f \in AllCodes : e[2] >= 10 /\ e[2] = f[2] => e[1] = f[1] \/ e[2] = 40
<1>1. \A e \in AllCodes : e[2] \in Int /\ e[2] >= 1
  BY DEF AllCodes, RawCodes, Shell!CommonCodes, Shell!DiffCodes
<1>2. \A e, f \in AllCodes : e[2] >= 10 /\ e[2] = f[2] => e[1] = f[1] \/ e[2] = 40
  BY DEF AllCodes, RawCodes, Shell!CommonCodes, Shell!DiffCodes
<1> QED
  BY <1>1, <1>2

(* The four tables: where each is defined, and which codes it gives.        *)
LEMMA TablesSay ==
    LET met == Shell!SourceKinds \cup Shell!TargetKinds IN
    /\ DOMAIN Shell!hashErrorExitCode = met
    /\ \A k \in met : <<k, Shell!hashErrorExitCode[k]>> \in AllCodes \ {<<Shell!RawTarget, 1>>}
    /\ DOMAIN Shell!queryErrorExitCode = met
    /\ \A k \in met : <<k, Shell!queryErrorExitCode[k]>> \in AllCodes
    /\ "glob-load" \in DOMAIN Shell!formatErrorExitCode
    /\ \A k \in DOMAIN Shell!formatErrorExitCode :
           <<k, Shell!formatErrorExitCode[k]>> \in AllCodes \ {<<Shell!RawTarget, 1>>}
    /\ DOMAIN Shell!diffErrorExitCode = Shell!Kinds
    /\ \A k \in Shell!Kinds : <<k, Shell!diffErrorExitCode[k]>> \in AllCodes \ {<<Shell!RawTarget, 1>>}
<1> DEFINE met == Shell!SourceKinds \cup Shell!TargetKinds
           hash == Shell!CommonCodes \cup {<<"git-pin", 39>>, <<Shell!RawTarget, 40>>}
           query == Shell!CommonCodes \cup {<<"git-pin", 39>>, <<Shell!RawTarget, 1>>}
           diff == Shell!CommonCodes \cup Shell!DiffCodes
                   \cup {<<"git-pin", 39>>, <<Shell!RawTarget, 41>>}
           rawOne == <<Shell!RawTarget, 1>>
<1>1. /\ hash \in SUBSET AllCodes /\ query \in SUBSET AllCodes
      /\ diff \in SUBSET AllCodes /\ Shell!CommonCodes \in SUBSET AllCodes
  BY DEF AllCodes, RawCodes, Shell!RawTarget
<1>2. rawOne \notin hash /\ rawOne \notin diff /\ rawOne \notin Shell!CommonCodes
  BY DEF Shell!RawTarget, Shell!CommonCodes, Shell!DiffCodes
<1>3. {e[1] : e \in hash} = met /\ {e[1] : e \in query} = met
  BY DEF Shell!RawTarget, Shell!CommonCodes, Shell!SourceKinds, Shell!TargetKinds
<1>4. {e[1] : e \in diff} = Shell!Kinds
  BY DEF Shell!RawTarget, Shell!CommonCodes, Shell!DiffCodes, Shell!Kinds,
         Shell!SourceKinds, Shell!TargetKinds, Shell!DiffKinds
<1>5. "glob-load" \in {e[1] : e \in Shell!CommonCodes}
  BY DEF Shell!CommonCodes
<1> HIDE DEF hash, query, diff, met, rawOne
<1>6. /\ DOMAIN Shell!CodeTable(hash) = met
      /\ \A k \in met : <<k, Shell!CodeTable(hash)[k]>> \in AllCodes \ {rawOne}
  <2>1. /\ DOMAIN Shell!CodeTable(hash) = {e[1] : e \in hash}
        /\ \A k \in DOMAIN Shell!CodeTable(hash) : <<k, Shell!CodeTable(hash)[k]>> \in hash
    BY <1>1, TableReads
  <2>2. \A e \in hash : e \in AllCodes \ {rawOne}
    BY <1>1, <1>2
  <2> QED
    BY <1>3, <2>1, <2>2
<1>7. /\ DOMAIN Shell!CodeTable(query) = met
      /\ \A k \in met : <<k, Shell!CodeTable(query)[k]>> \in AllCodes
  BY <1>1, <1>3, TableReads
<1>8. /\ DOMAIN Shell!CodeTable(diff) = Shell!Kinds
      /\ \A k \in Shell!Kinds : <<k, Shell!CodeTable(diff)[k]>> \in AllCodes \ {rawOne}
  <2>1. /\ DOMAIN Shell!CodeTable(diff) = {e[1] : e \in diff}
        /\ \A k \in DOMAIN Shell!CodeTable(diff) : <<k, Shell!CodeTable(diff)[k]>> \in diff
    BY <1>1, TableReads
  <2>2. \A e \in diff : e \in AllCodes \ {rawOne}
    BY <1>1, <1>2
  <2> QED
    BY <1>4, <2>1, <2>2
<1>9. /\ "glob-load" \in DOMAIN Shell!CodeTable(Shell!CommonCodes)
      /\ \A k \in DOMAIN Shell!CodeTable(Shell!CommonCodes) :
             <<k, Shell!CodeTable(Shell!CommonCodes)[k]>> \in AllCodes \ {rawOne}
  BY <1>1, <1>2, <1>5, TableReads
<1>10. /\ Shell!hashErrorExitCode = Shell!CodeTable(hash)
       /\ Shell!queryErrorExitCode = Shell!CodeTable(query)
       /\ Shell!formatErrorExitCode = Shell!CodeTable(Shell!CommonCodes)
       /\ Shell!diffErrorExitCode = Shell!CodeTable(diff)
  BY DEF Shell!hashErrorExitCode, Shell!queryErrorExitCode, Shell!formatErrorExitCode,
         Shell!diffErrorExitCode, hash, query, diff
<1>11. /\ DOMAIN Shell!hashErrorExitCode = met
       /\ \A k \in met : <<k, Shell!hashErrorExitCode[k]>> \in AllCodes \ {rawOne}
       /\ DOMAIN Shell!queryErrorExitCode = met
       /\ \A k \in met : <<k, Shell!queryErrorExitCode[k]>> \in AllCodes
       /\ "glob-load" \in DOMAIN Shell!formatErrorExitCode
       /\ \A k \in DOMAIN Shell!formatErrorExitCode :
              <<k, Shell!formatErrorExitCode[k]>> \in AllCodes \ {rawOne}
       /\ DOMAIN Shell!diffErrorExitCode = Shell!Kinds
       /\ \A k \in Shell!Kinds : <<k, Shell!diffErrorExitCode[k]>> \in AllCodes \ {rawOne}
  BY <1>6, <1>7, <1>8, <1>9, <1>10
<1> QED
  BY <1>11 DEF met, rawOne

(* A code of ten or more is one kind of failure in all commands.            *)
LEMMA CodesAlwaysAgree == Shell!CodesAgree
<1> DEFINE tables == {Shell!hashErrorExitCode, Shell!queryErrorExitCode,
                      Shell!formatErrorExitCode, Shell!diffErrorExitCode}
<1>1. \A table \in tables : \A kind \in DOMAIN table : <<kind, table[kind]>> \in AllCodes
  BY TablesSay
<1>2. ASSUME NEW c \in tables, NEW d \in tables, NEW k \in DOMAIN c, NEW l \in DOMAIN d,
             c[k] >= 10, c[k] = d[l]
      PROVE  k = l \/ c[k] = 40
  <2>1. <<k, c[k]>> \in AllCodes /\ <<l, d[l]>> \in AllCodes
    BY <1>1
  <2>2. \A e, f \in AllCodes : e[2] >= 10 /\ e[2] = f[2] => e[1] = f[1] \/ e[2] = 40
    BY CodesAreDistinct
  <2> HIDE DEF tables
  <2> QED
    BY <1>2, <2>1, <2>2
<1> QED
  BY <1>2 DEF Shell!CodesAgree

-----------------------------------------------------------------------------
(* Commands: the steps of a handler, and the first that fails.              *)

First(steps) == Shell!FirstFailure(steps)
Then(a, b) == IF a = {Shell!Fine} THEN b ELSE a

(* The first failing step decides: all are fine, or it is the least index   *)
(* of a step that is not.                                                   *)
LEMMA FirstIs ==
    ASSUME NEW steps, IsList(steps)
    PROVE  \/ First(steps) = {Shell!Fine} /\ \A i \in DOMAIN steps : steps[i] = {Shell!Fine}
           \/ \E i \in DOMAIN steps :
                 /\ First(steps) = steps[i] /\ steps[i] # {Shell!Fine}
                 /\ \A j \in DOMAIN steps : j < i => steps[j] = {Shell!Fine}
<1> DEFINE failing == {i \in DOMAIN steps : steps[i] # {Shell!Fine}}
           least == CHOOSE j \in failing : \A k \in failing : j <= k
<1>1. failing \in SUBSET Nat
  BY ListDomain
<1>2. CASE failing = {}
  BY <1>2 DEF First, Shell!FirstFailure
<1>3. CASE failing # {}
  <2>1. least \in failing /\ \A k \in failing : least <= k
    <3> HIDE DEF failing
    <3> QED
      BY <1>1, <1>3, LeastIndex
  <2>2. First(steps) = steps[least]
    BY <1>3 DEF First, Shell!FirstFailure
  <2> HIDE DEF least
  <2>3. \A j \in DOMAIN steps : j < least => steps[j] = {Shell!Fine}
    <3>1. ASSUME NEW j \in DOMAIN steps, j < least, steps[j] # {Shell!Fine}
          PROVE  FALSE
      <4>1. j \in failing /\ j \in Nat /\ least \in Nat
        BY <1>1, <2>1, <3>1
      <4> QED
        BY <2>1, <3>1, <4>1
    <3> QED
      BY <3>1
  <2> QED
    BY <2>1, <2>2, <2>3
<1> QED
  BY <1>2, <1>3

LEMMA FirstOne ==
    ASSUME NEW a
    PROVE  IsList(<<a>>) /\ First(<<a>>) = a
<1>1. <<a>> \in Seq({a}) /\ DOMAIN <<a>> = {1} /\ <<a>>[1] = a
  OBVIOUS
<1>2. IsList(<<a>>)
  BY <1>1 DEF IsList
<1> QED
  BY <1>1, <1>2, FirstIs

(* Of two lists one after the other, the first that fails decides.          *)
LEMMA FirstOfJoined ==
    ASSUME NEW s, NEW t, IsList(s), IsList(t)
    PROVE  IsList(s \o t) /\ First(s \o t) = Then(First(s), First(t))
<1> DEFINE u == s \o t
           fine == {Shell!Fine}
<1>1. PICK S : s \in Seq(S)
  BY DEF IsList
<1>2. PICK T : t \in Seq(T)
  BY DEF IsList
<1>3. s \in Seq(S \cup T) /\ t \in Seq(S \cup T)
  BY <1>1, <1>2
<1>4. /\ u \in Seq(S \cup T) /\ Len(u) = Len(s) + Len(t)
      /\ \A i \in 1..Len(s) : u[i] = s[i]
      /\ \A i \in 1..Len(t) : u[Len(s) + i] = t[i]
  BY <1>3
<1>5. IsList(u)
  BY <1>4 DEF IsList
<1>6. /\ Len(s) \in Nat /\ DOMAIN s = 1..Len(s)
      /\ Len(t) \in Nat /\ DOMAIN t = 1..Len(t)
      /\ DOMAIN u = 1..(Len(s) + Len(t))
  BY <1>4, <1>5, ListDomain
<1> HIDE DEF u
<1>7. CASE First(s) = fine
  <2>1. \A i \in 1..Len(s) : s[i] = fine
    BY <1>6, <1>7, FirstIs
  <2>2. CASE First(t) = fine
    <3>1. \A i \in 1..Len(t) : t[i] = fine
      BY <1>6, <2>2, FirstIs
    <3>2. ASSUME NEW i \in DOMAIN u
          PROVE  u[i] = fine
      <4>1. CASE i <= Len(s)
        BY <1>4, <1>6, <2>1, <4>1
      <4>2. CASE ~(i <= Len(s))
        <5>1. i - Len(s) \in 1..Len(t) /\ Len(s) + (i - Len(s)) = i
          BY <1>6, <4>2
        <5>2. u[Len(s) + (i - Len(s))] = t[i - Len(s)]
          BY <1>4, <5>1
        <5> QED
          BY <3>1, <5>1, <5>2
      <4> QED
        BY <4>1, <4>2
    <3>3. First(u) = fine
      BY <1>5, <3>2, FirstIs
    <3> QED
      BY <1>5, <1>7, <2>2, <3>3 DEF Then, u
  <2>3. CASE First(t) # fine
    <3>1. PICK k \in 1..Len(t) : /\ First(t) = t[k] /\ t[k] # fine
                                 /\ \A j \in 1..Len(t) : j < k => t[j] = fine
      BY <1>6, <2>3, FirstIs
    <3>2. Len(s) + k \in DOMAIN u /\ u[Len(s) + k] # fine
      BY <1>4, <1>6, <3>1
    <3>3. PICK i \in DOMAIN u : /\ First(u) = u[i] /\ u[i] # fine
                                /\ \A j \in DOMAIN u : j < i => u[j] = fine
      BY <1>5, <3>2, FirstIs
    <3>4. ~(i <= Len(s))
      BY <1>4, <1>6, <2>1, <3>3
    <3>5. i - Len(s) \in 1..Len(t) /\ Len(s) + (i - Len(s)) = i
      BY <1>6, <3>4
    <3>6. u[i] = t[i - Len(s)]
      BY <1>4, <3>5
    <3>7. ~(i - Len(s) < k)
      BY <3>1, <3>3, <3>5, <3>6
    <3>8. ~(Len(s) + k < i)
      BY <3>2, <3>3
    <3>9. i - Len(s) = k
      BY <1>6, <3>5, <3>7, <3>8
    <3>10. First(u) = First(t)
      BY <3>1, <3>3, <3>6, <3>9
    <3> QED
      BY <1>5, <1>7, <3>10 DEF Then, u
  <2> QED
    BY <2>2, <2>3
<1>8. CASE First(s) # fine
  <2>1. PICK k \in 1..Len(s) : /\ First(s) = s[k] /\ s[k] # fine
                               /\ \A j \in 1..Len(s) : j < k => s[j] = fine
    BY <1>6, <1>8, FirstIs
  <2>2. k \in DOMAIN u /\ u[k] # fine
    BY <1>4, <1>6, <2>1
  <2>3. PICK i \in DOMAIN u : /\ First(u) = u[i] /\ u[i] # fine
                              /\ \A j \in DOMAIN u : j < i => u[j] = fine
    BY <1>5, <2>2, FirstIs
  <2>4. ~(k < i)
    BY <2>2, <2>3
  <2>5. i \in 1..Len(s)
    BY <1>6, <2>4
  <2>6. u[i] = s[i]
    BY <1>4, <2>5
  <2>7. ~(i < k)
    BY <2>1, <2>3, <2>5, <2>6
  <2>8. i = k
    BY <2>4, <2>5, <2>7
  <2>9. First(u) = First(s)
    BY <2>1, <2>3, <2>6, <2>8
  <2> QED
    BY <1>5, <1>8, <2>9 DEF Then, u
<1> QED
  BY <1>7, <1>8

(* Short lists, step by step.                                               *)
LEMMA FirstTwo ==
    ASSUME NEW a, NEW b
    PROVE  IsList(<<a, b>>) /\ First(<<a, b>>) = Then(a, b)
<1>1. /\ <<a, b>> \in Seq({a, b}) /\ DOMAIN <<a, b>> = {1, 2}
      /\ <<a, b>>[1] = a /\ <<a, b>>[2] = b
  OBVIOUS
<1>2. IsList(<<a, b>>)
  BY <1>1 DEF IsList
<1>3. \/ First(<<a, b>>) = {Shell!Fine} /\ a = {Shell!Fine} /\ b = {Shell!Fine}
      \/ First(<<a, b>>) = a /\ a # {Shell!Fine}
      \/ First(<<a, b>>) = b /\ a = {Shell!Fine}
  BY <1>1, <1>2, FirstIs
<1> QED
  BY <1>2, <1>3 DEF Then

LEMMA FirstThree ==
    ASSUME NEW a, NEW b, NEW c
    PROVE  IsList(<<a, b, c>>) /\ First(<<a, b, c>>) = Then(a, Then(b, c))
<1>1. <<a, b, c>> = <<a>> \o <<b, c>>
  OBVIOUS
<1>2. IsList(<<a>>) /\ IsList(<<b, c>>)
  BY FirstOne, FirstTwo
<1>3. /\ IsList(<<a>> \o <<b, c>>)
      /\ First(<<a>> \o <<b, c>>) = Then(First(<<a>>), First(<<b, c>>))
  BY <1>2, FirstOfJoined
<1>4. First(<<a>>) = a /\ First(<<b, c>>) = Then(b, c)
  BY FirstOne, FirstTwo
<1> QED
  BY <1>1, <1>3, <1>4

LEMMA FirstFour ==
    ASSUME NEW a, NEW b, NEW c, NEW d
    PROVE  /\ IsList(<<a, b, c, d>>)
           /\ First(<<a, b, c, d>>) = Then(a, Then(b, Then(c, d)))
<1>1. <<a, b, c, d>> = <<a>> \o <<b, c, d>>
  OBVIOUS
<1>2. IsList(<<a>>) /\ IsList(<<b, c, d>>)
  BY FirstOne, FirstThree
<1>3. /\ IsList(<<a>> \o <<b, c, d>>)
      /\ First(<<a>> \o <<b, c, d>>) = Then(First(<<a>>), First(<<b, c, d>>))
  BY <1>2, FirstOfJoined
<1>4. First(<<a>>) = a /\ First(<<b, c, d>>) = Then(b, Then(c, d))
  BY FirstOne, FirstThree
<1> QED
  BY <1>1, <1>3, <1>4

LEMMA FirstSeven ==
    ASSUME NEW a, NEW b, NEW c, NEW d, NEW e, NEW f, NEW g
    PROVE  /\ IsList(<<a, b, c, d, e, f, g>>)
           /\ First(<<a, b, c, d, e, f, g>>)
                = Then(Then(a, Then(b, c)), Then(d, Then(e, Then(f, g))))
<1>1. <<a, b, c, d, e, f, g>> = <<a, b, c>> \o <<d, e, f, g>>
  OBVIOUS
<1>2. IsList(<<a, b, c>>) /\ IsList(<<d, e, f, g>>)
  BY FirstThree, FirstFour
<1>3. /\ IsList(<<a, b, c>> \o <<d, e, f, g>>)
      /\ First(<<a, b, c>> \o <<d, e, f, g>>) = Then(First(<<a, b, c>>), First(<<d, e, f, g>>))
  BY <1>2, FirstOfJoined
<1>4. /\ First(<<a, b, c>>) = Then(a, Then(b, c))
      /\ First(<<d, e, f, g>>) = Then(d, Then(e, Then(f, g)))
  BY FirstThree, FirstFour
<1> QED
  BY <1>1, <1>3, <1>4

LEMMA FirstEight ==
    ASSUME NEW a, NEW b, NEW c, NEW d, NEW e, NEW f, NEW g, NEW h
    PROVE  /\ IsList(<<a, b, c, d, e, f, g, h>>)
           /\ First(<<a, b, c, d, e, f, g, h>>)
                = Then(Then(a, Then(b, Then(c, d))), Then(e, Then(f, Then(g, h))))
<1>1. <<a, b, c, d, e, f, g, h>> = <<a, b, c, d>> \o <<e, f, g, h>>
  OBVIOUS
<1>2. IsList(<<a, b, c, d>>) /\ IsList(<<e, f, g, h>>)
  BY FirstFour
<1>3. /\ IsList(<<a, b, c, d>> \o <<e, f, g, h>>)
      /\ First(<<a, b, c, d>> \o <<e, f, g, h>>)
           = Then(First(<<a, b, c, d>>), First(<<e, f, g, h>>))
  BY <1>2, FirstOfJoined
<1>4. /\ First(<<a, b, c, d>>) = Then(a, Then(b, Then(c, d)))
      /\ First(<<e, f, g, h>>) = Then(e, Then(f, Then(g, h)))
  BY FirstFour
<1> QED
  BY <1>1, <1>3, <1>4

(* A step went well, or failed in one of the ways it may.                   *)
Stepped(step, ways) == step = {Shell!Fine} \/ (step # {} /\ step \subseteq ways)

LEMMA ThenStepped ==
    ASSUME NEW a, NEW b, NEW ways, Stepped(a, ways), Stepped(b, ways)
    PROVE  Stepped(Then(a, b), ways)
BY DEF Stepped, Then

(* Without its last step, a list is what came before that.                  *)
LEMMA ButLast ==
    ASSUME NEW s, NEW x, IsList(s), Len(s) >= 1
    PROVE  SubSeq(s \o <<x>>, 1, Len(s \o <<x>>) - 1) = s
<1>1. PICK S : s \in Seq(S)
  BY DEF IsList
<1>2. s \in Seq(S \cup {x}) /\ <<x>> \in Seq(S \cup {x}) /\ Len(<<x>>) = 1
  BY <1>1
<1>3. Len(s) \in Nat /\ Len(s \o <<x>>) = Len(s) + 1
  BY <1>2
<1>4. Len(s \o <<x>>) - 1 = Len(s)
  BY <1>3
<1>5. SubSeq(s \o <<x>>, 1, Len(s)) = SubSeq(s, 1, Len(s))
  BY <1>2, <1>3, SubSeqOfConcat1
<1>6. SubSeq(s, 1, Len(s)) = s
  BY <1>2, SubSeqFull
<1> QED
  BY <1>4, <1>5, <1>6

-----------------------------------------------------------------------------
(* Commands: calls.                                                         *)

Ways(command) ==
    {"plain"} \cup (IF command = "format" THEN {"glob-load"}
                    ELSE IF command = "diff" THEN Shell!Kinds
                    ELSE Shell!SourceKinds \cup Shell!TargetKinds)

(* What the steps of a side may meet.                                       *)
IsSide(side, command) ==
    {side.target, side.at, side.load} \subseteq {"none"} \cup Ways(command)

(* A call of one of the four commands: the flags that only `format' takes,  *)
(* and what its steps may meet; `hash' pins only its first side.            *)
IsCall(call) ==
    /\ call.command \in {"hash", "diff", "query", "format"}
    /\ {"check", "write"} \cap call.flags # {} => call.command = "format"
    /\ call.command # "format" =>
          /\ call.registry \in {"none"} \cup Ways(call.command)
          /\ IsSide(call.left, call.command)
    /\ call.command \in {"hash", "diff"} => IsSide(call.right, call.command)
    /\ call.command = "diff" => call.shapes \in {"none"} \cup Ways("diff")
    /\ call.command = "hash" => call.right.at = "none"
    /\ IsList(call.files)
    /\ \A i \in DOMAIN call.files : {"graph", "tidy"} \subseteq DOMAIN call.files[i].again

LEMMA WaysAreNamed ==
    ASSUME NEW command
    PROVE  /\ Shell!Fine = "none" /\ Shell!Plain = "plain" /\ Shell!Verdict = "differs"
           /\ Shell!Fine \notin Ways(command) /\ Shell!Verdict \notin Ways(command)
           /\ Shell!Plain \in Ways(command)
           /\ Shell!Plain \notin Shell!Kinds /\ Shell!Verdict \notin Shell!Kinds
           /\ Shell!SourceKinds \cup Shell!TargetKinds \subseteq Shell!Kinds
           /\ "glob-load" \in Shell!SourceKinds
<1>1. /\ Shell!Fine = "none" /\ Shell!Plain = "plain" /\ Shell!Verdict = "differs"
      /\ "plain" # "none" /\ "plain" # "differs"
  BY DEF Shell!Fine, Shell!Plain, Shell!Verdict
<1>2. \A kind \in Shell!Kinds : kind # "none" /\ kind # "differs" /\ kind # "plain"
  BY DEF Shell!Kinds, Shell!SourceKinds, Shell!TargetKinds, Shell!DiffKinds
<1>3. /\ Shell!SourceKinds \cup Shell!TargetKinds \subseteq Shell!Kinds
      /\ "glob-load" \in Shell!SourceKinds
  BY DEF Shell!Kinds, Shell!SourceKinds
<1> QED
  BY <1>1, <1>2, <1>3 DEF Ways

(* The steps of which the lists are made.                                   *)
LEMMA RefusedStepped ==
    ASSUME NEW condition, NEW command
    PROVE  /\ Stepped(Shell!Refused(condition), Ways(command))
           /\ Shell!Refused(condition) = {Shell!Fine} <=> ~condition
BY WaysAreNamed DEF Stepped, Shell!Refused

LEMMA MetStepped ==
    ASSUME NEW command, NEW x \in {"none"} \cup Ways(command)
    PROVE  /\ Stepped({x}, Ways(command))
           /\ {x} = {Shell!Fine} <=> x = Shell!Fine
BY WaysAreNamed DEF Stepped

LEMMA LoadsStepped ==
    ASSUME NEW command, NEW a \in {"none"} \cup Ways(command), NEW b \in {"none"} \cup Ways(command)
    PROVE  /\ Stepped(Shell!Combined(a, b), Ways(command))
           /\ Stepped(Shell!Raced(a, b), Ways(command))
           /\ Shell!Combined(a, b) = {Shell!Fine} <=> a = Shell!Fine /\ b = Shell!Fine
           /\ Shell!Raced(a, b) = {Shell!Fine} <=> a = Shell!Fine /\ b = Shell!Fine
<1>1. Shell!FirstFailure(<<{a}, {b}>>) = Then({a}, {b})
  BY FirstTwo DEF First
<1>2. /\ Stepped({a}, Ways(command)) /\ Stepped({b}, Ways(command))
      /\ {a} = {Shell!Fine} <=> a = Shell!Fine
      /\ {b} = {Shell!Fine} <=> b = Shell!Fine
  BY MetStepped
<1>3. Stepped(Shell!Combined(a, b), Ways(command))
  <2>1. Stepped(Then({a}, {b}), Ways(command))
    BY <1>2, ThenStepped
  <2>2. Stepped({Shell!Plain}, Ways(command))
    BY WaysAreNamed DEF Stepped
  <2> QED
    BY <1>1, <2>1, <2>2 DEF Shell!Combined
<1>4. Shell!Combined(a, b) = {Shell!Fine} <=> a = Shell!Fine /\ b = Shell!Fine
  BY <1>1, WaysAreNamed DEF Shell!Combined, Then
<1>5. Stepped(Shell!Raced(a, b), Ways(command))
  BY WaysAreNamed DEF Shell!Raced, Stepped
<1>6. Shell!Raced(a, b) = {Shell!Fine} <=> a = Shell!Fine /\ b = Shell!Fine
  BY WaysAreNamed DEF Shell!Raced
<1> QED
  BY <1>3, <1>4, <1>5, <1>6

(* What a failure ends a command with: never with 0, and with 1 only where  *)
(* no verdict was asked for.                                                *)
AsksVerdict(command, raw) ==
    \/ command = "diff"
    \/ command = "hash" /\ "compare-with" \in raw
    \/ command = "format" /\ "check" \in raw

LEMMA Exits ==
    ASSUME NEW command \in {"hash", "diff", "query", "format"}, NEW raw
    PROVE  /\ Shell!ExitCode(command, Shell!Fine, raw) = 0
           /\ command # "query" => Shell!ExitCode(command, Shell!Verdict, raw) = 1
           /\ \A way \in Ways(command) :
                 /\ Shell!ExitCode(command, way, raw) # 0
                 /\ AsksVerdict(command, raw) => Shell!ExitCode(command, way, raw) # 1
<1> DEFINE Code(failure) == Shell!ExitCode(command, failure, raw)
           met == Shell!SourceKinds \cup Shell!TargetKinds
<1>1. Code(Shell!Fine) = 0
  BY DEF Shell!ExitCode
<1>2. command # "query" => Code(Shell!Verdict) = 1
  <2>1. Shell!Verdict # Shell!Fine
    BY DEF Shell!Verdict, Shell!Fine
  <2>2. CASE command = "hash"
    BY <2>1, <2>2 DEF Shell!ExitCode, Shell!HashExit
  <2>3. CASE command = "diff"
    BY <2>1, <2>3 DEF Shell!ExitCode, Shell!DiffExit
  <2>4. CASE command = "format"
    BY <2>1, <2>4 DEF Shell!ExitCode, Shell!FormatExit
  <2> QED
    BY <2>2, <2>3, <2>4
<1>3. \A e \in AllCodes : e[2] \in Int /\ e[2] # 0
  BY CodesAreDistinct
<1>4. \A e \in AllCodes \ {<<Shell!RawTarget, 1>>} : e[2] \in Int /\ e[2] # 0 /\ e[2] # 1
  BY DEF AllCodes, RawCodes, Shell!CommonCodes, Shell!DiffCodes, Shell!RawTarget
<1>5. /\ \A k \in met : Shell!hashErrorExitCode[k] # 0 /\ Shell!hashErrorExitCode[k] # 1
      /\ \A k \in met : Shell!queryErrorExitCode[k] # 0
      /\ Shell!formatErrorExitCode["glob-load"] # 0 /\ Shell!formatErrorExitCode["glob-load"] # 1
      /\ \A k \in Shell!Kinds : Shell!diffErrorExitCode[k] # 0 /\ Shell!diffErrorExitCode[k] # 1
  <2> DEFINE hash(k) == <<k, Shell!hashErrorExitCode[k]>>
             query(k) == <<k, Shell!queryErrorExitCode[k]>>
             format(k) == <<k, Shell!formatErrorExitCode[k]>>
             diff(k) == <<k, Shell!diffErrorExitCode[k]>>
             sound == AllCodes \ {<<Shell!RawTarget, 1>>}
  <2>1. /\ \A k \in met : hash(k) \in sound /\ query(k) \in AllCodes
        /\ format("glob-load") \in sound
        /\ \A k \in Shell!Kinds : diff(k) \in sound
    BY TablesSay
  <2>2. /\ \A k : hash(k)[2] = Shell!hashErrorExitCode[k]
        /\ \A k : query(k)[2] = Shell!queryErrorExitCode[k]
        /\ \A k : format(k)[2] = Shell!formatErrorExitCode[k]
        /\ \A k : diff(k)[2] = Shell!diffErrorExitCode[k]
    OBVIOUS
  <2>3. \A e \in sound : e[2] # 0 /\ e[2] # 1
    BY <1>4
  <2> HIDE DEF hash, query, format, diff, sound, met
  <2> QED
    BY <1>3, <2>1, <2>2, <2>3
<1>6. ASSUME NEW way \in Ways(command)
      PROVE  Code(way) # 0 /\ (AsksVerdict(command, raw) => Code(way) # 1)
  <2>1. way # Shell!Fine /\ way # Shell!Verdict /\ (way = "plain" \/ way \in Shell!Kinds)
    BY <1>6, WaysAreNamed DEF Ways
  <2>2. CASE command = "hash"
    <3>1. way = "plain" \/ way \in met
      BY <1>6, <2>2 DEF Ways
    <3>2. Code(way) = Shell!HashExit(way, raw)
      BY <2>1, <2>2 DEF Shell!ExitCode
    <3>3. way \in Shell!Kinds => way \in met
      BY <3>1, WaysAreNamed
    <3> QED
      BY <1>5, <2>1, <2>2, <3>2, <3>3 DEF Shell!HashExit, AsksVerdict
  <2>3. CASE command = "diff"
    <3>1. Code(way) = Shell!DiffExit(way, raw)
      BY <2>1, <2>3 DEF Shell!ExitCode
    <3> QED
      BY <1>5, <2>1, <3>1 DEF Shell!DiffExit
  <2>4. CASE command = "query"
    <3>1. way = "plain" \/ way \in met
      BY <1>6, <2>4 DEF Ways
    <3>2. Code(way) = Shell!QueryExit(way, raw)
      BY <2>1, <2>4 DEF Shell!ExitCode
    <3>3. way \in Shell!Kinds => way \in met
      BY <3>1, WaysAreNamed
    <3> QED
      BY <1>5, <2>4, <3>2, <3>3 DEF Shell!QueryExit, AsksVerdict
  <2>5. CASE command = "format"
    <3>1. way = "plain" \/ way = "glob-load"
      BY <1>6, <2>5 DEF Ways
    <3>2. Code(way) = Shell!FormatExit(way, raw)
      BY <2>1, <2>5 DEF Shell!ExitCode
    <3>3. way \in Shell!Kinds => way = "glob-load"
      BY <3>1, WaysAreNamed
    <3> QED
      BY <1>5, <2>1, <2>5, <3>2, <3>3 DEF Shell!FormatExit, AsksVerdict
  <2> QED
    BY <2>2, <2>3, <2>4, <2>5
<1> QED
  BY <1>1, <1>2, <1>6

(* What the statuses of a call say of its steps: `before' failed in one of  *)
(* the ways of the command or went well, and then `last' may differ.        *)
LEMMA StatusesSay ==
    ASSUME NEW call, IsCall(call), NEW before, NEW last,
           Shell!FirstFailure(Shell!Steps(call)) = Then(before, last),
           Stepped(before, Ways(call.command)),
           \/ last = {Shell!Fine}
           \/ last = {Shell!Verdict} /\ call.command # "query"
           \/ Stepped(last, Ways(call.command))
    PROVE  /\ 0 \in Shell!Statuses(call) <=> before = {Shell!Fine} /\ last = {Shell!Fine}
           /\ AsksVerdict(call.command, Shell!RawConfig(call)) =>
                 \A status \in Shell!Statuses(call) :
                    /\ status \in {0, 1} => before = {Shell!Fine} /\ last \in {{Shell!Fine}, {Shell!Verdict}}
                    /\ status = 0 => last = {Shell!Fine}
                    /\ status = 1 => last = {Shell!Verdict}
                    /\ before = {Shell!Fine} /\ last \in {{Shell!Fine}, {Shell!Verdict}}
                          => status \in {0, 1}
<1> DEFINE command == call.command
           raw == Shell!RawConfig(call)
           Code(failure) == Shell!ExitCode(command, failure, raw)
           first == Then(before, last)
<1>1. command \in {"hash", "diff", "query", "format"}
  BY DEF IsCall
<1>2. \A status : status \in Shell!Statuses(call) <=> \E failure \in first : status = Code(failure)
  BY DEF Shell!Statuses
<1>3. /\ Code(Shell!Fine) = 0
      /\ command # "query" => Code(Shell!Verdict) = 1
      /\ \A way \in Ways(command) : /\ Code(way) # 0
                                    /\ AsksVerdict(command, raw) => Code(way) # 1
  BY <1>1, Exits
<1>4. /\ Shell!Fine \notin Ways(command) /\ Shell!Verdict \notin Ways(command)
      /\ Shell!Fine # Shell!Verdict
  BY WaysAreNamed
<1>5. \/ before = {Shell!Fine} /\ first = last
      \/ before # {Shell!Fine} /\ first = before /\ before # {} /\ before \subseteq Ways(command)
  BY DEF Stepped, Then
<1>6. \/ last = {Shell!Fine}
      \/ last = {Shell!Verdict} /\ command # "query"
      \/ last # {} /\ last \subseteq Ways(command)
  BY DEF Stepped
<1>7. 0 \in Shell!Statuses(call) <=> before = {Shell!Fine} /\ last = {Shell!Fine}
  <2> HIDE DEF command, raw, Code, first
  <2> QED
    BY <1>2, <1>3, <1>4, <1>5, <1>6
<1>8. ASSUME AsksVerdict(command, raw), NEW status \in Shell!Statuses(call)
      PROVE  /\ status \in {0, 1} => before = {Shell!Fine} /\ last \in {{Shell!Fine}, {Shell!Verdict}}
             /\ status = 0 => last = {Shell!Fine}
             /\ status = 1 => last = {Shell!Verdict}
             /\ before = {Shell!Fine} /\ last \in {{Shell!Fine}, {Shell!Verdict}} => status \in {0, 1}
  <2>1. PICK failure \in first : status = Code(failure)
    BY <1>2, <1>8
  <2>2. \/ failure = Shell!Fine /\ status = 0
        \/ failure = Shell!Verdict /\ status = 1
        \/ failure \in Ways(command) /\ status # 0 /\ status # 1
    <3> HIDE DEF command, raw, Code, first
    <3> QED
      BY <1>3, <1>5, <1>6, <1>8, <2>1
  <2>3. \/ before = {Shell!Fine} /\ failure \in last
        \/ before # {Shell!Fine} /\ failure \in Ways(command)
    <3> HIDE DEF command, raw, Code, first
    <3> QED
      BY <1>5, <2>1
  <2> HIDE DEF command, raw, Code, first
  <2> QED
    BY <1>4, <1>6, <2>2, <2>3
<1> QED
  BY <1>7, <1>8

LEMMA ThenAssociates ==
    ASSUME NEW a, NEW b, NEW c
    PROVE  Then(a, Then(b, c)) = Then(Then(a, b), c)
BY DEF Then

LEMMA ThenFine ==
    ASSUME NEW a, NEW b
    PROVE  Then(a, b) = {Shell!Fine} <=> a = {Shell!Fine} /\ b = {Shell!Fine}
BY DEF Then

(* The first two steps of every command.                                    *)
Start(call) == Then(Shell!Refused(Shell!Early(call)), Shell!Refine(call))

LEMMA StartStepped ==
    ASSUME NEW call
    PROVE  /\ Stepped(Start(call), Ways(call.command))
           /\ Start(call) = {Shell!Fine} => Shell!RawConfig(call) = call.flags
<1>1. /\ Stepped(Shell!Refused(Shell!Early(call)), Ways(call.command))
      /\ Shell!Refused(Shell!Early(call)) = {Shell!Fine} <=> ~Shell!Early(call)
  BY RefusedStepped
<1>2. Stepped(Shell!Refine(call), Ways(call.command))
  BY RefusedStepped DEF Shell!Refine
<1>3. Stepped(Start(call), Ways(call.command))
  BY <1>1, <1>2, ThenStepped DEF Start
<1>4. Start(call) = {Shell!Fine} => ~Shell!Early(call)
  BY <1>1, ThenFine DEF Start
<1> QED
  BY <1>3, <1>4 DEF Shell!RawConfig

(* `hash' with --compare-with: the steps up to the comparison.              *)
HashBefore(call) ==
    Then(Start(call),
      Then(Then(Shell!Refused(Shell!Asked(call, "out")),
             Then(Shell!Refused(Shell!Asked(call, "query-file") /\ call.queryFile = "unreadable"),
               Then({call.registry}, Then({call.left.target}, {call.left.at})))),
        Then({call.right.target}, Shell!Combined(call.left.load, call.right.load))))

LEMMA HashCompares ==
    ASSUME NEW call, IsCall(call), call.command = "hash", "compare-with" \in call.flags
    PROVE  /\ Shell!FirstFailure(Shell!Steps(call)) = Then(HashBefore(call), Shell!Compared(call))
           /\ Stepped(HashBefore(call), Ways(call.command))
           /\ HashBefore(call) = {Shell!Fine} =>
                 Shell!ReadWhole(call) /\ ~Shell!Asked(call, "out")
           /\ ~Shell!OutWritten(call)
<1> DEFINE early == Shell!Refused(Shell!Early(call))
           refine == Shell!Refine(call)
           out == Shell!Refused(Shell!Asked(call, "out"))
           query == Shell!Refused(Shell!Asked(call, "query-file") /\ call.queryFile = "unreadable")
           registry == {call.registry}
           leftTarget == {call.left.target}
           leftAt == {call.left.at}
           rightTarget == {call.right.target}
           loads == Shell!Combined(call.left.load, call.right.load)
           compared == Shell!Compared(call)
           ways == Ways(call.command)
           none == {Shell!Fine}
<1>1. Shell!Steps(call)
        = <<early, refine>> \o ((<<out>> \o <<query, registry, leftTarget, leftAt>>)
                                \o <<rightTarget, loads, compared>>)
  BY DEF Shell!Steps, Shell!HashSteps, Shell!Asked
<1>2. /\ Stepped(early, ways) /\ Stepped(refine, ways) /\ Stepped(out, ways)
      /\ Stepped(query, ways)
      /\ out = none <=> ~Shell!Asked(call, "out")
  BY RefusedStepped DEF Shell!Refine
<1>3. /\ Stepped(registry, ways) /\ Stepped(leftTarget, ways) /\ Stepped(leftAt, ways)
      /\ Stepped(rightTarget, ways)
      /\ leftTarget = none <=> call.left.target = Shell!Fine
      /\ leftAt = none <=> call.left.at = Shell!Fine
      /\ rightTarget = none <=> call.right.target = Shell!Fine
  BY MetStepped DEF IsCall, IsSide
<1>4. /\ Stepped(loads, ways)
      /\ loads = none <=> call.left.load = Shell!Fine /\ call.right.load = Shell!Fine
  <2> DEFINE a == call.left.load
             b == call.right.load
  <2>1. a \in {"none"} \cup ways /\ b \in {"none"} \cup ways
    BY DEF IsCall, IsSide
  <2>2. /\ Stepped(Shell!Combined(a, b), ways) /\ Stepped(Shell!Raced(a, b), ways)
        /\ Shell!Combined(a, b) = none <=> a = Shell!Fine /\ b = Shell!Fine
        /\ Shell!Raced(a, b) = none <=> a = Shell!Fine /\ b = Shell!Fine
    <3> HIDE DEF a, b
    <3> QED
      BY <2>1, LoadsStepped
  <2> QED
    BY <2>2
<1>5. HashBefore(call)
        = Then(Then(early, refine),
               Then(Then(out, Then(query, Then(registry, Then(leftTarget, leftAt)))),
                    Then(rightTarget, loads)))
  BY DEF HashBefore, Start
<1>6. call.right.at = Shell!Fine
  BY WaysAreNamed DEF IsCall
<1>7. Shell!ReadWhole(call) <=>
        /\ {call.left.target, call.left.at, call.left.load} = none
        /\ {call.right.target, call.right.at, call.right.load} = none
  BY DEF Shell!ReadWhole
<1>8. Shell!OutWritten(call) => Shell!Asked(call, "out") /\ First(Shell!Steps(call)) = none
  BY DEF Shell!OutWritten, First
<1> HIDE DEF early, refine, out, query, registry, leftTarget, leftAt, rightTarget, loads,
             compared, ways, none
<1>9. First(Shell!Steps(call))
        = Then(Then(early, refine),
               Then(Then(out, Then(query, Then(registry, Then(leftTarget, leftAt)))),
                    Then(rightTarget, Then(loads, compared))))
  <2>1. /\ IsList(<<early, refine>>) /\ First(<<early, refine>>) = Then(early, refine)
        /\ IsList(<<out>>) /\ First(<<out>>) = out
        /\ IsList(<<query, registry, leftTarget, leftAt>>)
        /\ First(<<query, registry, leftTarget, leftAt>>)
             = Then(query, Then(registry, Then(leftTarget, leftAt)))
        /\ IsList(<<rightTarget, loads, compared>>)
        /\ First(<<rightTarget, loads, compared>>) = Then(rightTarget, Then(loads, compared))
    BY FirstOne, FirstTwo, FirstThree, FirstFour
  <2> DEFINE primary == <<out>> \o <<query, registry, leftTarget, leftAt>>
  <2>2. /\ IsList(primary)
        /\ First(primary) = Then(First(<<out>>), First(<<query, registry, leftTarget, leftAt>>))
    BY <2>1, FirstOfJoined
  <2> HIDE DEF primary
  <2> DEFINE all == primary \o <<rightTarget, loads, compared>>
  <2>3. /\ IsList(all)
        /\ First(all) = Then(First(primary), First(<<rightTarget, loads, compared>>))
    BY <2>1, <2>2, FirstOfJoined
  <2>4. Shell!Steps(call) = <<early, refine>> \o all
    BY <1>1 DEF primary
  <2> HIDE DEF all
  <2>5. First(<<early, refine>> \o all) = Then(First(<<early, refine>>), First(all))
    BY <2>1, <2>3, FirstOfJoined
  <2> QED
    BY <2>1, <2>2, <2>3, <2>4, <2>5
<1>10. First(Shell!Steps(call)) = Then(HashBefore(call), compared)
  BY <1>5, <1>9, ThenAssociates
<1>11. Stepped(HashBefore(call), ways)
  BY <1>2, <1>3, <1>4, <1>5, ThenStepped
<1>12. HashBefore(call) = none =>
         /\ out = none /\ leftTarget = none /\ leftAt = none /\ rightTarget = none /\ loads = none
  <2> SUFFICES ASSUME HashBefore(call) = none
               PROVE  /\ out = none /\ leftTarget = none /\ leftAt = none
                      /\ rightTarget = none /\ loads = none
    OBVIOUS
  <2>1. \A a, b : Then(a, b) = none => a = none /\ b = none
    BY ThenFine DEF none
  <2>2. /\ Then(out, Then(query, Then(registry, Then(leftTarget, leftAt)))) = none
        /\ Then(rightTarget, loads) = none
    BY <1>5, <2>1
  <2>3. out = none /\ Then(registry, Then(leftTarget, leftAt)) = none
    BY <2>1, <2>2
  <2>4. leftTarget = none /\ leftAt = none
    BY <2>1, <2>3
  <2> QED
    BY <2>1, <2>2, <2>3, <2>4
<1>13. HashBefore(call) = none => Shell!ReadWhole(call) /\ ~Shell!Asked(call, "out")
  BY <1>2, <1>3, <1>4, <1>6, <1>7, <1>12 DEF none
<1>14. ~Shell!OutWritten(call)
  BY <1>8, <1>10, <1>13, ThenFine DEF none
<1> QED
  BY <1>10, <1>11, <1>13, <1>14 DEF First, compared, ways, none

(* The last step of a comparison.                                           *)
LEMMA ComparedSays ==
    ASSUME NEW call, call.command # "format"
    PROVE  /\ Shell!Compared(call) \in {{Shell!Fine}, {Shell!Verdict}}
           /\ Shell!Compared(call) = {Shell!Fine} <=> Shell!Agree(call)
<1>1. Shell!Fine # Shell!Verdict
  BY WaysAreNamed
<1> QED
  BY <1>1 DEF Shell!Compared, Shell!Agree

(* `diff': the steps up to the comparison; the report is written by then.   *)
DiffBefore(call) ==
    Then(Start(call),
      Then(Then(Then(Shell!Refused(Shell!Asked(call, "query-file") /\ call.queryFile = "unreadable"),
                  Then({call.registry}, {call.left.target})),
             Then({call.left.at},
               Then({call.right.target}, Then({call.right.at}, {call.shapes})))),
        Then(Shell!Raced(call.left.load, call.right.load), Shell!writeOutputToFile(call))))

LEMMA DiffCompares ==
    ASSUME NEW call, IsCall(call), call.command = "diff"
    PROVE  /\ Shell!FirstFailure(Shell!Steps(call)) = Then(DiffBefore(call), Shell!Compared(call))
           /\ Stepped(DiffBefore(call), Ways(call.command))
           /\ DiffBefore(call) = {Shell!Fine} => Shell!ReadWhole(call)
           /\ Shell!OutWritten(call)
                <=> Shell!Asked(call, "out") /\ DiffBefore(call) = {Shell!Fine}
<1> DEFINE early == Shell!Refused(Shell!Early(call))
           refine == Shell!Refine(call)
           query == Shell!Refused(Shell!Asked(call, "query-file") /\ call.queryFile = "unreadable")
           registry == {call.registry}
           leftTarget == {call.left.target}
           leftAt == {call.left.at}
           rightTarget == {call.right.target}
           rightAt == {call.right.at}
           shapes == {call.shapes}
           loads == Shell!Raced(call.left.load, call.right.load)
           written == Shell!writeOutputToFile(call)
           compared == Shell!Compared(call)
           ways == Ways(call.command)
           none == {Shell!Fine}
           sides == <<query, registry, leftTarget, leftAt, rightTarget, rightAt, shapes>>
           before == <<early, refine>> \o (sides \o <<loads, written>>)
<1>1. Shell!Steps(call) = before \o <<compared>>
  <2>1. Shell!Steps(call) = <<early, refine>> \o (sides \o <<loads, written, compared>>)
    BY DEF Shell!Steps, Shell!DiffSteps, Shell!GraphDiffSteps
  <2> HIDE DEF early, refine, query, registry, leftTarget, leftAt, rightTarget, rightAt, shapes,
               loads, written, compared
  <2>2. <<early, refine>> \o (sides \o <<loads, written, compared>>) = before \o <<compared>>
    OBVIOUS
  <2> QED
    BY <2>1, <2>2
<1>2. /\ Stepped(early, ways) /\ Stepped(refine, ways) /\ Stepped(query, ways)
      /\ Stepped(written, ways)
  BY RefusedStepped DEF Shell!Refine, Shell!writeOutputToFile
<1>3. /\ Stepped(registry, ways) /\ Stepped(leftTarget, ways) /\ Stepped(leftAt, ways)
      /\ Stepped(rightTarget, ways) /\ Stepped(rightAt, ways) /\ Stepped(shapes, ways)
      /\ leftTarget = none <=> call.left.target = Shell!Fine
      /\ leftAt = none <=> call.left.at = Shell!Fine
      /\ rightTarget = none <=> call.right.target = Shell!Fine
      /\ rightAt = none <=> call.right.at = Shell!Fine
  BY MetStepped DEF IsCall, IsSide
<1>4. /\ Stepped(loads, ways)
      /\ loads = none <=> call.left.load = Shell!Fine /\ call.right.load = Shell!Fine
  <2> DEFINE a == call.left.load
             b == call.right.load
  <2>1. a \in {"none"} \cup ways /\ b \in {"none"} \cup ways
    BY DEF IsCall, IsSide
  <2>2. /\ Stepped(Shell!Combined(a, b), ways) /\ Stepped(Shell!Raced(a, b), ways)
        /\ Shell!Combined(a, b) = none <=> a = Shell!Fine /\ b = Shell!Fine
        /\ Shell!Raced(a, b) = none <=> a = Shell!Fine /\ b = Shell!Fine
    <3> HIDE DEF a, b
    <3> QED
      BY <2>1, LoadsStepped
  <2> QED
    BY <2>2
<1>5. DiffBefore(call)
        = Then(Then(early, refine),
               Then(Then(Then(query, Then(registry, leftTarget)),
                         Then(leftAt, Then(rightTarget, Then(rightAt, shapes)))),
                    Then(loads, written)))
  BY DEF DiffBefore, Start
<1>6. Shell!ReadWhole(call) <=>
        /\ {call.left.target, call.left.at, call.left.load} = none
        /\ {call.right.target, call.right.at, call.right.load} = none
  BY DEF Shell!ReadWhole
<1>7. Shell!OutWritten(call)
        <=> /\ Shell!Asked(call, "out")
            /\ First(SubSeq(Shell!Steps(call), 1, Len(Shell!Steps(call)) - 1)) = none
  BY DEF Shell!OutWritten, First
<1> HIDE DEF early, refine, query, registry, leftTarget, leftAt, rightTarget, rightAt, shapes,
             loads, written, compared, ways, none
<1>8. IsList(before) /\ First(before) = DiffBefore(call) /\ Len(before) >= 1
  <2>1. /\ IsList(<<early, refine>>) /\ First(<<early, refine>>) = Then(early, refine)
        /\ IsList(sides)
        /\ First(sides) = Then(Then(query, Then(registry, leftTarget)),
                               Then(leftAt, Then(rightTarget, Then(rightAt, shapes))))
        /\ IsList(<<loads, written>>) /\ First(<<loads, written>>) = Then(loads, written)
    BY FirstTwo, FirstSeven
  <2>2. Len(before) >= 1
    BY DEF before
  <2> HIDE DEF sides
  <2> DEFINE rest == sides \o <<loads, written>>
  <2>3. IsList(rest) /\ First(rest) = Then(First(sides), First(<<loads, written>>))
    BY <2>1, FirstOfJoined
  <2>4. before = <<early, refine>> \o rest
    OBVIOUS
  <2> HIDE DEF rest, before
  <2>5. /\ IsList(<<early, refine>> \o rest)
        /\ First(<<early, refine>> \o rest) = Then(First(<<early, refine>>), First(rest))
    BY <2>1, <2>3, FirstOfJoined
  <2> QED
    BY <1>5, <2>1, <2>2, <2>3, <2>4, <2>5
<1> HIDE DEF before
<1>9. First(before \o <<compared>>) = Then(First(before), compared)
  <2>1. IsList(<<compared>>) /\ First(<<compared>>) = compared
    BY FirstOne
  <2> QED
    BY <1>8, <2>1, FirstOfJoined
<1>10. First(Shell!Steps(call)) = Then(DiffBefore(call), compared)
  BY <1>1, <1>8, <1>9
<1>11. Stepped(DiffBefore(call), ways)
  BY <1>2, <1>3, <1>4, <1>5, ThenStepped
<1>12. ASSUME DiffBefore(call) = none
       PROVE  /\ leftTarget = none /\ leftAt = none /\ rightTarget = none /\ rightAt = none
              /\ loads = none
  <2>1. \A a, b : Then(a, b) = none => a = none /\ b = none
    BY ThenFine DEF none
  <2>2. /\ Then(Then(query, Then(registry, leftTarget)),
                Then(leftAt, Then(rightTarget, Then(rightAt, shapes)))) = none
        /\ Then(loads, written) = none
    <3> DEFINE start == Then(early, refine)
               middle == Then(Then(query, Then(registry, leftTarget)),
                              Then(leftAt, Then(rightTarget, Then(rightAt, shapes))))
               end == Then(loads, written)
    <3>1. Then(start, Then(middle, end)) = none
      BY <1>5, <1>12
    <3> HIDE DEF start, middle, end
    <3>2. Then(middle, end) = none
      BY <2>1, <3>1
    <3>3. middle = none /\ end = none
      BY <2>1, <3>2
    <3> QED
      BY <3>3 DEF middle, end
  <2>3. /\ Then(query, Then(registry, leftTarget)) = none
        /\ Then(leftAt, Then(rightTarget, Then(rightAt, shapes))) = none
    BY <2>1, <2>2
  <2>4. Then(registry, leftTarget) = none /\ Then(rightTarget, Then(rightAt, shapes)) = none
    BY <2>1, <2>3
  <2>5. Then(rightAt, shapes) = none
    BY <2>1, <2>4
  <2> QED
    BY <2>1, <2>2, <2>3, <2>4, <2>5
<1>13. DiffBefore(call) = none => Shell!ReadWhole(call)
  BY <1>3, <1>4, <1>6, <1>12 DEF none
<1>14. SubSeq(Shell!Steps(call), 1, Len(Shell!Steps(call)) - 1) = before
  BY <1>1, <1>8, ButLast
<1>15. Shell!OutWritten(call) <=> Shell!Asked(call, "out") /\ DiffBefore(call) = none
  BY <1>7, <1>8, <1>14
<1> QED
  BY <1>10, <1>11, <1>13, <1>15 DEF First, compared, ways, none

(* The other calls of `hash' and those of `query' end with their output.    *)
LEMMA HashEnds ==
    ASSUME NEW call, IsCall(call), call.command = "hash", "compare-with" \notin call.flags
    PROVE  Stepped(Shell!FirstFailure(Shell!Steps(call)), Ways(call.command))
<1> DEFINE early == Shell!Refused(Shell!Early(call))
           refine == Shell!Refine(call)
           query == Shell!Refused(Shell!Asked(call, "query-file") /\ call.queryFile = "unreadable")
           registry == {call.registry}
           target == {call.left.target}
           at == {call.left.at}
           load == {call.left.load}
           written == Shell!writeOutputToFile(call)
           ways == Ways(call.command)
<1>1. Shell!Steps(call)
        = <<early, refine>> \o (<<query, registry, target, at>> \o <<load, written>>)
  BY DEF Shell!Steps, Shell!HashSteps, Shell!Asked
<1>2. /\ Stepped(early, ways) /\ Stepped(refine, ways) /\ Stepped(query, ways)
      /\ Stepped(written, ways)
  BY RefusedStepped DEF Shell!Refine, Shell!writeOutputToFile
<1>3. /\ Stepped(registry, ways) /\ Stepped(target, ways) /\ Stepped(at, ways)
      /\ Stepped(load, ways)
  BY MetStepped DEF IsCall, IsSide
<1> HIDE DEF early, refine, query, registry, target, at, load, written, ways
<1>4. /\ IsList(<<early, refine>>) /\ First(<<early, refine>>) = Then(early, refine)
      /\ IsList(<<query, registry, target, at>>)
      /\ First(<<query, registry, target, at>>) = Then(query, Then(registry, Then(target, at)))
      /\ IsList(<<load, written>>) /\ First(<<load, written>>) = Then(load, written)
  BY FirstTwo, FirstFour
<1> DEFINE rest == <<query, registry, target, at>> \o <<load, written>>
<1>5. /\ IsList(rest)
      /\ First(rest) = Then(First(<<query, registry, target, at>>), First(<<load, written>>))
  BY <1>4, FirstOfJoined
<1>6. Shell!Steps(call) = <<early, refine>> \o rest
  BY <1>1
<1> HIDE DEF rest
<1>7. First(<<early, refine>> \o rest) = Then(First(<<early, refine>>), First(rest))
  BY <1>4, <1>5, FirstOfJoined
<1>8. First(Shell!Steps(call))
        = Then(Then(early, refine),
               Then(Then(query, Then(registry, Then(target, at))), Then(load, written)))
  BY <1>4, <1>5, <1>6, <1>7
<1>9. Stepped(First(Shell!Steps(call)), ways)
  BY <1>2, <1>3, <1>8, ThenStepped
<1> QED
  BY <1>9 DEF First, ways

LEMMA QueryEnds ==
    ASSUME NEW call, IsCall(call), call.command = "query"
    PROVE  Stepped(Shell!FirstFailure(Shell!Steps(call)), Ways(call.command))
<1> DEFINE asked == {"query", "query-file", "stdin"} \cap call.flags
           early == Shell!Refused(Shell!Early(call))
           refine == Shell!Refine(call)
           some == Shell!Refused(asked = {})
           one == Shell!Refused(\E a, b \in asked : a # b)
           query == Shell!Refused(Shell!Asked(call, "query-file") /\ call.queryFile = "unreadable")
           registry == {call.registry}
           target == {call.left.target}
           at == {call.left.at}
           load == {call.left.load}
           written == Shell!writeOutputToFile(call)
           ways == Ways(call.command)
<1>1. Shell!Steps(call)
        = <<early, refine>> \o <<some, one, query, registry, target, at, load, written>>
  BY DEF Shell!Steps, Shell!QuerySteps
<1>2. /\ Stepped(early, ways) /\ Stepped(refine, ways) /\ Stepped(query, ways)
      /\ Stepped(written, ways) /\ Stepped(some, ways) /\ Stepped(one, ways)
  BY RefusedStepped DEF Shell!Refine, Shell!writeOutputToFile
<1>3. /\ Stepped(registry, ways) /\ Stepped(target, ways) /\ Stepped(at, ways)
      /\ Stepped(load, ways)
  BY MetStepped DEF IsCall, IsSide
<1> HIDE DEF early, refine, some, one, query, registry, target, at, load, written, ways
<1> DEFINE rest == <<some, one, query, registry, target, at, load, written>>
<1>4. /\ IsList(<<early, refine>>) /\ First(<<early, refine>>) = Then(early, refine)
      /\ IsList(rest)
      /\ First(rest) = Then(Then(some, Then(one, Then(query, registry))),
                            Then(target, Then(at, Then(load, written))))
  BY FirstTwo, FirstEight
<1>5. Shell!Steps(call) = <<early, refine>> \o rest
  BY <1>1
<1> HIDE DEF rest
<1>6. First(<<early, refine>> \o rest) = Then(First(<<early, refine>>), First(rest))
  BY <1>4, FirstOfJoined
<1>7. First(Shell!Steps(call))
        = Then(Then(early, refine),
               Then(Then(some, Then(one, Then(query, registry))),
                    Then(target, Then(at, Then(load, written)))))
  BY <1>4, <1>5, <1>6
<1>8. Stepped(First(Shell!Steps(call)), ways)
  BY <1>2, <1>3, <1>7, ThenStepped
<1> QED
  BY <1>8 DEF First, ways

(* One step for each file.                                                  *)
LEMMA FirstOfMany ==
    ASSUME NEW n \in Nat, NEW f, f = [i \in 1..n |-> f[i]], NEW ways,
           \A i \in 1..n : Stepped(f[i], ways)
    PROVE  /\ IsList(f) /\ Stepped(First(f), ways)
           /\ First(f) = {Shell!Fine} <=> \A i \in 1..n : f[i] = {Shell!Fine}
<1>1. DOMAIN f = 1..n
  OBVIOUS
<1>2. f \in Seq({f[i] : i \in 1..n})
  OBVIOUS
<1>3. IsList(f)
  BY <1>2 DEF IsList
<1>4. Stepped({Shell!Fine}, ways)
  BY DEF Stepped
<1>5. Stepped(First(f), ways)
  BY <1>1, <1>3, <1>4, FirstIs
<1>6. First(f) = {Shell!Fine} <=> \A i \in 1..n : f[i] = {Shell!Fine}
  BY <1>1, <1>3, FirstIs
<1> QED
  BY <1>3, <1>5, <1>6

Failures(call) == [i \in DOMAIN call.files |-> Shell!FileFailure(call.files[i])]

LEMMA FilesStepped ==
    ASSUME NEW call, IsCall(call), call.command = "format"
    PROVE  LET ways == Ways(call.command) IN
           /\ IsList(Failures(call)) /\ Stepped(First(Failures(call)), ways)
           /\ Stepped(Shell!LoadAll(call), ways)
           /\ Shell!LoadAll(call) = {Shell!Fine} /\ First(Failures(call)) = {Shell!Fine}
                 => Shell!Done(call) = DOMAIN call.files
<1> DEFINE ways == Ways(call.command)
           fails == Failures(call)
           n == Len(call.files)
<1>1. n \in Nat /\ DOMAIN call.files = 1..n
  BY ListDomain DEF IsCall
<1>2. "glob-load" \in ways
  BY DEF Ways
<1>3. \A f : Stepped(Shell!FileFailure(f), ways)
  <2>1. ASSUME NEW f
        PROVE  Stepped(Shell!FileFailure(f), ways)
    <3> DEFINE loaded == IF f.again.broken THEN {"glob-load"} ELSE {Shell!Fine}
               read == Shell!Refused(f.read.broken)
    <3>1. Shell!FileFailure(f) = Then(loaded, read)
      BY FirstTwo DEF Shell!FileFailure, First
    <3>2. Stepped(loaded, ways)
      BY <1>2 DEF Stepped
    <3>3. Stepped(read, ways)
      BY RefusedStepped
    <3> HIDE DEF loaded, read, ways
    <3> QED
      BY <3>1, <3>2, <3>3, ThenStepped
  <2> QED
    BY <2>1
<1>4. Stepped(Shell!LoadAll(call), ways)
  BY <1>2 DEF Shell!LoadAll, Stepped
<1>5. /\ fails = [i \in 1..n |-> fails[i]]
      /\ \A i \in 1..n : fails[i] = Shell!FileFailure(call.files[i])
  BY <1>1 DEF Failures
<1>6. \A i \in 1..n : Stepped(fails[i], ways)
  BY <1>3, <1>5
<1> HIDE DEF fails, ways
<1>7. /\ IsList(fails) /\ Stepped(First(fails), ways)
      /\ First(fails) = {Shell!Fine} <=> \A i \in 1..n : fails[i] = {Shell!Fine}
  BY <1>1, <1>5, <1>6, FirstOfMany
<1>8. ASSUME Shell!LoadAll(call) = {Shell!Fine}, First(fails) = {Shell!Fine}
      PROVE  Shell!Done(call) = DOMAIN call.files
  <2>1. \A j \in 1..n : Shell!FileFailure(call.files[j]) = {Shell!Fine}
    BY <1>5, <1>7, <1>8
  <2>2. \A i \in 1..n : \A j \in 1..i : j \in 1..n
    BY <1>1
  <2> QED
    BY <1>1, <1>8, <2>1, <2>2 DEF Shell!Done
<1> QED
  BY <1>4, <1>7, <1>8 DEF fails, ways

(* `format' with --check or --write: the steps up to the verdict.           *)
FormatBefore(call) ==
    Then(Start(call),
      Then(Shell!Refused(call.files = << >>),
        Then(Shell!LoadAll(call), First(Failures(call)))))
FormatLast(call) ==
    IF Shell!Asked(call, "check") /\ Shell!Unformatted(call) # {} THEN {Shell!Verdict}
    ELSE {Shell!Fine}

LEMMA FormatChecks ==
    ASSUME NEW call, IsCall(call), call.command = "format", {"check", "write"} \cap call.flags # {}
    PROVE  /\ Shell!FirstFailure(Shell!Steps(call)) = Then(FormatBefore(call), FormatLast(call))
           /\ Stepped(FormatBefore(call), Ways(call.command))
           /\ FormatBefore(call) = {Shell!Fine} => Shell!ReadWhole(call)
           /\ ~Shell!OutWritten(call)
<1> DEFINE early == Shell!Refused(Shell!Early(call))
           refine == Shell!Refine(call)
           empty == Shell!Refused(call.files = << >>)
           loadAll == Shell!LoadAll(call)
           fails == Failures(call)
           last == FormatLast(call)
           ways == Ways(call.command)
           none == {Shell!Fine}
<1>1. Shell!Steps(call)
        = <<early, refine>> \o (<<empty>> \o ((<<loadAll>> \o fails) \o <<last>>))
  BY DEF Shell!Steps, Shell!FormatSteps, Shell!processPerFile, Failures, FormatLast
<1>2. Stepped(early, ways) /\ Stepped(refine, ways) /\ Stepped(empty, ways)
  BY RefusedStepped DEF Shell!Refine
<1>3. /\ IsList(fails) /\ Stepped(First(fails), ways) /\ Stepped(loadAll, ways)
      /\ loadAll = none /\ First(fails) = none => Shell!ReadWhole(call)
  BY FilesStepped DEF Shell!ReadWhole
<1>4. FormatBefore(call) = Then(Then(early, refine), Then(empty, Then(loadAll, First(fails))))
  BY DEF FormatBefore, Start
<1>5. Shell!OutWritten(call) => refine # none /\ First(Shell!Steps(call)) = none
  <2>1. Shell!OutWritten(call) => Shell!Asked(call, "out") /\ First(Shell!Steps(call)) = none
    BY DEF Shell!OutWritten, First
  <2>2. Shell!Asked(call, "out") => refine # none
    BY RefusedStepped DEF Shell!Refine
  <2> QED
    BY <2>1, <2>2
<1> HIDE DEF early, refine, empty, loadAll, fails, last, ways, none
<1>6. First(Shell!Steps(call))
        = Then(Then(early, refine), Then(empty, Then(Then(loadAll, First(fails)), last)))
  <2>1. /\ IsList(<<early, refine>>) /\ First(<<early, refine>>) = Then(early, refine)
        /\ IsList(<<empty>>) /\ First(<<empty>>) = empty
        /\ IsList(<<loadAll>>) /\ First(<<loadAll>>) = loadAll
        /\ IsList(<<last>>) /\ First(<<last>>) = last
    BY FirstOne, FirstTwo
  <2> DEFINE some == <<loadAll>> \o fails
  <2>2. IsList(some) /\ First(some) = Then(First(<<loadAll>>), First(fails))
    BY <1>3, <2>1, FirstOfJoined
  <2> HIDE DEF some
  <2> DEFINE more == some \o <<last>>
  <2>3. IsList(more) /\ First(more) = Then(First(some), First(<<last>>))
    BY <2>1, <2>2, FirstOfJoined
  <2> HIDE DEF more
  <2> DEFINE rest == <<empty>> \o more
  <2>4. IsList(rest) /\ First(rest) = Then(First(<<empty>>), First(more))
    BY <2>1, <2>3, FirstOfJoined
  <2>5. Shell!Steps(call) = <<early, refine>> \o rest
    BY <1>1 DEF some, more
  <2> HIDE DEF rest
  <2>6. First(<<early, refine>> \o rest) = Then(First(<<early, refine>>), First(rest))
    BY <2>1, <2>4, FirstOfJoined
  <2> QED
    BY <2>1, <2>2, <2>3, <2>4, <2>5, <2>6
<1>7. First(Shell!Steps(call)) = Then(FormatBefore(call), last)
  BY <1>4, <1>6, ThenAssociates
<1>8. Stepped(FormatBefore(call), ways)
  BY <1>2, <1>3, <1>4, ThenStepped
<1>9. FormatBefore(call) = none => refine = none /\ loadAll = none /\ First(fails) = none
  <2>1. \A a, b : Then(a, b) = none => a = none /\ b = none
    BY ThenFine DEF none
  <2> SUFFICES ASSUME FormatBefore(call) = none
               PROVE  refine = none /\ loadAll = none /\ First(fails) = none
    OBVIOUS
  <2>2. Then(early, refine) = none /\ Then(empty, Then(loadAll, First(fails))) = none
    BY <1>4, <2>1
  <2>3. Then(loadAll, First(fails)) = none
    BY <2>1, <2>2
  <2> QED
    BY <2>1, <2>2, <2>3
<1>10. ~Shell!OutWritten(call)
  BY <1>5, <1>7, <1>9, ThenFine DEF none
<1> QED
  BY <1>3, <1>7, <1>8, <1>9, <1>10 DEF First, last, ways, none

(* Without them, it ends with its output.                                   *)
LEMMA FormatEnds ==
    ASSUME NEW call, IsCall(call), call.command = "format", {"check", "write"} \cap call.flags = {}
    PROVE  Stepped(Shell!FirstFailure(Shell!Steps(call)), Ways(call.command))
<1> DEFINE early == Shell!Refused(Shell!Early(call))
           refine == Shell!Refine(call)
           loadAll == Shell!LoadAll(call)
           fails == [i \in DOMAIN call.files |-> Shell!Refused(call.files[i].again.broken)]
           written == Shell!writeOutputToFile(call)
           ways == Ways(call.command)
           n == Len(call.files)
<1>1. Shell!Steps(call) = <<early, refine>> \o ((<<loadAll>> \o fails) \o <<written>>)
  BY DEF Shell!Steps, Shell!FormatSteps
<1>2. Stepped(early, ways) /\ Stepped(refine, ways) /\ Stepped(written, ways)
  BY RefusedStepped DEF Shell!Refine, Shell!writeOutputToFile
<1>3. Stepped(loadAll, ways)
  BY FilesStepped
<1>4. n \in Nat /\ DOMAIN call.files = 1..n
  BY ListDomain DEF IsCall
<1>5. fails = [i \in 1..n |-> fails[i]] /\ \A i \in 1..n : Stepped(fails[i], ways)
  <2>1. \A i \in 1..n : fails[i] = Shell!Refused(call.files[i].again.broken)
    BY <1>4
  <2>2. \A c : Stepped(Shell!Refused(c), ways)
    BY RefusedStepped
  <2>3. fails = [i \in 1..n |-> fails[i]]
    BY <1>4
  <2> HIDE DEF fails, ways
  <2> QED
    BY <2>1, <2>2, <2>3
<1> HIDE DEF early, refine, loadAll, fails, written, ways, n
<1>6. IsList(fails) /\ Stepped(First(fails), ways)
  BY <1>4, <1>5, FirstOfMany
<1>7. /\ IsList(<<early, refine>>) /\ First(<<early, refine>>) = Then(early, refine)
      /\ IsList(<<loadAll>>) /\ First(<<loadAll>>) = loadAll
      /\ IsList(<<written>>) /\ First(<<written>>) = written
  BY FirstOne, FirstTwo
<1> DEFINE some == <<loadAll>> \o fails
<1>8. IsList(some) /\ First(some) = Then(First(<<loadAll>>), First(fails))
  BY <1>6, <1>7, FirstOfJoined
<1> HIDE DEF some
<1> DEFINE rest == some \o <<written>>
<1>9. IsList(rest) /\ First(rest) = Then(First(some), First(<<written>>))
  BY <1>7, <1>8, FirstOfJoined
<1>10. Shell!Steps(call) = <<early, refine>> \o rest
  BY <1>1 DEF some
<1> HIDE DEF rest
<1>11. First(<<early, refine>> \o rest) = Then(First(<<early, refine>>), First(rest))
  BY <1>7, <1>9, FirstOfJoined
<1>12. First(Shell!Steps(call))
         = Then(Then(early, refine), Then(Then(loadAll, First(fails)), written))
  BY <1>7, <1>8, <1>9, <1>10, <1>11
<1>13. Stepped(First(Shell!Steps(call)), ways)
  BY <1>2, <1>3, <1>6, <1>12, ThenStepped
<1> QED
  BY <1>13 DEF First, ways

(* An exit status of 0 or 1 is a verdict on all that was compared.          *)
LEMMA VerdictAlwaysTrue ==
    ASSUME NEW call, IsCall(call)
    PROVE  Shell!VerdictIsTrue(call)
<1> DEFINE none == {Shell!Fine}
           differs == {Shell!Verdict}
<1> SUFFICES ASSUME Shell!GivesVerdict(call), ~(Shell!Early(call) /\ call.command # "diff"),
                    NEW status \in Shell!Statuses(call)
             PROVE  /\ status \in {0, 1} => Shell!ReadWhole(call) /\ (status = 0 <=> Shell!Agree(call))
                    /\ Shell!OutWritten(call) => status \in {0, 1}
                    /\ status \in {0, 1} /\ call.command = "diff"
                          => (Shell!Asked(call, "out") <=> Shell!OutWritten(call))
  BY DEF Shell!VerdictIsTrue
<1>1. AsksVerdict(call.command, Shell!RawConfig(call))
  BY DEF AsksVerdict, Shell!GivesVerdict, Shell!RawConfig, Shell!Asked
<1>2. none # differs
  BY WaysAreNamed
<1>3. CASE call.command = "diff"
  <2> DEFINE before == DiffBefore(call)
             last == Shell!Compared(call)
  <2>1. /\ Shell!FirstFailure(Shell!Steps(call)) = Then(before, last)
        /\ Stepped(before, Ways(call.command))
        /\ before = none => Shell!ReadWhole(call)
        /\ Shell!OutWritten(call) <=> Shell!Asked(call, "out") /\ before = none
    BY <1>3, DiffCompares
  <2>2. last \in {none, differs} /\ (last = none <=> Shell!Agree(call))
    BY <1>3, ComparedSays
  <2> HIDE DEF before, last
  <2>3. /\ status \in {0, 1} => before = none
        /\ status = 0 => last = none
        /\ status = 1 => last = differs
        /\ before = none => status \in {0, 1}
    BY <1>1, <1>3, <2>1, <2>2, StatusesSay
  <2> HIDE DEF none, differs
  <2> QED
    BY <1>2, <1>3, <2>1, <2>2, <2>3
<1>4. CASE call.command = "hash"
  <2> DEFINE before == HashBefore(call)
             last == Shell!Compared(call)
  <2>1. "compare-with" \in call.flags
    BY <1>4 DEF Shell!GivesVerdict, Shell!Asked
  <2>2. /\ Shell!FirstFailure(Shell!Steps(call)) = Then(before, last)
        /\ Stepped(before, Ways(call.command))
        /\ before = none => Shell!ReadWhole(call)
        /\ ~Shell!OutWritten(call)
    BY <1>4, <2>1, HashCompares
  <2>3. last \in {none, differs} /\ (last = none <=> Shell!Agree(call))
    BY <1>4, ComparedSays
  <2> HIDE DEF before, last
  <2>4. /\ status \in {0, 1} => before = none
        /\ status = 0 => last = none
        /\ status = 1 => last = differs
    BY <1>1, <1>4, <2>2, <2>3, StatusesSay
  <2> HIDE DEF none, differs
  <2> QED
    BY <1>2, <1>4, <2>2, <2>3, <2>4
<1>5. CASE call.command = "format"
  <2> DEFINE before == FormatBefore(call)
             last == FormatLast(call)
  <2>1. "check" \in call.flags
    BY <1>5 DEF Shell!GivesVerdict, Shell!Asked
  <2>2. /\ Shell!FirstFailure(Shell!Steps(call)) = Then(before, last)
        /\ Stepped(before, Ways(call.command))
        /\ before = none => Shell!ReadWhole(call)
        /\ ~Shell!OutWritten(call)
    BY <1>5, <2>1, FormatChecks
  <2>3. last \in {none, differs} /\ (last = none <=> Shell!Agree(call))
    BY <1>2, <1>5, <2>1 DEF FormatLast, Shell!Agree, Shell!Asked
  <2> HIDE DEF before, last
  <2>4. /\ status \in {0, 1} => before = none
        /\ status = 0 => last = none
        /\ status = 1 => last = differs
    BY <1>1, <1>5, <2>2, <2>3, StatusesSay
  <2> HIDE DEF none, differs
  <2> QED
    BY <1>2, <1>5, <2>2, <2>3, <2>4
<1> QED
  BY <1>3, <1>4, <1>5 DEF Shell!GivesVerdict

(* What ends with 0 has written what it was asked to, and nothing else is   *)
(* changed.                                                                 *)
LEMMA WritesAlwaysTrue ==
    ASSUME NEW call, IsCall(call)
    PROVE  Shell!WritesAreTrue(call)
<1> DEFINE none == {Shell!Fine}
<1>1. ASSUME NEW i \in DOMAIN call.files, Shell!Asked(call, "write"), 0 \in Shell!Statuses(call)
      PROVE  Shell!FilesAfter(call)[i].tidy
  <2>1. call.command = "format" /\ {"check", "write"} \cap call.flags # {}
    BY <1>1 DEF IsCall, Shell!Asked
  <2> DEFINE before == FormatBefore(call)
             last == FormatLast(call)
  <2>2. /\ Shell!FirstFailure(Shell!Steps(call)) = Then(before, last)
        /\ Stepped(before, Ways(call.command))
        /\ before = none => Shell!ReadWhole(call)
    BY <2>1, FormatChecks
  <2>3. last \in {none, {Shell!Verdict}}
    BY DEF FormatLast
  <2> HIDE DEF before, last
  <2>4. before = none
    BY <1>1, <2>1, <2>2, <2>3, StatusesSay
  <2>5. i \in Shell!Done(call)
    BY <2>1, <2>2, <2>4 DEF Shell!ReadWhole
  <2>6. Shell!FilesAfter(call)[i] = Shell!Formatted(call.files[i].again)
    BY <1>1, <2>5 DEF Shell!FilesAfter
  <2>7. "tidy" \in DOMAIN call.files[i].again
    BY DEF IsCall
  <2> QED
    BY <2>6, <2>7 DEF Shell!Formatted
<1>2. ASSUME NEW i \in DOMAIN call.files, Shell!FilesAfter(call)[i] # call.files[i].read
      PROVE  call.command = "format" /\ Shell!Asked(call, "write")
  <2>1. Shell!Asked(call, "write")
    BY <1>2 DEF Shell!FilesAfter
  <2> QED
    BY <2>1 DEF IsCall, Shell!Asked
<1>3. ASSUME NEW i \in DOMAIN call.files,
             Shell!FilesAfter(call)[i].graph # call.files[i].read.graph
      PROVE  call.files[i].again # call.files[i].read
  <2>1. Shell!FilesAfter(call)[i] = Shell!Formatted(call.files[i].again)
    BY <1>3 DEF Shell!FilesAfter
  <2>2. {"graph", "tidy"} \subseteq DOMAIN call.files[i].again
    BY DEF IsCall
  <2>3. Shell!Formatted(call.files[i].again).graph = call.files[i].again.graph
    BY <2>2 DEF Shell!Formatted
  <2> QED
    BY <1>3, <2>1, <2>3
<1>4. ASSUME ~Shell!GivesVerdict(call), Shell!Asked(call, "out")
      PROVE  0 \in Shell!Statuses(call) <=> Shell!OutWritten(call)
  <2> DEFINE first == Shell!FirstFailure(Shell!Steps(call))
  <2>1. call.command # "diff"
    BY <1>4 DEF Shell!GivesVerdict
  <2>2. Shell!OutWritten(call) <=> first = none
    BY <1>4, <2>1 DEF Shell!OutWritten
  <2>3. CASE call.command = "format" /\ {"check", "write"} \cap call.flags # {}
    <3> DEFINE before == FormatBefore(call)
               last == FormatLast(call)
    <3>1. /\ Shell!FirstFailure(Shell!Steps(call)) = Then(before, last)
          /\ Stepped(before, Ways(call.command))
          /\ ~Shell!OutWritten(call)
      BY <2>3, FormatChecks
    <3>2. last \in {none, {Shell!Verdict}}
      BY DEF FormatLast
    <3> HIDE DEF before, last
    <3>3. 0 \in Shell!Statuses(call) => before = none /\ last = none
      BY <2>3, <3>1, <3>2, StatusesSay
    <3> QED
      BY <2>2, <3>1, <3>3 DEF Then
  <2>4. CASE ~(call.command = "format" /\ {"check", "write"} \cap call.flags # {})
    <3>1. call.command \in {"hash", "query", "format"}
      BY <2>1 DEF IsCall
    <3>2. call.command = "hash" => "compare-with" \notin call.flags
      BY <1>4 DEF Shell!GivesVerdict, Shell!Asked
    <3>3. Stepped(first, Ways(call.command))
      BY <2>4, <3>1, <3>2, HashEnds, QueryEnds, FormatEnds
    <3>4. first = Then(first, none)
      BY DEF Then
    <3> HIDE DEF first
    <3>5. Shell!FirstFailure(Shell!Steps(call)) = Then(first, none)
      BY <3>4 DEF first
    <3>6. 0 \in Shell!Statuses(call) <=> first = none /\ none = {Shell!Fine}
      BY <3>3, <3>5, StatusesSay
    <3> QED
      BY <2>2, <3>6
  <2> QED
    BY <2>3, <2>4
<1> QED
  BY <1>1, <1>2, <1>3, <1>4 DEF Shell!WritesAreTrue

(* Whatever a call asks for and whatever its steps meet: its exit status    *)
(* and its output say what happened, the codes of two kinds of failure are  *)
(* never confused, and a build that a server spawns reads the config that   *)
(* the server read.                                                         *)
THEOREM CommandsAlwaysTellTruth ==
    ASSUME Reached("exits") => IsCall(probe.left @@ probe.right)
    PROVE  CommandsTellTruth
<1>1. Shell!ChildReadsSameConfig(probe.left, probe.right)
  BY ChildReadsThePin
<1>2. ASSUME Reached("exits")
      PROVE  LET call == probe.left @@ probe.right
             IN  Shell!VerdictIsTrue(call) /\ Shell!WritesAreTrue(call) /\ Shell!CodesAgree
  BY <1>2, VerdictAlwaysTrue, WritesAlwaysTrue, CodesAlwaysAgree
<1> QED
  BY <1>1, <1>2 DEF CommandsTellTruth
=============================================================================
