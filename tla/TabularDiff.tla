----------------------------- MODULE TabularDiff -----------------------------
(***************************************************************************)
(* The diff of two SELECT results: how a pair of queries is dispatched to   *)
(* the graph diff or the tabular one (select-shape-detector.ts, diff.ts,    *)
(* diff.service.ts), the difference of two bags of rows (tabular-diff.ts,   *)
(* tabular-row-key.ts) and the JSON report (tabular-diff-formatter.ts).     *)
(*                                                                          *)
(* A query is [type, columns]: columns are [name, alias] records, alias     *)
(* when the column is an expression; Star in place of them for SELECT *.    *)
(* A row maps each variable to a term [kind, value, tag] or to Unbound; tag *)
(* is the language or datatype of a literal.                                *)
(***************************************************************************)
EXTENDS Integers, Sequences, FiniteSets

NoQuery  == [type |-> "none", columns |-> << >>]
Star     == <<[name |-> "*", alias |-> FALSE]>>
Unbound  == [kind |-> "unbound", value |-> "", tag |-> ""]

(***************************************************************************)
(* Shapes and dispatch                                                      *)
(***************************************************************************)
Names(query) == {query.columns[i].name : i \in DOMAIN query.columns}

IsTriplesProjection(query) ==
    /\ Names(query) \in {{"s", "p", "o"}, {"s", "p", "o", "g"}}
    /\ Len(query.columns) = Cardinality(Names(query))

(* UPDATE, ASK, DESCRIBE, SELECT * and what does not parse have no shape.   *)
HasShape(query) == query.type \in {"construct", "select"} /\ query.columns # Star

Shape(query) ==
    IF query.type = "construct" \/ IsTriplesProjection(query) THEN "triples" ELSE "tuples"

DetectTabularDispatch(left, right) ==
    IF NoQuery \in {left, right} \/ ~HasShape(left) \/ ~HasShape(right) THEN "graph-mode"
    ELSE IF Shape(left) # Shape(right) THEN "mixed-shape"
    ELSE IF Shape(left) = "triples" THEN "graph-mode" ELSE "tabular"

(* The strict mode of a scoping query takes no expressions; the tabular one *)
(* takes any projection but SELECT *.                                       *)
ValidateInlineQuery(query, mode) ==
    CASE query.type = "construct" -> TRUE
      [] query.type = "select" ->
            /\ query.columns # Star
            /\ mode = "strict" =>
                  /\ \A i \in DOMAIN query.columns : ~query.columns[i].alias
                  /\ IsTriplesProjection(query)
      [] OTHER -> FALSE

(***************************************************************************)
(* Rows and bags                                                            *)
(***************************************************************************)
(* Lexical equality: a quoted triple has an empty value of its own.         *)
SerializeTerm(term) ==
    IF term.kind = "quoted" THEN [term EXCEPT !.value = "", !.tag = ""] ELSE term

TabularRowKey(row, variables) == [v \in variables |-> SerializeTerm(row[v])]

(* A blank node means nothing outside its own result.                       *)
Keyable(rows, variables) ==
    \A i \in DOMAIN rows : \A v \in variables : rows[i][v].kind # "blank"

CountRows(rows, variables, key) ==
    Cardinality({i \in DOMAIN rows : TabularRowKey(rows[i], variables) = key})

RowKeys(rows, variables) == {TabularRowKey(rows[i], variables) : i \in DOMAIN rows}

FirstRow(rows, variables, key) ==
    LET at == {i \in DOMAIN rows : TabularRowKey(rows[i], variables) = key} IN
    rows[CHOOSE i \in at : \A j \in at : i <= j]

BlankNodeError == [kind |-> "tabular-blank-node"]

(* Each row once, however often it is missing.                              *)
ExcessOnce(from, to, variables) ==
    {[row |-> FirstRow(to, variables, key), count |-> 1] :
        key \in {k \in RowKeys(to, variables) :
                    CountRows(to, variables, k) > CountRows(from, variables, k)}}

(* The rows `to' has more often than `from', each with the excess.          *)
Excess(from, to, variables) ==
    {[row |-> FirstRow(to, variables, key),
      count |-> CountRows(to, variables, key) - CountRows(from, variables, key)] :
        key \in {k \in RowKeys(to, variables) :
                    CountRows(to, variables, k) > CountRows(from, variables, k)}}

TabularDiffOf(left, right, variables) ==
    IF ~Keyable(left, variables) \/ ~Keyable(right, variables) THEN BlankNodeError
    ELSE [kind |-> "tabular",
          added |-> Excess(left, right, variables),
          removed |-> Excess(right, left, variables),
          totals |-> [left |-> Len(left), right |-> Len(right)]]

(***************************************************************************)
(* The two surfaces.  A side is [query, rows]; rows only matter once both   *)
(* queries are accepted.                                                    *)
(***************************************************************************)
SetsMatch(left, right) == Names(left.query) = Names(right.query)

(* diff.service.ts: an error names every side it concerns.                  *)
RunTabularOnServer(left, right) ==
    LET variables == Names(right.query)
        blank == {side \in {"left", "right"} :
                     ~Keyable(IF side = "left" THEN left.rows ELSE right.rows, variables)}
    IN IF ~SetsMatch(left, right) THEN [kind |-> "error", at |-> {"top"}]
       ELSE IF blank # {} THEN [kind |-> "error", at |-> blank]
       ELSE TabularDiffOf(left.rows, right.rows, variables)

(* tabular-runner.ts: the first error is thrown.                            *)
RunTabularOnCli(left, right) ==
    IF ~SetsMatch(left, right) THEN [kind |-> "error", at |-> {"top"}]
    ELSE LET result == TabularDiffOf(left.rows, right.rows, Names(right.query)) IN
         IF result = BlankNodeError THEN [kind |-> "error", at |-> {"top"}] ELSE result

DiffPresent(result) == result.added # {} \/ result.removed # {}

(* The JSON report leaves out unbound columns, and a count of one.          *)
RowToJson(row, variables) ==
    [v \in {w \in variables : row[w] # Unbound} |-> row[v]]

EntryToJson(entry, variables) ==
    IF entry.count = 1 THEN [row |-> RowToJson(entry.row, variables)]
    ELSE [row |-> RowToJson(entry.row, variables), count |-> entry.count]

(***************************************************************************)
(* Properties                                                               *)
(***************************************************************************)
Times(entries, variables, key) ==
    LET Is(e) == TabularRowKey([v \in variables |-> IF v \in DOMAIN e.row THEN e.row[v]
                                                    ELSE Unbound], variables) = key
        found == {e \in entries : Is(e)}
    IN IF found = {} THEN 0
       ELSE LET e == CHOOSE e \in found : TRUE IN IF "count" \in DOMAIN e THEN e.count ELSE 1

(* What is reported turns the left result into the right one: for every row *)
(* that occurs, its occurrences on the right are those on the left, less    *)
(* those removed, plus those added, as read back from the JSON report; the  *)
(* report is empty exactly for equal bags.                                  *)
BagsAddUp(left, right) ==
    LET result == RunTabularOnServer(left, right)
        variables == Names(right.query)
        Json(entries) == {EntryToJson(e, variables) : e \in entries}
        Count(side, key) == CountRows(side.rows, variables, key)
        keys == RowKeys(left.rows, variables) \union RowKeys(right.rows, variables)
    IN result.kind = "tabular" =>
         /\ \A key \in keys :
               Count(right, key) = Count(left, key)
                                   - Times(Json(result.removed), variables, key)
                                   + Times(Json(result.added), variables, key)
         /\ DiffPresent(result) <=> \E key \in keys : Count(left, key) # Count(right, key)

(* Swapping the sides of a comparison swaps its report, and refuses exactly *)
(* when the comparison did; the CLI and the server report the same rows and *)
(* refuse the same comparisons.                                             *)
SidesAreAlike(left, right) ==
    LET here == RunTabularOnServer(left, right)
        there == RunTabularOnServer(right, left)
    IN /\ DetectTabularDispatch(left.query, right.query)
            = DetectTabularDispatch(right.query, left.query)
       /\ here.kind = there.kind
       /\ here.kind = "tabular" => /\ here.added = there.removed
                                   /\ here.removed = there.added
       /\ LET cli == RunTabularOnCli(left, right) IN
          cli.kind = here.kind /\ (here.kind = "tabular" => cli = here)

(* A pair sent to the tabular diff is never refused there for its queries.  *)
DispatchIsAccepted(left, right) ==
    DetectTabularDispatch(left, right) = "tabular" =>
        \A query \in {left, right} : ValidateInlineQuery(query, "tabular-anon")

=============================================================================
