------------------------------ MODULE Templates ------------------------------
(***************************************************************************)
(* Templated saved queries: the declaration of a parameter, the editor that *)
(* writes declarations, the form that collects bindings for them, the       *)
(* validation the form relies on, the substitution of the bindings into the *)
(* query, and the address of the page that carries them.                    *)
(*                                                                          *)
(* A value is [js |-> its JavaScript type, text, lang]; `text' of an object *)
(* is its `value' field.  A binding is [many |-> is it an array, values].   *)
(***************************************************************************)
EXTENDS Naturals, Sequences, SequencesExt, FiniteSetsExt

CONSTANTS Names,       \* parameter names
          ParseInt,    \* text |-> the integer parseInt reads, or NaN
          ParseFloat   \* text |-> the number parseFloat reads, or NaN

NaN     == "NaN"
Missing == "(missing)"    \* an object without the field
Json    == "(json)"       \* an object printed into the address

Types         == {"iri", "string", "integer", "decimal", "boolean", "date", "dateTime",
                  "langString", "literal"}
Cardinalities == {"0..1", "1..1", "0..n", "1..n"}

Text(t)       == [js |-> "string", text |-> t, lang |-> ""]
Number(t)     == [js |-> "number", text |-> t, lang |-> ""]
Truth(b)      == [js |-> "boolean", text |-> IF b THEN "true" ELSE "false", lang |-> ""]
Tagged(t, l)  == [js |-> "object", text |-> t, lang |-> l]

One(v)    == [many |-> FALSE, values |-> <<v>>]
Many(vs)  == [many |-> TRUE, values |-> vs]
Unbound   == [many |-> FALSE, values |-> << >>]
Nowhere   == [name \in Names |-> Unbound]

Numeric(type) == type \in {"integer", "decimal"}
IsMulti(p)    == p.cardinality \in {"0..n", "1..n"}
Required(p)   == p.cardinality \in {"1..1", "1..n"}
IsInteger(t)  == ParseInt[t] = t

(* ParameterDeclarationSchema: a datatype if and only if a literal.         *)
Declares(p) ==
    /\ p.name # ""
    /\ p.type \in Types /\ p.cardinality \in Cardinalities
    /\ (p.type = "literal") <=> (p.datatype # "")

(***************************************************************************)
(* validate(): the first declaration whose binding is missing or mistyped.  *)
(***************************************************************************)
CheckType(p, v) ==
    CASE p.type \in {"iri", "string", "date", "dateTime", "literal"} -> v.js = "string"
      [] p.type = "integer"    -> v.js = "number" /\ IsInteger(v.text)
      [] p.type = "decimal"    -> v.js = "number"
      [] p.type = "boolean"    -> v.js = "boolean"
      [] p.type = "langString" -> v.js = "object" /\ Missing \notin {v.text, v.lang}

BindingError(p, binding) ==
    IF binding.values = << >>
    THEN IF Required(p) THEN "cardinality-violation" ELSE "none"
    ELSE IF \A i \in DOMAIN binding.values : CheckType(p, binding.values[i])
         THEN "none" ELSE "type-mismatch"

Validate(params, bindings) ==
    LET wrong == SelectSeq(params, LAMBDA p : BindingError(p, bindings[p.name]) # "none")
    IN  IF wrong = << >> THEN [name |-> "", kind |-> "none"]
        ELSE [name |-> wrong[1].name, kind |-> BindingError(wrong[1], bindings[wrong[1].name])]

Accepts(params, bindings) == Validate(params, bindings).kind = "none"

(***************************************************************************)
(* substitute(): a VALUES clause with one column per bound parameter.       *)
(***************************************************************************)
IsOmitted(p, values) == values = << >> /\ ~Required(p)

PresentColumns(params, bindings) ==
    SelectSeq(params, LAMBDA p : ~IsOmitted(p, bindings[p.name].values))

(* `fails' where the declaration lacks what the term needs.                 *)
Escape(p, v) ==
    [fails |-> p.type = "literal" /\ p.datatype = "",
     form  |-> CASE p.type = "iri" -> "iri"
                 [] Numeric(p.type) \/ p.type = "boolean" -> "bare"
                 [] OTHER -> "quoted",
     text  |-> IF p.type = "boolean"
               THEN IF v.text \in {"false", ""} /\ v.js # "object" THEN "false" ELSE "true"
               ELSE v.text,
     tag   |-> CASE p.type = "langString" -> v.lang
                 [] p.type = "literal" -> p.datatype
                 [] p.type \in {"date", "dateTime"} -> p.type
                 [] OTHER -> ""]

RowCount(columns, bindings) ==
    Max({1} \cup {Len(bindings[columns[c].name].values) : c \in DOMAIN columns})

(* A column that is too short repeats its last value.                       *)
CellValue(values, i) ==
    IF i \in DOMAIN values THEN values[i]
    ELSE IF values = << >> THEN Text(Missing)
    ELSE values[Len(values)]

Clause(params, bindings) ==
    LET columns == PresentColumns(params, bindings)
        cell(i, c) == Escape(columns[c], CellValue(bindings[columns[c].name].values, i))
    IN  IF columns = << >> THEN [header |-> << >>, rows |-> << >>]
        ELSE [header |-> [c \in DOMAIN columns |-> columns[c].name],
              rows   |-> [i \in 1..RowCount(columns, bindings) |->
                             [c \in DOMAIN columns |-> cell(i, c)]]]

SubstituteFails(clause) ==
    \E i \in DOMAIN clause.rows : \E c \in DOMAIN clause.rows[i] : clause.rows[i][c].fails

(***************************************************************************)
(* lint(): what the editor complains about.  A body is the set of variables *)
(* in its text, those of its projection, and whether that is a star.        *)
(***************************************************************************)
ExtractProjection(body) == IF body.star THEN body.vars ELSE body.projection

Lint(params, body) ==
    LET declared == {params[i].name : i \in DOMAIN params}
        unused == SelectSeq(params, LAMBDA p : p.name \notin body.vars)
        undeclared == (body.vars \ ExtractProjection(body)) \ declared
    IN  IF unused # << >> THEN [kind |-> "declared-but-unused", names |-> {unused[1].name}]
        ELSE IF declared # {} /\ undeclared # {}
             THEN [kind |-> "undeclared-body-variable", names |-> undeclared]
             ELSE [kind |-> "none", names |-> {}]

(***************************************************************************)
(* The form.  `overrides' is what has been entered, by name; it outlives a  *)
(* change of the declarations.                                              *)
(***************************************************************************)
ParseRawForType(p, raw) ==
    LET read == IF p.type = "integer" THEN ParseInt[raw] ELSE ParseFloat[raw]
    IN  IF raw # "" /\ Numeric(p.type) /\ read # NaN THEN Number(read) ELSE Text(raw)

(* A number field of the browser hands over nothing that is no number.      *)
Typed(p, raw) == IF Numeric(p.type) /\ ParseFloat[raw] = NaN THEN "" ELSE raw

Control(p) ==
    CASE IsMulti(p)            -> "chips"
      [] ~IsMulti(p) /\ p.enum # << >> -> "select"
      [] ~IsMulti(p) /\ p.enum = << >> /\ p.type = "boolean" -> "checkbox"
      [] ~IsMulti(p) /\ p.enum = << >> /\ p.type = "langString" -> "lang"
      [] OTHER                 -> "input"

Resolved(p, initial, overrides) ==
    IF overrides[p.name] # Unbound THEN overrides[p.name]
    ELSE IF initial[p.name] # Unbound THEN initial[p.name]
    ELSE p.default

Chips(p, initial, overrides) ==
    LET shown == Resolved(p, initial, overrides) IN
    IF shown.many THEN shown.values ELSE << >>

(* The part of a language string that is not being edited comes from what   *)
(* was entered or from the default, never from the address.                 *)
OnLangInput(p, overrides, text, part) ==
    LET held == IF overrides[p.name] # Unbound THEN overrides[p.name] ELSE p.default
        current == IF held # Unbound /\ ~held.many /\ held.values[1].js = "object"
                   THEN held.values[1] ELSE Tagged(Missing, Missing)
    IN  IF part = "value" THEN [current EXCEPT !.text = text] ELSE [current EXCEPT !.lang = text]

OnAdderEnter(p, initial, overrides, text) ==
    IF text = "" THEN overrides[p.name]
    ELSE Many(Append(Chips(p, initial, overrides), ParseRawForType(p, text)))

OnChipRemove(p, initial, overrides) ==
    LET chips == Chips(p, initial, overrides) IN
    IF chips = << >> THEN overrides[p.name] ELSE Many(Tail(chips))

OnSelectChange(p, i) == ParseRawForType(p, p.enum[i].text)

(* What one act of the user makes of the overrides.                         *)
Entered(p, initial, overrides, act) ==
    LET enter(binding) == [overrides EXCEPT ![p.name] = binding] IN
    CASE Control(p) = "chips" /\ act.op = "add" ->
             enter(OnAdderEnter(p, initial, overrides, act.text))
      [] Control(p) = "chips" /\ act.op # "add" -> enter(OnChipRemove(p, initial, overrides))
      [] Control(p) = "select"   -> enter(One(OnSelectChange(p, 1)))
      [] Control(p) = "checkbox" -> enter(One(Truth(act.op = "add")))
      [] Control(p) = "lang"     -> enter(One(OnLangInput(p, overrides, act.text,
                                                  IF act.op = "add" THEN "value" ELSE "lang")))
      [] Control(p) = "input"    -> enter(One(ParseRawForType(p, Typed(p, act.text))))

BuildBindings(params, initial, overrides) ==
    LET of(p) == LET v == Resolved(p, initial, overrides) IN
                 IF v = One(Text("")) THEN Unbound ELSE v
        declared(name) == SelectSeq(params, LAMBDA p : p.name = name)
    IN  [name \in Names |-> IF declared(name) = << >> THEN Unbound ELSE of(declared(name)[1])]

(* onSubmit(): the bindings that leave the form, if they do.                *)
Submits(params, initial, overrides) ==
    Accepts(params, BuildBindings(params, initial, overrides))

(* The complaints about bindings that came with the address.                *)
InitialErrors(params, initial, overrides) ==
    {p \in Range(params) :
        /\ overrides[p.name] = Unbound /\ initial[p.name] # Unbound
        /\ BindingError(p, initial[p.name]) # "none"}

(***************************************************************************)
(* The editor: the declarations after one act on the row i.                 *)
(***************************************************************************)
NewParameter ==
    [name |-> "", type |-> "string", cardinality |-> "1..1", datatype |-> "",
     default |-> Unbound, enum |-> << >>]

DefaultInput(p, raw) == IF p.type = "boolean" THEN Truth(raw # "")
                        ELSE ParseRawForType(p, Typed(p, raw))

OnDefault(p, raw) ==
    [p EXCEPT !.default = IF p.type # "boolean" /\ Typed(p, raw) = "" THEN Unbound
                          ELSE One(DefaultInput(p, raw))]

SupportsEnum(p) == p.type \notin {"boolean", "langString"}

OnEnumInput(p, texts) == [p EXCEPT !.enum = [i \in DOMAIN texts |-> ParseRawForType(p, texts[i])]]

UpdateAt(params, i, act) ==
    LET p == params[i] IN
    CASE act.op = "name"        -> [params EXCEPT ![i].name = act.text]
      [] act.op = "type"        -> [params EXCEPT ![i].type = act.text]
      [] act.op = "cardinality" -> [params EXCEPT ![i].cardinality = act.text]
      [] act.op = "default"     -> [params EXCEPT ![i] = OnDefault(p, act.text)]
      [] act.op = "enum"        -> [params EXCEPT ![i] = IF SupportsEnum(p)
                                       THEN OnEnumInput(p, IF act.text = "" THEN << >>
                                                           ELSE <<act.text>>)
                                       ELSE p]

Swap(params, a, b) == [params EXCEPT ![a] = params[b], ![b] = params[a]]
OnMoveUp(params, i)   == IF i = 1 THEN params ELSE Swap(params, i - 1, i)
OnMoveDown(params, i) == IF i = Len(params) THEN params ELSE Swap(params, i, i + 1)
OnAdd(params)         == Append(params, NewParameter)
OnRemove(params, i)   == RemoveAt(params, i)

(***************************************************************************)
(* The address.  Every value is printed; an empty array leaves no trace,    *)
(* and a key that occurs once is read as one value.                         *)
(***************************************************************************)
ScalarToString(v) == IF v.js = "object" THEN Json ELSE v.text

EncodeBindings(bindings) ==
    [name \in Names |-> [i \in DOMAIN bindings[name].values |->
                            ScalarToString(bindings[name].values[i])]]

ParseBindings(address) ==
    [name \in Names |->
        CASE Len(address[name]) = 0 -> Unbound
          [] Len(address[name]) = 1 -> One(Text(address[name][1]))
          [] OTHER -> Many([i \in DOMAIN address[name] |-> Text(address[name][i])])]

(* A changed form of Address: what the page has written stays.              *)
AddressKept(old, known, pinned, bindings) ==
    [name \in Names |->
        LET written == EncodeBindings(bindings)[name] IN
        IF pinned /\ written # << >> THEN written ELSE old[name]]

(* The address of the query page: the keys it has ever written are removed, *)
(* and those of the last submission written while the saved query is as     *)
(* loaded.  Keys it has not written stay.                                   *)
Address(old, known, pinned, bindings) ==
    [name \in Names |->
        LET written == EncodeBindings(bindings)[name] IN
        IF pinned /\ written # << >> THEN written
        ELSE IF name \in known THEN << >> ELSE old[name]]

-----------------------------------------------------------------------------
(* What the properties say.                                                 *)
Textual(p) == p.type \in {"iri", "string", "date", "dateTime", "literal"}

(* The SPARQL term a cell is read as has the declared type; a decimal that  *)
(* is whole is read as an integer.                                          *)
ReadsAs(p, cell) ==
    CASE p.type = "integer"    -> cell.form = "bare" /\ IsInteger(cell.text)
      [] p.type = "decimal"    -> cell.form = "bare" /\ ParseFloat[cell.text] = cell.text
      [] p.type = "boolean"    -> cell.form = "bare" /\ cell.text \in {"true", "false"}
      [] p.type = "iri"        -> cell.form = "iri" /\ cell.text # ""
      [] p.type = "langString" -> cell.form = "quoted" /\ Missing \notin {cell.text, cell.tag}
      [] OTHER                 -> cell.form = "quoted" /\ (p.type # "string" <=> cell.tag # "")

(* Every value of a binding is in a row of its own, in the column of its    *)
(* parameter, as a term of its type; no other column is there, and no row   *)
(* binds what nobody entered.                                                 *)
ClauseHolds(params, bindings) ==
    LET clause == Clause(params, bindings) IN
    /\ ~SubstituteFails(clause)
    /\ Range(clause.header) =
          {p.name : p \in {q \in Range(params) : bindings[q.name].values # << >>}}
    /\ \A p \in Range(params) : Required(p) => p.name \in Range(clause.header)
    /\ \A c \in DOMAIN clause.header :
          LET name == clause.header[c]
              p == CHOOSE q \in Range(params) : q.name = name
              values == bindings[name].values
          IN  /\ \A i \in DOMAIN values : clause.rows[i][c] = Escape(p, values[i])
              /\ \A i \in DOMAIN clause.rows :
                    /\ ReadsAs(p, clause.rows[i][c])
                    /\ \E j \in DOMAIN values : clause.rows[i][c] = Escape(p, values[j])

(* What the form lets through asks for exactly what it shows, also when the *)
(* order of the declarations changes.                                       *)
AsksWhatIsBound(params, initial, overrides) ==
    LET bindings == BuildBindings(params, initial, overrides)
        rows(ps) == LET clause == Clause(ps, bindings) IN
                    {{<<clause.header[c], clause.rows[i][c]>> : c \in DOMAIN clause.header} :
                        i \in DOMAIN clause.rows}
    IN  Submits(params, initial, overrides) =>
            /\ ClauseHolds(params, bindings)
            /\ \A i \in DOMAIN params : rows(OnMoveUp(params, i)) = rows(params)

(* The address of a submission, opened again, asks the same or is refused   *)
(* by the form; it is not refused where every value in it is a text.  An    *)
(* optional parameter left empty against its default is the exception.      *)
LinkAsksTheSame(params, initial, overrides) ==
    LET bindings == BuildBindings(params, initial, overrides)
        bound(b) == {name \in Names : b[name].values # << >>}
        link == Address(EncodeBindings(initial), bound(initial) \cup bound(bindings), TRUE, bindings)
        opened == ParseBindings(link)
        cleared == \E p \in Range(params) : p.default # Unbound /\ p.name \notin bound(bindings)
    IN  Submits(params, initial, overrides) /\ ~cleared =>
            /\ Submits(params, opened, Nowhere) =>
                  Clause(params, BuildBindings(params, opened, Nowhere)) = Clause(params, bindings)
            /\ (\A p \in Range(params) : p.name \in bound(bindings) => Textual(p)) =>
                  Submits(params, opened, Nowhere) /\ InitialErrors(params, opened, Nowhere) = {}

(* A query the editor does not complain about has a place for every column. *)
LintedIsBound(params, bindings, body) ==
    Lint(params, body).kind = "none" => Range(Clause(params, bindings).header) \subseteq body.vars

(* What the form complains about it also refuses, and what it complains     *)
(* about on opening came with the address.                                  *)
ComplaintsRefuse(params, initial, overrides) ==
    InitialErrors(params, initial, overrides) # {} => ~Submits(params, initial, overrides)
=============================================================================
