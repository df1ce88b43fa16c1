----------------------------- MODULE EntityHunks -----------------------------
(***************************************************************************)
(* How a graph diff is laid out for reading (libs/core/src/lib/diff/       *)
(* group-rdf-diff-by-entity.ts, resolve-anchors.ts, subject-path.ts,       *)
(* compact-rdf-lists.ts): every removed or added statement goes into the   *)
(* hunk of each named entity it belongs to, one hunk per entity, and the   *)
(* statements of an rdf:List are folded into one line.                     *)
(*                                                                         *)
(* A store is a set of statements [s, p, o].  Canonical and raw labels of  *)
(* a blank node are one name here, for the maps between them are           *)
(* bijections.  A line's wording and place in its hunk are left out.       *)
(***************************************************************************)
EXTENDS Integers, FiniteSets, Sequences, SequencesExt

CONSTANTS BNodeOrder,    \* blank nodes, in the order of their canonical labels
          Named          \* IRIs and literals that statements mention

BNodes == Range(BNodeOrder)
First == "first"
Rest == "rest"
Nil == "nil"
Spine == {First, Rest}
SideOf == [minus |-> "left", plus |-> "right"]

Least(bs) == LET i == CHOOSE k \in DOMAIN BNodeOrder :
                         /\ BNodeOrder[k] \in bs
                         /\ \A j \in 1..(k - 1) : BNodeOrder[j] \notin bs
             IN  BNodeOrder[i]

-----------------------------------------------------------------------------
(* Whom a statement belongs to.                                            *)

Into(b, store) == {st \in store : st.o = b}
Parents(b, store) == {st.s : st \in Into(b, store)}

\* b and every blank node above it.
RECURSIVE Above(_, _)
Above(bs, store) ==
    LET more == bs \cup (BNodes \cap UNION {Parents(b, store) : b \in bs})
    IN  IF more = bs THEN bs ELSE Above(more, store)

FindAllNamedAncestors(b, store) ==
    UNION {Parents(a, store) \ BNodes : a \in Above({b}, store)}

\* The walk to the roots of a tree no entity holds: depth first, a node from
\* which no unvisited parent is left counts as a root.
RECURSIVE Roots(_, _, _, _)
Roots(stack, visited, roots, store) ==
    IF stack = <<>> THEN roots
    ELSE LET b == Last(stack)
             below == Front(stack)
             up == (Parents(b, store) \cap BNodes) \ (visited \cup {b})
         IN  IF b \in visited THEN Roots(below, visited, roots, store)
             ELSE Roots(below \o SetToSeq(up), visited \cup {b},
                        IF up = {} THEN roots \cup {b} ELSE roots, store)

SynthesizeOrphanAnchor(b, store) == Least(Roots(<<b>>, {}, {}, store))

ResolveAnchors(st, store) ==
    IF st.s \notin BNodes THEN {[anchor |-> st.s, orphan |-> FALSE]}
    ELSE LET named == FindAllNamedAncestors(st.s, store)
         IN  IF named # {} THEN [anchor : named, orphan : {FALSE}]
             ELSE {[anchor |-> SynthesizeOrphanAnchor(st.s, store), orphan |-> TRUE]}

\* The same, with trees no entity holds dropped.
ResolveAnchorsNamedOnly(st, store) ==
    IF st.s \notin BNodes THEN {[anchor |-> st.s, orphan |-> FALSE]}
    ELSE [anchor : FindAllNamedAncestors(st.s, store), orphan : {FALSE}]

-----------------------------------------------------------------------------
(* Lists.                                                                  *)

NotAList == <<"not a list">>

RECURSIVE WalkRdfList(_, _, _)
WalkRdfList(b, store, seen) ==
    LET firsts == {st.o : st \in {x \in store : x.s = b /\ x.p = First}}
        rests  == {st.o : st \in {x \in store : x.s = b /\ x.p = Rest}}
        next == CHOOSE o \in rests : TRUE
    IN  IF b \in seen \/ Cardinality(firsts) # 1 \/ Cardinality(rests) # 1 THEN NotAList
        ELSE IF next = Nil THEN <<CHOOSE o \in firsts : TRUE>>
        ELSE IF next \notin BNodes THEN NotAList
        ELSE LET tail == WalkRdfList(next, store, seen \cup {b})
             IN  IF tail = NotAList THEN NotAList
                 ELSE <<CHOOSE o \in firsts : TRUE>> \o tail

Items(b, store) == WalkRdfList(b, store, {})
IsListHead(b, store) == Items(b, store) # NotAList

\* Back along rdf:rest, as long as there is exactly one way back.
RECURSIVE FindListHead(_, _, _)
FindListHead(b, store, seen) ==
    LET back == {st.s : st \in {x \in Into(b, store) : x.p = Rest}}
        parent == CHOOSE s \in back : TRUE
    IN  IF b \in seen \/ Cardinality(back) # 1 \/ ~ back \subseteq BNodes THEN b
        ELSE FindListHead(parent, store, seen \cup {b})

\* The heads a statement relates to: of the list its object is, else of the
\* list its subject is a cell of.  At most one.
ListHeadForQuad(st, store) ==
    IF st.o \in BNodes /\ st.p \notin Spine /\ IsListHead(st.o, store) THEN {st.o}
    ELSE IF st.s \in BNodes /\ st.p \in Spine
         THEN {h \in {FindListHead(st.s, store, {})} : IsListHead(h, store)}
         ELSE {}

IsParentLine(line) == line.st.o \in BNodes /\ line.st.p \notin Spine

\* The grouping without the check that the list's holder is this hunk's entity:
\* the group goes, the made-up line does not come.
CompactGroupDropping(group, head, anchor, store) ==
    LET parents == {line \in group : IsParentLine(line)}
    IN  IF parents # {}
        THEN {[(CHOOSE line \in parents : TRUE) EXCEPT !.items = Items(head, store)]}
        ELSE {}

\* One group of lines, those about one list on one side, becomes one line:
\* the parent line with the items for its object; without one, a line made
\* up from the store, when this hunk's entity holds the list.
CompactGroup(group, head, anchor, store) ==
    LET fold(line) == [line EXCEPT !.items = Items(head, store)]
        parents == {line \in group : IsParentLine(line)}
        held == {st \in Into(head, store) : st.p \notin Spine}
        holder == CHOOSE st \in held : TRUE
    IN  IF parents # {} THEN {fold(CHOOSE line \in parents : TRUE)}
        ELSE IF held # {} /\ holder.s = anchor /\ anchor \notin BNodes
        THEN {[side |-> (CHOOSE line \in group : TRUE).side, st |-> holder,
               items |-> Items(head, store)]}
        ELSE group

CompactRdfListsInHunk(lines, anchor, stores) ==
    LET storeOf(line) == stores[SideOf[line.side]]
        about == {<<line, h>> \in lines \X BNodes : h \in ListHeadForQuad(line.st, storeOf(line))}
        keys == {<<x[1].side, x[2]>> : x \in about}
        group(k) == {line \in lines : <<line, k[2]>> \in about /\ line.side = k[1]}
    IN  (lines \ {x[1] : x \in about})
            \cup UNION {CompactGroup(group(k), k[2], anchor, stores[SideOf[k[1]]]) : k \in keys}

-----------------------------------------------------------------------------
(* The hunks.                                                              *)

\* Hunks of trees no entity holds are kept apart by side.
HunkKey(side, resolved) ==
    IF resolved.orphan THEN <<side, resolved.anchor>> ELSE <<"entity", resolved.anchor>>

\* One entry per changed statement and hunk it goes to.
Placed(diff, stores) ==
    UNION {UNION {{[key |-> HunkKey(side, r), line |-> [side |-> side, st |-> st, items |-> <<>>]] :
                      r \in ResolveAnchors(st, stores[SideOf[side]])} :
                  st \in diff[side]} :
           side \in {"minus", "plus"}}

PresentIn(anchor, store) == \E st \in store : st.s = anchor

StateOf(key, lines, stores) ==
    LET has(side) == \E line \in lines : line.side = side
        onLeft  == IF key[1] = "entity" THEN PresentIn(key[2], stores.left) ELSE has("minus")
        onRight == IF key[1] = "entity" THEN PresentIn(key[2], stores.right) ELSE has("plus")
    IN  IF onLeft /\ ~onRight THEN "removed"
        ELSE IF onRight /\ ~onLeft THEN "added" ELSE "changed"

GroupRdfDiffByEntity(diff, stores) ==
    LET placed == Placed(diff, stores)
        lines(key) == CompactRdfListsInHunk(
                          {x.line : x \in {y \in placed : y.key = key}}, key[2], stores)
    IN  {[key |-> key, lines |-> lines(key), state |-> StateOf(key, lines(key), stores)] :
            key \in {x.key : x \in placed}}

-----------------------------------------------------------------------------
(* What the layout promises.                                               *)

\* A change is told when a line of its side is the change itself or the list
\* it is a part of, folded.  The folded list of a hunk that holds the list
\* twice is shown under one of the two predicates only: the other predicate's
\* line goes with the group (compact-rdf-lists.ts:98-100).
Told(side, st, hunks, stores) ==
    LET store == stores[SideOf[side]]
    IN  \E hunk \in hunks : \E line \in hunk.lines :
            /\ line.side = side
            /\ \/ line.st = st
               \/ \E h \in ListHeadForQuad(st, store) : /\ line.st.o = h
                                                        /\ line.items = Items(h, store)

NothingDropped(diff, stores, hunks) ==
    \A side \in {"minus", "plus"} : \A st \in diff[side] : Told(side, st, hunks, stores)

\* An entity that only one side has is shown with that side's lines only.
StateAgrees(hunks) ==
    \A hunk \in hunks :
        /\ hunk.state = "removed" => \A line \in hunk.lines : line.side = "minus"
        /\ hunk.state = "added" => \A line \in hunk.lines : line.side = "plus"
        /\ hunk.lines # {}
=============================================================================
