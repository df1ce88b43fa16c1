------------------------------- MODULE RdfDiff -------------------------------
(***************************************************************************)
(* How two graphs are compared (libs/core/src/lib/diff/diff.ts and         *)
(* canonical/).  Each side is canonicalised on its own, so that the labels *)
(* of its blank nodes mean nothing to the other side; blank nodes of equal *)
(* "shape" are then paired across the sides and the statements compared    *)
(* under the pairing.                                                      *)
(*                                                                         *)
(* A graph is a set of statements [s, p, o]; a predicate stands for the    *)
(* predicate with its named graph.  RDFC-1.0 (a library) is modelled by    *)
(* what it promises: isomorphic graphs get the same labels.  SHA-256 is    *)
(* modelled as injective, so a shape is an equivalence class of nodes.     *)
(***************************************************************************)
EXTENDS Integers, FiniteSets, Sequences, SequencesExt, FiniteSetsExt

CONSTANTS Labels,       \* canonical blank node labels, in lexical order
          Iris,         \* named terms and literals
          Predicates,
          AnnotationPredicates   \* predicates that annotate a statement

BNodes == Range(Labels)
Sides == {"left", "right"}
Statements == [s : BNodes \cup Iris, p : Predicates, o : BNodes \cup Iris]

HasBnode(st) == {st.s, st.o} \cap BNodes # {}
Mentioned(graph) == BNodes \cap UNION {{st.s, st.o} : st \in graph}

-----------------------------------------------------------------------------
(* Canonical form.                                                         *)

Rename(st, f) ==
    LET at(t) == IF t \in DOMAIN f THEN f[t] ELSE t
    IN  [st EXCEPT !.s = at(st.s), !.o = at(st.o)]

Relabellings(graph) ==
    LET used == Mentioned(graph)
        Into == {Labels[i] : i \in 1..Cardinality(used)}
    IN  {{Rename(st, f) : st \in graph} :
            f \in {g \in [used -> Into] : IsInjective(g)}}

Isomorphic(g, h) == Relabellings(g) = Relabellings(h)

\* RDFC-1.0: one representative of each isomorphism class, the annotations
\* having been dropped first.
Strip(graph) == {st \in graph : st.p \notin AnnotationPredicates}
Canonical(graph) == CHOOSE h \in Relabellings(Strip(graph)) : TRUE

-----------------------------------------------------------------------------
(* Shapes and pairing.  A node is a blank node with the side it is on; a   *)
(* shape is the set of the nodes that have it.                             *)

Nodes(g) == UNION {{<<side, b>> : b \in Mentioned(g[side])} : side \in Sides}

ShapeOf(n, shapes) == CHOOSE shape \in shapes : n \in shape

\* A term as it appears in a neighbour's signature: a blank node by its
\* shape, anything else by itself.
Seen(t, side, shapes) ==
    IF t \in BNodes THEN <<"shape", ShapeOf(<<side, t>>, shapes)>> ELSE <<"term", t>>

\* The signature of a node: its outgoing and its incoming edges, each with
\* the number of times it occurs (the sorted lists keep duplicates).
Signature(g, n, shapes) ==
    LET side == n[1]
        count(edges) == {<<e[2], Cardinality({x \in edges : x[2] = e[2]})>> : e \in edges}
        outs == {<<st, <<st.p, Seen(st.o, side, shapes)>>>> : st \in {x \in g[side] : x.s = n[2]}}
        ins  == {<<st, <<st.p, Seen(st.s, side, shapes)>>>> : st \in {x \in g[side] : x.o = n[2]}}
    IN  <<count(outs), count(ins)>>

\* One round of refinement: nodes of one shape stay together while their
\* signatures agree.
Refine(g, shapes) ==
    LET signed == {<<n, Signature(g, n, shapes)>> : n \in Nodes(g)}
    IN  {{x[1] : x \in {y \in signed : y[2] = z[2]}} : z \in signed}

\* The code refines up to 64 times; after as many rounds as there are nodes
\* the shapes no longer change.
Shapes(g) ==
    LET after[round \in Nat] ==
            IF round = 0 THEN {Nodes(g)} ELSE Refine(g, after[round - 1])
    IN  after[Cardinality(Nodes(g))]

\* All the nodes of a shape share one token, as if its multiplicity were
\* dropped.
TokensWithoutIndex(g, shape) ==
    IF \A side \in Sides : \E n \in shape : n[1] = side
    THEN {<<n, <<shape, 1>>>> : n \in shape} ELSE {}

\* The i-th label of a shape on one side is paired with the i-th label of
\* that shape on the other side: both get the token <<shape, i>>.
Tokens(g, shape) ==
    LET on(side) == SelectSeq(Labels, LAMBDA b : <<side, b>> \in shape)
        n == Min({Len(on(side)) : side \in Sides})
    IN  UNION {{<<<<side, on(side)[i]>>, <<shape, i>>>> : i \in 1..n} : side \in Sides}

\* The pairing: a set of <<node, token>>.
Pairs(g) == UNION {Tokens(g, shape) : shape \in Shapes(g)}

-----------------------------------------------------------------------------
(* The comparison.                                                         *)

\* The bucket a statement falls into: the statement under the pairing.
Key(st, side, pairs) ==
    LET tokens(t) == {x[2] : x \in {y \in pairs : y[1] = <<side, t>>}}
        at(t) == IF tokens(t) = {} THEN <<"plain", t>> ELSE <<"paired", tokens(t)>>
    IN  <<at(st.s), st.p, at(st.o)>>

\* What side has beyond the statements of the other side in the same bucket.
\* Which statements of an overfull bucket are kept is the lexical order's
\* choice.
Beyond(side, keyed) ==
    LET other == CHOOSE o \in Sides : o # side
        bucket(k, on) == {x[1] : x \in {y \in keyed[on] : y[2] = k}}
        excess(k) == LET n == Cardinality(bucket(k, side)) - Cardinality(bucket(k, other))
                     IN  IF n <= 0 THEN {} ELSE CHOOSE x \in kSubset(n, bucket(k, side)) : TRUE
    IN  UNION {excess(x[2]) : x \in keyed[side]}

DiffWithPairedBnodes(g) ==
    LET pairs == Pairs(g)
        keyed == [left  |-> {<<st, Key(st, "left", pairs)>> : st \in g.left},
                  right |-> {<<st, Key(st, "right", pairs)>> : st \in g.right}]
    IN  [removed |-> Beyond("left", keyed),
         added   |-> Beyond("right", keyed),
         totals  |-> [left |-> Cardinality(g.left), right |-> Cardinality(g.right)]]

DiffCanonicalStatements(g) ==
    [removed |-> g.left \ g.right,
     added   |-> g.right \ g.left,
     totals  |-> [left |-> Cardinality(g.left), right |-> Cardinality(g.right)]]

DiffStores(stores) ==
    LET g == [left |-> Canonical(stores.left), right |-> Canonical(stores.right)]
    IN  IF \A side \in Sides : Mentioned(g[side]) = {}
        THEN DiffCanonicalStatements(g)
        ELSE DiffWithPairedBnodes(g)

-----------------------------------------------------------------------------
(* What a diff promises.                                                   *)

\* The statements a diff leaves out are the same graph on both sides: the
\* two remainders are isomorphic.
KeepsOneGraph(stores, diff) ==
    Isomorphic(Canonical(stores.left) \ diff.removed,
               Canonical(stores.right) \ diff.added)

\* Swapping the sides swaps the answer's sizes, and graphs that differ only
\* in blank node labels or annotations have no difference.
Fair(stores, diff) ==
    LET swapped == DiffStores([left |-> stores.right, right |-> stores.left])
    IN  /\ Cardinality(swapped.added) = Cardinality(diff.removed)
        /\ Cardinality(swapped.removed) = Cardinality(diff.added)
        /\ (diff.added \cup diff.removed = {})
              <=> Isomorphic(Strip(stores.left), Strip(stores.right))
=============================================================================
