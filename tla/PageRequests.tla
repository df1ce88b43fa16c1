--------------------------- MODULE PageRequests ---------------------------
(* The requests of the diff page (apps/web pages/diff): what the user       *)
(* changes, what a run sends, and the answers, which may come in any order  *)
(* and say nothing of the run they belong to.                               *)
EXTENDS Naturals, Sequences

CONSTANTS
    Inputs,     \* sources
    Texts,      \* query texts
    Unscoped,   \* pairs of a source and a text that may not be run: an endpoint
                \* or a disk-backed glob without a query
    MaxRuns     \* bound: the requests the page sends

VARIABLES
    form,       \* the two sides, each with its source and its text
    board,      \* running, and what is shown: a result with its errors
    sent,       \* every request, in order
    open        \* the requests that have no answer yet
rvars == <<form, board, sent, open>>

Empty == [kind |-> "empty"]
Sides == {"left", "right"}

(* The sides start as the address of the page has them. *)
PagesInit ==
    /\ form \in [Sides -> Inputs \X Texts]
    /\ board = [running |-> FALSE, shown |-> Empty]
    /\ sent = << >>
    /\ open = {}

(* runDisabled: while a run is under way, or a side needs a query. *)
ButtonIgnoresLoading(b) == \A side \in Sides : form[side] \notin Unscoped
ButtonEnabled(b) == ~b.running /\ \A side \in Sides : form[side] \notin Unscoped

Send(request) ==
    /\ Len(sent) < MaxRuns
    /\ sent' = Append(sent, request)
    /\ open' = open \cup {Len(sent) + 1}

(* run: what was shown goes first. *)
Run ==
    /\ ButtonEnabled(board)
    /\ Send(form)
    /\ board' = [running |-> TRUE, shown |-> Empty]
    /\ UNCHANGED form

(* onLeftIdChange, onRightIdChange: another source drops what is shown,     *)
(* never what is under way.                                                 *)
OnSourceChange(side, i) ==
    /\ form[side][1] # i
    /\ form' = [form EXCEPT ![side][1] = i]
    /\ board' = [board EXCEPT !.shown = Empty]
    /\ UNCHANGED <<sent, open>>

(* Typing, or a saved query loaded into a side (EditorFrameController). *)
OnTextChange(side, t) ==
    /\ form' = [form EXCEPT ![side][2] = t]
    /\ UNCHANGED <<board, sent, open>>

SwapSides ==
    /\ form' = [form EXCEPT !["left"] = form["right"], !["right"] = form["left"]]
    /\ board' = [board EXCEPT !.shown = Empty]
    /\ UNCHANGED <<sent, open>>

(* An answer, or a failure, of the request n: whichever comes is shown.     *)
Arrives(n, kind) ==
    /\ n \in open
    /\ open' = open \ {n}
    /\ board' = [running |-> FALSE, shown |-> [kind |-> kind, of |-> n]]
    /\ UNCHANGED <<form, sent>>
Answered(n) == Arrives(n, "answer")
RunFails(n) == Arrives(n, "failure")

PagesNext ==
    \/ Run \/ SwapSides
    \/ \E side \in Sides :
           \/ \E i \in Inputs : OnSourceChange(side, i)
           \/ \E t \in Texts : OnTextChange(side, t)
    \/ \E n \in open : Answered(n) \/ RunFails(n)

PagesSpec == PagesInit /\ [][PagesNext]_rvars

(* What the diff page shows answers the last run, and a page that is        *)
(* running waits for that run and no other: the button, which is all that   *)
(* starts a diff, keeps a second run from overtaking the first, whatever    *)
(* the user edits or swaps meanwhile (diff.page.ts:246-251,360).            *)
DiffShowsItsRun ==
    /\ board.shown # Empty => board.shown.of = Len(sent)
    /\ open # {} => board.running /\ open = {Len(sent)} /\ board.shown = Empty
============================================================================
