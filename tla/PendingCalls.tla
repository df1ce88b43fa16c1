---------------------------- MODULE PendingCalls ----------------------------
(***************************************************************************)
(* What the query worker pool promises to those who call query(): a call   *)
(* is answered once, by a result, by an error of its own, or because the   *)
(* worker it was sent to is lost.  A lost worker loses every call that     *)
(* waits for it and no other.                                              *)
(***************************************************************************)
CONSTANTS Calls, Indexes, NoIndex

VARIABLES
    owner,   \* call -> the index whose worker it was sent to
    result   \* call -> "new", "pending", or what settled it

calls == <<owner, result>>

Init ==
    /\ owner = [c \in Calls |-> NoIndex]
    /\ result = [c \in Calls |-> "new"]

Ask(c, i) ==
    /\ result[c] = "new"
    /\ owner' = [owner EXCEPT ![c] = i]
    /\ result' = [result EXCEPT ![c] = "pending"]

Answer(c) ==
    /\ result[c] = "pending"
    /\ \E out \in {"ok", "error"} : result' = [result EXCEPT ![c] = out]
    /\ UNCHANGED owner

Waiting(i) == {c \in Calls : result[c] = "pending" /\ owner[c] = i}

LoseWorker(i) ==
    /\ result' = [c \in Calls |-> IF c \in Waiting(i) THEN "lost" ELSE result[c]]
    /\ UNCHANGED owner

Next ==
    \/ \E c \in Calls, i \in Indexes : Ask(c, i)
    \/ \E c \in Calls : Answer(c)
    \/ \E i \in Indexes : LoseWorker(i)

Spec == Init /\ [][Next]_calls
=============================================================================
