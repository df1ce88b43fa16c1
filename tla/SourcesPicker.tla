--------------------------- MODULE SourcesPicker ---------------------------
(* The source picker's overlay (web/modules/sources-picker): a source is    *)
(* staged, its refs and the commits of a scope are fetched page by page     *)
(* from the server's refs controller, and a ref is staged and applied.      *)
(* Answers arrive in any order, after the user has moved on.  An answer the *)
(* API client has cached arrives in a step of its own too.                  *)
EXTENDS Naturals, FiniteSets, SequencesExt, FiniteSetsExt

CONSTANTS
    Ids,        \* sources of the tree
    Scopes,     \* scope names; "HEAD" is one
    Commits,    \* commits, newest first: 1 is the newest
    ParentsOf,    \* commit -> set of commits
    Heads,      \* source -> scope -> the commits git log starts from
    Touching,   \* source -> the commits that touch its pathspec
    Eligible,   \* sources with a repository and a history
    PageSize,
    Nothing, MaxPending  \* bound: answers under way at a time

(* Committer dates do not run backwards: a commit is newer than its parents.*)
ASSUME PickerAssumption ==
    /\ Commits \subseteq Nat /\ IsFiniteSet(Commits) /\ Nothing \notin Commits
    /\ \A c \in Commits : ParentsOf[c] \subseteq {d \in Commits : d > c}
    /\ PageSize \in Nat \ {0}

VARIABLE overlay, underway
pvars == <<overlay, underway>>

(* git log <tips> -- <pathspec>, newest first: the commits that every set   *)
(* with the tips, closed under parents, has.                                *)
Reachable(tips) ==
    {c \in Commits : \A S \in SUBSET Commits :
        (tips \subseteq S /\ \A d \in S : ParentsOf[d] \subseteq S) => c \in S}

GitLog(id, tips) ==
    LET walked == Reachable(tips) \cap Touching[id]
        newer(c) == {d \in walked : d < c}
    IN  [n \in 1..Cardinality(walked) |->
            CHOOSE c \in walked : Cardinality(newer(c)) = n - 1]

(* listCommits: a page, and the commit the next one starts behind; the      *)
(* next page walks from the parents of that commit alone.                   *)
ListCommitsFromItself(id, scope, before) ==
    LET log == GitLog(id, IF before = Nothing THEN Heads[id][scope] ELSE {before})
        more == Len(log) > PageSize
        page == IF more THEN SubSeq(log, 1, PageSize) ELSE log
    IN  [commits |-> page, next |-> IF more THEN Last(page) ELSE Nothing]
ListCommits(id, scope, before) ==
    LET log == GitLog(id, IF before = Nothing THEN Heads[id][scope] ELSE ParentsOf[before])
        more == Len(log) > PageSize
        page == IF more THEN SubSeq(log, 1, PageSize) ELSE log
    IN  [commits |-> page, next |-> IF more THEN Last(page) ELSE Nothing]

NotAsked == [kind |-> "idle"]
Loading == [kind |-> "loading"]
NoCommits == [commits |-> << >>, next |-> Nothing]

PickerInit ==
    /\ overlay = [staged |-> Nothing, ref |-> Nothing, refOf |-> Nothing, refs |-> NotAsked,
                  commits |-> NotAsked, scope |-> "HEAD", seen |-> {}]
    /\ underway = {}

Ask(kind, id, scope, before, base) ==
    [kind |-> kind, id |-> id, scope |-> scope, before |-> before, base |-> base]

(* The effect that follows stagedId: both panels restart, and the pages     *)
(* kept for the source that was left are dropped.                           *)
FocusSource(id) ==
    /\ overlay.staged # id
    /\ overlay' = [overlay EXCEPT !.staged = id, !.ref = Nothing, !.refOf = Nothing,
           !.refs = Loading, !.commits = NotAsked, !.scope = "HEAD",
           !.seen = {s \in @ : s.id # overlay.staged}]
    /\ underway' = underway \cup {Ask("refs", id, "HEAD", Nothing, NoCommits)}

(* loadCommitsForStaged: pages kept for this source and scope are shown at  *)
(* once.                                                                    *)
LoadCommits(o, id, scope) ==
    LET kept == {s \in o.seen : s.id = id /\ s.scope = scope} IN
    IF kept # {}
    THEN /\ overlay' = [o EXCEPT !.scope = scope, !.commits =
                [kind |-> "loaded", of |-> <<id, scope>>, list |-> (CHOOSE s \in kept : TRUE).list]]
         /\ UNCHANGED underway
    ELSE /\ overlay' = [o EXCEPT !.scope = scope, !.commits = Loading]
         /\ underway' = underway \cup {Ask("commits", id, scope, Nothing, NoCommits)}

OnScopeChange(scope) ==
    /\ overlay.staged # Nothing /\ overlay.refs.kind = "loaded" /\ scope # overlay.scope
    /\ LoadCommits(overlay, overlay.staged, scope)

OnShowMore ==
    LET list == overlay.commits.list IN
    /\ overlay.commits.kind = "loaded" /\ list.next # Nothing
    /\ underway' = underway \cup {Ask("commits", overlay.staged, overlay.scope, list.next, list)}
    /\ UNCHANGED overlay

OnRefreshRemotes ==
    /\ overlay.staged # Nothing
    /\ underway' = underway \cup {Ask("fetch", overlay.staged, "HEAD", Nothing, NoCommits)}
    /\ UNCHANGED overlay

(* A ref or a commit is picked, which stages it. *)
Pick(c) ==
    /\ \/ overlay.refs.kind = "loaded" /\ c \in UNION {Heads[overlay.refs.of][s] : s \in Scopes}
       \/ overlay.commits.kind = "loaded" /\ c \in Range(overlay.commits.list.commits)
    /\ overlay' = [overlay EXCEPT !.ref = c, !.refOf =
           IF overlay.commits.kind = "loaded" /\ c \in Range(overlay.commits.list.commits)
           THEN overlay.commits.of[1] ELSE overlay.refs.of]
    /\ UNCHANGED underway

(* The server answers (refs.controller.ts), unless the request is lost, and *)
(* the overlay drops what it no longer shows.                               *)
RefsArrive(ask) ==
    /\ ask \in underway /\ ask.kind = "refs"
    /\ LET rest == underway \ {ask} IN
       IF overlay.staged # ask.id THEN underway' = rest /\ UNCHANGED overlay
       ELSE IF ask.id \notin Eligible
       THEN underway' = rest /\ overlay' = [overlay EXCEPT !.refs = [kind |-> "no history"]]
       ELSE LET kept == {s \in overlay.seen : s.id = ask.id /\ s.scope = overlay.scope} IN
            /\ overlay' = [overlay EXCEPT !.refs = [kind |-> "loaded", of |-> ask.id],
                  !.commits = IF kept = {} THEN Loading
                      ELSE [kind |-> "loaded", of |-> <<ask.id, overlay.scope>>,
                            list |-> (CHOOSE s \in kept : TRUE).list]]
            /\ underway' = IF kept = {}
                           THEN rest \cup {Ask("commits", ask.id, overlay.scope, Nothing, NoCommits)}
                           ELSE rest

ShownWhateverTheScope(ask) == overlay.staged = ask.id
Shown(ask) == overlay.staged = ask.id /\ overlay.scope = ask.scope

CommitsArrive(ask) ==
    LET page == ListCommits(ask.id, ask.scope, ask.before)
        list == [commits |-> ask.base.commits \o page.commits, next |-> page.next] IN
    /\ ask \in underway /\ ask.kind = "commits"
    /\ underway' = underway \ {ask}
    /\ overlay' =
         IF Shown(ask)
         THEN [overlay EXCEPT !.commits = [kind |-> "loaded", of |-> <<ask.id, ask.scope>>, list |-> list],
                 !.seen = {s \in @ : s.id # ask.id \/ s.scope # ask.scope}
                          \cup {[id |-> ask.id, scope |-> ask.scope, list |-> list]}]
         ELSE overlay

FetchArrives(ask) ==
    /\ ask \in underway /\ ask.kind = "fetch"
    /\ underway' = underway \ {ask}
    /\ overlay' = IF overlay.staged = ask.id
                  THEN [overlay EXCEPT !.refs = [kind |-> "loaded", of |-> ask.id]] ELSE overlay

Lost(ask) == ask \in underway /\ underway' = underway \ {ask} /\ UNCHANGED overlay

PickerNext ==
    \/ /\ Cardinality(underway) < MaxPending
       /\ \/ \E id \in Ids : FocusSource(id)
          \/ \E scope \in Scopes : OnScopeChange(scope)
          \/ OnShowMore \/ OnRefreshRemotes
    \/ \E c \in Commits : Pick(c)
    \/ \E ask \in underway : RefsArrive(ask) \/ CommitsArrive(ask) \/ FetchArrives(ask) \/ Lost(ask)

PickerSpec == PickerInit /\ [][PickerNext]_pvars

(* Whatever order the answers come in, after whatever the user has staged   *)
(* and selected meanwhile, the panels show the staged source and the scope  *)
(* selected, and the ref that Apply would pin belongs to the source it pins.*)
(* The pages shown below one another are commits of that scope and list     *)
(* none of them twice.                                                      *)
PanelsFollow ==
    /\ overlay.refs.kind = "loaded" => overlay.refs.of = overlay.staged
    /\ overlay.commits.kind = "loaded" => overlay.commits.of = <<overlay.staged, overlay.scope>>
    /\ overlay.ref # Nothing => overlay.refOf = overlay.staged
PanelsOfStaged ==
    /\ PanelsFollow
    /\ overlay.commits.kind = "loaded" =>
           LET shown == overlay.commits.list.commits IN
           /\ IsInjective(shown)
           /\ Range(shown) \subseteq Reachable(Heads[overlay.staged][overlay.scope])

(* "Show more" until there is no more shows every commit of the scope that  *)
(* touches the source (list-commits.ts:39-43: "the scope's reachability is  *)
(* implicit").                                                              *)
LastPageCompletes ==
    overlay.commits.kind = "loaded" /\ overlay.commits.list.next = Nothing =>
        Range(overlay.commits.list.commits)
            = Reachable(Heads[overlay.staged][overlay.scope]) \cap Touching[overlay.staged]
============================================================================
