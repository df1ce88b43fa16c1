------------------------------ MODULE PureParts ------------------------------
(***************************************************************************)
(* The pure functions of which more is known than TLC can enumerate:       *)
(* `part' names a function and `probe' holds its arguments, the left one   *)
(* first.  MC_Services picks the arguments from small sets; the theorems   *)
(* of PurePartsProofs are about all of them.                               *)
(***************************************************************************)
EXTENDS TLC

CONSTANTS ConfigPaths,                          \* the paths of config files
          Content, Malformed, ShaOf, GitDirs    \* the trees (SourceResolution)

(* The path of a config file is none of the values that stand for no path.  *)
ASSUME ConfigPathsAssumption == {"none", "", "--no-config"} \intersect ConfigPaths = {}

VARIABLES part, probe

Tables  == INSTANCE TabularDiff
Shell   == INSTANCE Commands WITH Paths <- ConfigPaths
Targets == INSTANCE SourceTargets
SourcesTable == INSTANCE SourceRows

Reached(p) == part = p /\ "right" \in DOMAIN probe

(* TabularDiff: the reported rows add up, on both surfaces and both ways.   *)
TablesAddUp ==
    Reached("tables") =>
        LET side(x) == [query |-> x[1], rows |-> x[2]]
            left == side(probe.left)
            right == side(probe.right)
        IN  /\ Tables!DispatchIsAccepted(left.query, right.query)
            /\ Tables!DetectTabularDispatch(left.query, right.query) = "tabular" =>
                   Tables!BagsAddUp(left, right) /\ Tables!SidesAreAlike(left, right)

(* Commands: an exit status says what happened, and the builds a server     *)
(* spawns read its config.                                                  *)
CommandsTellTruth ==
    /\ Reached("config") => Shell!ChildReadsSameConfig(probe.left, probe.right)
    /\ Reached("exits") =>
           LET call == probe.left @@ probe.right
           IN  Shell!VerdictIsTrue(call) /\ Shell!WritesAreTrue(call) /\ Shell!CodesAgree

(* SourceTargets: a pin is read by every surface that accepts it, and       *)
(* neither splitting a glob nor moving it to disk changes what it holds.    *)
PinsAreRead ==
    Reached("targets") =>
        LET meta == Targets!ParseSourceSpec(probe.left)
        IN  /\ Targets!SurfacesReadThePin(Targets!Registry(probe.left), probe.right)
            /\ Targets!SplitCoversMeta(meta) /\ Targets!TierTransparent(meta)

(* SourceRows: the facts of an entry, and a registered endpoint.            *)
Facts(mode, building, hasFailed, isOpen, manifest, freshness, loadedAt, quads) ==
    [mode |-> mode, building |-> building, failed |-> hasFailed, current |-> isOpen,
     loading |-> isOpen, manifest |-> manifest, freshness |-> freshness,
     loadedAt |-> loadedAt, quads |-> quads]
EndpointFamily ==
    [id |-> "e", top |-> Facts("endpoint", FALSE, FALSE, TRUE, "none", "fresh", 0, 0),
     children |-> << >>]

(* SourceRows: a card offers what can be done about its source and the      *)
(* server takes it, the browser's rows are the server's, and the chips      *)
(* count what they filter.                                                  *)
RowsAreTrue ==
    Reached("rows") =>
        LET family == probe.left
            table == {SourcesTable!projectTopLevelRow(family),
                      SourcesTable!projectTopLevelRow(EndpointFamily)}
        IN  /\ SourcesTable!CardFits(probe.right)
            /\ \A admin \in BOOLEAN : SourcesTable!ButtonsWork(family, admin)
            /\ \A i \in DOMAIN family.children : SourcesTable!BrowserAgrees(family, i, probe.right)
            /\ SourcesTable!CountsAgree(table)
=============================================================================
