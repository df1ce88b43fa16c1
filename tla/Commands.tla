------------------------------ MODULE Commands ------------------------------
(***************************************************************************)
(* A command of the shell (apps/cli/src/app): which config file it and the *)
(* processes it spawns read, and what its exit status and its output say   *)
(* of what happened (runner/runner.ts, commands/).                         *)
(*                                                                         *)
(* A call is a record of what was asked (flags) and of what the steps of   *)
(* the handler meet.  A step's outcomes are a set of failures: Fine, an    *)
(* exception without a kind (Plain), or one of Kinds.  What a side is read *)
(* from is SourceTargets; here it has a graph or a failure.                *)
(***************************************************************************)
EXTENDS Naturals, Sequences

CONSTANT Paths      \* of config files

None == "none"
Fine == "none"
Plain == "plain"
Verdict == "differs"

-----------------------------------------------------------------------------
(* Which config: `flag' is the path given to --config, "--no-config" or    *)
(* None, `env' is SPARQLY_CONFIG ("" when set to nothing), `dirs' are the  *)
(* directories from the current one upwards.                               *)
discoverConfig(dirs) ==
    LET ends == {i \in DOMAIN dirs : dirs[i].configs # {} \/ dirs[i].git}
        stop == CHOOSE i \in ends : \A j \in ends : i <= j
    IN  IF ends = {} THEN {} ELSE dirs[stop].configs

NoConfig(call) == call.flag = "--no-config" \/ call.env = ""

(* No config, one, or several in one directory, which is refused. *)
ConfigsOf(call) ==
    IF call.flag \in Paths THEN {call.flag}
    ELSE IF call.env \in Paths THEN {call.env}
    ELSE IF NoConfig(call) THEN {}
    ELSE discoverConfig(call.dirs)

(* The config is pinned in the environment that children inherit. *)
PinnedIfGiven(call) ==
    IF NoConfig(call) THEN "" ELSE IF call.flag \in Paths THEN call.flag ELSE call.env
Pinned(call) ==
    IF NoConfig(call) THEN ""
    ELSE IF ConfigsOf(call) # {} THEN CHOOSE p \in ConfigsOf(call) : TRUE
    ELSE call.env

(* `serve' builds an index with a child `sparqly index @id --force', which *)
(* finds the directories as they are then.                                 *)
makeSpawnIndexBuild(call, dirs) ==
    [flag |-> None, env |-> Pinned(call), dirs |-> dirs]

-----------------------------------------------------------------------------
(* The exit codes of the kinds of failure.                                 *)
SourceKinds ==
    {"reference-target", "glob-load", "query-execution", "endpoint-fetch",
     "inline-query-validation", "transform-parse", "git-pin", "raw-pass-through-target"}
TargetKinds == {"ref-as-target", "empty-registry", "no-default-multi", "unknown-ref"}
DiffKinds ==
    {"tabular-blank-node", "mixed-shape", "set-mismatch", "inline-upstream-kind",
     "anonymous-view-execution", "anonymous-select-execution", "legacy-message"}
Kinds == SourceKinds \cup TargetKinds \cup DiffKinds
RawTarget == "raw-pass-through-target"

(* A table of codes, from its entries <<kind, code>>. *)
CodeTable(entries) ==
    [kind \in {entry[1] : entry \in entries} |->
        (CHOOSE entry \in entries : entry[1] = kind)[2]]

CommonCodes ==
    {<<"reference-target", 30>>, <<"glob-load", 32>>, <<"query-execution", 33>>,
     <<"endpoint-fetch", 34>>, <<"inline-query-validation", 35>>, <<"transform-parse", 38>>,
     <<"ref-as-target", 50>>, <<"empty-registry", 51>>, <<"no-default-multi", 52>>,
     <<"unknown-ref", 53>>}
DiffCodes ==
    {<<"legacy-message", 40>>, <<"tabular-blank-node", 10>>, <<"mixed-shape", 12>>,
     <<"set-mismatch", 13>>, <<"inline-upstream-kind", 15>>,
     <<"anonymous-view-execution", 20>>, <<"anonymous-select-execution", 21>>}
hashErrorExitCode == CodeTable(CommonCodes \cup {<<"git-pin", 39>>, <<RawTarget, 40>>})
queryErrorExitCode == CodeTable(CommonCodes \cup {<<"git-pin", 39>>, <<RawTarget, 1>>})
formatErrorExitCode == CodeTable(CommonCodes)
diffErrorExitCode ==
    CodeTable(CommonCodes \cup DiffCodes \cup {<<"git-pin", 39>>, <<RawTarget, 41>>})

-----------------------------------------------------------------------------
(* The first step that does not go well decides. *)
FirstFailure(steps) ==
    LET failing == {i \in DOMAIN steps : steps[i] # {Fine}}
    IN  IF failing = {} THEN {Fine}
        ELSE LET i == CHOOSE j \in failing : \A k \in failing : j <= k
             IN  steps[i]

Asked(call, flag) == flag \in call.flags
Refused(condition) == IF condition THEN {Plain} ELSE {Fine}

(* Two loads at once: of two errors the first counts, an exception before  *)
(* either (ResultAsync.combine); or whichever comes first (Promise.all).   *)
Combined(a, b) ==
    IF Plain \in {a, b} THEN {Plain} ELSE FirstFailure(<<{a}, {b}>>)
Raced(a, b) == IF {a, b} = {Fine} THEN {Fine} ELSE {a, b} \ {Fine}

(* --out: a temporary file that is renamed over the target. *)
writeOutputToFile(call) ==
    Refused(Asked(call, "out") /\ call.out \in {"-", "directory", "breaks"})

Compared(call) == IF call.left.graph = call.right.graph THEN {Fine} ELSE {Verdict}

HashSteps(call) ==
    LET query == Refused(Asked(call, "query-file") /\ call.queryFile = "unreadable")
        primary == <<query, {call.registry}, {call.left.target}, {call.left.at}>>
    IN  IF Asked(call, "compare-with")
        THEN <<Refused(Asked(call, "out"))>> \o primary
             \o <<{call.right.target}, Combined(call.left.load, call.right.load), Compared(call)>>
        ELSE primary \o <<{call.left.load}, writeOutputToFile(call)>>

(* The report is written before the difference is signalled. *)
GraphDiffSteps(call) ==
    <<Raced(call.left.load, call.right.load), writeOutputToFile(call), Compared(call)>>
DiffSteps(call) ==
    <<Refused(Asked(call, "query-file") /\ call.queryFile = "unreadable"), {call.registry},
      {call.left.target}, {call.left.at}, {call.right.target}, {call.right.at},
      {call.shapes}>> \o GraphDiffSteps(call)

QuerySteps(call) ==
    <<Refused({"query", "query-file", "stdin"} \cap call.flags = {}),
      Refused(\E a, b \in {"query", "query-file", "stdin"} \cap call.flags : a # b),
      Refused(Asked(call, "query-file") /\ call.queryFile = "unreadable"), {call.registry},
      {call.left.target}, {call.left.at}, {call.left.load}, writeOutputToFile(call)>>

-----------------------------------------------------------------------------
(* format --check and --write.  A file is what its readers meet in turn:   *)
(* the load of all files, its own load, and the text it is compared with.  *)
(* No file declares a base, so that all are read again for one.            *)
Formatted(text) == [text EXCEPT !.tidy = TRUE]
FileFailure(f) ==
    FirstFailure(<<IF f.again.broken THEN {"glob-load"} ELSE {Fine}, Refused(f.read.broken)>>)
LoadAll(call) == IF \E f \in {call.files[i] : i \in DOMAIN call.files} : f.first.broken
                 THEN {"glob-load"} ELSE {Fine}

(* The files before the first one that fails are done. *)
Done(call) ==
    {i \in DOMAIN call.files :
        LoadAll(call) = {Fine} /\ \A j \in 1..i : FileFailure(call.files[j]) = {Fine}}
Unformatted(call) ==
    {i \in DOMAIN call.files : Formatted(call.files[i].again) # call.files[i].read}
processPerFile(call) ==
    <<LoadAll(call)>> \o [i \in DOMAIN call.files |-> FileFailure(call.files[i])]
    \o <<IF Asked(call, "check") /\ Unformatted(call) # {} THEN {Verdict} ELSE {Fine}>>
FilesAfter(call) ==
    [i \in DOMAIN call.files |->
        IF Asked(call, "write") /\ i \in Done(call) THEN Formatted(call.files[i].again)
        ELSE call.files[i].read]

FormatSteps(call) ==
    IF {"check", "write"} \cap call.flags # {}
    THEN <<Refused(call.files = << >>)>> \o processPerFile(call)
    ELSE <<LoadAll(call)>>
         \o [i \in DOMAIN call.files |-> Refused(call.files[i].again.broken)]
         \o <<writeOutputToFile(call)>>

-----------------------------------------------------------------------------
(* The runner: what goes wrong before the flags are merged is reported     *)
(* with an empty rawConfig.                                                *)
Early(call) == call.positionals = "too many" \/ call.config # "fine"
RawConfig(call) == IF Early(call) THEN {} ELSE call.flags

(* What the schema of the command refuses. *)
Refine(call) ==
    Refused(\/ call.command # "query" /\ {"query", "query-file"} \subseteq call.flags
            \/ call.command = "format" /\ {"check", "write"} \subseteq call.flags
            \/ call.command = "format" /\ Asked(call, "out")
               /\ {"check", "write"} \cap call.flags # {})

Steps(call) ==
    <<Refused(Early(call)), Refine(call)>>
    \o CASE call.command = "hash" -> HashSteps(call)
         [] call.command = "diff" -> DiffSteps(call)
         [] call.command = "query" -> QuerySteps(call)
         [] call.command = "format" -> FormatSteps(call)

HashExit(failure, raw) ==
    IF failure = Verdict THEN 1
    ELSE IF failure \in Kinds THEN hashErrorExitCode[failure]
    ELSE IF "compare-with" \in raw THEN 2 ELSE 1
DiffExit(failure, raw) ==
    IF failure = Verdict THEN 1
    ELSE IF failure \in Kinds THEN diffErrorExitCode[failure] ELSE 2
QueryExit(failure, raw) == IF failure \in Kinds THEN queryErrorExitCode[failure] ELSE 1
FormatExitAlwaysOne(failure, raw) ==
    IF failure \in Kinds THEN formatErrorExitCode[failure] ELSE 1
FormatExit(failure, raw) ==
    IF failure = Verdict THEN 1
    ELSE IF failure \in Kinds THEN formatErrorExitCode[failure]
    ELSE IF "check" \in raw THEN 2 ELSE 1
ExitCode(command, failure, raw) ==
    IF failure = Fine THEN 0
    ELSE CASE command = "hash" -> HashExit(failure, raw)
           [] command = "diff" -> DiffExit(failure, raw)
           [] command = "query" -> QueryExit(failure, raw)
           [] command = "format" -> FormatExit(failure, raw)

Statuses(call) ==
    {ExitCode(call.command, failure, RawConfig(call)) : failure \in FirstFailure(Steps(call))}

(* Does the file that --out names hold the new text? *)
OutWritten(call) ==
    LET steps == Steps(call)
        written == IF call.command = "diff" THEN SubSeq(steps, 1, Len(steps) - 1) ELSE steps
    IN  Asked(call, "out") /\ FirstFailure(written) = {Fine}

-----------------------------------------------------------------------------
GivesVerdict(call) ==
    \/ call.command = "diff"
    \/ call.command = "hash" /\ Asked(call, "compare-with")
    \/ call.command = "format" /\ Asked(call, "check")
Agree(call) ==
    IF call.command = "format" THEN Unformatted(call) = {}
    ELSE call.left.graph = call.right.graph
ReadWhole(call) ==
    IF call.command = "format" THEN Done(call) = DOMAIN call.files
    ELSE \A side \in {call.left, call.right} : {side.target, side.at, side.load} = {Fine}

(* A command that gives a verdict ends with 0 when and only when it read   *)
(* all it compares and found it the same, and with 1 when it read all and  *)
(* found a difference, whatever went wrong besides; an `--out' file is     *)
(* replaced by a whole report or left alone.  Except for what goes wrong   *)
(* before the flags are merged, which hash and format report as a          *)
(* difference.                                                             *)
VerdictIsTrue(call) ==
    GivesVerdict(call) /\ ~(Early(call) /\ call.command # "diff") =>
        \A status \in Statuses(call) :
            /\ status \in {0, 1} => ReadWhole(call) /\ (status = 0 <=> Agree(call))
            /\ OutWritten(call) => status \in {0, 1}
            /\ status \in {0, 1} /\ call.command = "diff" => (Asked(call, "out") <=> OutWritten(call))

(* After `format --write' that succeeded every file is tidy; whether or not *)
(* it did, a file keeps its graph unless an editor saved it after its load, *)
(* and no other command changes a file.  What asks for no verdict ends with*)
(* 0 when and only when its output is whole.                               *)
WritesAreTrue(call) ==
    /\ \A i \in DOMAIN call.files :
           LET f == call.files[i] IN
           /\ Asked(call, "write") /\ 0 \in Statuses(call) => FilesAfter(call)[i].tidy
           /\ FilesAfter(call)[i] # f.read => call.command = "format" /\ Asked(call, "write")
           /\ FilesAfter(call)[i].graph # f.read.graph => f.again # f.read
    /\ ~GivesVerdict(call) /\ Asked(call, "out") => (0 \in Statuses(call) <=> OutWritten(call))

(* Scripts "grep on these" (hash-error.ts:10): a code of 10 or more is one *)
(* kind of failure in all commands, except for 40, a raw target in hash    *)
(* and an unconverted error in diff.                                       *)
CodesAgree ==
    \A c, d \in {hashErrorExitCode, queryErrorExitCode, formatErrorExitCode, diffErrorExitCode} :
        \A k \in DOMAIN c, l \in DOMAIN d :
            c[k] >= 10 /\ c[k] = d[l] => k = l \/ c[k] = 40

(* A build that `serve' spawns reads the config that `serve' read, even if *)
(* another one has been put in a directory since (runner.ts:115-117);      *)
(* except when --no-config or an empty SPARQLY_CONFIG meets a path in the  *)
(* other.                                                                  *)
ChildReadsSameConfig(call, dirs) ==
    (\E p \in Paths : ConfigsOf(call) = {p}) =>
        \/ ConfigsOf(makeSpawnIndexBuild(call, dirs)) = ConfigsOf(call)
        \/ NoConfig(call) /\ (call.flag \in Paths \/ call.env \in Paths)
=============================================================================
