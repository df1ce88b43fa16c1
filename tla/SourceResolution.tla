-------------------------- MODULE SourceResolution --------------------------
(***************************************************************************)
(* From a parsed source to its quads: the per-file children of a split glob *)
(* (expand-split-globs.ts), the pin of a glob to a commit (sources/git/),   *)
(* and resolveSourceResult with its three tiers -- heap, disk index, pinned *)
(* tree -- (resolve-source-result.ts, resolve-disk-backed-glob.ts).         *)
(*                                                                          *)
(* Content[tree] maps each path of a tree to the set of its quads: the tree *)
(* Working is the working directory, the others are commits.                *)
(***************************************************************************)
EXTENDS SourceSpecs

CONSTANTS
    Content,        \* tree -> (path -> set of quads)
    Malformed,      \* the <<tree, path>> whose content does not parse
    ShaOf,          \* ref -> the commit it names, NoPin when it names none
    GitDirs         \* the directories that hold a .git directory

Working == "working"
Failed(why) == [mode |-> "failed", why |-> why]
IsFailed(result) == result.mode = "failed"

Matched(source, tree) == source.files \intersect DOMAIN Content[tree]

(***************************************************************************)
(* Repositories and pins                                                    *)
(***************************************************************************)
Ancestors(path) == {SubSeq(path, 1, n) : n \in 0..Len(path)}
RepoAbove(directory) ==
    LET found == Ancestors(directory) \intersect GitDirs IN
    IF found = {} THEN NoId ELSE CHOOSE d \in found : \A e \in found : Len(e) <= Len(d)

(* gitRoot, when declared, must be a repository itself.                     *)
DiscoverRepoRoot(source) ==
    IF source.root = NoId THEN RepoAbove(source.prefix)
    ELSE IF source.root \in GitDirs THEN source.root
    ELSE NoId

PinGlobSource(source) ==
    LET repo == DiscoverRepoRoot(source) IN
    IF repo = NoId THEN Failed("git-pin")
    ELSE IF ShaOf[source.ref] = NoPin THEN Failed("git-pin")
    ELSE [mode |-> "pinned", repo |-> repo, sha |-> ShaOf[source.ref]]

(* The files of a commit that match; one repository per pinned glob.        *)
WalkGitTree(source, pinned) ==
    LET files == Matched(source, pinned.sha) IN
    IF ~IsPrefix(pinned.repo, source.prefix) THEN Failed("glob-load")
    ELSE IF \E f \in files : RepoAbove(Front(f)) # pinned.repo THEN Failed("git-pin")
    ELSE [mode |-> "walked", files |-> files]

(***************************************************************************)
(* Children of a split glob                                                 *)
(***************************************************************************)
Rest(path, n) == SubSeq(path, n + 1, Len(path))

(* The path below the LAST occurrence of the glob's static prefix, the file *)
(* name where the prefix is empty or does not occur.                        *)
DeriveFileSourceId(parent, prefix, path) ==
    LET Ends == {n \in Len(prefix)..(Len(path) - 1) :
                    SubSeq(path, n - Len(prefix) + 1, n) = prefix}
    IN IF prefix = << >> \/ Ends = {} THEN parent \o <<Last(path)>>
       ELSE parent \o Rest(path, Max(Ends))

(* A child that forgets the transforms of its glob.                         *)
SynthesizeBareChild(meta, path, repo, sha) ==
    [meta EXCEPT !.kind = "file", !.parent = meta.id, !.files = {path},
                 !.id = DeriveFileSourceId(meta.id, meta.prefix, path),
                 !.split = FALSE, !.root = NoId, !.default = FALSE, !.list = << >>,
                 !.repo = repo, !.sha = sha]

(* No `default', and the id is of a shape no declared source may have.      *)
SynthesizeChild(meta, path, repo, sha) ==
    [meta EXCEPT !.kind = "file", !.parent = meta.id, !.files = {path},
                 !.id = DeriveFileSourceId(meta.id, meta.prefix, path),
                 !.split = FALSE, !.root = NoId, !.default = FALSE,
                 !.repo = repo, !.sha = sha]

(* A git tree that cannot be walked fails the whole expansion.              *)
ExpandPinned(meta) ==
    LET pinned == PinGlobSource(meta)
        walked == WalkGitTree(meta, pinned)
    IN IF IsFailed(pinned) \/ IsFailed(walked) THEN {Rejected}
       ELSE {SynthesizeChild(meta, f, pinned.repo, pinned.sha) : f \in walked.files}

ExpandWorkingTree(meta) ==
    {SynthesizeChild(meta, f, NoId, NoPin) : f \in Matched(meta, Working)}

Expands(source) == source.kind = "glob" /\ source.split

ExpandedChildren(meta) ==
    IF meta.id = NoId THEN {Rejected}
    ELSE IF meta.ref # NoPin THEN ExpandPinned(meta)
    ELSE ExpandWorkingTree(meta)

(* The registry: the declared sources and the children of the split ones.   *)
ExpandSplitGlobs(parsed) ==
    parsed \union UNION {ExpandedChildren(meta) : meta \in {s \in parsed : Expands(s)}}

WalkGlobPaths(source) ==
    IF source.ref = NoPin THEN Matched(source, Working)
    ELSE LET pinned == PinGlobSource(source) IN WalkGitTree(source, pinned).files

(***************************************************************************)
(* resolveSourceResult                                                      *)
(***************************************************************************)
Parses(tree, files) == \A f \in files : <<tree, f>> \notin Malformed
PerFile(tree, files) == [f \in files |-> Content[tree][f]]

(* Every load is one commit's files or the working directory's, never both. *)
LoadTree(tree, files, list, pin) ==
    IF ~Parses(tree, files) THEN Failed("glob-load")
    ELSE [mode |-> "materialized", tree |-> tree, files |-> files,
          quads |-> ApplyTransformPipeline(list, PerFile(tree, files), pin)]

LoadPinnedGlobFromTree(source, list) ==
    LET pinned == PinGlobSource(source)
        walked == WalkGitTree(source, pinned)
    IN IF IsFailed(pinned) THEN pinned
       ELSE IF IsFailed(walked) THEN walked
       ELSE LoadTree(pinned.sha, walked.files, list, source.ref)

LoadGlobIntoStore(source, list) ==
    IF source.ref = NoPin THEN LoadTree(Working, Matched(source, Working), list, NoPin)
    ELSE LoadPinnedGlobFromTree(source, list)

(* A child is pinned when it carries ref, commit and repository together.   *)
LoadFileIntoStore(source) ==
    IF NoPin \in {source.ref, source.sha} \/ source.repo = NoId
    THEN LoadTree(Working, Matched(source, Working), source.list, NoPin)
    ELSE IF ~IsPrefix(source.repo, CHOOSE f \in source.files : TRUE) THEN Failed("glob-load")
    ELSE IF Matched(source, source.sha) = {} THEN Failed("git-pin")
    ELSE LoadTree(source.sha, source.files, source.list, source.ref)

(* A fresh index, streamed from the working directory whatever is pinned.   *)
ResolveDiskBackedIndex(source, list) ==
    LET files == Matched(source, Working) IN
    IF ~Streams(list) \/ ~Parses(Working, files) THEN Failed("glob-load")
    ELSE [mode |-> "disk-backed", tree |-> Working, files |-> files,
          quads |-> StreamGlobQuads(list, PerFile(Working, files))]

EmptyStore  == [mode |-> "materialized", tree |-> NoPin, files |-> {}, quads |-> {}]
PassThrough == [mode |-> "pass-through"]

ResolveGlob(source) ==
    LET list == EffectiveTransforms(source.declared, source.list, "preserve") IN
    IF StorageTier(source) # "disk" THEN LoadGlobIntoStore(source, list)
    ELSE IF source.ref # NoPin THEN Failed("glob-load")
    ELSE ResolveDiskBackedIndex(source, list)

ResolveFile(source) ==
    IF StorageTier(source) = "disk" THEN ResolveDiskBackedIndex(source, source.list)
    ELSE LoadFileIntoStore(source)

ResolveSource(source) ==
    CASE source.kind = "reference" -> Failed("reference-target")
      [] source.kind = "endpoint"  -> PassThrough
      [] source.kind = "empty"     -> EmptyStore
      [] source.kind = "glob"      -> ResolveGlob(source)
      [] source.kind = "file"      -> ResolveFile(source)

=============================================================================
