--------------------------- MODULE ReleaseScripts ---------------------------
(***************************************************************************)
(* Cutting a release: scripts/bump_version.py and scripts/tag_release.py   *)
(* run by maintainers in their clones, against one origin.                 *)
(*                                                                         *)
(* Both scripts are sequences of writes with nothing around them: a bump   *)
(* writes two files, a tag run creates a tag, pushes it and publishes a    *)
(* release, and either may stop between two of these.  What lies between   *)
(* the scripts (docs/guides/release-workflow.md) is here as the steps a    *)
(* maintainer takes by hand; git and GitHub are external.                  *)
(*                                                                         *)
(* Data: a version is its four numbers, rc = 0 for a final one; a commit   *)
(* is a tree and the commits behind it; of the changelog, the versions     *)
(* with a non-empty section are kept.                                      *)
(***************************************************************************)
EXTENDS Integers, Sequences

CONSTANTS
    Clones,      \* the working copies
    Firsts,      \* the versions main may start with
    BumpArgs,    \* the arguments a bump is tried with: <<part, --rc>>
    MaxBumps,    \* bound: the bumps of all clones
    MaxCommits,  \* bound: the commits of all clones
    MaxStops     \* bound: the scripts cut short, --no-release among them

Version == [major : Nat, minor : Nat, patch : Nat, rc : Nat]
Tree == [pyproject : Version, init : Version, notes : SUBSET Version]

\* Commits are numbered as they are made; past is all that a commit builds on.
Commit == [tree : Tree, past : SUBSET Nat]

ASSUME ReleaseAssumption ==
    /\ Firsts \subseteq Version
    /\ BumpArgs \subseteq {"major", "minor", "patch", "rc", "release"} \X BOOLEAN
    /\ MaxBumps \in Nat
    /\ MaxCommits \in Nat \ {0}
    /\ MaxStops \in Nat

VARIABLES
    commits,   \* the commits, of main and of branches
    main,      \* the commit main is at on origin
    tree,      \* the working tree of each clone
    head,      \* the commit it is on
    tags,      \* its tags: name -> commit
    pc,        \* the script it runs, and where that is
    run,       \* the version the script works on, and the --no-release flag
    pushed,    \* the tags on origin: name -> commit
    releases,  \* the releases on GitHub: name -> is it a pre-release?
    bumps,     \* bumps so far (bound)
    stops      \* scripts cut short so far, --no-release among them (bound)

vars == <<commits, main, tree, head, tags, pc, run, pushed, releases, bumps, stops>>

(***************************************************************************)
(* next_version.                                                           *)
(***************************************************************************)
V(major, minor, patch, rc) == [major |-> major, minor |-> minor, patch |-> patch, rc |-> rc]

IsCandidate(v) == v.rc > 0

\* Semantic versioning: a candidate precedes its final version.
Precedes(v, w) ==
    \/ v.major < w.major
    \/ v.major = w.major /\ v.minor < w.minor
    \/ v.major = w.major /\ v.minor = w.minor /\ v.patch < w.patch
    \/ /\ v.major = w.major /\ v.minor = w.minor /\ v.patch = w.patch
       /\ IsCandidate(v)
       /\ ~IsCandidate(w) \/ v.rc < w.rc

AtMost(v, w) == v = w \/ Precedes(v, w)

\* The bumps next_version does not refuse.
Applies(v, part, rc) ==
    IF part \in {"rc", "release"} THEN ~rc /\ IsCandidate(v) ELSE ~IsCandidate(v)

\* Variant: --rc makes a candidate of the version that is out already.
NextVersion_SameBase(v, part, rc) ==
    IF rc THEN [v EXCEPT !.rc = 1]
    ELSE CASE part = "major" -> V(v.major + 1, 0, 0, 0)
           [] part = "minor" -> V(v.major, v.minor + 1, 0, 0)
           [] part = "patch" -> V(v.major, v.minor, v.patch + 1, 0)
           [] part = "rc" -> [v EXCEPT !.rc = @ + 1]
           [] part = "release" -> [v EXCEPT !.rc = 0]

NextVersion(v, part, rc) ==
    LET first == IF rc THEN 1 ELSE 0 IN
    CASE part = "major" -> V(v.major + 1, 0, 0, first)
      [] part = "minor" -> V(v.major, v.minor + 1, 0, first)
      [] part = "patch" -> V(v.major, v.minor, v.patch + 1, first)
      [] part = "rc" -> [v EXCEPT !.rc = @ + 1]
      [] part = "release" -> [v EXCEPT !.rc = 0]

-----------------------------------------------------------------------------
Nothing == [version |-> V(0, 0, 0, 0), publish |-> FALSE]

\* A script that starts, and one that goes on or ends.
Start(c, label, version, publish) ==
    /\ pc' = [pc EXCEPT ![c] = label]
    /\ run' = [run EXCEPT ![c] = [version |-> version, publish |-> publish]]

Goto(c, label) ==
    /\ pc' = [pc EXCEPT ![c] = label]
    /\ run' = IF label = "idle" THEN [run EXCEPT ![c] = Nothing] ELSE run

\* What commit n holds.
Holds(n) == commits[n].tree

\* Commit n is commit m or builds on it.
Contains(n, m) == m = n \/ m \in commits[n].past

(***************************************************************************)
(* By hand, between the scripts.                                           *)
(***************************************************************************)
\* git checkout main, git pull: what was not merged is given up, and a tag
\* of origin is fetched unless the clone has one of that name.
Pull(c) ==
    /\ pc[c] = "idle"
    /\ tree' = [tree EXCEPT ![c] = Holds(main)]
    /\ head' = [head EXCEPT ![c] = main]
    /\ tags' = [tags EXCEPT ![c] =
                   [v \in DOMAIN pushed \cup DOMAIN @ |->
                       IF v \in DOMAIN @ THEN @[v] ELSE pushed[v]]]
    /\ UNCHANGED <<commits, main, pc, run, pushed, releases, bumps, stops>>

\* The changelog gets its section for the version.
WriteNotes(c) ==
    /\ pc[c] = "idle"
    /\ tree[c].init \notin tree[c].notes
    /\ tree' = [tree EXCEPT ![c].notes = @ \cup {tree[c].init}]
    /\ UNCHANGED <<commits, main, head, tags, pc, run, pushed, releases, bumps, stops>>

\* git commit: of everything, other work included, or of the changelog alone
\* (release-workflow.md, step 3), which leaves a bump in the working tree.
CommitTree(c) ==
    /\ pc[c] = "idle" /\ Len(commits) < MaxCommits
    /\ \E t \in {tree[c], [Holds(head[c]) EXCEPT !.notes = tree[c].notes]} :
           commits' = Append(commits,
               [tree |-> t, past |-> commits[head[c]].past \cup {head[c]}])
    /\ head' = [head EXCEPT ![c] = Len(commits')]
    /\ UNCHANGED <<main, tree, tags, pc, run, pushed, releases, bumps, stops>>

\* The commits of a clone are merged, on top of the main they were made on.
Merge(c) ==
    /\ pc[c] = "idle"
    /\ main \in commits[head[c]].past
    /\ main' = head[c]
    /\ UNCHANGED <<commits, tree, head, tags, pc, run, pushed, releases, bumps, stops>>

\* "reconcile them first": the half bump is finished by hand.
Reconcile(c) ==
    /\ pc[c] = "idle" /\ tree[c].pyproject # tree[c].init
    /\ tree' = [tree EXCEPT ![c].init = tree[c].pyproject]
    /\ UNCHANGED <<commits, main, head, tags, pc, run, pushed, releases, bumps, stops>>

(***************************************************************************)
(* bump_version.py.                                                        *)
(***************************************************************************)
\* Variant: app/__init__.py is written first.
WriteFirst_Init(t, v) == [t EXCEPT !.init = v]

WriteFirst(t, v) == [t EXCEPT !.pyproject = v]

\* Both files are read and must agree; then pyproject.toml is written.
Bump(c) ==
    /\ pc[c] = "idle" /\ bumps < MaxBumps
    /\ tree[c].pyproject = tree[c].init
    /\ \E arg \in BumpArgs :
           /\ Applies(tree[c].pyproject, arg[1], arg[2])
           /\ LET new == NextVersion(tree[c].pyproject, arg[1], arg[2]) IN
                  /\ Start(c, "bumping", new, FALSE)
                  /\ tree' = [tree EXCEPT ![c] = WriteFirst(@, new)]
    /\ bumps' = bumps + 1
    /\ UNCHANGED <<commits, main, head, tags, pushed, releases, stops>>

\* Then app/__init__.py is.
BumpEnds(c) ==
    /\ pc[c] = "bumping"
    /\ tree' = [tree EXCEPT ![c].pyproject = run[c].version, ![c].init = run[c].version]
    /\ Goto(c, "idle")
    /\ UNCHANGED <<commits, main, head, tags, pushed, releases, bumps, stops>>

(***************************************************************************)
(* tag_release.py.                                                         *)
(***************************************************************************)
\* changelog_section refuses a version without one, before git is touched.
MayTag(c, publish) == publish => tree[c].init \in tree[c].notes

\* The version is read, and with a release to publish the changelog and gh;
\* gh may be missing or logged out, and then nothing was done.  All of it is
\* read from the working tree, merged or not, committed or not.
Tag(c) ==
    /\ pc[c] = "idle"
    /\ \E publish \in BOOLEAN :
           /\ MayTag(c, publish) /\ Start(c, "tag", tree[c].init, publish)
           /\ IF publish THEN UNCHANGED stops ELSE stops < MaxStops /\ stops' = stops + 1
    /\ UNCHANGED <<commits, main, tree, head, tags, pushed, releases, bumps>>

\* Variant: a tag that exists is taken to be pushed.
CreateTag_SkipPush(c) ==
    /\ pc[c] = "tag"
    /\ IF run[c].version \in DOMAIN tags[c]
       THEN UNCHANGED tags /\ Goto(c, IF run[c].publish THEN "view" ELSE "idle")
       ELSE /\ tags' = [tags EXCEPT ![c] =
                           [v \in DOMAIN @ \cup {run[c].version} |->
                               IF v = run[c].version THEN head[c] ELSE @[v]]]
            /\ Goto(c, "push")
    /\ UNCHANGED <<commits, main, tree, head, pushed, releases, bumps, stops>>

\* git tags the commit the clone is on; a tag of that name is left where it is.
CreateTag(c) ==
    /\ pc[c] = "tag"
    /\ tags' = [tags EXCEPT ![c] =
                   [v \in DOMAIN @ \cup {run[c].version} |->
                       IF v \in DOMAIN @ THEN @[v] ELSE head[c]]]
    /\ Goto(c, "push")
    /\ UNCHANGED <<commits, main, tree, head, pushed, releases, bumps, stops>>

\* Variant: the push is forced.
Rejected_Never(c) == FALSE

\* origin has the tag at another commit.
Rejected(c) ==
    LET v == run[c].version IN v \in DOMAIN pushed /\ pushed[v] # tags[c][v]

\* A rejected push ends the run.
Push(c) ==
    /\ pc[c] = "push"
    /\ IF Rejected(c)
       THEN UNCHANGED pushed /\ Goto(c, "idle")
       ELSE /\ pushed' = [v \in DOMAIN pushed \cup {run[c].version} |->
                             IF v = run[c].version THEN tags[c][v] ELSE pushed[v]]
            /\ Goto(c, IF run[c].publish THEN "view" ELSE "idle")
    /\ UNCHANGED <<commits, main, tree, head, tags, releases, bumps, stops>>

\* release_exists: an existing release is left as it is; a failed view reads
\* as none.
View(c) ==
    /\ pc[c] = "view"
    /\ \/ Goto(c, "create")
       \/ run[c].version \in DOMAIN releases /\ Goto(c, "idle")
    /\ UNCHANGED <<commits, main, tree, head, tags, pushed, releases, bumps, stops>>

Prerelease(v) == IsCandidate(v)

\* gh release create --verify-tag: fails without the tag on origin, and over
\* a release that exists.
CreateRelease(c) ==
    /\ pc[c] = "create"
    /\ IF run[c].version \in DOMAIN pushed \ DOMAIN releases
       THEN releases' = [v \in DOMAIN releases \cup {run[c].version} |->
                            IF v = run[c].version THEN Prerelease(v) ELSE releases[v]]
       ELSE UNCHANGED releases
    /\ Goto(c, "idle")
    /\ UNCHANGED <<commits, main, tree, head, tags, pushed, bumps, stops>>

\* A script ends early: a command fails, a write fails, Ctrl-C.  What it has
\* done stays done.
Stop(c) ==
    /\ pc[c] # "idle" /\ stops < MaxStops
    /\ Goto(c, "idle") /\ stops' = stops + 1
    /\ UNCHANGED <<commits, main, tree, head, tags, pushed, releases, bumps>>

-----------------------------------------------------------------------------
\* The first version is out: merged, tagged and released.
Init ==
    /\ \E v \in Firsts :
           /\ commits = <<[tree |-> [pyproject |-> v, init |-> v, notes |-> {v}], past |-> {}]>>
           /\ tags = [c \in Clones |-> [w \in {v} |-> 1]]
           /\ pushed = [w \in {v} |-> 1]
           /\ releases = [w \in {v} |-> Prerelease(w)]
    /\ main = 1
    /\ tree = [c \in Clones |-> Holds(1)]
    /\ head = [c \in Clones |-> 1]
    /\ pc = [c \in Clones |-> "idle"]
    /\ run = [c \in Clones |-> Nothing]
    /\ bumps = 0 /\ stops = 0

ByHand(c) == Pull(c) \/ WriteNotes(c) \/ CommitTree(c) \/ Merge(c) \/ Reconcile(c)

TagRun(c) == CreateTag(c) \/ Push(c) \/ View(c) \/ CreateRelease(c)

Next == \E c \in Clones : ByHand(c) \/ Bump(c) \/ BumpEnds(c) \/ Tag(c) \/ TagRun(c) \/ Stop(c)

Spec == Init /\ [][Next]_vars

\* A command returns, and a maintainer goes on until the release is out ("fix
\* the problem and re-run `just tag`"); the commands fail only so often.
FairSpec ==
    /\ Spec
    /\ \A c \in Clones : WF_vars(BumpEnds(c) \/ TagRun(c) \/ (Tag(c) /\ run'[c].publish))

-----------------------------------------------------------------------------
IsTags(f) ==
    f = [v \in DOMAIN f |-> f[v]] /\ \A v \in DOMAIN f : v \in Version /\ f[v] \in 1..Len(commits)

\* Every variable holds a value of its kind; a tag names a commit.
TypeOK ==
    /\ commits \in Seq(Commit) /\ Len(commits) \in 1..MaxCommits
    /\ main \in 1..Len(commits)
    /\ tree \in [Clones -> Tree]
    /\ head \in [Clones -> 1..Len(commits)]
    /\ tags = [c \in Clones |-> tags[c]] /\ \A c \in Clones : IsTags(tags[c])
    /\ pc \in [Clones -> {"idle", "bumping", "tag", "push", "view", "create"}]
    /\ run \in [Clones -> [version : Version, publish : BOOLEAN]]
    /\ IsTags(pushed)
    /\ \A v \in DOMAIN releases : v \in Version /\ releases[v] \in BOOLEAN
    /\ bumps \in 0..MaxBumps /\ stops \in 0..MaxStops

\* tag_release.py checks neither the branch nor the working tree, so a bump
\* that was not committed puts its tag on a commit of an earlier version.  The
\* other way round never happens, from whatever clone, branch or tree and after
\* whatever interruption: a tag is never older than the commit it names, and
\* once a version is on origin at a commit that carries it, no older version
\* is tagged on that commit or on anything built on it.
TagsFollowHistory ==
    \A c \in Clones : \A v \in DOMAIN tags[c] :
        /\ AtMost(Holds(tags[c][v]).init, v)
        /\ \A w \in DOMAIN pushed :
               Precedes(v, w) /\ Holds(pushed[w]).init = w => ~Contains(tags[c][v], pushed[w])

\* A bump that stopped between its two files may be committed, merged and
\* tagged, but never as the version it was making: where a tag on origin names
\* a commit that carries its version, the package metadata there has it too, or
\* a later one.
MetadataKeepsUp ==
    \A v \in DOMAIN pushed :
        Holds(pushed[v]).init = v => AtMost(v, Holds(pushed[v]).pyproject)

\* What others may have fetched stays: a tag on origin never moves and a
\* release is never replaced, by a re-run or from another clone.
PublishedIsFinal ==
    [][/\ \A v \in DOMAIN pushed : v \in DOMAIN pushed' /\ pushed'[v] = pushed[v]
       /\ \A v \in DOMAIN releases : v \in DOMAIN releases' /\ releases'[v] = releases[v]]_vars

\* scripts/tag_release.py:9 - "re-running after a partial failure is safe":
\* whoever begins a release ends up, however often the scripts are cut short,
\* with the version of their tree released, unless that version has no
\* changelog section yet or origin has its tag at another commit.
RerunFinishes ==
    \A c \in Clones :
        pc[c] = "tag" /\ run[c].publish ~>
            LET v == tree[c].init IN
                \/ v \in DOMAIN releases
                \/ ~MayTag(c, TRUE)
                \/ v \in DOMAIN pushed \cap DOMAIN tags[c] /\ pushed[v] # tags[c][v]
=============================================================================
