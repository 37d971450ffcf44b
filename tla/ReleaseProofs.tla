---------------------------- MODULE ReleaseProofs ----------------------------
(***************************************************************************)
(* Theorems of ReleaseScripts, for any number of clones and runs, any      *)
(* first version and any bumps.                                            *)
(*                                                                         *)
(* That the tags follow the history rests on an order: bump_version only   *)
(* goes up, so a clone is never behind the commit it is on, and no commit  *)
(* behind one it builds on (InOrder); and what a tag run names, whatever   *)
(* tree it reads, is at least what the commit of its clone carries         *)
(* (RunOK).                                                                *)
(***************************************************************************)
EXTENDS ReleaseScripts, TLAPS

LEMMA VersionsAreOrdered ==
    /\ \A v \in Version : AtMost(v, v)
    /\ \A u, v, w \in Version : AtMost(u, v) /\ AtMost(v, w) => AtMost(u, w)
    /\ \A v, w \in Version : Precedes(v, w) => ~AtMost(w, v)
  BY DEF Version, AtMost, Precedes, IsCandidate

\* next_version: what it makes of a version it does not refuse is strictly
\* later, a candidate of the next version and the final one of a candidate
\* included.
THEOREM BumpGoesUp ==
    ASSUME NEW v \in Version, NEW part \in {"major", "minor", "patch", "rc", "release"},
           NEW rc \in BOOLEAN, Applies(v, part, rc)
    PROVE  NextVersion(v, part, rc) \in Version /\ Precedes(v, NextVersion(v, part, rc))
  BY DEF Version, Precedes, IsCandidate, Applies, NextVersion, V

-----------------------------------------------------------------------------
(***************************************************************************)
(* The invariant.                                                          *)
(***************************************************************************)
\* A commit builds on commits.
PastOK == \A i \in 1..Len(commits) : commits[i].past \subseteq 1..Len(commits)

InOrder ==
    /\ \A i \in 1..Len(commits) : AtMost(Holds(i).init, Holds(i).pyproject)
    /\ \A j \in 1..Len(commits) : \A i \in commits[j].past : AtMost(Holds(i).init, Holds(j).init)
    /\ \A c \in Clones : /\ AtMost(tree[c].init, tree[c].pyproject)
                         /\ AtMost(Holds(head[c]).init, tree[c].init)

RunOK ==
    \A c \in Clones :
        /\ pc[c] = "bumping" => AtMost(tree[c].init, run[c].version)
        /\ pc[c] = "tag" => AtMost(Holds(head[c]).init, run[c].version)
        /\ pc[c] = "push" => run[c].version \in DOMAIN tags[c]

TagOK(f) == \A v \in DOMAIN f : AtMost(Holds(f[v]).init, v)

Tagged == (\A c \in Clones : TagOK(tags[c])) /\ TagOK(pushed)

IInv == TypeOK /\ PastOK /\ InOrder /\ RunOK /\ Tagged

LEMMA InitInvariant == Init => IInv
  <1> SUFFICES ASSUME Init PROVE IInv
    OBVIOUS
  <1>1. PICK v \in Version :
            /\ commits = <<[tree |-> [pyproject |-> v, init |-> v, notes |-> {v}], past |-> {}]>>
            /\ tags = [c \in Clones |-> [w \in {v} |-> 1]]
            /\ pushed = [w \in {v} |-> 1]
            /\ releases = [w \in {v} |-> Prerelease(w)]
    BY ReleaseAssumption DEF Init
  <1>2. /\ Len(commits) = 1 /\ commits[1].past = {} /\ Holds(1).init = v /\ Holds(1).pyproject = v
        /\ Holds(1) \in Tree /\ commits \in Seq(Commit)
    BY <1>1 DEF Holds, Tree, Commit
  <1>3. TypeOK
    <2>1. \A c \in Clones : IsTags(tags[c])
      <3> SUFFICES ASSUME NEW c \in Clones PROVE IsTags(tags[c])
        OBVIOUS
      <3>1. tags[c] = [w \in {v} |-> 1]
        BY <1>1
      <3> QED  BY <1>2, <3>1 DEF IsTags
    <2>2. IsTags(pushed) /\ tags = [c \in Clones |-> tags[c]]
      BY <1>1, <1>2 DEF IsTags
    <2>3. Nothing \in [version : Version, publish : BOOLEAN]
      BY DEF Nothing, V, Version
    <2>4. run \in [Clones -> [version : Version, publish : BOOLEAN]]
      BY <2>3 DEF Init
    <2>5. tree \in [Clones -> Tree] /\ head \in [Clones -> 1..Len(commits)] /\ main \in 1..Len(commits)
      BY <1>2 DEF Init
    <2>6. \A w \in DOMAIN releases : w \in Version /\ releases[w] \in BOOLEAN
      BY <1>1 DEF Prerelease, IsCandidate, Version
    <2>7. pc \in [Clones -> {"idle", "bumping", "tag", "push", "view", "create"}]
      BY DEF Init
    <2>8. bumps \in 0..MaxBumps /\ stops \in 0..MaxStops /\ Len(commits) \in 1..MaxCommits
      BY <1>2, ReleaseAssumption DEF Init
    <2> QED  BY <1>2, <2>1, <2>2, <2>4, <2>5, <2>6, <2>7, <2>8 DEF TypeOK
  <1>4. PastOK /\ InOrder
    BY <1>2, VersionsAreOrdered DEF Init, PastOK, InOrder
  <1>5. RunOK
    BY DEF Init, RunOK
  <1>6. Tagged
    BY <1>1, <1>2, VersionsAreOrdered DEF Tagged, TagOK
  <1> QED  BY <1>3, <1>4, <1>5, <1>6 DEF IInv

-----------------------------------------------------------------------------
(***************************************************************************)
(* Commits and merges.                                                     *)
(***************************************************************************)
\* What is known of one clone.
LEMMA CloneFacts ==
    ASSUME IInv, NEW c \in Clones
    PROVE  /\ tree[c] \in Tree /\ tree[c].init \in Version /\ tree[c].pyproject \in Version
           /\ tree[c].notes \subseteq Version
           /\ head[c] \in 1..Len(commits)
           /\ run[c] \in [version : Version, publish : BOOLEAN] /\ run[c].version \in Version
  BY DEF IInv, TypeOK, Tree

\* And of one commit.
LEMMA CommitFacts ==
    ASSUME IInv, NEW n \in 1..Len(commits)
    PROVE  /\ Holds(n) \in Tree /\ Holds(n).init \in Version /\ Holds(n).pyproject \in Version
           /\ AtMost(Holds(n).init, Holds(n).pyproject)
           /\ commits[n].past \subseteq 1..Len(commits)
           /\ \A m \in commits[n].past : AtMost(Holds(m).init, Holds(n).init)
  <1>1. commits[n] \in Commit
    BY DEF IInv, TypeOK
  <1> QED  BY <1>1 DEF IInv, PastOK, InOrder, Holds, Commit, Tree

\* What may be committed in a clone is not behind the commit it is on.
LEMMA CommittedTree ==
    ASSUME IInv, NEW c \in Clones,
           NEW t \in {tree[c], [Holds(head[c]) EXCEPT !.notes = tree[c].notes]}
    PROVE  /\ t \in Tree /\ t.init \in Version /\ AtMost(t.init, t.pyproject)
           /\ AtMost(Holds(head[c]).init, t.init) /\ AtMost(t.init, tree[c].init)
  <1>1. /\ tree[c] \in Tree /\ tree[c].init \in Version /\ tree[c].notes \subseteq Version
        /\ Holds(head[c]) \in Tree /\ Holds(head[c]).init \in Version
        /\ AtMost(Holds(head[c]).init, Holds(head[c]).pyproject)
    BY CloneFacts, CommitFacts
  <1>2. AtMost(tree[c].init, tree[c].pyproject) /\ AtMost(Holds(head[c]).init, tree[c].init)
    BY DEF IInv, InOrder
  <1>3. CASE t = tree[c]
    BY <1>1, <1>2, <1>3, VersionsAreOrdered
  <1>4. CASE t = [Holds(head[c]) EXCEPT !.notes = tree[c].notes]
    <2>1. t \in Tree /\ t.init = Holds(head[c]).init /\ t.pyproject = Holds(head[c]).pyproject
      BY <1>1, <1>4 DEF Tree
    <2> QED  BY <1>1, <1>2, <2>1, VersionsAreOrdered
  <1> QED  BY <1>3, <1>4

\* A new commit leaves the others where they are, and is not behind any commit
\* it builds on.
LEMMA CommitKeepsInvariant ==
    ASSUME IInv, NEW c \in Clones, CommitTree(c)
    PROVE  IInv'
  <1> DEFINE n == Len(commits) + 1
             past == commits[head[c]].past \cup {head[c]}
  <1>1. PICK t \in {tree[c], [Holds(head[c]) EXCEPT !.notes = tree[c].notes]} :
            commits' = Append(commits, [tree |-> t, past |-> past])
    BY DEF CommitTree
  <1>2. /\ pc[c] = "idle" /\ Len(commits) < MaxCommits
        /\ head' = [head EXCEPT ![c] = Len(commits')]
        /\ UNCHANGED <<main, tree, tags, pc, run, pushed, releases, bumps, stops>>
    BY DEF CommitTree
  <1>3. /\ t \in Tree /\ t.init \in Version /\ AtMost(t.init, t.pyproject)
        /\ AtMost(Holds(head[c]).init, t.init) /\ AtMost(t.init, tree[c].init)
    BY CommittedTree
  <1>4. /\ commits \in Seq(Commit) /\ Len(commits) \in Nat \ {0} /\ Len(commits) \in 1..MaxCommits
        /\ head[c] \in 1..Len(commits) /\ past \subseteq 1..Len(commits)
    BY CloneFacts, CommitFacts DEF IInv, TypeOK
  <1>5. [tree |-> t, past |-> past] \in Commit
    BY <1>3, <1>4 DEF Commit
  <1> HIDE DEF past
  <1>6. /\ commits' \in Seq(Commit) /\ Len(commits') = n /\ n \in 1..MaxCommits
        /\ commits'[n] = [tree |-> t, past |-> past]
        /\ \A i \in 1..Len(commits) : commits'[i] = commits[i]
    BY <1>1, <1>2, <1>4, <1>5, ReleaseAssumption
  <1>7. /\ commits'[n].tree = t /\ commits'[n].past = past
        /\ \A i \in 1..Len(commits) : commits'[i].tree = Holds(i)
    BY <1>6 DEF Holds
  <1>8. 1..Len(commits') = 1..Len(commits) \cup {n} /\ n \notin 1..Len(commits)
    BY <1>4, <1>6
  <1>9. TypeOK'
    <2>1. head' \in [Clones -> 1..Len(commits')] /\ main' \in 1..Len(commits')
      BY <1>2, <1>6, <1>8 DEF IInv, TypeOK
    <2>2. ASSUME NEW f, IsTags(f)
          PROVE  f = [v \in DOMAIN f |-> f[v]] /\ \A v \in DOMAIN f : v \in Version /\ f[v] \in 1..Len(commits')
      BY <1>8, <2>2 DEF IsTags
    <2>3. \A d \in Clones : IsTags(tags[d])'
      BY <1>2, <2>2 DEF IInv, TypeOK, IsTags
    <2>4. IsTags(pushed)'
      BY <1>2, <2>2 DEF IInv, TypeOK, IsTags
    <2> QED  BY <1>2, <1>6, <2>1, <2>3, <2>4 DEF IInv, TypeOK
  <1>10. PastOK'
    BY <1>4, <1>6, <1>7, <1>8 DEF IInv, PastOK
  <1>11. InOrder'
    <2>1. \A i \in 1..Len(commits') : AtMost(commits'[i].tree.init, commits'[i].tree.pyproject)
      BY <1>3, <1>7, <1>8 DEF IInv, InOrder
    <2>2. ASSUME NEW j \in 1..Len(commits'), NEW i \in commits'[j].past
          PROVE  AtMost(commits'[i].tree.init, commits'[j].tree.init)
      <3>1. CASE j \in 1..Len(commits)
        <4>1. i \in commits[j].past /\ i \in 1..Len(commits)
          BY <1>6, <2>2, <3>1, CommitFacts
        <4> QED  BY <1>7, <3>1, <4>1, CommitFacts
      <3>2. CASE j = n
        <4>1. i \in past /\ i \in 1..Len(commits)
          BY <1>4, <1>7, <2>2, <3>2
        <4>2. AtMost(Holds(i).init, Holds(head[c]).init)
          BY <1>4, <4>1, CommitFacts, VersionsAreOrdered DEF past
        <4>3. AtMost(Holds(i).init, t.init)
          BY <1>3, <1>4, <4>1, <4>2, CommitFacts, VersionsAreOrdered
        <4> QED  BY <1>7, <3>2, <4>1, <4>3
      <3> QED  BY <1>8, <3>1, <3>2
    <2>3. ASSUME NEW d \in Clones
          PROVE  AtMost(tree[d].init, tree[d].pyproject) /\ AtMost(commits'[head'[d]].tree.init, tree[d].init)
      <3>1. AtMost(tree[d].init, tree[d].pyproject) /\ AtMost(Holds(head[d]).init, tree[d].init)
            /\ head[d] \in 1..Len(commits)
        BY CloneFacts DEF IInv, InOrder
      <3>2. head'[d] = IF d = c THEN n ELSE head[d]
        BY <1>2, <1>6 DEF IInv, TypeOK
      <3> QED  BY <1>3, <1>7, <3>1, <3>2
    <2> QED  BY <1>2, <2>1, <2>2, <2>3 DEF InOrder, Holds
  <1>12. RunOK'
    <2> SUFFICES ASSUME NEW d \in Clones
                 PROVE  /\ pc[d] = "bumping" => AtMost(tree[d].init, run[d].version)
                        /\ pc[d] = "tag" => AtMost(commits'[head'[d]].tree.init, run[d].version)
                        /\ pc[d] = "push" => run[d].version \in DOMAIN tags[d]
      BY <1>2 DEF RunOK, Holds
    <2>1. d # c => head'[d] = head[d]
      BY <1>2 DEF IInv, TypeOK
    <2> QED  BY <1>2, <1>7, <2>1, CloneFacts DEF IInv, RunOK
  <1>13. Tagged'
    <2>1. ASSUME NEW f, IsTags(f), TagOK(f) PROVE \A v \in DOMAIN f : AtMost(commits'[f[v]].tree.init, v)
      BY <1>7, <2>1 DEF IsTags, TagOK
    <2>2. ASSUME NEW d \in Clones PROVE \A v \in DOMAIN tags[d] : AtMost(commits'[tags[d][v]].tree.init, v)
      BY <2>1 DEF IInv, TypeOK, Tagged
    <2>3. \A v \in DOMAIN pushed : AtMost(commits'[pushed[v]].tree.init, v)
      BY <2>1 DEF IInv, TypeOK, Tagged
    <2> QED  BY <1>2, <2>2, <2>3 DEF Tagged, TagOK, Holds
  <1> QED  BY <1>9, <1>10, <1>11, <1>12, <1>13 DEF IInv

\* A merge moves main and nothing else.
LEMMA MergeKeepsInvariant ==
    ASSUME IInv, NEW c \in Clones, Merge(c)
    PROVE  IInv'
  <1>1. /\ main' = head[c] /\ head[c] \in 1..Len(commits)
        /\ UNCHANGED <<commits, tree, head, tags, pc, run, pushed, releases, bumps, stops>>
    BY CloneFacts DEF Merge
  <1>2. TypeOK'
    BY <1>1 DEF IInv, TypeOK, IsTags
  <1> QED  BY <1>1, <1>2 DEF IInv, PastOK, InOrder, RunOK, Tagged, TagOK, Holds

-----------------------------------------------------------------------------
(***************************************************************************)
(* The steps that leave commits and main alone.                            *)
(***************************************************************************)
\* A clone that changes its tree, and perhaps its script, keeps the order
\* if its new tree is not behind the commit it has checked out.
LEMMA TreeKeepsInvariant ==
    ASSUME IInv, NEW c \in Clones, NEW t \in Tree, NEW h \in 1..Len(commits),
           tree' = [tree EXCEPT ![c] = t], head' = [head EXCEPT ![c] = h],
           UNCHANGED <<commits, main, pushed, releases>>,
           AtMost(t.init, t.pyproject), AtMost(Holds(h).init, t.init)
    PROVE  /\ tree' \in [Clones -> Tree] /\ head' \in [Clones -> 1..Len(commits)]
           /\ PastOK' /\ InOrder'
  BY DEF IInv, TypeOK, PastOK, InOrder, Holds

\* Pull: the tree of main, and the tags of origin it did not have.
LEMMA PullKeepsInvariant ==
    ASSUME IInv, NEW c \in Clones, Pull(c)
    PROVE  IInv'
  <1> DEFINE f == [v \in DOMAIN pushed \cup DOMAIN tags[c] |->
                      IF v \in DOMAIN tags[c] THEN tags[c][v] ELSE pushed[v]]
  <1>1. /\ pc[c] = "idle" /\ tree' = [tree EXCEPT ![c] = Holds(main)]
        /\ head' = [head EXCEPT ![c] = main] /\ tags' = [tags EXCEPT ![c] = f]
        /\ UNCHANGED <<commits, main, pc, run, pushed, releases, bumps, stops>>
    BY DEF Pull
  <1>2. IsTags(f) /\ TagOK(f)
    BY DEF IInv, TypeOK, IsTags, Tagged, TagOK
  <1>3. main \in 1..Len(commits)
    BY DEF IInv, TypeOK
  <1>4. /\ tree' \in [Clones -> Tree] /\ head' \in [Clones -> 1..Len(commits)] /\ PastOK' /\ InOrder'
    BY <1>1, <1>3, CommitFacts, VersionsAreOrdered, TreeKeepsInvariant
  <1> HIDE DEF f
  <1>5. TypeOK'
    <2>1. \A d \in Clones : IsTags(tags'[d])
      BY <1>1, <1>2 DEF IInv, TypeOK
    <2>2. tags' = [d \in Clones |-> tags'[d]]
      BY <1>1 DEF IInv, TypeOK
    <2>3. IsTags(pushed)' /\ \A d \in Clones : IsTags(tags[d])'
      BY <1>1, <2>1 DEF IInv, TypeOK, IsTags
    <2> QED  BY <1>1, <1>4, <2>2, <2>3 DEF IInv, TypeOK
  <1>6. RunOK'
    BY <1>1 DEF IInv, RunOK, TypeOK, Holds
  <1>7. Tagged'
    BY <1>1, <1>2 DEF IInv, TypeOK, Tagged, TagOK, Holds
  <1> QED  BY <1>4, <1>5, <1>6, <1>7 DEF IInv

\* A script that goes on keeps the version it works on, and one that ends keeps
\* nothing.
LEMMA GotoFacts ==
    ASSUME IInv, NEW c \in Clones, NEW l \in {"idle", "push", "view", "create"}, Goto(c, l)
    PROVE  /\ pc' \in [Clones -> {"idle", "bumping", "tag", "push", "view", "create"}]
           /\ run' \in [Clones -> [version : Version, publish : BOOLEAN]]
           /\ pc'[c] = l /\ (l # "idle" => run' = run)
           /\ \A d \in Clones \ {c} : pc'[d] = pc[d] /\ run'[d] = run[d]
  <1>1. /\ pc \in [Clones -> {"idle", "bumping", "tag", "push", "view", "create"}]
        /\ run \in [Clones -> [version : Version, publish : BOOLEAN]]
    BY DEF IInv, TypeOK
  <1>2. Nothing \in [version : Version, publish : BOOLEAN]
    BY DEF Nothing, V, Version
  <1>3. pc' = [pc EXCEPT ![c] = l] /\ (run' = run \/ run' = [run EXCEPT ![c] = Nothing])
        /\ (l # "idle" => run' = run)
    BY DEF Goto
  <1> QED  BY <1>1, <1>2, <1>3

\* WriteNotes, Reconcile, Bump and BumpEnds: the clone's tree changes, and
\* its tags do not.
LEMMA EditKeepsInvariant ==
    ASSUME IInv, NEW c \in Clones, WriteNotes(c) \/ Reconcile(c) \/ Bump(c) \/ BumpEnds(c)
    PROVE  IInv'
  <1>0. UNCHANGED <<commits, main, head, tags, pushed, releases, stops>> /\ Tagged'
    BY DEF WriteNotes, Reconcile, Bump, BumpEnds, IInv, Tagged, TagOK, Holds
  <1>a. head' = [head EXCEPT ![c] = head[c]]
    BY <1>0 DEF IInv, TypeOK
  <1>b. AtMost(tree[c].init, tree[c].pyproject) /\ AtMost(Holds(head[c]).init, tree[c].init)
    BY DEF IInv, InOrder
  <1>c. Holds(head[c]).init \in Version /\ head[c] \in 1..Len(commits)
    BY CloneFacts, CommitFacts
  <1>1. CASE WriteNotes(c)
    <2>1. PICK t \in Tree : tree' = [tree EXCEPT ![c] = t]
                             /\ t.init = tree[c].init /\ t.pyproject = tree[c].pyproject
      <3> DEFINE t == [tree[c] EXCEPT !.notes = @ \cup {tree[c].init}]
      <3>1. t \in Tree /\ t.init = tree[c].init /\ t.pyproject = tree[c].pyproject
        BY CloneFacts DEF Tree
      <3>2. tree' = [tree EXCEPT ![c] = t]
        BY <1>1 DEF WriteNotes
      <3> QED  BY <3>1, <3>2
    <2>2. UNCHANGED <<pc, run, bumps>>
      BY <1>1 DEF WriteNotes
    <2>3. tree' \in [Clones -> Tree] /\ PastOK' /\ InOrder'
      BY <1>0, <1>a, <1>b, <1>c, <2>1, TreeKeepsInvariant
    <2>4. RunOK'
      BY <1>0, <1>1, <2>1, <2>2 DEF IInv, TypeOK, RunOK, WriteNotes, Holds
    <2> QED  BY <1>0, <2>2, <2>3, <2>4 DEF IInv, TypeOK, IsTags
  <1>2. CASE Reconcile(c)
    <2>1. PICK t \in Tree : tree' = [tree EXCEPT ![c] = t]
                             /\ t.init = tree[c].pyproject /\ t.pyproject = tree[c].pyproject
      <3> DEFINE t == [tree[c] EXCEPT !.init = tree[c].pyproject]
      <3>1. t \in Tree /\ t.init = tree[c].pyproject /\ t.pyproject = tree[c].pyproject
        BY CloneFacts DEF Tree
      <3>2. tree' = [tree EXCEPT ![c] = t]
        BY <1>2 DEF Reconcile
      <3> QED  BY <3>1, <3>2
    <2>2. UNCHANGED <<pc, run, bumps>>
      BY <1>2 DEF Reconcile
    <2>3. AtMost(t.init, t.pyproject) /\ AtMost(Holds(head[c]).init, t.init)
      BY <1>b, <1>c, <2>1, CloneFacts, VersionsAreOrdered
    <2>4. tree' \in [Clones -> Tree] /\ PastOK' /\ InOrder'
      BY <1>0, <1>a, <1>c, <2>1, <2>3, TreeKeepsInvariant
    <2>5. RunOK'
      BY <1>0, <1>2, <2>1, <2>2 DEF IInv, TypeOK, RunOK, Reconcile, Holds
    <2> QED  BY <1>0, <2>2, <2>4, <2>5 DEF IInv, TypeOK, IsTags
  <1>3. CASE Bump(c)
    <2>1. PICK arg \in BumpArgs :
              /\ Applies(tree[c].pyproject, arg[1], arg[2])
              /\ Start(c, "bumping", NextVersion(tree[c].pyproject, arg[1], arg[2]), FALSE)
              /\ tree' = [tree EXCEPT ![c] =
                             WriteFirst(@, NextVersion(tree[c].pyproject, arg[1], arg[2]))]
      BY <1>3 DEF Bump
    <2> DEFINE new == NextVersion(tree[c].pyproject, arg[1], arg[2])
               t == WriteFirst(tree[c], new)
    <2>2. new \in Version /\ AtMost(tree[c].pyproject, new)
      BY <2>1, CloneFacts, BumpGoesUp, ReleaseAssumption DEF AtMost
    <2>3. tree[c].pyproject = tree[c].init /\ bumps < MaxBumps /\ bumps' = bumps + 1
      BY <1>3 DEF Bump
    <2>4. t \in Tree /\ t.init = tree[c].init /\ t.pyproject = new
      BY <2>2, CloneFacts DEF WriteFirst, Tree
    <2>5. /\ tree' = [tree EXCEPT ![c] = t] /\ pc' = [pc EXCEPT ![c] = "bumping"]
          /\ run' = [run EXCEPT ![c] = [version |-> new, publish |-> FALSE]]
      BY <2>1 DEF Start
    <2> HIDE DEF new, t
    <2>6. tree' \in [Clones -> Tree] /\ PastOK' /\ InOrder'
      BY <1>0, <1>a, <1>b, <1>c, <2>2, <2>3, <2>4, <2>5, TreeKeepsInvariant
    <2>7. TypeOK'
      BY <1>0, <2>2, <2>3, <2>5, <2>6, ReleaseAssumption DEF IInv, TypeOK, IsTags
    <2>8. RunOK'
      BY <1>0, <2>2, <2>3, <2>4, <2>5 DEF IInv, TypeOK, RunOK, Holds
    <2> QED  BY <1>0, <2>6, <2>7, <2>8 DEF IInv
  <1>4. CASE BumpEnds(c)
    <2> DEFINE new == run[c].version
    <2>1. PICK t \in Tree : tree' = [tree EXCEPT ![c] = t] /\ t.init = new /\ t.pyproject = new
      <3> DEFINE t == [tree[c] EXCEPT !.pyproject = new, !.init = new]
      <3>1. t \in Tree /\ t.init = new /\ t.pyproject = new
        BY CloneFacts DEF Tree
      <3>2. tree' = [tree EXCEPT ![c] = t]
        BY <1>4 DEF BumpEnds
      <3> QED  BY <3>1, <3>2
    <2>2. bumps' = bumps /\ pc[c] = "bumping" /\ Goto(c, "idle")
      BY <1>4 DEF BumpEnds
    <2>3. AtMost(tree[c].init, new)
      BY <2>2 DEF IInv, RunOK
    <2>4. AtMost(t.init, t.pyproject) /\ AtMost(Holds(head[c]).init, t.init)
      BY <1>b, <1>c, <2>1, <2>3, CloneFacts, VersionsAreOrdered
    <2>5. tree' \in [Clones -> Tree] /\ PastOK' /\ InOrder'
      BY <1>0, <1>a, <1>c, <2>1, <2>4, TreeKeepsInvariant
    <2>6. /\ pc' \in [Clones -> {"idle", "bumping", "tag", "push", "view", "create"}]
          /\ run' \in [Clones -> [version : Version, publish : BOOLEAN]]
          /\ pc'[c] = "idle" /\ \A d \in Clones \ {c} : pc'[d] = pc[d] /\ run'[d] = run[d]
      BY <2>2, GotoFacts
    <2>7. TypeOK'
      BY <1>0, <2>2, <2>5, <2>6 DEF IInv, TypeOK, IsTags
    <2>8. RunOK'
      BY <1>0, <2>1, <2>6 DEF IInv, TypeOK, RunOK, Holds
    <2> QED  BY <1>0, <2>5, <2>7, <2>8 DEF IInv
  <1> QED  BY <1>1, <1>2, <1>3, <1>4

\* A tag run changes neither commits nor a working tree.
LEMMA TagRunKeepsInvariant ==
    ASSUME IInv, NEW c \in Clones, Tag(c) \/ TagRun(c) \/ Stop(c)
    PROVE  IInv'
  <1>0. UNCHANGED <<commits, main, tree, head, bumps>> /\ PastOK' /\ InOrder'
    BY DEF Tag, TagRun, CreateTag, Push, View, CreateRelease, Stop, IInv, PastOK, InOrder, Holds
  <1>1. CASE Tag(c)
    <2>1. PICK publish \in BOOLEAN :
              /\ pc' = [pc EXCEPT ![c] = "tag"]
              /\ run' = [run EXCEPT ![c] = [version |-> tree[c].init, publish |-> publish]]
              /\ IF publish THEN UNCHANGED stops ELSE stops < MaxStops /\ stops' = stops + 1
      BY <1>1 DEF Tag, Start
    <2>2. UNCHANGED <<tags, pushed, releases>> /\ stops' \in 0..MaxStops
      BY <1>1, <2>1, ReleaseAssumption DEF Tag, IInv, TypeOK
    <2>3. TypeOK'
      BY <1>0, <2>1, <2>2, CloneFacts DEF IInv, TypeOK, IsTags
    <2>4. AtMost(Holds(head[c]).init, tree[c].init)
      BY DEF IInv, InOrder
    <2>5. RunOK'
      BY <1>0, <2>1, <2>2, <2>4 DEF IInv, TypeOK, RunOK, Holds
    <2>6. Tagged'
      BY <1>0, <2>2 DEF IInv, Tagged, TagOK, Holds
    <2> QED  BY <1>0, <2>3, <2>5, <2>6 DEF IInv
  <1>2. CASE CreateTag(c)
    <2> DEFINE f == [v \in DOMAIN tags[c] \cup {run[c].version} |->
                        IF v \in DOMAIN tags[c] THEN tags[c][v] ELSE head[c]]
    <2>1. /\ pc[c] = "tag" /\ tags' = [tags EXCEPT ![c] = f] /\ Goto(c, "push")
          /\ UNCHANGED <<pushed, releases, stops>>
      BY <1>2 DEF CreateTag
    <2>2. IsTags(f) /\ TagOK(f) /\ run[c].version \in DOMAIN f
      BY <2>1, CloneFacts DEF IInv, TypeOK, IsTags, Tagged, TagOK, RunOK
    <2> HIDE DEF f
    <2>3. /\ pc' \in [Clones -> {"idle", "bumping", "tag", "push", "view", "create"}]
          /\ run' = run /\ pc'[c] = "push" /\ \A d \in Clones \ {c} : pc'[d] = pc[d]
      BY <2>1, GotoFacts
    <2>4. TypeOK'
      BY <1>0, <2>1, <2>2, <2>3 DEF IInv, TypeOK, IsTags
    <2>5. RunOK'
      BY <1>0, <2>1, <2>2, <2>3 DEF IInv, TypeOK, RunOK, Holds
    <2>6. Tagged'
      BY <1>0, <2>1, <2>2 DEF IInv, TypeOK, Tagged, TagOK, Holds
    <2> QED  BY <1>0, <2>4, <2>5, <2>6 DEF IInv
  <1>3. CASE Push(c)
    <2>1. /\ pc[c] = "push" /\ UNCHANGED <<tags, releases, stops>>
          /\ \/ UNCHANGED pushed
             \/ pushed' = [v \in DOMAIN pushed \cup {run[c].version} |->
                              IF v = run[c].version THEN tags[c][v] ELSE pushed[v]]
      BY <1>3 DEF Push
    <2>2. PICK l \in {"view", "idle"} : Goto(c, l)
      BY <1>3 DEF Push
    <2>3. run[c].version \in DOMAIN tags[c]
      BY <2>1 DEF IInv, RunOK
    <2>4. IsTags(pushed)' /\ TagOK(pushed)'
      <3>1. IsTags(tags[c]) /\ TagOK(tags[c]) /\ IsTags(pushed) /\ TagOK(pushed)
        BY DEF IInv, TypeOK, Tagged
      <3>2. CASE UNCHANGED pushed
        BY <1>0, <3>1, <3>2 DEF IsTags, TagOK, Holds
      <3>3. CASE pushed' = [v \in DOMAIN pushed \cup {run[c].version} |->
                              IF v = run[c].version THEN tags[c][v] ELSE pushed[v]]
        <4>1. run[c].version \in Version /\ tags[c][run[c].version] \in 1..Len(commits)
              /\ AtMost(Holds(tags[c][run[c].version]).init, run[c].version)
          BY <2>3, <3>1 DEF IsTags, TagOK
        <4>2. DOMAIN pushed' = DOMAIN pushed \cup {run[c].version}
              /\ pushed' = [v \in DOMAIN pushed' |-> pushed'[v]]
          BY <3>3
        <4>3. \A v \in DOMAIN pushed' :
                  v \in Version /\ pushed'[v] \in 1..Len(commits) /\ AtMost(Holds(pushed'[v]).init, v)
          BY <3>1, <3>3, <4>1 DEF IsTags, TagOK
        <4> QED  BY <1>0, <4>2, <4>3 DEF IsTags, TagOK, Holds
      <3> QED  BY <2>1, <3>2, <3>3
    <2>5. /\ pc' \in [Clones -> {"idle", "bumping", "tag", "push", "view", "create"}]
          /\ run' \in [Clones -> [version : Version, publish : BOOLEAN]]
          /\ pc'[c] = l /\ \A d \in Clones \ {c} : pc'[d] = pc[d] /\ run'[d] = run[d]
      BY <2>2, GotoFacts
    <2>6. TypeOK'
      BY <1>0, <2>1, <2>4, <2>5 DEF IInv, TypeOK, IsTags
    <2>7. RunOK'
      BY <1>0, <2>1, <2>5 DEF IInv, TypeOK, RunOK, Holds
    <2>8. Tagged'
      BY <1>0, <2>1, <2>4 DEF IInv, Tagged, TagOK, Holds
    <2> QED  BY <1>0, <2>6, <2>7, <2>8 DEF IInv
  <1>4. CASE View(c) \/ CreateRelease(c) \/ Stop(c)
    <2>1. UNCHANGED <<tags, pushed>> /\ stops' \in 0..MaxStops
      BY <1>4, ReleaseAssumption DEF View, CreateRelease, Stop, IInv, TypeOK
    <2>2. PICK l \in {"create", "idle"} : Goto(c, l)
      BY <1>4 DEF View, CreateRelease, Stop
    <2>3. \A v \in DOMAIN releases' : v \in Version /\ releases'[v] \in BOOLEAN
      <3>1. \A v \in Version : Prerelease(v) \in BOOLEAN
        BY DEF Prerelease, IsCandidate, Version
      <3>2. \A v \in DOMAIN releases : v \in Version /\ releases[v] \in BOOLEAN
        BY DEF IInv, TypeOK
      <3> QED  BY <1>4, <3>1, <3>2, CloneFacts DEF View, CreateRelease, Stop
    <2>4. /\ pc' \in [Clones -> {"idle", "bumping", "tag", "push", "view", "create"}]
          /\ run' \in [Clones -> [version : Version, publish : BOOLEAN]]
          /\ pc'[c] = l /\ \A d \in Clones \ {c} : pc'[d] = pc[d] /\ run'[d] = run[d]
      BY <2>2, GotoFacts
    <2>5. TypeOK'
      BY <1>0, <2>1, <2>3, <2>4 DEF IInv, TypeOK, IsTags
    <2>6. RunOK'
      BY <1>0, <2>1, <2>4 DEF IInv, TypeOK, RunOK, Holds
    <2>7. Tagged'
      BY <1>0, <2>1 DEF IInv, Tagged, TagOK, Holds
    <2> QED  BY <1>0, <2>5, <2>6, <2>7 DEF IInv
  <1> QED  BY <1>1, <1>2, <1>3, <1>4 DEF TagRun

LEMMA StepInvariant == IInv /\ [Next]_vars => IInv'
  <1> SUFFICES ASSUME IInv, [Next]_vars PROVE IInv'
    OBVIOUS
  <1>1. CASE UNCHANGED vars
    BY <1>1 DEF IInv, vars, TypeOK, IsTags, PastOK, InOrder, RunOK, Tagged, TagOK, Holds
  <1>2. ASSUME NEW c \in Clones,
               ByHand(c) \/ Bump(c) \/ BumpEnds(c) \/ Tag(c) \/ TagRun(c) \/ Stop(c)
        PROVE  IInv'
    BY <1>2, PullKeepsInvariant, CommitKeepsInvariant, MergeKeepsInvariant,
       EditKeepsInvariant, TagRunKeepsInvariant
       DEF ByHand
  <1> QED  BY <1>1, <1>2 DEF Next

THEOREM Invariant == Spec => []IInv
  BY InitInvariant, StepInvariant, PTL DEF Spec

-----------------------------------------------------------------------------
(***************************************************************************)
(* What it says.                                                           *)
(***************************************************************************)
\* Every variable of the scripts' world keeps to its kind, and every tag, of
\* a clone or of origin, names a commit that exists.
THEOREM TypeCorrect == Spec => []TypeOK
  BY Invariant, PTL DEF IInv

\* tag_release: from whatever clone, branch or tree and after whatever
\* interruption, a tag is never older than the commit it names, nor on or after
\* the commit at which a later version is on origin.
THEOREM TagsFollow == Spec => []TagsFollowHistory
  <1>1. IInv => TagsFollowHistory
    <2> SUFFICES ASSUME IInv, NEW c \in Clones, NEW v \in DOMAIN tags[c]
                 PROVE  /\ AtMost(Holds(tags[c][v]).init, v)
                        /\ \A w \in DOMAIN pushed :
                               Precedes(v, w) /\ Holds(pushed[w]).init = w
                                   => ~Contains(tags[c][v], pushed[w])
      BY DEF TagsFollowHistory
    <2>1. AtMost(Holds(tags[c][v]).init, v) /\ v \in Version /\ tags[c][v] \in 1..Len(commits)
      BY DEF IInv, Tagged, TagOK, TypeOK, IsTags
    <2>2. ASSUME NEW w \in DOMAIN pushed, Precedes(v, w), Holds(pushed[w]).init = w,
                 Contains(tags[c][v], pushed[w])
          PROVE  FALSE
      <3>1. w \in Version
        BY DEF IInv, TypeOK, IsTags
      <3>2. AtMost(w, Holds(tags[c][v]).init) /\ Holds(tags[c][v]).init \in Version
        BY <2>1, <2>2, <3>1, CommitFacts, VersionsAreOrdered DEF Contains
      <3>3. AtMost(w, v)
        BY <2>1, <3>1, <3>2, VersionsAreOrdered
      <3> QED  BY <2>1, <2>2, <3>1, <3>3, VersionsAreOrdered
    <2> QED  BY <2>1, <2>2
  <1> QED  BY <1>1, Invariant, PTL

\* bump_version writes pyproject.toml first: a bump that stopped in between,
\* committed and tagged though it may be, is never out as the new version.
THEOREM MetadataIsAhead == Spec => []MetadataKeepsUp
  <1>1. IInv => MetadataKeepsUp
    <2> SUFFICES ASSUME IInv, NEW v \in DOMAIN pushed, Holds(pushed[v]).init = v
                 PROVE  AtMost(v, Holds(pushed[v]).pyproject)
      BY DEF MetadataKeepsUp
    <2>1. pushed[v] \in 1..Len(commits)
      BY DEF IInv, TypeOK, IsTags
    <2> QED  BY <2>1, CommitFacts
  <1> QED  BY <1>1, Invariant, PTL

\* tag_release: a tag on origin never moves and a release is never replaced.
THEOREM PublishedStays == Spec => PublishedIsFinal
  <1> DEFINE Stays == /\ \A v \in DOMAIN pushed : v \in DOMAIN pushed' /\ pushed'[v] = pushed[v]
                      /\ \A v \in DOMAIN releases :
                             v \in DOMAIN releases' /\ releases'[v] = releases[v]
  <1>1. IInv /\ [Next]_vars => [Stays]_vars
    <2> SUFFICES ASSUME IInv, Next PROVE Stays
      OBVIOUS
    <2>1. PICK c \in Clones :
              ByHand(c) \/ Bump(c) \/ BumpEnds(c) \/ Tag(c) \/ TagRun(c) \/ Stop(c)
      BY DEF Next
    <2>2. CASE Push(c)
      BY <2>2 DEF Push, Rejected
    <2>3. CASE CreateRelease(c)
      BY <2>3 DEF CreateRelease
    <2>4. CASE ~Push(c) /\ ~CreateRelease(c)
      BY <2>1, <2>4 DEF ByHand, Pull, WriteNotes, CommitTree, Merge, Reconcile, Bump, BumpEnds, Tag,
                        TagRun, CreateTag, View, Stop
    <2> QED  BY <2>2, <2>3, <2>4
  <1> QED  BY <1>1, Invariant, PTL DEF Spec, PublishedIsFinal
=============================================================================
