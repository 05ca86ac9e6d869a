------------------------------- MODULE Harness -------------------------------
(***************************************************************************)
(* One call of grade(): run_task_patch() of harness/runner_local.py over   *)
(* the work tree of golden/materialize.py, and the verdict of types.py.    *)
(*                                                                         *)
(* A file is known by who wrote its contents.  A candidate patch says of   *)
(* each file it names whether it adds, edits or deletes it; whether its    *)
(* context matches, and whether a three-way merge finds what it needs, is  *)
(* the environment's choice, and so is what a test says of a tree nobody   *)
(* ran it on before.  Which files an ignore file covers is a choice too,   *)
(* among those a candidate adds; those of the task are taken to be none of *)
(* them, and tests to write no file.                                       *)
(* A definition marked FAULT is no part of the model: it is a plausible    *)
(* defect in place of the definition after it, which a property must find. *)
(***************************************************************************)
EXTENDS Integers, FiniteSets

CONSTANTS
  Paths,       \* the files a tree may hold
  Files,       \* those a candidate's diff names, its a/ and b/ stripped
  Unstripped,  \* the path each of their names means with nothing stripped
  Bases,       \* the trees a task may start from
  TestFiles,   \* the files test_patch adds or edits
  Autoload,    \* the paths whose basename pytest or CPython loads by itself
  IgnoreFiles, \* the .gitignore of each directory
  Patches,     \* the candidates: the change each makes to each file it names
  F2P,         \* the task's fail_to_pass
  P2P,         \* the task's pass_to_pass
  FileOf       \* the file each test is in

Changes == {"add", "edit", "delete"}
Contents == {"absent", "base", "test", "candidate", "conflict"}
Trees == [Paths -> Contents]
Tests == F2P \union P2P

\* build_dataset's validation: F2P is not empty, fails at base + test_patch, and
\* P2P passes there; what test_patch writes is laid over base and deletes nothing.
ASSUME HarnessAssumption ==
  /\ Files \subseteq Paths /\ Unstripped \in [Files -> Paths]
  /\ \A f, g \in Files : Unstripped[f] = Unstripped[g] => f = g
  /\ Bases \subseteq [Paths -> {"absent", "base"}]
  /\ TestFiles \subseteq Paths /\ Autoload \subseteq Paths
  /\ IgnoreFiles \subseteq Paths \ Autoload
  /\ \A patch \in Patches : DOMAIN patch \subseteq Files
                            /\ \A f \in DOMAIN patch : patch[f] \in Changes
  /\ IsFiniteSet(F2P) /\ IsFiniteSet(P2P)
  /\ F2P # {} /\ F2P \intersect P2P = {} /\ FileOf \in [Tests -> Paths]

VARIABLES
  pc,       \* where run_task_patch() is
  patch,    \* the candidate
  cures,    \* the tests that pass on the tree the whole candidate makes
  work,     \* the temporary directory: "none", "live" or "removed"
  tree,     \* the work tree
  head,     \* the tree of HEAD
  how,      \* how the candidate was applied: the rung of the ladder, or "not"
  markers,  \* history: a merge left conflicts in the tree
  passed,   \* the tests that passed
  resolved  \* GradeResult.resolved, FALSE before there is one

vars == <<pc, patch, cures, work, tree, head, how, markers, passed, resolved>>
given == <<patch, cures>>
verdict == <<passed, resolved>>

Rungs == {"p1", "3way", "p0"}
Running == {"base", "reset", "restore", "strip", "f2p", "p2p", "verdict"} \union Rungs
Waiting == {"f2p", "p2p"}
Testing == pc \in Waiting \union {"verdict"}

Init ==
  /\ pc = "start" /\ work = "none" /\ how = "not" /\ markers = FALSE
  /\ patch \in Patches /\ cures \in SUBSET Tests
  /\ head \in Bases /\ tree = head
  /\ passed = {} /\ resolved = FALSE

-----------------------------------------------------------------------------
\* mkdtemp, copy_tree and init_base_repo.
Materialize ==
  /\ pc = "start"
  /\ pc' = "base" /\ work' = "live"
  /\ UNCHANGED <<given, tree, head, how, markers, verdict>>

\* source_dir_for() or mkdtemp raises.
StartRaises ==
  /\ pc = "start"
  /\ pc' = "raised"
  /\ UNCHANGED <<given, work, tree, head, how, markers, verdict>>

\* test_patch is applied and committed; a blank candidate is not applied at all.
ApplyTestPatch ==
  /\ pc = "base"
  /\ tree' = [p \in Paths |-> IF p \in TestFiles THEN "test" ELSE tree[p]]
  /\ head' = tree'
  /\ pc' = IF DOMAIN patch = {} THEN "restore" ELSE "p1"
  /\ UNCHANGED <<given, work, how, markers, verdict>>

\* Whether the tree has, and has not, the files the candidate needs under the
\* names a rung gives them, and the tree it then makes.
Stripped == [f \in Files |-> f]
FitsAt(f, names) == (tree[names[f]] = "absent") = (patch[f] = "add")
Fits(names) == \A f \in DOMAIN patch : FitsAt(f, names)
Change(f) == IF patch[f] = "delete" THEN "absent" ELSE "candidate"
Patched(t, names) ==
  [p \in Paths |->
     IF \E f \in DOMAIN patch : names[f] = p
       THEN Change(CHOOSE f \in DOMAIN patch : names[f] = p) ELSE t[p]]

Applies(rung, names) ==
  /\ pc = rung /\ Fits(names)
  /\ tree' = Patched(tree, names)
  /\ how' = rung /\ pc' = "restore"
  /\ UNCHANGED <<given, work, head, markers, verdict>>

\* git apply refuses, and leaves the tree alone.
Refuses(rung, next) ==
  /\ pc = rung
  /\ pc' = next
  /\ UNCHANGED <<given, work, tree, head, how, markers, verdict>>

ApplyP1 == Applies("p1", Stripped)
RefuseP1 == Refuses("p1", "3way")
Merge3way == Applies("3way", Stripped)
Refuse3way == Refuses("3way", "p0")

\* git apply --3way fails, but only after it wrote what it could merge, and
\* conflict markers where it could not.
Conflict3way ==
  /\ pc = "3way"
  /\ \E C \in SUBSET DOMAIN patch \ {{}} :
       /\ \A f \in C : tree[f] # "absent" /\ patch[f] # "delete"
       /\ \A f \in DOMAIN patch \ C : FitsAt(f, Stripped)
       /\ tree' = [p \in Paths |-> IF p \in C THEN "conflict"
                                   ELSE Patched(tree, Stripped)[p]]
  /\ markers' = TRUE /\ pc' = "p0"
  /\ UNCHANGED <<given, work, head, how, verdict>>

ApplyP0 == Applies("p0", Unstripped)

\* FAULT: the ladder is climbed again.
RefuseP0Again == Refuses("p0", "p1")

RefuseP0 == Refuses("p0", "reset")

\* FAULT: what the ladder left in the tree stays there.
ResetNothing ==
  /\ pc = "reset"
  /\ pc' = "restore"
  /\ UNCHANGED <<given, work, tree, head, how, markers, verdict>>

\* git reset --hard and git clean.
Reset ==
  /\ pc = "reset"
  /\ tree' = head
  /\ pc' = "restore"
  /\ UNCHANGED <<given, work, head, how, markers, verdict>>

\* FAULT: the whole tree is restored.
RestoreAll ==
  /\ pc = "restore"
  /\ tree' = head
  /\ pc' = "strip"
  /\ UNCHANGED <<given, work, head, how, markers, verdict>>

\* git checkout HEAD -- each path test_patch touches.
RestoreTests ==
  /\ pc = "restore"
  /\ tree' = [p \in Paths |-> IF p \in TestFiles THEN head[p] ELSE tree[p]]
  /\ pc' = "strip"
  /\ UNCHANGED <<given, work, head, how, markers, verdict>>

\* The files the candidate added that git's index does not know: the first and the
\* last rung leave it alone, a three-way merge does not.
Untracked(p) ==
  /\ head[p] = "absent"
  /\ \E f \in DOMAIN patch :
       /\ patch[f] = "add"
       /\ (how = "p1" /\ f = p) \/ (how = "p0" /\ Unstripped[f] = p)

\* git add -A may pass over them, where a directory has an ignore file -- the
\* candidate's own, it may be.
Overlooked(p) == Untracked(p) /\ \E i \in IgnoreFiles : tree[i] # "absent"

\* FAULT: the files the candidate added are removed, those it edited stay.
StripAdded ==
  /\ pc = "strip"
  /\ tree' = [p \in Paths |-> IF p \in Autoload /\ head[p] = "absent"
                                THEN "absent" ELSE tree[p]]
  /\ pc' = "f2p"
  /\ UNCHANGED <<given, work, head, how, markers, verdict>>

\* _strip_candidate_autoload_files(): of the files git add -A does not ignore,
\* those HEAD has are restored, and others removed.
StripAutoload ==
  /\ pc = "strip"
  /\ \E ignored \in SUBSET {p \in Autoload : Overlooked(p)} :
       tree' = [p \in Paths |-> IF p \in Autoload \ ignored THEN head[p] ELSE tree[p]]
  /\ pc' = "f2p"
  /\ UNCHANGED <<given, work, head, how, markers, verdict>>

\* The tree the tests should run on: HEAD with the candidate's changes to source.
Pinned == TestFiles \union Autoload
SourcePatched(names) == \A p \in Paths \ Pinned : tree[p] = Patched(head, names)[p]
Whole ==
  /\ SourcePatched(Stripped) \/ SourcePatched(Unstripped)
  /\ \A p \in Pinned : tree[p] = head[p]

\* The tests that may pass on the tree: any test may fail, by its timeout at least.
MayPass == IF tree = head THEN P2P ELSE IF Whole THEN cures ELSE Tests

\* FAULT: results are kept by file, not by node id.
RunFiles(label, tests, next) ==
  /\ pc = label
  /\ \E ok \in SUBSET (tests \intersect MayPass) :
       passed' = passed \union {FileOf[t] : t \in ok}
  /\ pc' = next
  /\ UNCHANGED <<given, work, tree, head, how, markers, resolved>>

\* run_nodeids_status() over one list.
RunNodes(label, tests, next) ==
  /\ pc = label
  /\ \E ok \in SUBSET (tests \intersect MayPass) : passed' = passed \union ok
  /\ pc' = next
  /\ UNCHANGED <<given, work, tree, head, how, markers, resolved>>

RunF2P == RunNodes("f2p", F2P, "p2p")
RunP2P == RunNodes("p2p", P2P, "verdict")

\* FAULT: only the tests that should have failed before are asked.
ResolvedByF2P == F2P \subseteq passed

\* GradeResult.resolved compares the counts of both lists.
FullyPassed ==
  /\ Cardinality(passed \intersect F2P) = Cardinality(F2P)
  /\ Cardinality(passed \intersect P2P) = Cardinality(P2P)

\* The finally clause, then the verdict.
Return ==
  /\ pc = "verdict"
  /\ pc' = "done" /\ work' = "removed"
  /\ resolved' = FullyPassed
  /\ UNCHANGED <<given, tree, head, how, markers, passed>>

\* FAULT: no finally clause.
RaisesWithoutCleanup ==
  /\ pc \in Running
  /\ pc' = "raised"
  /\ UNCHANGED <<given, work, tree, head, how, markers, verdict>>

\* git, the file system or the pytest subprocess raises.
Raises ==
  /\ pc \in Running
  /\ pc' = "raised" /\ work' = "removed"
  /\ UNCHANGED <<given, tree, head, how, markers, verdict>>

Next ==
  \/ Materialize \/ StartRaises \/ ApplyTestPatch
  \/ ApplyP1 \/ RefuseP1 \/ Merge3way \/ Conflict3way \/ Refuse3way
  \/ ApplyP0 \/ RefuseP0 \/ Reset
  \/ RestoreTests \/ StripAutoload
  \/ RunF2P \/ RunP2P \/ Return \/ Raises

Spec == Init /\ [][Next]_vars

\* One thread of straight-line code: git and the file system return or raise.  The
\* wait for the tests is left out: its last communicate() has no timeout, and ends
\* only when no process holds the node's pipe any more (NodeRun).
FairSpec == Spec /\ WF_vars(pc \notin Waiting /\ Next)

-----------------------------------------------------------------------------
\* The variables' types.
TypeOK ==
  /\ pc \in {"start", "done", "raised"} \union Running
  /\ patch \in Patches /\ cures \subseteq Tests
  /\ work \in {"none", "live", "removed"}
  /\ tree \in Trees /\ head \in Trees
  /\ how \in {"not"} \union Rungs /\ markers \in BOOLEAN
  /\ passed \subseteq Tests /\ resolved \in BOOLEAN

\* When the tests run, every file that decides them without being source is
\* HEAD's: the test files of test_patch, and what pytest and CPython load by name,
\* whatever the ladder did.  The exception is a hook that HEAD has not, that the
\* candidate added without git's index hearing of it, and that some ignore file
\* may cover: the strip, which asks the index, does not see that one.
OraclePinned == Testing => \A p \in Pinned : tree[p] = head[p] \/ Overlooked(p)

\* When the tests run, the tree is HEAD's if the candidate was not applied, and if
\* it was, has all of its changes to source and no other -- unless the last rung
\* applied it over a merge's conflicts.
WholeOrNone ==
  Testing => CASE how = "not" -> tree = head
               [] how \in {"p1", "3way"} -> SourcePatched(Stripped)
               [] how = "p0" -> markers \/ SourcePatched(Unstripped)

\* No task is resolved by itself, by a blank candidate or by one that no rung
\* applied; nor by one that was applied whole, its hooks stripped, and leaves a
\* test failing.
ResolvedIsEarned == resolved => how # "not" /\ (Whole => Tests \subseteq cures)

\* However grading ends, no work tree is left behind (a theorem of HarnessProofs).
NoWorkTreeLeft == pc \in {"done", "raised"} => work # "live"

\* Unless a wait for its tests never ends, grading ends, and its work tree does
\* not outlive it.
Termination ==
  []<>(pc \notin Waiting) => <>(pc \in {"done", "raised"} /\ work # "live")

-----------------------------------------------------------------------------
\* run_task_patch's docstring: "A candidate patch that fails to apply leaves the
\* tree at base+test_patch (so the task is simply unresolved, never a crash or a
\* half-applied tree)".  The code does not: the last rung runs on what a
\* conflicted merge wrote, and where it succeeds nothing is reset.
NeverHalfApplied ==
  Testing => tree = head \/ SourcePatched(Stripped) \/ SourcePatched(Unstripped)
=============================================================================
