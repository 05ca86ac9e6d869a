---------------------------- MODULE HarnessProofs ----------------------------
(* Theorems about Harness, for any tree of files, any candidate and any     *)
(* lists of tests; and about NodeRun, for any set of child processes.       *)
EXTENDS Harness, NodeRun, FiniteSetTheorems, TLAPS

Everywhere == {"start", "done", "raised"} \union Running

LEMMA PatchedIsATree ==
  ASSUME NEW t \in Trees, NEW names
  PROVE  Patched(t, names) \in Trees
<1>1. ASSUME NEW p \in Paths PROVE Patched(t, names)[p] \in Contents
  BY DEF Patched, Change, Trees, Contents
<1> QED
  BY <1>1 DEF Patched, Trees

\* The variables keep their types.
THEOREM TypeCorrect == Spec => []TypeOK
<1>1. Init => TypeOK
  <2>1. Bases \subseteq Trees
    BY HarnessAssumption DEF Trees, Contents
  <2> QED
    BY <2>1 DEF Init, TypeOK, Running, Rungs
<1>2. TypeOK /\ [Next]_vars => TypeOK'
  <2> SUFFICES ASSUME TypeOK, [Next]_vars PROVE TypeOK'
    OBVIOUS
  <2> USE DEF TypeOK, Running, Rungs, given, verdict
  <2>1. CASE Materialize \/ StartRaises
    BY <2>1 DEF Materialize, StartRaises
  <2>2. CASE ApplyTestPatch
    <3>1. tree' \in Trees
      BY <2>2 DEF ApplyTestPatch, Trees, Contents
    <3> QED
      BY <2>2, <3>1 DEF ApplyTestPatch
  <2>3. CASE ApplyP1 \/ Merge3way \/ ApplyP0
    BY <2>3, PatchedIsATree DEF ApplyP1, Merge3way, ApplyP0, Applies
  <2>4. CASE RefuseP1 \/ Refuse3way \/ RefuseP0
    BY <2>4 DEF RefuseP1, Refuse3way, RefuseP0, Refuses
  <2>5. CASE Conflict3way
    <3>1. tree' \in Trees
      <4>1. PICK C \in SUBSET DOMAIN patch :
              tree' = [p \in Paths |-> IF p \in C THEN "conflict"
                                       ELSE Patched(tree, Stripped)[p]]
        BY <2>5 DEF Conflict3way
      <4>2. Patched(tree, Stripped) \in Trees
        BY PatchedIsATree
      <4> QED
        BY <4>1, <4>2 DEF Trees, Contents
    <3> QED
      BY <2>5, <3>1 DEF Conflict3way
  <2>6. CASE Reset
    BY <2>6 DEF Reset
  <2>7. CASE RestoreTests
    <3>1. tree' \in Trees
      BY <2>7 DEF RestoreTests, Trees
    <3> QED
      BY <2>7, <3>1 DEF RestoreTests
  <2>8. CASE StripAutoload
    <3>1. tree' \in Trees
      BY <2>8 DEF StripAutoload, Trees
    <3> QED
      BY <2>8, <3>1 DEF StripAutoload
  <2>9. CASE RunF2P \/ RunP2P
    BY <2>9 DEF RunF2P, RunP2P, RunNodes, Tests
  <2>10. CASE Return
    BY <2>10 DEF Return, FullyPassed
  <2>11. CASE Raises
    BY <2>11 DEF Raises
  <2>12. CASE UNCHANGED vars
    BY <2>12 DEF vars
  <2> QED
    BY <2>1, <2>2, <2>3, <2>4, <2>5, <2>6, <2>7, <2>8, <2>9, <2>10, <2>11, <2>12
       DEF Next
<1> QED
  BY <1>1, <1>2, PTL DEF Spec

-----------------------------------------------------------------------------
\* What the ladder has made of HEAD when it is left, outside the files in gone.
AppliedOutside(gone) ==
  CASE how = "not" -> tree = head
    [] how \in {"p1", "3way"} ->
         \A p \in Paths \ gone : tree[p] = Patched(head, Stripped)[p]
    [] how = "p0" ->
         markers \/ \A p \in Paths \ gone : tree[p] = Patched(head, Unstripped)[p]

\* On the ladder the tree is HEAD's until a rung writes, and only a conflict
\* writes without ending it; past it, each restoration takes its files from HEAD
\* and leaves the rest as the ladder made it.
TreeInv ==
  /\ pc \in {"start", "base", "reset"} => how = "not"
  /\ pc \in {"start", "base", "p1", "3way"} => how = "not" /\ tree = head /\ ~markers
  /\ pc = "p0" => how = "not" /\ (~markers => tree = head)
  /\ pc = "restore" => AppliedOutside({})
  /\ pc = "strip" => /\ AppliedOutside(TestFiles)
                     /\ \A p \in TestFiles : tree[p] = head[p]
  /\ Testing => AppliedOutside(Pinned)
  /\ OraclePinned

LEMMA TreeStep == TypeOK /\ TreeInv /\ [Next]_vars => TreeInv'
  <2> SUFFICES ASSUME TypeOK, TreeInv, [Next]_vars PROVE TreeInv'
    OBVIOUS
  <2>a. /\ tree \in Trees /\ head \in Trees /\ TestFiles \subseteq Paths
        /\ Autoload \subseteq Paths /\ Pinned \subseteq Paths
    BY HarnessAssumption DEF TypeOK, Pinned
  <2> USE DEF TreeInv, OraclePinned, Testing, Waiting, given, verdict
  <2>1. CASE Materialize \/ StartRaises
    BY <2>1 DEF Materialize, StartRaises
  <2>2. CASE ApplyTestPatch
    BY <2>2 DEF ApplyTestPatch, AppliedOutside
  <2>3. CASE ApplyP1 \/ Merge3way
    <3>1. /\ tree = head /\ head' = head /\ how' \in {"p1", "3way"}
          /\ tree' = Patched(head, Stripped) /\ pc' = "restore"
          /\ Patched(head, Stripped)' = Patched(head, Stripped)
      BY <2>3 DEF ApplyP1, Merge3way, Applies, Patched, Change
    <3> QED
      BY <3>1 DEF AppliedOutside
  <2>4. CASE ApplyP0
    <3>1. /\ ~markers => tree = head
          /\ head' = head /\ how' = "p0" /\ markers' = markers
          /\ tree' = Patched(tree, Unstripped) /\ pc' = "restore"
          /\ Patched(head, Unstripped)' = Patched(head, Unstripped)
      BY <2>4 DEF ApplyP0, Applies, Patched, Change
    <3> QED
      BY <3>1 DEF AppliedOutside
  <2>5. CASE RefuseP1 \/ Refuse3way \/ RefuseP0
    BY <2>5 DEF RefuseP1, Refuse3way, RefuseP0, Refuses
  <2>6. CASE Conflict3way
    BY <2>6 DEF Conflict3way
  <2>7. CASE Reset
    BY <2>7 DEF Reset, AppliedOutside
  <2>8. CASE RestoreTests
    <3>1. /\ pc = "restore" /\ pc' = "strip" /\ AppliedOutside({})
          /\ UNCHANGED <<head, how, markers, patch>>
      BY <2>8 DEF RestoreTests
    <3>2. \A p \in Paths : tree'[p] = IF p \in TestFiles THEN head[p] ELSE tree[p]
      BY <2>8 DEF RestoreTests
    <3>3. /\ Patched(head, Stripped)' = Patched(head, Stripped)
          /\ Patched(head, Unstripped)' = Patched(head, Unstripped)
      BY <3>1 DEF Patched, Change, Stripped
    <3>4. how = "not" => tree' = head
      BY <2>8, <2>a, <3>1 DEF RestoreTests, AppliedOutside, Trees
    <3>5. AppliedOutside(TestFiles)'
      <4>1. CASE how = "not"
        BY <4>1, <3>1, <3>4 DEF AppliedOutside
      <4>2. CASE how \in {"p1", "3way"}
        <5>1. \A p \in Paths \ TestFiles : tree'[p] = Patched(head, Stripped)[p]
          BY <4>2, <3>1, <3>2 DEF AppliedOutside
        <5> QED
          BY <4>2, <5>1, <3>1, <3>3 DEF AppliedOutside
      <4>3. CASE how = "p0"
        <5>1. markers \/ \A p \in Paths \ TestFiles :
                            tree'[p] = Patched(head, Unstripped)[p]
          BY <4>3, <3>1, <3>2 DEF AppliedOutside
        <5> QED
          BY <4>3, <5>1, <3>1, <3>3 DEF AppliedOutside
      <4> QED
        BY <4>1, <4>2, <4>3 DEF TypeOK, Rungs
    <3> QED
      BY <2>a, <3>1, <3>2, <3>5
  <2>9. CASE StripAutoload
    <3>1. /\ pc = "strip" /\ pc' = "f2p" /\ AppliedOutside(TestFiles)
          /\ \A p \in TestFiles : tree[p] = head[p]
          /\ UNCHANGED <<head, how, markers, patch>>
      BY <2>9 DEF StripAutoload
    <3>a. PICK ignored \in SUBSET {p \in Autoload : Overlooked(p)} :
            tree' = [p \in Paths |-> IF p \in Autoload \ ignored THEN head[p] ELSE tree[p]]
      BY <2>9 DEF StripAutoload
    <3>2. \A p \in Paths :
            tree'[p] = IF p \in Autoload \ ignored THEN head[p] ELSE tree[p]
      BY <3>a
    <3>3. /\ Patched(head, Stripped)' = Patched(head, Stripped)
          /\ Patched(head, Unstripped)' = Patched(head, Unstripped)
      BY <3>1 DEF Patched, Change, Stripped
    <3>4. how = "not" => tree' = head
      <4>1. how = "not" => ignored = {}
        BY DEF Overlooked, Untracked
      <4> QED
        BY <4>1, <2>a, <3>1, <3>a DEF AppliedOutside, Trees
    <3>5. AppliedOutside(Pinned)'
      <4>1. CASE how = "not"
        BY <4>1, <3>1, <3>4 DEF AppliedOutside
      <4>2. CASE how \in {"p1", "3way"}
        <5>1. \A p \in Paths \ Pinned : tree'[p] = Patched(head, Stripped)[p]
          BY <4>2, <3>1, <3>2 DEF AppliedOutside, Pinned
        <5> QED
          BY <4>2, <5>1, <3>1, <3>3 DEF AppliedOutside
      <4>3. CASE how = "p0"
        <5>1. markers \/ \A p \in Paths \ Pinned :
                            tree'[p] = Patched(head, Unstripped)[p]
          BY <4>3, <3>1, <3>2 DEF AppliedOutside, Pinned
        <5> QED
          BY <4>3, <5>1, <3>1, <3>3 DEF AppliedOutside
      <4> QED
        BY <4>1, <4>2, <4>3 DEF TypeOK, Rungs
    <3>6. ASSUME NEW p \in Pinned, tree'[p] # head'[p] PROVE Overlooked(p)'
      <4>1. p \in ignored /\ Overlooked(p)
        BY <2>a, <3>1, <3>2, <3>6 DEF Pinned
      <4>2. PICK i \in IgnoreFiles : tree[i] # "absent"
        BY <4>1 DEF Overlooked
      <4>3. tree'[i] # "absent"
        BY <4>2, <3>2, HarnessAssumption
      <4>4. Untracked(p)'
        BY <4>1, <3>1 DEF Overlooked, Untracked
      <4> QED
        BY <4>3, <4>4 DEF Overlooked
    <3> QED
      BY <3>1, <3>5, <3>6
  <2>10. CASE RunF2P \/ RunP2P
    <3>1. /\ Testing /\ pc' \in {"p2p", "verdict"}
          /\ UNCHANGED <<tree, head, how, markers, patch>>
      BY <2>10 DEF RunF2P, RunP2P, RunNodes
    <3>2. AppliedOutside(Pinned)' = AppliedOutside(Pinned)
      BY <3>1 DEF AppliedOutside, Patched, Change
    <3>3. \A p : Overlooked(p)' = Overlooked(p)
      BY <3>1 DEF Overlooked, Untracked
    <3> QED
      BY <3>1, <3>2, <3>3
  <2>11. CASE Return \/ Raises
    BY <2>11 DEF Return, Raises
  <2>12. CASE UNCHANGED vars
    <3>1. \A gone : AppliedOutside(gone)' = AppliedOutside(gone)
      BY <2>12 DEF vars, AppliedOutside, Patched, Change
    <3>2. \A p : Overlooked(p)' = Overlooked(p)
      BY <2>12 DEF vars, Overlooked, Untracked
    <3> QED
      BY <2>12, <3>1, <3>2 DEF vars
  <2> QED
    BY <2>1, <2>2, <2>3, <2>4, <2>5, <2>6, <2>7, <2>8, <2>9, <2>10, <2>11, <2>12
       DEF Next

LEMMA TreeInvariant == Spec => []TreeInv
<1>1. Init => TreeInv
  BY DEF Init, TreeInv, OraclePinned, Testing, Waiting
<1> QED
  BY <1>1, TreeStep, TypeCorrect, PTL DEF Spec

\* The tests run against HEAD's test files and autoloaded files, but for a hook the
\* candidate added that git may ignore.
THEOREM OracleIsPinned == Spec => []OraclePinned
<1>1. TreeInv => OraclePinned
  BY DEF TreeInv
<1> QED
  BY <1>1, TreeInvariant, PTL

LEMMA TreeInvIsWhole == TypeOK /\ TreeInv => WholeOrNone
<1> SUFFICES ASSUME TypeOK, TreeInv, Testing PROVE WholeOrNone
  BY DEF WholeOrNone
<1>1. AppliedOutside(Pinned)
  BY DEF TreeInv
<1>2. how \in {"not", "p1", "3way", "p0"}
  BY DEF TypeOK, Rungs
<1> QED
  BY <1>1, <1>2 DEF WholeOrNone, AppliedOutside, SourcePatched

\* A candidate is graded whole or not at all, short of a conflict.
THEOREM CandidateIsWholeOrNone == Spec => []WholeOrNone
  BY TreeInvariant, TypeCorrect, TreeInvIsWhole, PTL

-----------------------------------------------------------------------------
\* The tests that passed could, on the tree they ran on.
PassInv ==
  /\ pc \notin {"p2p", "verdict", "done", "raised"} => passed = {}
  /\ pc \in {"p2p", "verdict"} => passed \subseteq MayPass
  /\ pc # "done" => ~resolved
  /\ ResolvedIsEarned

LEMMA PassStep == TypeOK /\ TreeInv /\ PassInv /\ [Next]_vars => PassInv'
  <2> SUFFICES ASSUME TypeOK, TreeInv, PassInv, [Next]_vars PROVE PassInv'
    OBVIOUS
  <2> USE DEF PassInv, given, verdict
  <2>1. CASE \/ Materialize \/ StartRaises \/ ApplyTestPatch
             \/ ApplyP1 \/ RefuseP1 \/ Merge3way \/ Conflict3way \/ Refuse3way
             \/ ApplyP0 \/ RefuseP0 \/ Reset \/ RestoreTests \/ StripAutoload \/ Raises
    <3>1. /\ pc \notin {"done"} /\ pc' # "done" /\ UNCHANGED <<passed, resolved>>
          /\ pc' \notin {"p2p", "verdict"}
          /\ pc' # "raised" => pc \notin {"p2p", "verdict", "done", "raised"}
      BY <2>1 DEF Materialize, StartRaises, ApplyTestPatch, ApplyP1, RefuseP1, Merge3way,
           Conflict3way, Refuse3way, ApplyP0, RefuseP0, Reset, RestoreTests,
           StripAutoload, Raises, Applies, Refuses, Running, Rungs
    <3> QED
      BY <3>1 DEF ResolvedIsEarned
  <2>2. CASE RunF2P \/ RunP2P
    <3>1. UNCHANGED <<tree, head, patch, cures, resolved, how>> /\ pc' \in {"p2p", "verdict"}
      BY <2>2 DEF RunF2P, RunP2P, RunNodes
    <3>2. MayPass' = MayPass
      BY <3>1 DEF MayPass, Whole, SourcePatched, Patched, Change
    <3>3. passed' \subseteq MayPass
      BY <2>2 DEF RunF2P, RunP2P, RunNodes
    <3> QED
      BY <2>2, <3>1, <3>2, <3>3 DEF ResolvedIsEarned, RunF2P, RunP2P, RunNodes
  <2>3. CASE Return
    <3>1. /\ pc = "verdict" /\ pc' = "done" /\ passed \subseteq MayPass
          /\ UNCHANGED <<tree, head, patch, cures, how>> /\ resolved' = FullyPassed
      BY <2>3 DEF Return
    <3>2. ASSUME FullyPassed PROVE F2P \subseteq passed /\ P2P \subseteq passed
      <4>1. IsFiniteSet(F2P) /\ IsFiniteSet(P2P)
        BY HarnessAssumption
      <4>2. /\ passed \intersect F2P \in SUBSET F2P
            /\ passed \intersect P2P \in SUBSET P2P
        OBVIOUS
      <4>3. passed \intersect F2P = F2P /\ passed \intersect P2P = P2P
        BY <3>2, <4>1, <4>2, FS_Subset DEF FullyPassed
      <4> QED
        BY <4>3
    <3>3. ASSUME FullyPassed PROVE tree # head /\ (Whole => Tests \subseteq cures)
      <4>1. tree # head
        BY <3>1, <3>2, <3>3, HarnessAssumption DEF MayPass
      <4> QED
        BY <3>1, <3>2, <3>3, <4>1 DEF MayPass, Tests
    <3>4. how = "not" => tree = head
      BY <3>1 DEF TreeInv, Testing, Waiting, AppliedOutside
    <3>5. Whole' = Whole
      BY <3>1 DEF Whole, SourcePatched, Patched, Change
    <3> QED
      BY <3>1, <3>3, <3>4, <3>5 DEF ResolvedIsEarned
  <2>4. CASE UNCHANGED vars
    <3>1. MayPass' = MayPass /\ Whole' = Whole
      BY <2>4 DEF vars, MayPass, Whole, SourcePatched, Patched, Change
    <3> QED
      BY <2>4, <3>1 DEF vars, ResolvedIsEarned
  <2> QED
    BY <2>1, <2>2, <2>3, <2>4 DEF Next

\* A verdict of resolved has an applied candidate behind it, under which, if it
\* was applied whole, every test of the task passes.
THEOREM ResolutionIsEarned == Spec => []ResolvedIsEarned
<1>1. Init => PassInv
  BY DEF Init, PassInv, ResolvedIsEarned
<1>2. PassInv => ResolvedIsEarned
  BY DEF PassInv
<1> QED
  BY <1>1, <1>2, PassStep, TreeInvariant, TypeCorrect, PTL DEF Spec

-----------------------------------------------------------------------------
\* There is no work tree before grading has begun, and none at its end.
WorkInv == (pc = "start" => work = "none") /\ NoWorkTreeLeft

\* However grading ends, by a verdict or by any exception, its work tree is gone.
THEOREM WorkTreeIsRemoved == Spec => []NoWorkTreeLeft
<1>1. Init => WorkInv
  BY DEF Init, WorkInv, NoWorkTreeLeft
<1>2. WorkInv /\ [Next]_vars => WorkInv'
  <2> SUFFICES ASSUME WorkInv, [Next]_vars PROVE WorkInv'
    OBVIOUS
  <2> USE DEF WorkInv, NoWorkTreeLeft
  <2>1. CASE Materialize \/ StartRaises \/ ApplyTestPatch
    BY <2>1 DEF Materialize, StartRaises, ApplyTestPatch
  <2>2. CASE ApplyP1 \/ Merge3way \/ ApplyP0
    BY <2>2 DEF ApplyP1, Merge3way, ApplyP0, Applies
  <2>3. CASE RefuseP1 \/ Refuse3way \/ RefuseP0
    BY <2>3 DEF RefuseP1, Refuse3way, RefuseP0, Refuses
  <2>4. CASE Conflict3way \/ Reset \/ RestoreTests \/ StripAutoload
    BY <2>4 DEF Conflict3way, Reset, RestoreTests, StripAutoload
  <2>5. CASE RunF2P \/ RunP2P
    BY <2>5 DEF RunF2P, RunP2P, RunNodes
  <2>6. CASE Return \/ Raises
    BY <2>6 DEF Return, Raises
  <2>7. CASE UNCHANGED vars
    BY <2>7 DEF vars
  <2> QED
    BY <2>1, <2>2, <2>3, <2>4, <2>5, <2>6, <2>7 DEF Next
<1>3. WorkInv => NoWorkTreeLeft
  BY DEF WorkInv
<1> QED
  BY <1>1, <1>2, <1>3, PTL DEF Spec

-----------------------------------------------------------------------------
(* One test node, for any number of processes the tests may start. *)
(* The variables keep their types: in particular a report without the node's *)
(* case becomes a status that grading knows.                                 *)
LEMMA NodeRunTypes == NodeSpec => []NodeRunTypeOK
<1>1. NodeInit => NodeRunTypeOK
  BY DEF NodeInit, NodeRunTypeOK
<1>2. NodeRunTypeOK /\ [NodeNext]_nodeVars => NodeRunTypeOK'
  <2> SUFFICES ASSUME NodeRunTypeOK, [NodeNext]_nodeVars
               PROVE  NodeRunTypeOK'
    OBVIOUS
  <2> USE DEF NodeRunTypeOK
  <2>1. ASSUME NEW c \in Children, NEW where \in {"group", "own"}, NEW kept \in BOOLEAN,
               Spawn(c, where, kept)
        PROVE  NodeRunTypeOK'
    BY <2>1 DEF Spawn
  <2>2. ASSUME NEW c \in Children, ChildExits(c)
        PROVE  NodeRunTypeOK'
    BY <2>2 DEF ChildExits
  <2>3. CASE StartReport
    BY <2>3 DEF StartReport
  <2>4. ASSUME NEW outcome \in Statuses \cup {"missing"}, FinishReport(outcome)
        PROVE  NodeRunTypeOK'
    BY <2>4 DEF FinishReport
  <2>5. CASE PytestExits
    BY <2>5 DEF PytestExits
  <2>6. CASE Returns
    BY <2>6 DEF Returns, tests
  <2>7. CASE TimesOut
    BY <2>7 DEF TimesOut, KillGroup
  <2>8. CASE TimesOutAgain
    BY <2>8 DEF TimesOutAgain, tests
  <2>9. CASE FailTimedOut
    BY <2>9 DEF FailTimedOut, tests, Statuses
  <2>10. CASE ReadReport
    BY <2>10 DEF ReadReport, tests, Statuses
  <2>11. CASE UNCHANGED nodeVars
    BY <2>11 DEF nodeVars
  <2> QED
    BY <2>1, <2>2, <2>3, <2>4, <2>5, <2>6, <2>7, <2>8, <2>9, <2>10, <2>11 DEF NodeNext
<1> QED
  BY <1>1, <1>2, PTL DEF NodeSpec

-----------------------------------------------------------------------------
(* What PassingIsReported rests on: pytest is killed by a timeout only, a     *)
(* report is read of one that ended by itself, and there is no status before  *)
(* the end.                                                                  *)
ReadInv ==
  /\ phase = "wait" => pytest # "killed"
  /\ phase = "read" => pytest = "exited"
  /\ phase # "done" => status = "none"
  /\ PassingIsReported

(* A node passes only by the whole report of a pytest that ended by itself,   *)
(* whatever the processes it started do and whenever the timeouts strike.     *)
THEOREM PassIsReported == NodeSpec => []PassingIsReported
<1>1. NodeInit => ReadInv
  BY DEF NodeInit, ReadInv, PassingIsReported, Passing
<1>2. NodeRunTypeOK /\ ReadInv /\ [NodeNext]_nodeVars => ReadInv'
  <2> SUFFICES ASSUME NodeRunTypeOK, ReadInv, [NodeNext]_nodeVars
               PROVE  ReadInv'
    OBVIOUS
  <2> USE DEF NodeRunTypeOK, ReadInv, PassingIsReported, Passing
  <2>1. ASSUME NEW c \in Children, NEW where \in {"group", "own"}, NEW kept \in BOOLEAN,
               Spawn(c, where, kept)
        PROVE  ReadInv'
    BY <2>1 DEF Spawn
  <2>2. ASSUME NEW c \in Children, ChildExits(c)
        PROVE  ReadInv'
    BY <2>2 DEF ChildExits
  <2>3. CASE StartReport
    BY <2>3 DEF StartReport
  <2>4. ASSUME NEW outcome \in Statuses \cup {"missing"}, FinishReport(outcome)
        PROVE  ReadInv'
    BY <2>4 DEF FinishReport
  <2>5. CASE PytestExits
    BY <2>5 DEF PytestExits
  <2>6. CASE Returns
    BY <2>6 DEF Returns, Closed, tests
  <2>7. CASE TimesOut
    BY <2>7 DEF TimesOut, KillGroup
  <2>8. CASE TimesOutAgain
    BY <2>8 DEF TimesOutAgain, tests
  <2>9. CASE FailTimedOut
    BY <2>9 DEF FailTimedOut, tests
  <2>10. CASE ReadReport
    BY <2>10 DEF ReadReport, tests
  <2>11. CASE UNCHANGED nodeVars
    BY <2>11 DEF nodeVars
  <2> QED
    BY <2>1, <2>2, <2>3, <2>4, <2>5, <2>6, <2>7, <2>8, <2>9, <2>10, <2>11 DEF NodeNext
<1>3. ReadInv => PassingIsReported
  BY DEF ReadInv
<1> QED
  BY <1>1, <1>2, <1>3, NodeRunTypes, PTL DEF NodeSpec

-----------------------------------------------------------------------------
(* After a timeout no process of pytest's group is left, whatever it was      *)
(* starting: only a process that had left the session can start another.      *)
THEOREM GroupIsGone == NodeSpec => []TimedOutGroupIsGone
<1>1. NodeInit => TimedOutGroupIsGone
  BY DEF NodeInit, TimedOutGroupIsGone
<1>2. NodeRunTypeOK /\ TimedOutGroupIsGone /\ [NodeNext]_nodeVars => TimedOutGroupIsGone'
  <2> SUFFICES ASSUME NodeRunTypeOK, TimedOutGroupIsGone, [NodeNext]_nodeVars
               PROVE  TimedOutGroupIsGone'
    OBVIOUS
  <2> USE DEF NodeRunTypeOK, TimedOutGroupIsGone
  <2>1. ASSUME NEW c \in Children, NEW where \in {"group", "own"}, NEW kept \in BOOLEAN,
               Spawn(c, where, kept)
        PROVE  TimedOutGroupIsGone'
    BY <2>1 DEF Spawn, Alive
  <2>2. ASSUME NEW c \in Children, ChildExits(c)
        PROVE  TimedOutGroupIsGone'
    BY <2>2 DEF ChildExits
  <2>3. CASE TimesOut
    BY <2>3 DEF TimesOut, KillGroup
  <2>4. CASE TimesOutAgain
    BY <2>4 DEF TimesOutAgain, tests
  <2>5. CASE \/ StartReport \/ PytestExits
             \/ \E outcome \in Statuses \cup {"missing"} : FinishReport(outcome)
    BY <2>5 DEF StartReport, FinishReport, PytestExits
  <2>6. CASE Returns \/ FailTimedOut \/ ReadReport
    BY <2>6 DEF Returns, FailTimedOut, ReadReport
  <2>7. CASE UNCHANGED nodeVars
    BY <2>7 DEF nodeVars
  <2> QED
    BY <2>1, <2>2, <2>3, <2>4, <2>5, <2>6, <2>7 DEF NodeNext
<1> QED
  BY <1>1, <1>2, NodeRunTypes, PTL DEF NodeSpec
=============================================================================
