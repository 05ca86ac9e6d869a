---------------------------- MODULE GoldenSetProofs ----------------------------
(***************************************************************************)
(* Theorems about the making of the golden set: GoldenSet, for any          *)
(* directories, fixtures and number of shards, however often the author     *)
(* edits, builds and commits; and Harden, for any tree and changed lines.   *)
(***************************************************************************)
EXTENDS GoldenSet, Harden, Induction, FiniteSetTheorems, TLAPS

\* The records of a shard are records.
LEMMA RecordsAreTyped ==
  ASSUME NEW c, NEW t \in Task
  PROVE  [task |-> t, resolved |-> Resolves(c, t)] \in Record
<1>1. Resolves(c, t) \in BOOLEAN
  BY DEF Resolves
<1> QED
  BY <1>1 DEF Record

\* The variables keep their types: a task that is kept was built and validated
\* on versions, not on a directory that had gone.
LEMMA TypeCorrect == Spec => []TypeOK
<1>1. Init => TypeOK
  BY GoldenSetAssumption DEF Init, TypeOK, Record
<1>2. TypeOK /\ [Next]_vars => TypeOK'
  <2> SUFFICES ASSUME TypeOK, [Next]_vars PROVE TypeOK'
    OBVIOUS
  <2> USE GoldenSetAssumption DEF TypeOK, author, files, building, ci
  <2>1. ASSUME NEW d \in Dirs, NEW v \in Versions \cup {Absent}, Edit(d, v)
        PROVE  TypeOK'
    BY <2>1 DEF Edit
  <2>2. ASSUME NEW d \in Dirs, BuildTask(d)
        PROVE  TypeOK'
    BY <2>2 DEF BuildTask
  <2>3. ASSUME NEW d \in Dirs, ValidateTask(d)
        PROVE  TypeOK'
    <3>1. [id |-> IdOf[d], dir |-> d, version |-> made, base |-> tree[d]] \in Task
      BY <2>3 DEF ValidateTask, Task
    <3> QED
      BY <2>3, <3>1 DEF ValidateTask, Accept
  <2>4. CASE StartBuild \/ BuildEnds
    BY <2>4 DEF StartBuild, BuildEnds
  <2>5. CASE WriteDataset \/ WriteSolutions
    BY <2>5 DEF WriteDataset, WriteSolutions
  <2>6. CASE Commit
    BY <2>6 DEF Commit
  <2>7. ASSUME NEW k \in Shards, GradeShard(k)
        PROVE  TypeOK'
    <3> DEFINE records == {[task |-> t, resolved |-> Resolves(commit, t)] :
                             t \in SelectShard(commit.dataset, k)}
    <3>1. SelectShard(commit.dataset, k) \subseteq Task
      BY DEF SelectShard
    <3>2. records \in SUBSET Record
      BY <3>1, RecordsAreTyped
    <3>3. artifacts' = artifacts \/ artifacts' = [artifacts EXCEPT ![k] = records]
      BY <2>7 DEF GradeShard
    <3>4. artifacts' \in [Shards -> SUBSET Record]
      BY <3>2, <3>3
    <3>5. shard' \in [Shards -> {"wait", "green", "red"}]
      BY <2>7 DEF GradeShard
    <3> QED
      BY <2>7, <3>4, <3>5 DEF GradeShard
  <2>8. ASSUME NEW k \in Shards, ShardFails(k)
        PROVE  TypeOK'
    BY <2>8 DEF ShardFails
  <2>9. CASE ExactGoldGate
    BY <2>9 DEF ExactGoldGate
  <2>10. CASE UNCHANGED vars
    BY <2>10 DEF vars
  <2> QED
    BY <2>1, <2>2, <2>3, <2>4, <2>5, <2>6, <2>7, <2>8, <2>9, <2>10 DEF Next
<1> QED
  BY <1>1, <1>2, PTL DEF Spec

-----------------------------------------------------------------------------
\* What a build has made so far is already fit to be written, duplicates apart.
BuildInv ==
  /\ made # Absent => made \in GoodMeta
  /\ \A t \in tasks : t.version \in GoodMeta /\ <<t.version, t.base>> \in Valid
  /\ DatasetIsValid

\* A build leaves a dataset of valid tasks with an id each, whatever is edited
\* while it runs and wherever it is killed.
THEOREM BuildsAreValid == Spec => []DatasetIsValid
<1>1. Init => BuildInv
  BY DEF Init, BuildInv, DatasetIsValid
<1>2. TypeOK /\ BuildInv /\ [Next]_vars => BuildInv'
  <2> SUFFICES ASSUME TypeOK, BuildInv, [Next]_vars PROVE BuildInv'
    OBVIOUS
  <2> USE DEF BuildInv, DatasetIsValid, author, files, building, ci
  <2>1. ASSUME NEW d \in Dirs, NEW v \in Versions \cup {Absent}, Edit(d, v)
        PROVE  BuildInv'
    BY <2>1 DEF Edit
  <2>2. ASSUME NEW d \in Dirs, BuildTask(d)
        PROVE  BuildInv'
    BY <2>2 DEF BuildTask
  <2>3. ASSUME NEW d \in Dirs, ValidateTask(d)
        PROVE  BuildInv'
    BY <2>3 DEF ValidateTask, Accept
  <2>4. CASE StartBuild \/ BuildEnds
    BY <2>4 DEF StartBuild, BuildEnds
  <2>5. CASE WriteDataset
    BY <2>5 DEF WriteDataset, UniqueIds
  <2>6. CASE WriteSolutions \/ Commit \/ ExactGoldGate
    BY <2>6 DEF WriteSolutions, Commit, ExactGoldGate
  <2>7. ASSUME NEW k \in Shards, GradeShard(k) \/ ShardFails(k)
        PROVE  BuildInv'
    BY <2>7 DEF GradeShard, ShardFails
  <2>8. CASE UNCHANGED vars
    BY <2>8 DEF vars
  <2> QED
    BY <2>1, <2>2, <2>3, <2>4, <2>5, <2>6, <2>7, <2>8 DEF Next
<1>3. BuildInv => DatasetIsValid
  BY DEF BuildInv
<1> QED
  BY <1>1, <1>2, <1>3, TypeCorrect, PTL DEF Spec

-----------------------------------------------------------------------------
\* Only finite sets of tasks are ever built, so that a task has a rank.
FiniteInv == IsFiniteSet(tasks) /\ IsFiniteSet(dataset) /\ IsFiniteSet(commit.dataset)

LEMMA FinitelyManyTasks == Spec => []FiniteInv
<1>1. Init => FiniteInv
  BY FS_EmptySet DEF Init, FiniteInv
<1>2. FiniteInv /\ [Next]_vars => FiniteInv'
  <2> SUFFICES ASSUME FiniteInv, [Next]_vars PROVE FiniteInv'
    OBVIOUS
  <2> USE DEF FiniteInv, author, files, building, ci
  <2>1. ASSUME NEW d \in Dirs, ValidateTask(d)
        PROVE  FiniteInv'
    BY <2>1, FS_AddElement DEF ValidateTask, Accept
  <2>2. CASE StartBuild \/ BuildEnds
    BY <2>2, FS_EmptySet DEF StartBuild, BuildEnds
  <2>3. CASE WriteDataset \/ WriteSolutions \/ Commit \/ ExactGoldGate
    BY <2>3 DEF WriteDataset, WriteSolutions, Commit, ExactGoldGate
  <2>4. ASSUME NEW k \in Shards, GradeShard(k) \/ ShardFails(k)
        PROVE  FiniteInv'
    BY <2>4 DEF GradeShard, ShardFails
  <2>5. ASSUME NEW d \in Dirs,
               BuildTask(d) \/ \E v \in Versions \cup {Absent} : Edit(d, v)
        PROVE  FiniteInv'
    BY <2>5 DEF BuildTask, Edit
  <2>6. CASE UNCHANGED vars
    BY <2>6 DEF vars
  <2> QED
    BY <2>1, <2>2, <2>3, <2>4, <2>5, <2>6 DEF Next
<1> QED
  BY <1>1, <1>2, PTL DEF Spec

\* select_shard deals every task of a dataset to exactly one shard.
LEMMA EveryTaskHasAShard ==
  ASSUME NEW set, IsFiniteSet(set), NEW t \in set
  PROVE  \E k \in Shards : \A j \in Shards : t \in SelectShard(set, j) <=> j = k
<1> DEFINE below == {s \in set : s.id < t.id}
<1>1. Rank(set, t) \in Nat
  <2>1. IsFiniteSet(below)
    BY FS_Subset
  <2> QED
    BY <2>1, FS_CardinalityType DEF Rank
<1>2. Rank(set, t) % NumShards \in Shards
  BY <1>1, GoldenSetAssumption DEF Shards
<1> WITNESS Rank(set, t) % NumShards \in Shards
<1> QED
  BY <1>2 DEF SelectShard

Records(c, k) ==
  {[task |-> t, resolved |-> Resolves(c, t)] : t \in SelectShard(c.dataset, k)}

\* A green shard's artifact holds the records of its tasks on this commit, all
\* of them resolved, and there is no verdict before every shard is green.
GateInv ==
  /\ \A k \in Shards : shard[k] = "green" =>
       artifacts[k] = Records(commit, k) /\ \A r \in artifacts[k] : r.resolved
  /\ gate # "none" => AllGreen
  /\ gate = "pass" => \E k \in Shards : artifacts[k] # {}

LEMMA GateInvHolds == Spec => []GateInv
<1>1. Init => GateInv
  BY DEF Init, GateInv
<1>2. TypeOK /\ GateInv /\ [Next]_vars => GateInv'
  <2> SUFFICES ASSUME TypeOK, GateInv, [Next]_vars PROVE GateInv'
    OBVIOUS
  <2> USE DEF GateInv, AllGreen, author, files, building, ci
  <2>1. CASE UNCHANGED ci
    BY <2>1
  <2>2. CASE Commit
    BY <2>2 DEF Commit, TypeOK
  <2>3. ASSUME NEW k \in Shards, GradeShard(k)
        PROVE  GateInv'
    <3>1. /\ gate = "none" /\ gate' = gate /\ commit' = commit
          /\ \/ /\ \A r \in Records(commit, k) : r.resolved
                /\ shard' = [shard EXCEPT ![k] = "green"]
                /\ artifacts' = [artifacts EXCEPT ![k] = Records(commit, k)]
             \/ shard' = [shard EXCEPT ![k] = "red"] /\ artifacts' = artifacts
      BY <2>3 DEF GradeShard, Records
    <3>2. ASSUME NEW j \in Shards, shard'[j] = "green"
          PROVE  artifacts'[j] = Records(commit, j) /\ \A r \in artifacts'[j] : r.resolved
      BY <3>1, <3>2 DEF TypeOK
    <3>3. \A j \in Shards : Records(commit, j)' = Records(commit, j)
      BY <3>1, <2>3 DEF GradeShard, Records
    <3> QED
      BY <3>1, <3>2, <3>3
  <2>4. ASSUME NEW k \in Shards, ShardFails(k)
        PROVE  GateInv'
    BY <2>4 DEF ShardFails, TypeOK
  <2>5. CASE ExactGoldGate
    BY <2>5 DEF ExactGoldGate, TypeOK
  <2>6. [Next]_vars => \/ UNCHANGED ci \/ Commit \/ ExactGoldGate
                       \/ \E k \in Shards : GradeShard(k) \/ ShardFails(k)
    BY DEF Next, vars, Edit, BuildTask, ValidateTask, Accept, StartBuild, WriteDataset,
           WriteSolutions, BuildEnds
  <2> QED
    BY <2>1, <2>2, <2>3, <2>4, <2>5, <2>6
<1> QED
  BY <1>1, <1>2, TypeCorrect, PTL DEF Spec

\* A green gate vouches for every task of the commit, each graded by one shard,
\* whichever shards failed before and were run again.
THEOREM GreenIsWhole == Spec => []GreenGateCoversTheCommit
<1>1. TypeOK /\ FiniteInv /\ GateInv => GreenGateCoversTheCommit
  <2> SUFFICES ASSUME TypeOK, FiniteInv, GateInv, gate = "pass"
               PROVE  /\ commit.dataset # {}
                      /\ \A t \in commit.dataset :
                           /\ \E k \in Shards :
                                {j \in Shards : \E r \in artifacts[j] : r.task = t} = {k}
                           /\ \E s \in commit.solutions :
                                /\ s.id = t.id
                                /\ <<s.version, commit.tree[SourceDir(commit.tree, t.id)]>> \in Cures
    BY DEF GreenGateCoversTheCommit
  <2>1. \A k \in Shards : /\ artifacts[k] = Records(commit, k)
                          /\ \A r \in artifacts[k] : r.resolved
    BY DEF GateInv, AllGreen
  <2>2. commit.dataset # {}
    BY <2>1 DEF GateInv, Records, SelectShard
  <2>3. ASSUME NEW t \in commit.dataset
        PROVE  /\ \E k \in Shards :
                    {j \in Shards : \E r \in artifacts[j] : r.task = t} = {k}
               /\ \E s \in commit.solutions :
                    /\ s.id = t.id
                    /\ <<s.version, commit.tree[SourceDir(commit.tree, t.id)]>> \in Cures
    <3>1. PICK k \in Shards :
            \A j \in Shards : t \in SelectShard(commit.dataset, j) <=> j = k
      BY EveryTaskHasAShard DEF FiniteInv
    <3>2. [task |-> t, resolved |-> Resolves(commit, t)] \in artifacts[k]
      BY <2>1, <3>1 DEF Records
    <3>3. ASSUME NEW j \in Shards, NEW r \in artifacts[j], r.task = t
          PROVE  j = k
      <4>1. r \in Records(commit, j)
        BY <2>1
      <4>2. PICK u \in SelectShard(commit.dataset, j) :
              r = [task |-> u, resolved |-> Resolves(commit, u)]
        BY <4>1 DEF Records
      <4>3. u = t
        BY <4>2, <3>3
      <4> QED
        BY <4>2, <4>3, <3>1
    <3>4. Resolves(commit, t)
      BY <2>1, <3>2
    <3>5. {j \in Shards : \E r \in artifacts[j] : r.task = t} = {k}
      BY <3>2, <3>3
    <3> QED
      BY <3>4, <3>5 DEF Resolves, PatchesFor
  <2> QED
    BY <2>2, <2>3
<1> QED
  BY <1>1, TypeCorrect, FinitelyManyTasks, GateInvHolds, PTL

-----------------------------------------------------------------------------
(* Hardening, for any file, fix and outcome of the tests. *)
\* A tree's size and spans are numbers.
LEMMA TreeFacts ==
  ASSUME NEW nodes \in Programs
  PROVE  \E size \in Nat :
           /\ DOMAIN nodes = 1..size
           /\ \A m \in 1..size : /\ nodes[m].until \in m..size
                                 /\ nodes[m].first \in Int /\ nodes[m].last \in Int
           /\ \A m \in 1..size : \A n \in 1..size :
                m < n /\ n <= nodes[m].until => nodes[n].until <= nodes[m].until
<1> DEFINE size == Cardinality(DOMAIN nodes)
<1>1. /\ size \in Nat /\ DOMAIN nodes = 1..size
      /\ \A m \in 1..size :
           /\ nodes[m].until \in m..size /\ nodes[m].first \in Int /\ nodes[m].last \in Int
           /\ \A n \in (m + 1)..nodes[m].until : nodes[n].until <= nodes[m].until
  BY HardenAssumption DEF IsTree
<1> HIDE DEF size
<1>2. ASSUME NEW m \in 1..size, NEW n \in 1..size, m < n, n <= nodes[m].until
      PROVE  nodes[n].until <= nodes[m].until
  <2>1. n \in (m + 1)..nodes[m].until
    BY <1>1, <1>2
  <2> QED
    BY <1>1, <2>1
<1> QED
  BY <1>1, <1>2

\* Children first is an order of a tree's nodes.
LEMMA BeforeIsAnOrder ==
  ASSUME program \in Programs
  PROVE  /\ \A a \in DOMAIN program : ~ Before(a, a)
         /\ \A a, b \in DOMAIN program : a = b \/ Before(a, b) \/ Before(b, a)
         /\ \A a, b, c \in DOMAIN program : Before(a, b) /\ Before(b, c) => Before(a, c)
<1>1. PICK size \in Nat :
           /\ DOMAIN program = 1..size
           /\ \A m \in 1..size : program[m].until \in m..size
           /\ \A m \in 1..size : \A n \in 1..size :
                m < n /\ n <= program[m].until => program[n].until <= program[m].until
  BY TreeFacts
<1>2. \A m \in 1..size : program[m].until \in Int /\ m \in Int
  BY <1>1
<1>3. \A a, b, c \in 1..size : Under(a, b) /\ Under(b, c) => Under(a, c)
  BY <1>1, <1>2 DEF Under
<1>4. \A a, b, c \in 1..size : a < b /\ b < c /\ Under(c, a) => Under(b, a)
  BY <1>1, <1>2 DEF Under
<1>5. \A a, b \in 1..size : Under(a, b) => b < a
  BY DEF Under
<1>6. \A a \in 1..size : ~ Before(a, a)
  BY <1>2, <1>5 DEF Before
<1>7. \A a, b \in 1..size : a = b \/ Before(a, b) \/ Before(b, a)
  BY <1>2, <1>5 DEF Before
<1>8. ASSUME NEW a \in 1..size, NEW b \in 1..size, NEW c \in 1..size, Before(a, b), Before(b, c)
      PROVE  Before(a, c)
  BY <1>2, <1>3, <1>4, <1>5, <1>8 DEF Before
<1> QED
  BY <1>1, <1>6, <1>7, <1>8

\* When a point's turn is.
Turn(n) == Cardinality({m \in Points : Before(m, n)})

LEMMA PointsTakeTurns ==
  ASSUME program \in Programs
  PROVE  /\ CounterN \in Nat /\ CounterN = Cardinality(Points) /\ (Points = {} <=> CounterN = 0)
         /\ \A n \in Points : Turn(n) \in 0..(CounterN - 1)
         /\ \A i \in 0..(CounterN - 1) : \E n \in Points : Turn(n) = i
         /\ \A m, n \in Points : Turn(m) = Turn(n) => m = n
         /\ IsFiniteSet(Points)
<1> DEFINE pred == [n \in Points |-> {m \in Points : Before(m, n)}]
<1>1. PICK size \in Nat : DOMAIN program = 1..size
  BY TreeFacts
<1>2. Points \subseteq DOMAIN program /\ IsFiniteSet(Points)
  <2>1. Points \subseteq 1..size
    BY <1>1 DEF Points
  <2>2. IsFiniteSet(1..size)
    BY FS_Interval
  <2> QED
    BY <1>1, <2>1, <2>2, FS_Subset
<1>3. CounterN = Cardinality(Points)
  <2>1. {n \in DOMAIN program : Counted(program[n], LinesInScope)} = Points
    BY DEF Counted, Hits, Points, Constant
  <2> QED
    BY <2>1 DEF CounterN
<1>4. /\ pred \in [Points -> SUBSET Points]
      /\ \A n \in Points : n \notin pred[n]
      /\ \A m, n \in Points : m \in pred[n] => pred[m] \subseteq pred[n]
      /\ \A m, n \in Points : m = n \/ m \in pred[n] \/ n \in pred[m]
  BY <1>2, BeforeIsAnOrder
<1>5. \A n \in Points : Cardinality(pred[n]) = Turn(n)
  BY DEF Turn
<1> HIDE DEF pred
<1>6. /\ \A n \in Points : Cardinality(pred[n]) \in 0..(Cardinality(Points) - 1)
      /\ \A i \in 0..(Cardinality(Points) - 1) : \E n \in Points : Cardinality(pred[n]) = i
  BY <1>2, <1>4, Ranks
<1>7. CounterN \in Nat /\ (Points = {} <=> CounterN = 0)
  BY <1>2, <1>3, FS_CardinalityType, FS_EmptySet
<1>8. ASSUME NEW m \in Points, NEW n \in Points, m \in pred[n] PROVE Turn(m) < Turn(n)
  <2>1. /\ IsFiniteSet(pred[m]) /\ IsFiniteSet(pred[n]) /\ m \notin pred[m]
        /\ pred[m] \cup {m} \subseteq pred[n]
    BY <1>2, <1>4, <1>8, FS_Subset
  <2>2. Cardinality(pred[m] \cup {m}) = Cardinality(pred[m]) + 1
    BY <2>1, FS_AddElement
  <2>3. Cardinality(pred[m] \cup {m}) <= Cardinality(pred[n])
    BY <2>1, FS_Subset
  <2>4. Turn(m) \in Nat /\ Turn(n) \in Nat
    BY <1>5, <2>1, FS_CardinalityType
  <2> QED
    BY <1>5, <2>2, <2>3, <2>4
<1>9. \A m, n \in Points : Turn(m) = Turn(n) => m = n
  <2>1. \A n \in Points : ~ (Turn(n) < Turn(n))
    BY <1>3, <1>5, <1>6
  <2> QED
    BY <1>4, <1>8, <2>1
<1> QED
  BY <1>2, <1>3, <1>5, <1>6, <1>7, <1>9

(* The inductive invariant: the points probed or lost are those whose turn has *)
(* come, and every mutant tested was killed or survived.                      *)
HardenInv ==
  /\ program \in Programs /\ changed \subseteq Lines
  /\ next \in Nat /\ next <= CounterN
  /\ killed \in Nat /\ survivors \subseteq 0..(next - 1)
  /\ step \in {"mutate", "test", "done", "raised"}
  /\ probed \subseteq Points /\ probed \cap lost = {}
  /\ step = "test" => /\ next < CounterN
                      /\ probed \cup lost = {n \in Points : Turn(n) <= next}
                      /\ killed + Cardinality(survivors) + 1 = Cardinality(probed)
  /\ step = "done" => next = CounterN
  /\ step \in {"mutate", "done"} => /\ probed \cup lost = {n \in Points : Turn(n) < next}
                                    /\ killed + Cardinality(survivors) = Cardinality(probed)

\* The tree and the scope stay, and with them the points and their turns.
LEMMA TurnsStay ==
  ASSUME UNCHANGED file
  PROVE  CounterN' = CounterN /\ Points' = Points /\ \A n : Turn(n)' = Turn(n)
<1>1. program' = program /\ LinesInScope' = LinesInScope
  BY DEF file, LinesInScope
<1>2. \A m, n : Before(m, n)' = Before(m, n)
  BY <1>1 DEF Before, Under
<1>3. Points' = Points
  BY <1>1 DEF Points
<1>4. CounterN' = CounterN
  BY <1>1 DEF CounterN
<1>5. \A n : Turn(n)' = Turn(n)
  BY <1>1, <1>3 DEF Turn, Before, Under
<1> QED
  BY <1>3, <1>4, <1>5

LEMMA HardenInvHolds == HardenSpec => []HardenInv
<1>1. HardenInit => HardenInv
  <2> SUFFICES ASSUME HardenInit PROVE HardenInv
    OBVIOUS
  <2>1. CounterN \in Nat /\ \A n \in Points : ~ (Turn(n) < 0)
    BY PointsTakeTurns DEF HardenInit
  <2>2. Cardinality({}) = 0
    BY FS_EmptySet
  <2> QED
    BY <2>1, <2>2 DEF HardenInit, HardenInv
<1>2. HardenInv /\ [HardenNext]_hardenVars => HardenInv'
  <2> SUFFICES ASSUME HardenInv, [HardenNext]_hardenVars PROVE HardenInv'
    OBVIOUS
  <2>1. UNCHANGED file /\ CounterN' = CounterN /\ Points' = Points /\ \A n : Turn(n)' = Turn(n)
    <3>1. UNCHANGED file
      BY DEF HardenNext, Mutate, UnparseFails, TestsFail, TestsPass, Finish, HardenRaises, hardenVars, file
    <3> QED
      BY <3>1, TurnsStay
  <2>2. /\ CounterN \in Nat /\ IsFiniteSet(Points)
        /\ \A n \in Points : Turn(n) \in 0..(CounterN - 1)
        /\ \A i \in 0..(CounterN - 1) : \E n \in Points : Turn(n) = i
        /\ \A m, n \in Points : Turn(m) = Turn(n) => m = n
    BY PointsTakeTurns DEF HardenInv
  <2>3. program' \in Programs /\ changed' \subseteq Lines
    BY <2>1 DEF HardenInv, file
  <2>4. /\ next \in Nat /\ killed \in Nat
        /\ IsFiniteSet(survivors) /\ Cardinality(survivors) \in Nat
        /\ IsFiniteSet(probed) /\ Cardinality(probed) \in Nat
    <3>1. next \in Nat /\ killed \in Nat /\ survivors \subseteq 0..(next - 1)
          /\ probed \subseteq Points
      BY DEF HardenInv
    <3>2. IsFiniteSet(0..(next - 1))
      BY <3>1, FS_Interval
    <3> QED
      BY <2>2, <3>1, <3>2, FS_Subset, FS_CardinalityType
  <2>a. ASSUME step = "mutate", next < CounterN
        PROVE  \E n \in Points : /\ Turn(n) = next /\ Target(next) = {n}
                                  /\ n \notin probed /\ n \notin lost
                                  /\ probed \cup lost \cup {n} = {m \in Points : Turn(m) <= next}
    <3>1. next \in 0..(CounterN - 1)
      BY <2>2, <2>4, <2>a
    <3>2. PICK n \in Points : Turn(n) = next
      BY <2>2, <3>1
    <3>3. Target(next) = {m \in Points : Turn(m) = next}
      BY DEF Target, Turn
    <3>4. Target(next) = {n}
      BY <2>2, <3>2, <3>3
    <3>5. probed \cup lost = {m \in Points : Turn(m) < next}
      BY <2>a DEF HardenInv
    <3>6. n \notin probed /\ n \notin lost
      BY <2>4, <3>2, <3>5
    <3>7. \A m \in Points : Turn(m) <= next <=> Turn(m) < next \/ m = n
      BY <2>2, <2>4, <3>2
    <3>8. probed \cup lost \cup {n} = {m \in Points : Turn(m) <= next}
      BY <3>2, <3>5, <3>7
    <3> QED
      BY <3>2, <3>4, <3>6, <3>8
  <2>b. {n \in Points : Turn(n) <= next} = {n \in Points : Turn(n) < next + 1}
    BY <2>2, <2>4
  <2>5. CASE Mutate
    <3>1. step = "mutate" /\ next < CounterN
      BY <2>5 DEF Mutate
    <3>2. PICK n \in Points : /\ Turn(n) = next /\ Target(next) = {n}
                              /\ n \notin probed /\ n \notin lost
                              /\ probed \cup lost \cup {n} = {m \in Points : Turn(m) <= next}
      BY <2>a, <3>1
    <3>3. /\ step' = "test" /\ next' = next /\ killed' = killed /\ survivors' = survivors
          /\ probed' = probed \cup {n} /\ lost' = lost
      BY <2>5, <3>2 DEF Mutate, tally
    <3>4. Cardinality(probed') = Cardinality(probed) + 1
      BY <2>4, <3>2, <3>3, FS_AddElement
    <3>5. killed' + Cardinality(survivors') + 1 = Cardinality(probed')
      BY <2>4, <3>1, <3>3, <3>4 DEF HardenInv
    <3>6. probed' \cup lost' = {m \in Points' : Turn(m)' <= next'}
      BY <2>1, <3>2, <3>3
    <3>7. probed' \subseteq Points' /\ probed' \cap lost' = {} /\ next' < CounterN'
      BY <2>1, <3>1, <3>2, <3>3 DEF HardenInv
    <3> QED
      BY <2>1, <2>3, <3>3, <3>5, <3>6, <3>7 DEF HardenInv
  <2>c. CASE UnparseFails
    <3>1. step = "mutate" /\ next < CounterN
      BY <2>c DEF UnparseFails
    <3>2. PICK n \in Points : /\ Turn(n) = next /\ Target(next) = {n}
                              /\ n \notin probed /\ n \notin lost
                              /\ probed \cup lost \cup {n} = {m \in Points : Turn(m) <= next}
      BY <2>a, <3>1
    <3>3. /\ step' = "mutate" /\ next' = next + 1 /\ killed' = killed
          /\ survivors' = survivors /\ probed' = probed /\ lost' = lost \cup {n}
      BY <2>c, <3>2 DEF UnparseFails, tally
    <3>4. probed' \cup lost' = {m \in Points' : Turn(m)' < next'}
      BY <2>1, <2>b, <3>2, <3>3
    <3>5. probed' \subseteq Points' /\ probed' \cap lost' = {}
      BY <2>1, <3>2, <3>3 DEF HardenInv
    <3>6. next' \in Nat /\ next' <= CounterN' /\ survivors' \subseteq 0..(next' - 1)
      BY <2>1, <2>2, <2>4, <3>1, <3>3 DEF HardenInv
    <3>7. killed' \in Nat /\ killed' + Cardinality(survivors') = Cardinality(probed')
      BY <3>1, <3>3 DEF HardenInv
    <3> QED
      BY <2>3, <3>3, <3>4, <3>5, <3>6, <3>7 DEF HardenInv
  <2>6. ASSUME step = "test", step' = "mutate", next' = next + 1, probed' = probed, lost' = lost
        PROVE  /\ next' \in Nat /\ next' <= CounterN'
               /\ probed' \subseteq Points' /\ probed' \cap lost' = {}
               /\ probed' \cup lost' = {n \in Points' : Turn(n)' < next'}
    <3>1. probed \cup lost = {n \in Points : Turn(n) <= next} /\ next < CounterN
      BY <2>6 DEF HardenInv
    <3>2. probed \subseteq Points /\ probed \cap lost = {}
      BY DEF HardenInv
    <3> QED
      BY <2>1, <2>2, <2>4, <2>6, <2>b, <3>1, <3>2
  <2>7. CASE TestsFail
    <3>1. /\ killed' = killed + 1 /\ survivors' = survivors /\ next' = next + 1
          /\ step = "test" /\ step' = "mutate" /\ probed' = probed /\ lost' = lost
      BY <2>7 DEF TestsFail
    <3>2. killed' \in Nat /\ survivors' \subseteq 0..(next' - 1)
          /\ killed' + Cardinality(survivors') = Cardinality(probed')
      BY <2>4, <3>1 DEF HardenInv
    <3> QED
      BY <2>3, <2>6, <3>1, <3>2 DEF HardenInv
  <2>8. CASE TestsPass
    <3>1. /\ killed' = killed /\ survivors' = survivors \cup {next} /\ next' = next + 1
          /\ step = "test" /\ step' = "mutate" /\ probed' = probed /\ lost' = lost
      BY <2>8 DEF TestsPass
    <3>2. /\ survivors \subseteq 0..(next - 1)
          /\ killed + Cardinality(survivors) + 1 = Cardinality(probed)
      BY <3>1 DEF HardenInv
    <3>3. next \notin survivors /\ survivors' \subseteq 0..next
      BY <2>4, <3>1, <3>2
    <3>4. Cardinality(survivors') = Cardinality(survivors) + 1
      BY <2>4, <3>1, <3>3, FS_AddElement
    <3>5. killed' \in Nat /\ survivors' \subseteq 0..(next' - 1)
          /\ killed' + Cardinality(survivors') = Cardinality(probed')
      BY <2>4, <3>1, <3>2, <3>3, <3>4
    <3> QED
      BY <2>3, <2>6, <3>1, <3>5 DEF HardenInv
  <2>9. CASE Finish \/ HardenRaises
    BY <2>1, <2>3, <2>9 DEF HardenInv, Finish, HardenRaises, tally
  <2>10. CASE UNCHANGED hardenVars
    BY <2>1, <2>3, <2>10 DEF HardenInv, hardenVars
  <2> QED
    BY <2>5, <2>c, <2>7, <2>8, <2>9, <2>10 DEF HardenNext
<1> QED
  BY <1>1, <1>2, PTL DEF HardenSpec

\* What the fix touched and can be swapped is what is counted and mutated.
LEMMA PointsAreTheRegion ==
  ASSUME program \in Programs, changed \subseteq Lines,
         NEW mutable, mutable = {n \in DOMAIN program : program[n].kind \in Swappable \cup Constant}
  PROVE  Points = IF changed = {} /\ differs THEN mutable
                  ELSE {n \in mutable :
                          \E l \in changed : program[n].first <= l /\ l <= program[n].last}
<1>1. PICK size \in Nat :
        /\ DOMAIN program = 1..size
        /\ \A m \in 1..size : program[m].first \in Int /\ program[m].last \in Int
  BY TreeFacts
<1>2. \A n \in DOMAIN program :
        n \in Points <=> n \in mutable /\ NodeInScope(program[n], LinesInScope)
  BY DEF Points, Hits, Constant
<1>3. Points \subseteq DOMAIN program /\ mutable \subseteq DOMAIN program
  BY DEF Points
<1>4. CASE changed = {} /\ differs
  BY <1>2, <1>3, <1>4 DEF NodeInScope, LinesInScope
<1>5. CASE ~ (changed = {} /\ differs)
  <2>1. LinesInScope = changed /\ changed # Everything
    BY <1>5, HardenAssumption DEF LinesInScope
  <2>2. ASSUME NEW n \in mutable
        PROVE  NodeInScope(program[n], changed) <=>
                 \E l \in changed : program[n].first <= l /\ l <= program[n].last
    <3>1. program[n].kind # "Module"
      BY DEF Swappable, Constant
    <3>2. changed \subseteq Int /\ program[n].first \in Int /\ program[n].last \in Int
      BY <1>1, <1>3, HardenAssumption
    <3> QED
      BY <2>1, <3>1, <3>2 DEF NodeInScope
  <2> QED
    BY <1>2, <1>3, <1>5, <2>1, <2>2
<1> QED
  BY <1>4, <1>5

\* When the check is over, every point of the fix was probed, once, but for those
\* whose mutant could not be written down; and the score is about as many mutants.
THEOREM PointsAreProbedOnce == HardenSpec => []EveryPointIsProbedOnce
<1>1. HardenInv => EveryPointIsProbedOnce
  <2> DEFINE mutable == {n \in DOMAIN program : program[n].kind \in Swappable \cup Constant}
             touched == {n \in mutable : \E l \in changed :
                           program[n].first <= l /\ l <= program[n].last}
             region == IF changed = {} /\ differs THEN mutable ELSE touched
  <2> SUFFICES ASSUME HardenInv, step = "done"
               PROVE  /\ probed \cup lost = region /\ probed \cap lost = {}
                      /\ MutantsTotal = Cardinality(probed)
                      /\ Status = "inconclusive" <=> region \subseteq lost
    BY Zenon DEF EveryPointIsProbedOnce
  <2>1. Points = region
    BY PointsAreTheRegion DEF HardenInv
  <2> HIDE DEF region
  <2>2. /\ CounterN \in Nat /\ IsFiniteSet(Points)
        /\ \A n \in Points : Turn(n) \in 0..(CounterN - 1)
    BY PointsTakeTurns DEF HardenInv
  <2>3. /\ next = CounterN /\ probed \cup lost = {n \in Points : Turn(n) < next}
        /\ probed \subseteq Points /\ probed \cap lost = {}
        /\ killed + Cardinality(survivors) = Cardinality(probed)
    BY DEF HardenInv
  <2>4. probed \cup lost = Points
    BY <2>2, <2>3
  <2>5. MutantsTotal = Cardinality(probed)
    BY <2>3 DEF MutantsTotal
  <2>6. Status = "inconclusive" <=> MutantsTotal = 0
    BY DEF Status
  <2>7. Cardinality(probed) = 0 <=> probed = {}
    BY <2>2, <2>3, FS_Subset, FS_EmptySet
  <2>8. probed = {} <=> region \subseteq lost
    BY <2>1, <2>3, <2>4
  <2> QED
    BY <2>1, <2>3, <2>4, <2>5, <2>6, <2>7, <2>8
<1> QED
  BY <1>1, HardenInvHolds, PTL
=============================================================================
