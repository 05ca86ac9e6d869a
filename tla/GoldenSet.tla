----------------------------- MODULE GoldenSet -----------------------------
(***************************************************************************)
(* forgejudge/golden/build_dataset.py and loader.py, and the gold self-test *)
(* of forgejudge/harness/runner_actions.py and eval/gate.py: an author edits *)
(* task directories, builds dataset.jsonl and solutions.jsonl from them and *)
(* commits; each commit is graded in shards, whose records the exact gate   *)
(* pools (.github/workflows/gate.yml).  Edits interleave with a build, which *)
(* may be killed; a shard's machine may fail and be run again.              *)
(*                                                                         *)
(* A directory's meta.yaml, base, test and fix are a version.  The patches  *)
(* of one version may meet the base of another, since the author may edit   *)
(* between two reads; validate_task copies base twice, taken as one read.   *)
(* A definition marked FAULT is no part of the model: it is a plausible    *)
(* defect in place of the definition after it, which a property must find. *)
(***************************************************************************)
EXTENDS Integers, FiniteSets

CONSTANTS
  Dirs,        \* discover_task_dirs(), numbered in their order
  IdOf,        \* instance_id of each directory's meta.yaml, a number
  Versions,
  GoodMeta,    \* the versions whose meta.yaml _validate_meta accepts
  Valid,       \* pairs of patches and base whose FixtureValidation is_valid
  Cures,       \* pairs of patches and base on which the task grades as resolved
  NumShards,
  MaxEdits,    \* bound: edits of directories
  MaxCommits,  \* bound: commits
  Absent

ASSUME GoldenSetAssumption ==
  /\ Dirs \subseteq Nat /\ IsFiniteSet(Dirs)
  /\ IdOf \in [Dirs -> Nat]
  /\ GoodMeta \subseteq Versions /\ Valid \cup Cures \subseteq Versions \X Versions
  /\ NumShards \in Nat \ {0} /\ MaxEdits \in Nat /\ MaxCommits \in Nat
  /\ Absent \notin Versions

VARIABLES
  tree,       \* the version of each directory
  dataset,    \* dataset.jsonl: a set of tasks
  solutions,  \* solutions.jsonl: the gold patches it holds
  build,      \* the build's step: "idle", "scan", "solutions"
  todo,       \* the directories build_dataset has still to go through
  made,       \* the version whose task build_task made of the first of them
  tasks,      \* the list of tasks, with their gold patches
  commit,     \* what CI has checked out
  shard,      \* each shard's job: "wait", "green", "red"
  artifacts,  \* each shard's records
  gate,       \* the gate's verdict: "none", "pass", "fail"
  edits, commits

author == <<tree, edits>>
files == <<dataset, solutions>>
building == <<build, todo, made, tasks>>
ci == <<commit, shard, artifacts, gate, commits>>
vars == <<author, files, building, ci>>

Shards == 0..(NumShards - 1)
\* version: that of its patches; base: that of the tree it was validated on
Task == [id : Nat, dir : Dirs, version : Versions, base : Versions]
Record == [task : Task, resolved : BOOLEAN]

\* load_solutions: a dictionary by instance_id
PatchesFor(sidecar, id) == {s \in sidecar : s.id = id}

\* FAULT: a duplicate instance_id goes unnoticed.
AnyIds(set) == TRUE

\* validate_dataset
UniqueIds(set) == \A s, t \in set : s.id = t.id => s = t

Rank(set, t) == Cardinality({s \in set : s.id < t.id})

SelectShard(set, k) == {t \in set : Rank(set, t) % NumShards = k}

\* source_dir_for: the first directory with that id, KeyError if there is none
SourceDirs(at, id) == {d \in Dirs : at[d] # Absent /\ IdOf[d] = id}
SourceDir(at, id) ==
  CHOOSE d \in SourceDirs(at, id) : \A e \in SourceDirs(at, id) : d <= e

\* grade(task, patches.get(id, "")) on a checkout
Resolves(c, t) ==
  \E s \in PatchesFor(c.solutions, t.id) :
    <<s.version, c.tree[SourceDir(c.tree, t.id)]>> \in Cures

Init ==
  /\ tree = [d \in Dirs |-> Absent] /\ edits = 0
  /\ dataset = {} /\ solutions = {}
  /\ build = "idle" /\ todo = {} /\ made = Absent /\ tasks = {}
  /\ commit = [tree |-> tree, dataset |-> {}, solutions |-> {}] /\ commits = 0
  /\ shard = [k \in Shards |-> "wait"] /\ artifacts = [k \in Shards |-> {}]
  /\ gate = "none"

-----------------------------------------------------------------------------
Edit(d, v) ==
  /\ edits < MaxEdits /\ tree[d] # v
  /\ tree' = [tree EXCEPT ![d] = v] /\ edits' = edits + 1
  /\ UNCHANGED <<files, building, ci>>

\* discover_task_dirs() lists the directories once
StartBuild ==
  /\ build = "idle" /\ build' = "scan" /\ tasks' = {}
  /\ todo' = {d \in Dirs : tree[d] # Absent}
  /\ UNCHANGED <<author, files, made, ci>>

IsNext(d) == build = "scan" /\ d \in todo /\ \A e \in todo : d <= e

BuildTask(d) ==
  /\ IsNext(d) /\ made = Absent /\ tree[d] \in GoodMeta
  /\ made' = tree[d]
  /\ UNCHANGED <<author, files, build, todo, tasks, ci>>

Accept(d) ==
  /\ tasks' = tasks \cup {[id |-> IdOf[d], dir |-> d, version |-> made, base |-> tree[d]]}
  /\ todo' = todo \ {d} /\ made' = Absent
  /\ UNCHANGED <<author, files, build, ci>>

ValidateTask(d) == IsNext(d) /\ made # Absent /\ <<made, tree[d]>> \in Valid /\ Accept(d)

WriteDataset ==
  /\ build = "scan" /\ todo = {} /\ UniqueIds(tasks)
  /\ dataset' = tasks /\ build' = "solutions"
  /\ UNCHANGED <<author, solutions, todo, made, tasks, ci>>

WriteSolutions ==
  /\ build = "solutions" /\ solutions' = tasks /\ build' = "idle"
  /\ UNCHANGED <<author, dataset, todo, made, tasks, ci>>

\* a ValueError for a malformed or invalid fixture or a duplicate id, or a kill
\* at any time: nothing is written any more
BuildEnds ==
  /\ build # "idle" /\ build' = "idle" /\ todo' = {} /\ made' = Absent /\ tasks' = {}
  /\ UNCHANGED <<author, files, ci>>

Commit ==
  /\ build = "idle" /\ commits < MaxCommits /\ commits' = commits + 1
  /\ commit' = [tree |-> tree, dataset |-> dataset, solutions |-> solutions]
  /\ shard' = [k \in Shards |-> "wait"] /\ artifacts' = [k \in Shards |-> {}]
  /\ gate' = "none"
  /\ UNCHANGED <<author, files, building>>

\* the records of a shard are uploaded only if each task resolved
GradeShard(k) ==
  LET mine == SelectShard(commit.dataset, k)
      records == {[task |-> t, resolved |-> Resolves(commit, t)] : t \in mine}
  IN  /\ commits > 0 /\ gate = "none" /\ shard[k] # "green"
      /\ UniqueIds(commit.dataset)
      /\ \A t \in mine : SourceDirs(commit.tree, t.id) # {}
      /\ IF \A r \in records : r.resolved
         THEN /\ shard' = [shard EXCEPT ![k] = "green"]
              /\ artifacts' = [artifacts EXCEPT ![k] = records]
         ELSE shard' = [shard EXCEPT ![k] = "red"] /\ UNCHANGED artifacts
      /\ UNCHANGED <<author, files, building, commit, gate, commits>>

\* an exception or a lost machine; the job may be run again
ShardFails(k) ==
  /\ commits > 0 /\ gate = "none" /\ shard[k] = "wait"
  /\ shard' = [shard EXCEPT ![k] = "red"]
  /\ UNCHANGED <<author, files, building, commit, artifacts, gate, commits>>

\* FAULT: the gate's job does not need every shard's.
SomeGreen == \E k \in Shards : shard[k] = "green"

\* needs: grade-gold
AllGreen == \A k \in Shards : shard[k] = "green"

\* exact_gold_gate over the pooled records
ExactGoldGate ==
  LET records == UNION {artifacts[k] : k \in Shards}
  IN  /\ commits > 0 /\ gate = "none" /\ AllGreen
      /\ gate' = IF records # {} /\ \A r \in records : r.resolved THEN "pass" ELSE "fail"
      /\ UNCHANGED <<author, files, building, commit, shard, artifacts, commits>>

Next ==
  \/ \E d \in Dirs : \/ \E v \in Versions \cup {Absent} : Edit(d, v)
                     \/ BuildTask(d) \/ ValidateTask(d)
  \/ StartBuild \/ WriteDataset \/ WriteSolutions \/ BuildEnds \/ Commit
  \/ \E k \in Shards : GradeShard(k) \/ ShardFails(k)
  \/ ExactGoldGate

Spec == Init /\ [][Next]_vars

-----------------------------------------------------------------------------
TypeOK ==
  /\ tree \in [Dirs -> Versions \cup {Absent}] /\ edits \in 0..MaxEdits
  /\ dataset \in SUBSET Task /\ solutions \in SUBSET Task
  /\ build \in {"idle", "scan", "solutions"}
  /\ todo \in SUBSET Dirs /\ made \in Versions \cup {Absent} /\ tasks \in SUBSET Task
  /\ commit \in [tree : [Dirs -> Versions \cup {Absent}],
                 dataset : SUBSET Task, solutions : SUBSET Task]
  /\ shard \in [Shards -> {"wait", "green", "red"}]
  /\ artifacts \in [Shards -> SUBSET Record]
  /\ gate \in {"none", "pass", "fail"} /\ commits \in 0..MaxCommits

(* Whatever the author edits while it runs, and whenever it is killed, a build *)
(* leaves a dataset that load_tasks takes, of tasks whose patches pytest bore  *)
(* out on a base that the directory had.                                     *)
DatasetIsValid ==
  /\ \A t \in dataset : t.version \in GoodMeta /\ <<t.version, t.base>> \in Valid
  /\ \A s, t \in dataset : s.id = t.id => s = t

(* A green gate is about the whole commit, whichever shards had to be run     *)
(* again: every task of its dataset was graded, by one shard, has a gold      *)
(* patch in the solutions and resolves with it on the committed base.  So a   *)
(* commit made after a build was killed between its two writes, or with a     *)
(* base edited after the build, passes only where that does no harm.         *)
GreenGateCoversTheCommit ==
  gate = "pass" =>
    /\ commit.dataset # {}
    /\ \A t \in commit.dataset :
         /\ \E k \in Shards : {j \in Shards : \E r \in artifacts[j] : r.task = t} = {k}
         /\ \E s \in commit.solutions :
              s.id = t.id /\ <<s.version, commit.tree[SourceDir(commit.tree, t.id)]>> \in Cures
=============================================================================
