---------------------------- MODULE Leaderboard ----------------------------
(***************************************************************************)
(* The sweep workflow (forgejudge/eval/sweep.py, publish.py, store/db.py,   *)
(* export.py in the order of .github/workflows/sweep.yml): sweep each model *)
(* into a file, gate the files, upsert the healthy ones row by row, export, *)
(* deploy, commit.  A job may fail at any point; what it committed to the   *)
(* database stays.  Its files are kept as an artifact that an operator may  *)
(* publish again, an operator's own sweep may store rows at any time, and   *)
(* pages-deploy.yml may put the repository's snapshot on the site.          *)
(*                                                                         *)
(* A file is a function from the runs of one model to their outcomes.  An  *)
(* error has no patch, so it is never resolved.  generated_at is left out. *)
(* A definition marked FAULT is no part of the model: it is a plausible    *)
(* defect in place of the definition after it, which a property must find. *)
(***************************************************************************)
EXTENDS Board

CONSTANTS
  Models, Tasks, Seeds,
  VersionOf,          \* the scaffold_version of each sweep; 0 is the operator's
  ErrorsOutOf,        \* max_error_rate, as <<errors, runs>>
  SeedChoices,        \* the seeds a dispatcher may choose
  StoreRuns,          \* what an operator's own sweep may store: runs, outcomes
  Results,            \* bound: what a model's sweep may come to
  MaxSweeps,          \* bound: workflow runs
  MaxStored,          \* bound: rows operators store beside a workflow run
  MaxRedeploys,       \* bound: runs of pages-deploy.yml
  Missing, Pending, NoRow

Outcomes == {"resolved", "unresolved", "error"}

ASSUME LeaderboardAssumption ==
  /\ MaxSweeps \in Nat /\ MaxStored \in Nat /\ MaxRedeploys \in Nat
  /\ ErrorsOutOf \in Nat \X (Nat \ {0})
  /\ SeedChoices \subseteq SUBSET Seeds /\ StoreRuns \subseteq (Models \X Tasks \X Seeds) \X Outcomes
  /\ Results \subseteq UNION {[Tasks \X S -> Outcomes] : S \in SeedChoices}
  /\ IsFiniteSet(Models) /\ IsFiniteSet(Tasks) /\ IsFiniteSet(Seeds)
  /\ NoRow \notin [outcome : Outcomes, sweep : 0..MaxSweeps]

VARIABLES
  rows,      \* table runs, by primary key
  files,     \* runs-<i>.jsonl of each model: Pending, Missing or its runs
  seeds,     \* the seeds this workflow run sweeps
  sweep,     \* the number of workflow runs begun
  pc,        \* the workflow's step
  manual,    \* an operator publishes the artifact, in a checkout of his own
  todo,      \* the healthy runs still to upsert
  board,     \* what the export's first query returned
  snapshot,  \* leaderboard.json and runs.json in the checkout, while a job has one
  live,      \* ... on the site
  git,       \* ... in the repository
  pages,     \* the checkout of a running pages-deploy.yml, if there is one
  redeploys, \* the number of its runs begun
  stored,    \* the number of rows operators stored
  passed,    \* history: the runs of each workflow run whose file passed the gate
  deployed,  \* history: what the sweep workflow last put on the site
  disturbed, \* history: runs operators stored since publish began
  between    \* history: ... since the export's first query

source == <<files, seeds, sweep, passed>>
sites == <<live, git, deployed>>
redeploy == <<pages, redeploys>>
operators == <<stored, disturbed, between>>
vars == <<rows, source, pc, manual, todo, board, snapshot, sites, redeploy, operators>>

RunIds == Models \X Tasks \X Seeds       \* f"{model}-{task}-seed{seed}"
Files(S) == {file \in Results : DOMAIN file = Tasks \X S}
Sweeps == 0..MaxSweeps
Row == [outcome : Outcomes, sweep : Sweeps]

Record(id, row) ==
  [model |-> id[1], task |-> id[2], seed |-> id[3], version |-> VersionOf[row.sweep],
   resolved |-> row.outcome = "resolved", cost |-> 1]

Stored(table) == {Record(id, table[id]) : id \in {i \in RunIds : table[i] # NoRow}}

ErrorCount(file) == Cardinality({c \in DOMAIN file : file[c] = "error"})

\* FAULT: only a sweep in which every run errored is refused.
GateAllErrors(file) == DOMAIN file # {} /\ ErrorCount(file) # Cardinality(DOMAIN file)

Gate(file) ==
  LET n == Cardinality(DOMAIN file)
  IN  /\ n # 0
      /\ ErrorCount(file) # n
      /\ ErrorCount(file) * ErrorsOutOf[2] <= ErrorsOutOf[1] * n

(* what the property means by a healthy file: some run, and few errors *)
Acceptable(file) ==
  /\ file # Missing /\ \E c \in DOMAIN file : file[c] # "error"
  /\ ErrorCount(file) * ErrorsOutOf[2] <= ErrorsOutOf[1] * Cardinality(DOMAIN file)

Healthy == {m \in Models : files[m] \notin {Missing, Pending} /\ Gate(files[m])}

RunsToPublish ==
  UNION {{<<m, c[1], c[2]>> : c \in DOMAIN files[m]} : m \in Healthy}

Empty == [lines |-> {}, runs |-> {}, between |-> {}]

Init ==
  /\ rows = [id \in RunIds |-> NoRow]
  /\ files = [m \in Models |-> Missing] /\ seeds = {} /\ sweep = 0
  /\ passed = [s \in 1..MaxSweeps |-> {}]
  /\ pc = "idle" /\ manual = FALSE /\ todo = {} /\ board = {}
  /\ snapshot = Empty /\ live = Empty /\ git = Empty /\ deployed = Empty
  /\ pages = {} /\ redeploys = 0
  /\ stored = 0 /\ disturbed = {} /\ between = {}

-----------------------------------------------------------------------------
\* FAULT: a model whose file an earlier workflow run left is not swept again.
DispatchOverFiles(S) ==
  /\ pc = "idle" /\ sweep < MaxSweeps
  /\ sweep' = sweep + 1 /\ seeds' = S
  /\ files' = [m \in Models |-> IF files[m] = Missing THEN Pending ELSE files[m]]
  /\ pc' = "sweep" /\ manual' = FALSE /\ snapshot' = git
  /\ UNCHANGED <<rows, todo, board, sites, redeploy, operators, passed>>

\* a fresh checkout, the dispatcher's choice of seeds
Dispatch(S) ==
  /\ pc = "idle" /\ sweep < MaxSweeps
  /\ sweep' = sweep + 1 /\ seeds' = S
  /\ files' = [m \in Models |-> Pending]
  /\ pc' = "sweep" /\ manual' = FALSE /\ snapshot' = git
  /\ UNCHANGED <<rows, todo, board, sites, redeploy, operators, passed>>

\* the whole of one model's sweep: the file is written at its end
SweepModel(m, file) ==
  /\ pc = "sweep" /\ files[m] = Pending
  /\ files' = [files EXCEPT ![m] = file]
  /\ passed' = [passed EXCEPT ![sweep] = @ \cup
                  IF Acceptable(file) THEN {<<m, c, file[c]>> : c \in DOMAIN file} ELSE {}]
  /\ UNCHANGED <<rows, seeds, sweep, pc, manual, todo, board, snapshot, sites,
                 redeploy, operators>>

\* an exception anywhere loses the model's sweep; the loop goes on
SweepRaises(m) == SweepModel(m, Missing)

BeginPublish ==
  /\ pc = "sweep" /\ \A m \in Models : files[m] # Pending
  /\ pc' = "publish" /\ disturbed' = {}
  /\ UNCHANGED <<rows, source, manual, todo, board, snapshot, sites, redeploy, stored, between>>

\* an operator downloads the artifact and publishes it in a fresh checkout
PublishAgain ==
  /\ pc = "idle" /\ sweep > 0 /\ \A m \in Models : files[m] # Pending
  /\ pc' = "publish" /\ manual' = TRUE /\ snapshot' = git /\ disturbed' = {}
  /\ UNCHANGED <<rows, source, todo, board, sites, redeploy, stored, between>>

\* raise SystemExit: no file matched
NothingToPublish ==
  /\ pc = "publish" /\ \A m \in Models : files[m] = Missing
  /\ pc' = "idle"
  /\ UNCHANGED <<rows, source, manual, todo, board, snapshot, sites, redeploy, operators>>

LoadAndGate ==
  /\ pc = "publish" /\ \E m \in Models : files[m] # Missing
  /\ pc' = "insert" /\ todo' = RunsToPublish
  /\ UNCHANGED <<rows, source, manual, board, snapshot, sites, redeploy, operators>>

\* FAULT: a row that is there already is left as it is (DO NOTHING).
KeepOnConflict(table, id, row) ==
  IF table[id] = NoRow THEN [table EXCEPT ![id] = row] ELSE table

Upsert(table, id, row) == [table EXCEPT ![id] = row]

\* insert_run commits each row; the order of the rows is not relied upon
InsertRun(id) ==
  /\ pc = "insert" /\ id \in todo
  /\ rows' = Upsert(rows, id, [outcome |-> files[id[1]][<<id[2], id[3]>>], sweep |-> sweep])
  /\ todo' = todo \ {id} /\ disturbed' = disturbed \ {id}
  /\ UNCHANGED <<source, pc, manual, board, snapshot, sites, redeploy, stored, between>>

\* three statements under read committed: each sees what is committed by then
ReadBoard ==
  /\ pc = "insert" /\ todo = {}
  /\ board' = Leaderboard(Stored(rows)) /\ pc' = "read" /\ between' = {}
  /\ UNCHANGED <<rows, source, manual, todo, snapshot, sites, redeploy, stored, disturbed>>

\* FAULT: a publish that published nothing exits with success.
DeployAnyway == IF manual THEN "idle" ELSE "deploy"

\* raise SystemExit after the export if every model was gated out
AfterExport == IF manual \/ Healthy = {} THEN "idle" ELSE "deploy"

\* FAULT: the runs shown are those of this workflow run.
ReadOwnRunsAndWrite ==
  /\ pc = "read"
  /\ pc' = AfterExport /\ board' = {} /\ between' = {}
  /\ snapshot' = IF pc' = "idle" THEN Empty
                 ELSE [lines |-> board, between |-> between,
                       runs |-> {Record(id, rows[id]) : id \in RunsToPublish}]
  /\ UNCHANGED <<rows, source, manual, todo, sites, redeploy, stored, disturbed>>

ReadRunsAndWrite ==
  /\ pc = "read"
  /\ pc' = AfterExport /\ board' = {} /\ between' = {}
  /\ snapshot' = IF pc' = "idle" THEN Empty
                 ELSE [lines |-> board, runs |-> Stored(rows), between |-> between]
  /\ UNCHANGED <<rows, source, manual, todo, sites, redeploy, stored, disturbed>>

Deploy ==
  /\ pc = "deploy" /\ live' = snapshot /\ deployed' = snapshot /\ pc' = "commit"
  /\ UNCHANGED <<rows, source, manual, todo, board, snapshot, git, redeploy, operators>>

Commit ==
  /\ pc = "commit" /\ git' = snapshot /\ pc' = "idle" /\ snapshot' = Empty
  /\ UNCHANGED <<rows, source, manual, todo, board, live, deployed, redeploy, operators>>

\* FAULT: the snapshot is committed although its deployment failed.
FailAndCommit ==
  /\ pc # "idle" /\ pc' = "idle" /\ todo' = {} /\ board' = {} /\ snapshot' = Empty
  /\ between' = {}
  /\ git' = IF pc = "deploy" THEN snapshot ELSE git
  /\ files' = [m \in Models |-> IF files[m] = Pending THEN Missing ELSE files[m]]
  /\ UNCHANGED <<rows, seeds, sweep, passed, manual, live, deployed, redeploy, stored, disturbed>>

\* a lost connection, a failed deployment or push, a cancelled or expired job
JobFails ==
  /\ pc # "idle" /\ pc' = "idle" /\ todo' = {} /\ board' = {} /\ snapshot' = Empty
  /\ between' = {}
  /\ files' = [m \in Models |-> IF files[m] = Pending THEN Missing ELSE files[m]]
  /\ UNCHANGED <<rows, seeds, sweep, passed, manual, sites, redeploy, stored, disturbed>>

\* an operator writes a row, whatever the workflow is doing meanwhile
Store(id, row) ==
  /\ stored < MaxStored /\ stored' = stored + 1
  /\ rows' = Upsert(rows, id, row)
  /\ disturbed' = IF pc = "idle" THEN {} ELSE disturbed \cup {id}
  /\ between' = IF pc = "read" THEN between \cup {id} ELSE {}
  /\ UNCHANGED <<source, pc, manual, todo, board, snapshot, sites, redeploy>>

\* an operator's sweep without --no-store: no gate
StoreRun(id, outcome) == Store(id, [outcome |-> outcome, sweep |-> 0])

\* one insert_run of an operator's publish of a finished workflow run's artifact
InsertAgain(s, run) ==
  /\ s < sweep \/ pc = "idle"
  /\ Store(<<run[1], run[2][1], run[2][2]>>, [outcome |-> run[3], sweep |-> s])

(* pages-deploy.yml, in a concurrency group of its own *)
PagesCheckout ==
  /\ pages = {} /\ redeploys < MaxRedeploys
  /\ pages' = {git} /\ redeploys' = redeploys + 1
  /\ UNCHANGED <<rows, source, pc, manual, todo, board, snapshot, sites, operators>>

PagesDeploy ==
  /\ pages # {} /\ live' \in pages /\ pages' = {}
  /\ UNCHANGED <<rows, source, pc, manual, todo, board, snapshot, git, deployed,
                 redeploys, operators>>

\* a failed deployment, or another dispatch that cancels this one
PagesFails ==
  /\ pages # {} /\ pages' = {}
  /\ UNCHANGED <<rows, source, pc, manual, todo, board, snapshot, sites, redeploys,
                 operators>>

Next ==
  \/ \E S \in SeedChoices : Dispatch(S)
  \/ \E m \in Models : SweepRaises(m) \/ \E file \in Files(seeds) : SweepModel(m, file)
  \/ BeginPublish \/ PublishAgain \/ NothingToPublish \/ LoadAndGate
  \/ \E id \in todo : InsertRun(id)
  \/ ReadBoard \/ ReadRunsAndWrite \/ Deploy \/ Commit \/ JobFails
  \/ \E run \in StoreRuns : StoreRun(run[1], run[2])
  \/ \E s \in 1..sweep : \E run \in passed[s] : InsertAgain(s, run)
  \/ PagesCheckout \/ PagesDeploy \/ PagesFails

Spec == Init /\ [][Next]_vars
-----------------------------------------------------------------------------
TypeOK ==
  /\ rows \in [RunIds -> Row \cup {NoRow}]
  /\ seeds \in SUBSET Seeds /\ sweep \in Sweeps
  /\ stored \in 0..MaxStored /\ redeploys \in 0..MaxRedeploys
  /\ files \in [Models -> {Missing, Pending} \cup Files(seeds)]
  /\ pc \in {"idle", "sweep", "publish", "insert", "read", "deploy", "commit"}
  /\ manual \in BOOLEAN /\ todo \subseteq RunIds
  /\ disturbed \subseteq RunIds /\ between \subseteq RunIds
  /\ passed \in [1..MaxSweeps -> SUBSET (Models \X (Tasks \X Seeds) \X Outcomes)]

(* publish.py promises that a flaky run can never overwrite good numbers with *)
(* garbage: every row a workflow wrote, whatever jobs failed between two rows *)
(* since, is a run of a sweep that passed the gate.                          *)
RowsPassedTheGate ==
  \A id \in RunIds :
    rows[id] # NoRow /\ rows[id].sweep # 0 =>
      <<id[1], <<id[2], id[3]>>, rows[id].outcome>> \in passed[rows[id].sweep]

(* A publish that reached its export has repaired whatever an earlier one, cut *)
(* off between two commits, left behind: each run of a healthy file is the row *)
(* under its key, unless an operator's sweep wrote the key in the meantime.   *)
PublishIsWhole ==
  pc \in {"read", "deploy", "commit"} =>
    \A id \in RunsToPublish \ disturbed :
      rows[id] = [outcome |-> files[id[1]][<<id[2], id[3]>>], sweep |-> sweep]

Key(run) == <<run.model, run.task, run.seed>>

(* what the first query may have seen: the runs of the second, but with other *)
(* rows, or none, under the keys that were written between the two            *)
SeenBefore(s, old) ==
  {r \in s.runs : Key(r) \notin s.between} \cup
  {Record(id, old[id]) : id \in {i \in s.between : old[i] # NoRow}}

(* The two files the site shows come from two queries, and whatever is written *)
(* between the queries, by an operator's sweep or another publish, they differ *)
(* by that only: the lines are those of the runs, with the rows that the keys  *)
(* written in between had before.                                            *)
SiteIsConsistent ==
  \E old \in [live.between -> Row \cup {NoRow}] :
    live.lines = Leaderboard(SeenBefore(live, old))

(* A model that skipped a task is penalised against one that ran it, in every *)
(* table that sweeps, failing jobs and an operator can leave to be exported. *)
SkippingIsPenalised == PenalisesSkipping(Stored(rows))

Publishes(s) == Healthy # {} /\ \A m \in Healthy : \E l \in s.lines : l.model = m

(* A sweep of which no model passed the gate changes nothing on the site or in *)
(* the repository, and what one does show includes every healthy model; what  *)
(* else may reach the site is what pages-deploy found in the repository.      *)
DeploysPublishedModels ==
  [][/\ live' # live => live' \in pages \/ Publishes(live')
     /\ git' # git => Publishes(git')]_vars

(* The repository follows the site: what is committed is what the workflow has *)
(* put on the site last, although a pages-deploy may have replaced it since, so *)
(* a failed deployment leaves the repository as it was.                       *)
GitFollowsTheSite == [][git' # git => git' = deployed]_vars
=============================================================================
