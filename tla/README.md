# ForgeJudge in TLA+

Models, model-checking runs and machine-checked proofs of ForgeJudge: the agent
loop that writes a candidate patch, the model router it pays through, the harness
that grades the patch, the playground that exposes both to the public, the workflow
that sweeps models and publishes a leaderboard, and the tools that build, harden,
gate and calibrate the benchmark. Paths below are relative to the repository's root.

## 1. Inventory

| Component | Source | State it keeps | Operations | Hard behaviour |
| --- | --- | --- | --- | --- |
| agent loop | `forgejudge/agent/solver.py`, `repair.py`, `critic.py` | a temporary work tree, counters, the status | localize, ask, parse, review, test, retry, submit | a budget checked before a price is known; an exception at any statement; a failed edit that must not be submitted |
| localizer | `forgejudge/agent/localize.py` | none | rank the source files | pure text ranking |
| model router | `forgejudge/llm/router.py` | `_LEDGER`, shared by all threads | `complete`, `run_cost`, `reset_run` | retries, fallback order, a read-modify-write without a lock |
| playground | `playground_api/app.py` | hits per address, the day and its tokens | `POST /api/solve` | checks before an await, charges after it; a blocking call on the event loop; midnight |
| harness | `forgejudge/harness/runner_local.py`, `grade.py`, `forgejudge/golden/materialize.py`, `forgejudge/types.py` | a work tree and its git repository, a process group per node id | apply, reset, restore, strip, run, verdict | a ladder of `git apply` variants of which one writes and then fails; oracle files the candidate may touch; processes that outlive a timeout |
| sharded self-test | `forgejudge/harness/runner_actions.py` | jsonl artifacts | grade a shard, aggregate | a shard that fails, is lost or is run again |
| golden set builder | `forgejudge/golden/build_dataset.py`, `loader.py` | `dataset.jsonl` and `solutions.jsonl` | validate, write, load | two files that must agree, written one after the other |
| hardening, mining | `forgejudge/golden/harden.py`, `mine_owned.py` | a tally | mutate sources, snapshot a repository | two visitors that number the same nodes in different orders |
| sweep | `forgejudge/eval/sweep.py` | rows in the database, or a jsonl file | solve and grade each task and seed | an exception half way; rows that bypass the publish gate |
| publish | `forgejudge/eval/publish.py` | none of its own | gate, upsert, export | a commit per row, a crash between two of them |
| store and export | `forgejudge/store/db.py`, `export.py` | tables `tasks` and `runs`; two JSON files | upsert, aggregate, write | two queries and two files that should describe one moment |
| regression gates | `forgejudge/eval/gate.py` | none | compare scores | empty sides, confidence intervals |
| judge, calibration | `forgejudge/eval/judge.py`, `calibrate.py` | a JSON summary | score a patch, compute kappa | parsing, zero divisions |
| tracing | `forgejudge/obs/tracing.py` | a project-id cache | spans, links | caching a failure |
| MCP server | `forgejudge/mcp/server.py` | none | `solve_issue`, `get_run`, `get_leaderboard` | none beyond what it calls |
| workflows | `.github/workflows` | the site, the repository | deploy, commit, redeploy | the order of deploy and commit; two workflows that deploy to one site |
| command line, dashboard | `forgejudge/cli.py`, `dashboard` | none | glue and presentation | none |

How they interact.  The playground, the MCP server and the sweep call `solve()`
and hand its patch to `grade()`.  `solve()` calls `complete()` for every edit and,
with a critic, for every review; both run the tests of a task through
`run_nodeids_status()`.  The playground runs `solve()` in a pool of threads, so
several `complete()` calls share `_LEDGER`, and for one task they share its
`run_id` too; it runs `grade()` on its event loop.  A sweep's records go to a file
that `publish` gates and upserts, after which the export writes the two files that
the dashboard shows.  The builder's two files are what `grade` and the gold
self-test read; the self-test's records are what the exact gate pools.

What makes each part correct:

* agent loop: spend stays within the budget but for one step; every cost and every
  step is reported once; a submitted edit passed every gate; no work tree is left.
* router: models are tried in order and given up for a reason; waits are capped;
  the ledger is what was billed.
* playground: the limiter's window really slides; a day's overspend is bounded by
  what is in flight; every request is answered.
* harness: the files that decide a verdict are the repository's, the candidate is
  graded whole or not at all, and nothing is resolved that did not earn it.
* one node id: a pass is what a pytest that ended by itself reported; a timeout
  leaves no process of the group; the harness gets an answer.
* publish and export: a gated-out sweep touches no row; a repeated publish repairs
  a crashed one; the two files differ by no more than what was written between their
  queries; only a publish that published is shown.
* store: a model gains nothing by skipping tasks.
* golden set: what a build leaves is validated, and a green gate is about every task
  of the commit.
* hardening, gates, calibration: a score, a verdict or a kappa counts what its name
  says, at the edges too (no mutant, no record, one seed, no spread, one label).
* tracing: a link leads to the project of the keys in force.

## 2. Modules

| Module | Models | Extended or instantiated by |
| --- | --- | --- |
| `Solver` | one call of `solve()` | `MCSolver`, `SolverProofs` |
| `Router` | `complete()` in several threads and the ledger | `MCRouter`, `RouterProofs` |
| `Completions` | the abstract service `complete()` implements | `Router` |
| `Playground` | `POST /api/solve` | `MCPlayground`, `PlaygroundProofs` |
| `Harness` | `run_task_patch()` and the verdict | `MCHarness`, `HarnessProofs` |
| `NodeRun` | one node id: its processes, pipe, report and timeouts | `MCTooling`, `HarnessProofs` |
| `Board` | the leaderboard query, as operators on a set of rows | `Leaderboard` |
| `Leaderboard` | the sweep workflow: sweep, gate, upsert, export, deploy, commit | `MCLeaderboard`, `LeaderboardProofs` |
| `GoldenSet` | building the dataset, the sharded self-test, the exact gate | `MCTooling`, `GoldenSetProofs` |
| `Harden` | mutating one file of a gold fix | `MCTooling`, `GoldenSetProofs` |
| `Gates` | the regression gate | `MCTooling`, `EvaluationProofs` |
| `Calibration` | the judge's replies, the rows of the gold set, Cohen's kappa | `MCTooling`, `EvaluationProofs` |
| `Tracing` | `setup_tracing`, `trace_url_for` and the cache of project ids | `MCTooling`, `EvaluationProofs` |
| `Induction` | no code: induction and sums over finite sets, as lemmas | `RouterProofs`, `GoldenSetProofs`, `LeaderboardProofs`, `EvaluationProofs` |

A component's module has its constants with their assumption, its variables,
one action for each way a statement group of the code can end, its specification
and its properties.  Definitions whose comment starts with FAULT are no part of
the model: each is a plausible defect in the form of the definition that follows
it, and serves to show that a property notices that defect.  The `MC` modules
hold only constants for TLC, the `Proofs` modules and `Induction` only theorems.

### Solver

`pc` is the place in `solve()`: `setup` is the try up to the retrieval, `loop` the
head of the for statement, `critic`, `test` and `retry` the stages of a step,
`submit` what follows the loop, `done` a returned `SolveResult` and `raised` an
exception from before the try.  The contents of the target file are a member of
`Edits`; which of them fix the failing tests, keep the passing ones or hang is a
constant, so that every mixture of the gates' verdicts occurs.  `cost`, `steps`
and the three counters are the code's; `billed`, `attempts` and `approved` record
what the environment did.  An action per way a reply can end a step (no code,
broken code, rejected, failing, accepted, raising), and `EditCallRaises`,
`CriticCallRaises`, `StepRaises` and `ParseRaises` for the `except` clause.

### Router and Completions

Each caller has its place in the walk (`model`, `attempt`), and `GetLedger` and
`SetLedger` are the two halves of line 168, between which another thread may run.
`log` records a call's requests and how each ended.  `Completions` is what a
caller may rely on: a request is answered once, with its cost on the ledger at
that moment, or refused with no cost.  `Router!Service` maps the walk to it:
everything between the call and its return is one pending request.

### Playground

A handler takes one action from one await to the next: the allowlist check, the
limiter and, without Turnstile, the budget check and the hand-over to the pool are
a single step, because no other handler can run between them.  `loop` names the
request whose `grade()` holds the event loop; only worker threads progress
meanwhile.  Time passes by `Tick` at any point.  `hits` is the code's deque;
`granted` is its uncut history.  `charged` attributes spend to the day of
admission, where the code's `tokens_today` may attribute it to the next one.

### Harness

A file is known by who wrote its contents (`base`, `test`, `candidate`, or a
merge's `conflict`).  `p1`, `3way` and `p0` are the rungs of
`apply_unified_diff()`; a rung that fits may still refuse (its context does not
match), and `Conflict3way` is the failure that writes before it fails, which git
does.  `cures` is what the whole candidate makes pass, chosen at the start; on any
other tree a test may do anything, except that those of FAIL_TO_PASS fail on HEAD,
which is what the builder validated.  The strip asks git's index what the candidate
changed, and the index does not list a file that is ignored.  Hence `Overlooked`: a
hook that the candidate added past the index (by the first or the last rung), in a
tree with some `.gitignore`, be it the candidate's own.  Which of those the ignore
files do cover is any subset, and `StripAutoload` leaves it in the tree.

### NodeRun

`phase` is the place in `_run_pytest`: the first wait, the one of ten seconds after
the group was killed, the third without a timeout, and the reading of the report.
The tests may spawn processes into the group or out of it, with the pipe or
without, crash, and write the report in two steps; they owe nothing.  A descendant
in the group dies with it, one that left the session lives on and may hold the pipe.

### Leaderboard and Board

`pc` is the step of `sweep.yml`; `publish.py` is its steps `publish`, `insert` and
`read`.  A file is a function from a model's runs to their outcomes, chosen from
`Results`.  Each `InsertRun` is a commit of its own, the export's two queries are
two steps (`ReadBoard`, `ReadRunsAndWrite`), and `JobFails` may strike before any of
them.  Operators act beside it, whatever its step: `PublishAgain` is one who downloads
the artifact and publishes it step by step; `InsertAgain` a row of such a publish of a
finished run's artifact that overlaps the workflow; `StoreRun` a row of an operator's
own sweep, which no gate holds back.  `pages-deploy.yml` has a concurrency group of its
own and no publish: `PagesCheckout` takes what the repository has, and `PagesDeploy`
puts it on the site, at any later moment; `PagesFails` is also the cancellation by a
second dispatch.  The histories: `passed` has the runs of acceptable files,
`disturbed` the keys operators wrote since the publish began, `between` those written
between the export's two queries (a snapshot keeps its own), and `deployed` what
`sweep.yml` put on the site last.
`Board` computes a line as the query does, with sums
in place of averages.

### GoldenSet

An author edits directories while `build_dataset` goes through them: `BuildTask`
reads a directory for the task and `ValidateTask` again for its validation.  The
dataset and the solutions are written one after the other and `BuildEnds` may come
between them.  A commit is graded by `NumShards` jobs, each over the tasks whose rank
falls to it, and the exact gate runs when all are green.

### Harden, Gates, Calibration, Tracing

`Harden` knows a syntax tree by its nodes in `_Counter`'s order, each with the last
node under it (`until`), a kind and a span; `_Counter` and `_Mutator` are two
independent definitions of what is mutable and in which order, as in the code.
`UnparseFails` is the mutant that `ast.unparse` cannot write down, which is passed over
and not counted.
`Gates` keeps Student's intervals as squares over a common denominator.  `Calibration`
knows a reply by what each pattern of `_parse_score` finds in it, and keeps kappa as a
fraction.  `Tracing` has keys that change between calls
and a Langfuse that may not answer; `SetupWithExporter` is a caller with an exporter of
its own, under which no spans go to Langfuse although the keys are set.

### MCTooling

These components share no state, so a behaviour of the run `Tooling` exercises one of
them, chosen at the start, and leaves the variables of the others as they are: the
states are the sum of the components' and not their product, which would add
interleavings that mean nothing.  `Leaderboard` has a run to itself.

## 3. Runs

| Run | Instance | Shows |
| --- | --- | --- |
| `Solver` | 5 edits (fixing, breaking, useless, hanging, base), 3 steps, budgets 0, 2 and 4, both modes, with and without critic | all properties of `Solver`, and that it ends with its work tree removed if its waits for tests end |
| `SolverAutosubmit` | the same | a run out of budget submits the empty diff (finding) |
| `RouterWalk` | two threads under one run_id, chains of 2 and 1 models, 3 attempts, Retry-After -5, 3, 90, none or no number | the order of the fallback, capped waits, the error's claim, termination; the shared ledger may lose but never invents |
| `RouterLedger` | two threads with a run_id each, two calls each, resets | the ledger is exact; the router implements `Completions` |
| `RouterLostCost` | two threads under one run_id | a charge is lost (finding) |
| `PlaygroundBudget` | 3 requests, 2 addresses, 2 workers, days of 2 ticks, 4 instants | bounded overspend; every request is answered if the waits for tests end |
| `PlaygroundLimiter` | 5 requests, 3 known ones from one address, a rate of 2, a window of 1 tick, Turnstile | the window slides, refusals are due |
| `PlaygroundOverspend` | 2 requests admitted together | a spent budget is spent further (finding) |
| `Harness` | 5 files with a namesake each, every candidate over them, 16 base trees | all properties of `Harness`, and that it ends with its work tree removed if its waits for tests end |
| `HarnessHalfApplied` | the same | a half-applied candidate is graded (finding) |
| `Leaderboard` | 2 models, 2 tasks, seeds 0, 1 or both for each of 2 workflow runs under different versions, a row by an operator, a pages-deploy; a failure at any step | only acceptable runs become rows; a publish that exports is whole; what is shown agrees, was published, and what is committed was deployed; no model of a table gains by a task it skipped |
| `Tooling` | 3 directories of which 2 claim one id, 3 versions, 3 edits, 2 shards; 2 child processes; trees of 4 nodes over 3 lines; 4 seeds a side; gold sets of up to 4 rows; 3 accounts | one or two properties of each component |

Why the bounds suffice.  Three steps let a run reject, retry and succeed or run
out; budgets of 0, below and above one step's price take each side of the cost
check.  Three attempts are the code's own number, and two models are the least
with a fallback.  Two threads are enough for a lost update.  A limiter's rate of
two with three requests is the least where a window slides rather than empties.
Two requests in flight and a third after them are the least for an overspend that
is not one solve's.  A source file, a file of `test_patch`, a test file of base, an
autoloaded file and an ignore file are the five roles a path can have; each has a
namesake one directory down since `-p0` reads a diff's names differently.  Two workflow
runs with two rows each are the least where a second publish meets what a first one
left half done, or where a stale file could stand in for a missing one.  A tolerated
error rate of a half is just met by a sweep of one seed with an error in one of two
tasks, and exceeded by one of two seeds with three errors; the tables of an operator's
row and a sweep's differ in the tasks a model has run.  One operator's row and one
pages-deploy suffice, for each may fall between any two steps.  Three edits let a
directory be made before a build, changed during it and changed again after.  Two
child processes are one that dies with the group and one that escapes it, or one
spawned by the other.  Trees of four nodes
have the two visitors' orders disagree, with a nested and a flat pair of points.
Two to four seeds take each critical value that distinguishes small samples.

All runs switch deadlock detection off: the modelled calls end, clients stop
sending, and the counters are bounded.  The bounds by name: `MaxSteps`, `MaxEditCost`,
`MaxCriticCost` (`Solver`), `MaxCalls`, `MaxCost` (`Router`), `MaxTime`, `MaxTokens`
(`Playground`), `MaxSweeps`, `MaxStored`, `MaxRedeploys`, `Results`, `SeedChoices`,
`StoreRuns` (`Leaderboard`), `MaxEdits`, `MaxCommits` (`GoldenSet`), `Children` (`NodeRun`),
`MaxFiles` (`Gates`), `GoldRows`, `GoldSets`, `Replies` (`Calibration`).

Fairness.  `Solver` and `Harness` are straight-line code in one thread: git and the
file system return or raise, and a model call ends by litellm's default timeout, so
weak fairness of the next step, except while tests run.  That wait is
`materialize.py:196-204`, whose third `communicate()` has no timeout: a process that
left the session and holds the pipe keeps it, as `NodeRun` shows.  So `Termination` of
both says that the call ends unless a wait for its tests never does.  `Playground` has
weak fairness for each request that has arrived, as asyncio runs ready callbacks in
turn and `siteverify` has a timeout of 10 seconds, but not for what waits for tests:
`EveryRequestIsAnswered` is of requests whose own solve ends, while no grading holds the
loop for ever and the others' solves do not take all threads for ever (`WaitsEnd`).  No
client need send, and no clock tick.  `Router` has fairness for each thread inside a
call and for no caller to call.
`NodeRun` has it for the harness's own steps, its timeouts among them, and for
nothing the tests do; what they must grant in return, `EndsUnlessHeld` says.  The
workflows, the author and the operators owe nothing.

## 4. Proofs

All for every value of the constants that the module's assumption allows.

* `SolverProofs`: types; the bound on spend (`SpendInv`, that the cost check bounds
  what is billed at the head of the loop, and `StepSpendInv`, that each step adds at
  most its two calls); reported cost; the account of steps; that a submission passed
  every gate (`GateInv`: outside test and retry the tree is at base, or the status is
  ok and the tree's edit is an approved one whose visible tests passed); and that the
  work tree is gone at every end.
* `RouterProofs`: types; with private run_ids the ledger is exact, the strengthening
  being that a caller between its read and its write has read the current value;
  with shared ones it never overstates; `CompleteIsAtomic`, the refinement of
  `Completions`, step by step under the mapping; `FallbackOrder` and
  `FailureIsHonest` about the history of requests, by `WalkInv`: the log is in order
  (`InOrder`), and where the walk stands the last entry is one that justifies it;
  and `SleepBounded`, by `SleepInv`: the time slept is within the cap for each
  attempt made so far but the last at a model.  It rests on `BackoffIsCapped` and
  `PowersAreNumbers`, that the doubling delay is a number for every attempt.
* `PlaygroundProofs`: types; the limiter (the hits kept are a suffix of the grants,
  and every grant dropped is older than the window); `RefusedWhenDue`: as the grants
  of an address are in the order of their times (`GrantsStayOrdered`), the hits that
  are left when a request is refused are `RateLimit` grants within the window; and
  the day's budget (a solve is admitted only below the budget, and the charges yet
  to come are bounded by the solves in flight, of which there are at most `peak`).
* `HarnessProofs`: types; the pinned oracle, but for an overlooked hook; that outside the
  pinned files the candidate is graded whole or not at all; that a resolved verdict was
  earned; that the work tree is gone.  `TreeInv` says what the ladder has made of HEAD
  at each stage (before the strip any pinned file may be the candidate's, after it only
  an overlooked one), and `PassInv` that the tests that passed could.
  Of `NodeRun`: `PassIsReported`, from `ReadInv` (the report is
  read only after a pytest that ended by itself); and `GroupIsGone`, for any number
  of processes.
* `GoldenSetProofs`: `BuildsAreValid`, from `BuildInv` (the list under construction is
  validated, and so is a dataset between its two writes); and `GreenIsWhole`: `GateInv`
  ties each green shard's records to the commit, `FiniteInv` keeps the datasets
  finite, and `EveryTaskHasAShard` is that a rank modulo the number of shards is the
  number of exactly one.  `PointsAreProbedOnce`, about `Harden`: on a tree, children
  first is a strict total order (`BeforeIsAnOrder`), so that the points' turns in it
  are the indices below their number, each of one point (`PointsTakeTurns`, from
  `Ranks`), and `HardenInv` says that the points mutated, and those lost because their
  mutant could not be written down, are those whose turn has come.
* `LeaderboardProofs`: types; `RowsPassed` (`PassedInv`: the files of the run in hand
  are among those that passed, and `GateAccepts`: what the gate lets through is
  acceptable); `PublishesAreWhole` (`WholeInv`: what is no longer to do is done, unless
  an operator wrote it since); `SiteConsistency` (`SnapshotInv`, that the lines read are
  those of some table that differs from the present one only under keys written since;
  `TwoQueriesAreConsistent` makes of it a snapshot that is consistent in the property's
  sense); `CommitsFollowTheSite` (`LiveInv`, that at the commit step the snapshot is what
  was deployed, which a pages-deploy cannot change); `DeploysArePublished` (`ShownInv`,
  that the lines to be deployed and committed include every healthy model's).  Common to
  them is `OperatorsStoreRuns`: what operators write is a run of some sweep, and one that
  passed the gate if it is a workflow's.  and, for any finite
  set of runs, `SkippersArePenalised`: a task more adds nothing to the sum of rates of
  a model that did not run it, and one to the number it is divided by;
  `TablesPenaliseSkipping` is that of every table there ever is.
* `EvaluationProofs`, on the tools around a run.
  `LinksAreCurrent`, from `CacheInv` (an entry is its keys' project, and spans go out under
  the keys if `setup_tracing` chose the exporters under them).
  `CalibrationHolds`, from `CalibrationInv` (the verdicts are about the first rows of
  the gold set, a blank patch's are bad, and an artifact is of the final verdicts):
  `KappaOfPairs` derives the kappa of any two raters from the four counts of the
  confusion matrix, which the code computes apart.
  `GateSeparatesSeeds`, from `GateInv` (a verdict is the comparison's): that the
  intervals of two sides one of whose seeds are not apart meet, because every seed
  is within `(n - 1)` standard errors of its side's mean (`SeedsAreNearTheMean`, from
  the Cauchy-Schwarz inequality) and the critical value is no less for two to four
  seeds.  Hence the assumption that a side has at most four files; beyond that
  the claim would be false of Student's intervals, and the code does not make it.

Together `SubmissionIsGated` and `ResolutionIsEarned` give what the leaderboard rests
on: a record that counts as resolved has a patch, hence status ok, hence an edit that
passed the visible tests of the run that submitted it.

Induction over data.  The library's induction theorems have the statement as an
operator parameter, which the provers cannot instantiate.  `Induction` has it as a
set: a set that contains 0 and with each number the next contains them all, and
likewise for the subsets of a finite set.  The first follows from the least element
of a set of numbers (`LeastNat`), which the library's well-foundedness of `<` gives.
From these come that the community modules' recursive sum over a finite set is
what it should be (`SumEmpty`, `SumInsert`, `SumLess`, `SumMonotone`, `SumOfEqual`,
`SquareOfSum`), that a recursion over numbers has a solution (`RecursionOverNat`),
that an image of a finite set is finite, and that in a strict total order of a
finite set the elements' numbers of predecessors are all those below its size
(`Ranks`).

Every invariant that a run checks is proved, and every action property, the
refinement of `Completions` among them.  Model-checked only: the five liveness
properties (`Termination` of `Solver` and of `Harness`, `CallsEnd`,
`EveryRequestIsAnswered`, `NodeEndsUnlessHeld`), which are beyond the prover, as is
ENABLED; and the refuted statements.  No module with a theorem has a RECURSIVE
operator.

## 5. Findings

Four statements of the documentation that the code does not keep; each has a run
whose counterexample shows it.

1. `solver.py:7` promises the best diff so far when the budget is spent; line 239
   discards every failed edit, so the diff is empty.
2. `router.py:8` promises a ledger per run; line 168 is not atomic, and the
   playground shares `hf-<task>` between threads.
3. `app.py:9` promises no spend after the budget; it is checked before the await
   at line 138 and charged after it.
4. `runner_local.py:109` promises no half-applied tree; a failed `--3way` leaves its
   conflicts for `-p0`, which may then succeed.

Other places where text and code part, read while modelling and without a run:

* `router.py:4` promises the first model that succeeds or a RuntimeError; a reply
  without choices raises at line 159, outside the try, and ends the walk.
* `solver.py:119` says that tests are restored at grading; `runner_local.py:146` restores
  those that `test_patch` names, and an edited test of base is still there.
* `gate.py:138` means a crashed candidate to count as a regression; the comparison is of
  intervals, and a candidate without records still passes where the baseline's
  interval reaches 0.
* `harden.py:83` says that the mutator visits in the counter's order; it visits children
  first.  `EveryPointIsProbedOnce` shows that only the numbers differ.
* `db.py:111` is grouped by scaffold version as well as by model, so the MCP server's
  "one row per model" holds for one version.
* The cache of project ids is keyed by the keys and not by the host.
* `runner_local.py:69` says that a hook the candidate added is deleted; one that git
  ignores, by a `.gitignore` of base or of the candidate, is not in the diff it goes
  through and stays.  `OraclePinned` states the rule with this exception.
* `tracing.py:155` promises no link where Langfuse is not the exporter; with an exporter of
  the caller's and keys in the environment there is one, to a trace that was never sent.
* `harden.py:175` calls a fix without applicable mutants inconclusive; one whose every
  mutant `ast.unparse` refuses is so too, although its nodes can be mutated.
* `sweep.yml:22` commits so that git matches the live site; a pages-deploy between the
  deployment and the commit has put the older snapshot back.  `GitFollowsTheSite` is about
  what the workflow deployed.

## 6. Assumptions and what is left out

* Tests leave no files in the work tree, and ignore rules cover no file of a task (those
  a candidate adds they may cover); true of the bundled tasks, enforced by nothing.
* One server process; a monotone clock that agrees with the calendar; money and
  tokens as natural numbers, where the code sums floats.
* Prompts, feedback, spans and logs, on which no decision depends.
* `validate_task` copies a base twice, taken as one read; the export writes its two
  files one after the other in a checkout that a failed job throws away.
* Real arithmetic: `Gates` rounds the squares of the critical values, which a float
  rounds elsewhere.
* `app.state.hits` never shrinks: growth with the number of addresses, which a
  model with a fixed few cannot show.

Not modelled:

* the localizer's ranking, a pure function of text with no state; `Solver` has its
  two outcomes.
* the official grading adapter, a translation of names between two records.
* `mine_owned.py`, which copies a repository into a task directory: an edit, as far as
  `GoldenSet` is concerned.
* the golden fixtures, which are data: programs with a bug each and their fixes.
* the MCP server and the command line, sequential wrappers of what is modelled.
* table `tasks`, which holds labels, and `get_run`, which reads one row.
* the dashboard, static pages over the two exported files.
* `eval.yml`, the shards of `gate.yml` on gold or empty patches, with a pooled summary
  where that has its gate; `regression-gate.yml`, a sweep for each seed that stores
  nothing, whose comparison is `Gates`; `ci.yml`, linters and unit tests; `release.yml` and
  `publish-mcp.yml`, which build and publish packages.  None writes the database, the
  site or the snapshot.

## 7. What could follow

The contracts of `solve()` (a status other than ok has no patch) and of `grade()` (no
patch, nothing resolved) as abstract modules that `Solver` and `Harness` are shown to
implement, with the sweep over both contracts in place of `SweepModel`'s outcome;
`Harness` over `NodeRun` in place of its verdict per test.
