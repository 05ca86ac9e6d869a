------------------------------- MODULE Solver -------------------------------
(***************************************************************************)
(* One call of solve(): the localize -> repair -> validate loop of         *)
(* forgejudge/agent/solver.py, with the edit gate and the reply parsing of *)
(* repair.py and the critic of critic.py.  The environment (the model, the *)
(* critic's model, git, the file system and pytest) answers with every     *)
(* outcome the code distinguishes.                                         *)
(*                                                                         *)
(* A file's contents matter only for what the gates say of them, so an     *)
(* edit is a member of Edits, and a patch is the contents it gives the     *)
(* target file, Base being the empty patch.  Prompts, feedback texts,      *)
(* traces and token totals (which follow the cost's every assignment) are  *)
(* left out; tests are taken to leave no file behind in the work tree.     *)
(* A definition marked FAULT is no part of the model: it is a plausible    *)
(* defect in place of the definition after it, which a property must find. *)
(***************************************************************************)
EXTENDS Integers

CONSTANTS
  Edits,          \* contents of the target file that parse as Python
  Base,           \* the contents the file has at base_commit
  FixesF2P,       \* contents under which every FAIL_TO_PASS test passes
  KeepsP2P,       \* contents under which every PASS_TO_PASS test passes
  Hangs,          \* contents under which some test never returns
  NoCode,         \* a reply extract_code() finds no code in
  Broken,         \* a reply whose code does not parse
  MaxSteps,       \* solve()'s max_steps
  Budgets,        \* the budget_usd values of the jobs, 0 meaning no limit
  MaxEditCost,    \* the most one edit call costs
  MaxCriticCost   \* the most one critic call costs

ASSUME SolverAssumption ==
  /\ Base \in Edits
  /\ FixesF2P \subseteq Edits /\ KeepsP2P \subseteq Edits /\ Hangs \subseteq Edits
  /\ NoCode \notin Edits /\ Broken \notin Edits
  /\ MaxSteps \in Nat /\ MaxEditCost \in Nat /\ MaxCriticCost \in Nat
  /\ Budgets \subseteq Nat

VARIABLES
  job,         \* the arguments of this call that its control depends on
  pc,          \* where solve() is
  work,        \* the temporary work tree: "none", "live" or "removed"
  target,      \* the contents of the target file in the work tree
  edit,        \* the last reply's code
  steps, cost, noCode, reverted, rejections,   \* solve()'s counters
  status,      \* solve()'s status variable
  result,      \* the SolveResult, or NoResult
  attempts,    \* history: validations that ran
  billed,      \* history: what the providers charged for this call
  approved     \* history: the edits the critic approved

counters == <<steps, cost, noCode, reverted, rejections, attempts, billed>>
vars == <<job, pc, work, target, edit, counters, status, result, approved>>

Jobs == [shown : BOOLEAN, critic : BOOLEAN, hasP2P : BOOLEAN, budget : Budgets]
NoResult == "no result"
Results == [status : {"ok", "budget_exceeded", "error"}, patch : Edits, inLoop : BOOLEAN]
Running == {"setup", "loop", "critic", "test", "retry", "submit"}
Final == {"done", "raised"}

Init ==
  /\ job \in Jobs
  /\ pc = "start" /\ work = "none" /\ target = Base
  /\ edit = NoCode /\ status = "budget_exceeded" /\ result = NoResult
  /\ steps = 0 /\ cost = 0 /\ noCode = 0 /\ reverted = 0 /\ rejections = 0
  /\ attempts = 0 /\ billed = 0 /\ approved = {}

-----------------------------------------------------------------------------
\* FAULT: no finally clause.
ReturnWithoutCleanup(res) ==
  /\ result' = res /\ pc' = "done" /\ UNCHANGED work

\* The finally clause and the return of a result: the work tree goes away.
Return(res) ==
  /\ result' = res /\ pc' = "done" /\ work' = "removed"

ErrorResult == [status |-> "error", patch |-> Base, inLoop |-> FALSE]

\* mkdtemp, and everything before the try, for a task that has a source tree.
Start ==
  /\ pc = "start"
  /\ pc' = "setup" /\ work' = "live"
  /\ UNCHANGED <<job, target, edit, counters, status, result, approved>>

\* source_dir_for() or mkdtemp raises before the try: no SolveResult at all.
StartRaises ==
  /\ pc = "start"
  /\ pc' = "raised"
  /\ UNCHANGED <<job, work, target, edit, counters, status, result, approved>>

\* The tree is at base (and the visible test committed); a target was found.
Localize ==
  /\ pc = "setup"
  /\ pc' = "loop"
  /\ UNCHANGED <<job, work, target, edit, counters, status, result, approved>>

\* localize() ranked nothing and _fallback_target() found nothing.
NoSourceFile ==
  /\ pc = "setup"
  /\ Return(ErrorResult)
  /\ UNCHANGED <<job, target, edit, counters, status, approved>>

\* FAULT: the budget must be exceeded, and not only met.
ExhaustedAboveBudget == steps = MaxSteps \/ (job.budget > 0 /\ cost > job.budget)

\* FAULT: one step too many.
ExhaustedLate == steps > MaxSteps \/ (job.budget > 0 /\ cost >= job.budget)

\* The two ways the for loop ends: its range, and the cost check on top.
Exhausted == steps = MaxSteps \/ (job.budget > 0 /\ cost >= job.budget)

\* FAULT: the loop does not end with its range.
LoopEndsAtBudget ==
  /\ pc = "loop" /\ job.budget > 0 /\ cost >= job.budget
  /\ pc' = "submit"
  /\ UNCHANGED <<job, work, target, edit, counters, status, result, approved>>

LoopEnds ==
  /\ pc = "loop" /\ Exhausted
  /\ pc' = "submit"
  /\ UNCHANGED <<job, work, target, edit, counters, status, result, approved>>

\* complete_fn returned: the step and its cost are counted before the code is read.
Charge(c) == steps' = steps + 1 /\ cost' = cost + c /\ billed' = billed + c

ReplyNoCode ==
  /\ pc = "loop" /\ ~Exhausted
  /\ \E c \in 0..MaxEditCost : Charge(c)
  /\ edit' = NoCode /\ noCode' = noCode + 1
  /\ UNCHANGED <<job, pc, work, target, reverted, rejections, attempts,
                 status, result, approved>>

\* The edit gate: code that does not parse never reaches the tree.
ReplyBroken ==
  /\ pc = "loop" /\ ~Exhausted
  /\ \E c \in 0..MaxEditCost : Charge(c)
  /\ edit' = Broken /\ reverted' = reverted + 1
  /\ UNCHANGED <<job, pc, work, target, noCode, rejections, attempts,
                 status, result, approved>>

ReplyEdit ==
  /\ pc = "loop" /\ ~Exhausted
  /\ \E c \in 0..MaxEditCost : Charge(c)
  /\ edit' \in Edits
  /\ pc' = IF job.critic THEN "critic" ELSE "test"
  /\ UNCHANGED <<job, work, target, noCode, reverted, rejections, attempts,
                 status, result, approved>>

\* ast.parse() raises something other than SyntaxError (its recursion limit).
ParseRaises ==
  /\ pc = "loop" /\ ~Exhausted
  /\ \E c \in 0..MaxEditCost : Charge(c)
  /\ Return(ErrorResult)
  /\ UNCHANGED <<job, target, edit, noCode, reverted, rejections, attempts,
                 status, approved>>

\* FAULT: the critic's spend is not counted.
ChargeCriticUncounted(c) == billed' = billed + c /\ UNCHANGED cost

\* _critique() folds the critic's spend into the run's.
ChargeCritic(c) == cost' = cost + c /\ billed' = billed + c

CriticApproves ==
  /\ pc = "critic"
  /\ \E c \in 0..MaxCriticCost : ChargeCritic(c)
  /\ approved' = approved \union {edit}
  /\ pc' = "test"
  /\ UNCHANGED <<job, work, target, edit, steps, noCode, reverted, rejections,
                 attempts, status, result>>

\* FAULT: a rejection is not counted.
CriticRejectsUncounted ==
  /\ pc = "critic"
  /\ \E c \in 0..MaxCriticCost : ChargeCritic(c)
  /\ pc' = "loop"
  /\ UNCHANGED <<job, work, target, edit, steps, noCode, reverted, rejections,
                 attempts, status, result, approved>>

CriticRejects ==
  /\ pc = "critic"
  /\ \E c \in 0..MaxCriticCost : ChargeCritic(c)
  /\ rejections' = rejections + 1
  /\ pc' = "loop"
  /\ UNCHANGED <<job, work, target, edit, steps, noCode, reverted, attempts,
                 status, result, approved>>

\* What run_nodeids_status() can say of a list of tests that pass under the
\* contents in passing: a slow machine times a node out too.
Outcomes(passing) == IF edit \in passing \ Hangs THEN BOOLEAN ELSE {FALSE}

\* The condition of the two breaks.  _all_pass() of no tests is false,
\* _no_regression() of no tests is true.
Accepted(p2p, f2p) ==
  IF job.shown THEN f2p /\ job.hasP2P /\ p2p ELSE job.hasP2P => p2p

\* The edit is written over the target and the tests run in the work tree.
RunTests ==
  /\ pc = "test"
  /\ target' = edit
  /\ attempts' = attempts + 1
  /\ \E p2p \in Outcomes(KeepsP2P), f2p \in Outcomes(FixesF2P) :
       IF Accepted(p2p, f2p)
         THEN pc' = "submit" /\ status' = "ok"
         ELSE pc' = "retry" /\ UNCHANGED status
  /\ UNCHANGED <<job, work, edit, steps, cost, noCode, reverted, rejections, billed,
                 result, approved>>

\* FAULT: the failed edit stays in the tree.
RetryFromEdit ==
  /\ pc = "retry"
  /\ pc' = "loop"
  /\ UNCHANGED <<job, work, target, edit, counters, status, result, approved>>

\* git checkout HEAD -- target: the target alone goes back to base.
RetryFromBase ==
  /\ pc = "retry"
  /\ target' = Base /\ pc' = "loop"
  /\ UNCHANGED <<job, work, edit, counters, status, result, approved>>

\* The staged diff of the whole tree is the submission.
Submit ==
  /\ pc = "submit"
  /\ Return([status |-> status, patch |-> target, inLoop |-> job.shown /\ status = "ok"])
  /\ UNCHANGED <<job, target, edit, counters, status, approved>>

\* A model call raises, a reply its provider charged for having been lost.
CallRaises(most) ==
  /\ \E c \in 0..most : billed' = billed + c
  /\ Return(ErrorResult)
  /\ UNCHANGED <<job, target, edit, steps, cost, noCode, reverted, rejections,
                 attempts, status, approved>>

EditCallRaises == pc = "loop" /\ ~Exhausted /\ CallRaises(MaxEditCost)
CriticCallRaises == pc = "critic" /\ CallRaises(MaxCriticCost)

\* git, the file system or the pytest subprocess raises inside the try.
StepRaises ==
  /\ pc \in {"setup", "test", "retry", "submit"}
  /\ Return(ErrorResult)
  /\ UNCHANGED <<job, target, edit, counters, status, approved>>

Next ==
  \/ Start \/ StartRaises
  \/ Localize \/ NoSourceFile
  \/ LoopEnds
  \/ ReplyNoCode \/ ReplyBroken \/ ReplyEdit \/ ParseRaises
  \/ CriticApproves \/ CriticRejects
  \/ RunTests \/ RetryFromBase
  \/ Submit
  \/ EditCallRaises \/ CriticCallRaises \/ StepRaises

Spec == Init /\ [][Next]_vars

\* solve() is one thread of straight-line code: a model call ends by litellm's
\* default timeout, and every other step by returning or raising.  The wait for
\* the tests is left out: its last communicate() has no timeout, and ends only
\* when no process holds the node's pipe any more (NodeRun).
FairSpec == Spec /\ WF_vars(pc # "test" /\ Next)

-----------------------------------------------------------------------------
\* The variables' types, and the result exists exactly when solve() returned one.
TypeOK ==
  /\ job \in Jobs
  /\ pc \in {"start"} \union Running \union Final
  /\ work \in {"none", "live", "removed"}
  /\ target \in Edits
  /\ edit \in Edits \union {NoCode, Broken}
  /\ pc \in {"critic", "test"} => edit \in Edits
  /\ steps \in 0..MaxSteps
  /\ cost \in Nat /\ billed \in Nat
  /\ noCode \in Nat /\ reverted \in Nat /\ rejections \in Nat /\ attempts \in Nat
  /\ status \in {"ok", "budget_exceeded"}
  /\ approved \subseteq Edits
  /\ IF pc = "done" THEN result \in Results ELSE result = NoResult

\* The cost budget caps what the providers charge, and not only what solve()
\* counts: the check on top of each step lets through one edit call and one
\* review at most.  The step count is a cap of its own, the only one where the
\* budget is 0.
BoundedSpend ==
  LET review == IF job.critic THEN MaxCriticCost ELSE 0
  IN  /\ job.budget > 0 => billed < job.budget + MaxEditCost + review
      /\ billed <= MaxSteps * (MaxEditCost + review)

\* The cost a run reports is the cost it incurred, the critic's included; a run
\* that ended in an exception may have lost its last call's alone.
CostReported ==
  /\ cost <= billed
  /\ pc = "done" /\ result.status # "error" => cost = billed

\* Every step a result reports is accounted for by exactly one of its counters
\* or by a validation, a run that ended in an exception having at most one
\* step unfinished.
StepsAccounted ==
  pc = "done" =>
    LET open == steps - (noCode + reverted + rejections + attempts)
    IN  IF result.status = "error" THEN open \in {0, 1} ELSE open = 0

\* The edit a result submits is one the critic approved (where there is one) and
\* whose tests, those the agent may see, passed; an edit that failed any gate,
\* or was never validated, is in no submission.
SubmittedEditPassedEveryGate ==
  pc = "done" =>
    LET submitted == result.patch
    IN  IF result.status = "ok"
          THEN /\ job.critic => submitted \in approved
               /\ job.hasP2P => submitted \in KeepsP2P
               /\ job.shown => submitted \in FixesF2P
               /\ submitted \notin Hangs \/ ~(job.hasP2P \/ job.shown)
          ELSE submitted = Base /\ ~result.inLoop

\* However solve() ends, no work tree is left behind (a theorem of SolverProofs).
NoWorkTreeLeft == pc \in Final => work # "live"

\* Unless a wait for its tests never ends, solve() ends, by a result or by raising
\* before it made its work tree, and its work tree does not outlive it.
Termination == []<>(pc # "test") => <>(pc \in Final /\ work # "live")

-----------------------------------------------------------------------------
\* solver.py's docstring: "a cost/step budget with autosubmit (return the best
\* diff so far when the budget is spent)" -- so a run whose last reply was an
\* edit, validated and short of passing, submits some edit when it ends.  The
\* code does not: the checkout after each failed validation empties the diff.
AutosubmitReturnsBestDiff ==
  pc = "done" /\ result.status = "budget_exceeded" /\ ~job.critic
    /\ edit \in Edits \ {Base}
    => result.patch # Base
=============================================================================
