--------------------------- MODULE SolverProofs ---------------------------
(* Theorems about Solver, for every set of edits, every step limit, every  *)
(* budget and every price of a call.                                       *)
EXTENDS Solver, TLAPS

LEMMA MultiplyMonotone ==
  ASSUME NEW a \in Nat, NEW b \in Nat, NEW k \in Nat, a <= b
  PROVE  a * k <= b * k
  OBVIOUS

LEMMA MultiplySucc ==
  ASSUME NEW a \in Nat, NEW k \in Nat
  PROVE  (a + 1) * k = a * k + k /\ a * k \in Nat
  OBVIOUS

-----------------------------------------------------------------------------
\* The variables keep their types, and a result exists exactly once solve() is done.
THEOREM TypeCorrect == Spec => []TypeOK
<1>1. Init => TypeOK
  BY SolverAssumption DEF Init, TypeOK, Running, Final
<1>2. TypeOK /\ [Next]_vars => TypeOK'
  <2> SUFFICES ASSUME TypeOK, [Next]_vars PROVE TypeOK'
    OBVIOUS
  <2> USE SolverAssumption DEF TypeOK, Running, Final, counters
  <2>1. CASE Start
    BY <2>1 DEF Start
  <2>2. CASE StartRaises
    BY <2>2 DEF StartRaises
  <2>3. CASE Localize
    BY <2>3 DEF Localize
  <2>4. CASE NoSourceFile
    BY <2>4 DEF NoSourceFile, Return, ErrorResult, Results
  <2>5. CASE LoopEnds
    BY <2>5 DEF LoopEnds
  <2>6. CASE ReplyNoCode
    BY <2>6 DEF ReplyNoCode, Charge, Exhausted
  <2>7. CASE ReplyBroken
    BY <2>7 DEF ReplyBroken, Charge, Exhausted
  <2>8. CASE ReplyEdit
    BY <2>8 DEF ReplyEdit, Charge, Exhausted
  <2>9. CASE CriticApproves
    BY <2>9 DEF CriticApproves, ChargeCritic
  <2>10. CASE CriticRejects
    BY <2>10 DEF CriticRejects, ChargeCritic
  <2>11. CASE RunTests
    BY <2>11 DEF RunTests
  <2>12. CASE RetryFromBase
    BY <2>12 DEF RetryFromBase
  <2>13. CASE Submit
    BY <2>13 DEF Submit, Return, Results, Jobs
  <2>14. CASE EditCallRaises
    BY <2>14 DEF EditCallRaises, CallRaises, Return, ErrorResult, Results
  <2>15. CASE CriticCallRaises
    BY <2>15 DEF CriticCallRaises, CallRaises, Return, ErrorResult, Results
  <2>16. CASE StepRaises
    BY <2>16 DEF StepRaises, Return, ErrorResult, Results
  <2>17. CASE UNCHANGED vars
    BY <2>17 DEF vars
  <2>18. CASE ParseRaises
    BY <2>18 DEF ParseRaises, Charge, Exhausted, Return, ErrorResult, Results
  <2> QED
    BY <2>1, <2>2, <2>3, <2>4, <2>5, <2>6, <2>7, <2>8, <2>9, <2>10, <2>11, <2>12,
       <2>13, <2>14, <2>15, <2>16, <2>17, <2>18 DEF Next
<1> QED
  BY <1>1, <1>2, PTL DEF Spec

-----------------------------------------------------------------------------
\* The most one step is billed: an edit call, and a review where there is a critic.
Review == IF job.critic THEN MaxCriticCost ELSE 0

\* While the loop runs solve() counts all that was billed, and what was billed
\* was, before the last step's calls, under the budget.  The critic is consulted
\* between those calls.
SpendInv ==
  /\ pc \notin Final => cost = billed
  /\ pc = "critic" => job.critic
  /\ pc \in {"start", "setup"} => billed = 0
  /\ job.budget > 0 => billed < job.budget + MaxEditCost + Review
  /\ job.budget > 0 /\ pc = "critic" => billed < job.budget + MaxEditCost
  /\ CostReported

\* With or without a budget, what was billed is within the price of the steps
\* taken, the one an exception cut short included.
Spent(n) == n * (MaxEditCost + Review)

StepSpendInv ==
  /\ billed <= Spent(MaxSteps)
  /\ pc \notin Final => billed <= Spent(steps)
  /\ pc = "critic" => billed + Review <= Spent(steps)

\* Every completed step is counted once; the one in progress is not yet.
CountInv ==
  LET settled == noCode + reverted + rejections + attempts
  IN  /\ pc \in {"start", "setup", "loop", "retry", "submit"} => steps = settled
      /\ pc \in {"critic", "test"} => steps = settled + 1
      /\ StepsAccounted

\* The edit at hand passed the gates already behind it, and the tree holds the
\* base except between a validation and its verdict's consequence.
Validated(e) ==
  /\ job.critic => e \in approved
  /\ job.hasP2P => e \in KeepsP2P
  /\ job.shown => e \in FixesF2P
  /\ e \notin Hangs \/ ~(job.hasP2P \/ job.shown)

GateInv ==
  /\ pc \in {"start", "setup", "loop", "critic", "test"} => target = Base
  /\ pc = "test" => (job.critic => edit \in approved)
  /\ pc \notin {"submit"} \union Final => status = "budget_exceeded"
  /\ pc = "submit" => IF status = "ok" THEN Validated(target) ELSE target = Base
  /\ SubmittedEditPassedEveryGate

LEMMA SpendStep == TypeOK /\ SpendInv /\ [Next]_vars => SpendInv'
  <2> SUFFICES ASSUME TypeOK, SpendInv, [Next]_vars PROVE SpendInv'
    OBVIOUS
  <2> USE SolverAssumption DEF TypeOK, Running, Final, counters
  <2>a. job' = job /\ job.budget \in Nat /\ job.critic \in BOOLEAN
    BY DEF Jobs, Next, Start, StartRaises, Localize, NoSourceFile, LoopEnds, ReplyNoCode,
       ReplyBroken, ReplyEdit, ParseRaises, CriticApproves, CriticRejects, RunTests, RetryFromBase,
       Submit, EditCallRaises, CriticCallRaises, CallRaises, StepRaises, vars
  <2>b. /\ Review \in Nat /\ Review' = Review
        /\ job.critic => Review = MaxCriticCost
    BY <2>a DEF Review
  <2> USE DEF SpendInv, CostReported
  <2>1. CASE Start
    BY <2>1, <2>a, <2>b DEF Start
  <2>2. CASE StartRaises
    BY <2>2, <2>a, <2>b DEF StartRaises
  <2>3. CASE Localize
    BY <2>3, <2>a, <2>b DEF Localize
  <2>4. CASE NoSourceFile
    BY <2>4, <2>a, <2>b DEF NoSourceFile, Return, ErrorResult
  <2>5. CASE LoopEnds
    BY <2>5, <2>a, <2>b DEF LoopEnds
  <2>6. CASE ReplyNoCode
    BY <2>6, <2>a, <2>b DEF ReplyNoCode, Charge, Exhausted
  <2>7. CASE ReplyBroken
    BY <2>7, <2>a, <2>b DEF ReplyBroken, Charge, Exhausted
  <2>8. CASE ReplyEdit
    BY <2>8, <2>a, <2>b DEF ReplyEdit, Charge, Exhausted
  <2>9. CASE CriticApproves
    BY <2>9, <2>a, <2>b DEF CriticApproves, ChargeCritic
  <2>10. CASE CriticRejects
    BY <2>10, <2>a, <2>b DEF CriticRejects, ChargeCritic
  <2>11. CASE RunTests
    BY <2>11, <2>a, <2>b DEF RunTests
  <2>12. CASE RetryFromBase
    BY <2>12, <2>a, <2>b DEF RetryFromBase
  <2>13. CASE Submit
    BY <2>13, <2>a, <2>b DEF Submit, Return
  <2>14. CASE EditCallRaises
    BY <2>14, <2>a, <2>b DEF EditCallRaises, Exhausted, CallRaises, Return, ErrorResult
  <2>15. CASE CriticCallRaises
    BY <2>15, <2>a, <2>b DEF CriticCallRaises, CallRaises, Return, ErrorResult
  <2>16. CASE StepRaises
    BY <2>16, <2>a, <2>b DEF StepRaises, Return, ErrorResult
  <2>17. CASE UNCHANGED vars
    BY <2>17, <2>a, <2>b DEF vars
  <2>18. CASE ParseRaises
    BY <2>18, <2>a, <2>b DEF ParseRaises, Charge, Exhausted, Return, ErrorResult, Results
  <2> QED
    BY <2>1, <2>2, <2>3, <2>4, <2>5, <2>6, <2>7, <2>8, <2>9, <2>10, <2>11, <2>12,
       <2>13, <2>14, <2>15, <2>16, <2>17, <2>18 DEF Next

LEMMA StepSpendStep ==
  TypeOK /\ SpendInv /\ StepSpendInv /\ [Next]_vars => StepSpendInv'
  <2> SUFFICES ASSUME TypeOK, SpendInv, StepSpendInv, [Next]_vars PROVE StepSpendInv'
    OBVIOUS
  <2> USE SolverAssumption DEF TypeOK, Running, Final, counters
  <2>a. job' = job /\ job.budget \in Nat /\ job.critic \in BOOLEAN
    BY DEF Jobs, Next, Start, StartRaises, Localize, NoSourceFile, LoopEnds, ReplyNoCode,
       ReplyBroken, ReplyEdit, ParseRaises, CriticApproves, CriticRejects, RunTests, RetryFromBase,
       Submit, EditCallRaises, CriticCallRaises, CallRaises, StepRaises, vars
  <2>b. /\ Review \in Nat /\ Review' = Review
        /\ job.critic => Review = MaxCriticCost
    BY <2>a DEF Review
  <2>c. pc = "critic" => Review = MaxCriticCost
    BY <2>b DEF SpendInv
  <2>d. /\ Spent(steps) \in Nat /\ Spent(MaxSteps) \in Nat
        /\ Spent(steps + 1) = Spent(steps) + MaxEditCost + Review
    BY <2>b, MultiplySucc DEF Spent
  <2>e. /\ Spent(steps) <= Spent(MaxSteps)
        /\ steps # MaxSteps => Spent(steps + 1) <= Spent(MaxSteps)
    BY <2>b, MultiplyMonotone DEF Spent
  <2>f. Spent(MaxSteps)' = Spent(MaxSteps) /\ Spent(steps)' = Spent(steps')
    BY <2>b DEF Spent
  <2> USE DEF StepSpendInv
  <2>1. CASE Start
    BY <2>1, <2>b, <2>c, <2>d, <2>e, <2>f DEF Start
  <2>2. CASE StartRaises
    BY <2>2, <2>b, <2>c, <2>d, <2>e, <2>f DEF StartRaises
  <2>3. CASE Localize
    BY <2>3, <2>b, <2>c, <2>d, <2>e, <2>f DEF Localize
  <2>4. CASE NoSourceFile
    BY <2>4, <2>b, <2>c, <2>d, <2>e, <2>f DEF NoSourceFile, Return, ErrorResult
  <2>5. CASE LoopEnds
    BY <2>5, <2>b, <2>c, <2>d, <2>e, <2>f DEF LoopEnds
  <2>6. CASE ReplyNoCode
    BY <2>6, <2>b, <2>c, <2>d, <2>e, <2>f DEF ReplyNoCode, Charge, Exhausted
  <2>7. CASE ReplyBroken
    BY <2>7, <2>b, <2>c, <2>d, <2>e, <2>f DEF ReplyBroken, Charge, Exhausted
  <2>8. CASE ReplyEdit
    BY <2>8, <2>b, <2>c, <2>d, <2>e, <2>f DEF ReplyEdit, Charge, Exhausted
  <2>9. CASE CriticApproves
    BY <2>9, <2>b, <2>c, <2>d, <2>e, <2>f DEF CriticApproves, ChargeCritic
  <2>10. CASE CriticRejects
    BY <2>10, <2>b, <2>c, <2>d, <2>e, <2>f DEF CriticRejects, ChargeCritic
  <2>11. CASE RunTests
    BY <2>11, <2>b, <2>c, <2>d, <2>e, <2>f DEF RunTests
  <2>12. CASE RetryFromBase
    BY <2>12, <2>b, <2>c, <2>d, <2>e, <2>f DEF RetryFromBase
  <2>13. CASE Submit
    BY <2>13, <2>b, <2>c, <2>d, <2>e, <2>f DEF Submit, Return
  <2>14. CASE EditCallRaises
    BY <2>14, <2>b, <2>c, <2>d, <2>e, <2>f DEF EditCallRaises, Exhausted, CallRaises, Return, ErrorResult
  <2>15. CASE CriticCallRaises
    BY <2>15, <2>b, <2>c, <2>d, <2>e, <2>f DEF CriticCallRaises, CallRaises, Return, ErrorResult
  <2>16. CASE StepRaises
    BY <2>16, <2>b, <2>c, <2>d, <2>e, <2>f DEF StepRaises, Return, ErrorResult
  <2>17. CASE UNCHANGED vars
    BY <2>17, <2>b, <2>c, <2>d, <2>e, <2>f DEF vars
  <2>18. CASE ParseRaises
    BY <2>18, <2>b, <2>c, <2>d, <2>e, <2>f DEF ParseRaises, Charge, Exhausted, Return, ErrorResult, Results
  <2> QED
    BY <2>1, <2>2, <2>3, <2>4, <2>5, <2>6, <2>7, <2>8, <2>9, <2>10, <2>11, <2>12,
       <2>13, <2>14, <2>15, <2>16, <2>17, <2>18 DEF Next

LEMMA CountStep == TypeOK /\ CountInv /\ [Next]_vars => CountInv'
  <2> SUFFICES ASSUME TypeOK, CountInv, [Next]_vars PROVE CountInv'
    OBVIOUS
  <2> USE SolverAssumption DEF TypeOK, Running, Final, counters, Jobs, CountInv, StepsAccounted
  <2>1. CASE Start
    BY <2>1 DEF Start
  <2>2. CASE StartRaises
    BY <2>2 DEF StartRaises
  <2>3. CASE Localize
    BY <2>3 DEF Localize
  <2>4. CASE NoSourceFile
    BY <2>4 DEF NoSourceFile, Return, ErrorResult
  <2>5. CASE LoopEnds
    BY <2>5 DEF LoopEnds
  <2>6. CASE ReplyNoCode
    BY <2>6 DEF ReplyNoCode, Charge
  <2>7. CASE ReplyBroken
    BY <2>7 DEF ReplyBroken, Charge
  <2>8. CASE ReplyEdit
    BY <2>8 DEF ReplyEdit, Charge
  <2>9. CASE CriticApproves
    BY <2>9 DEF CriticApproves, ChargeCritic
  <2>10. CASE CriticRejects
    BY <2>10 DEF CriticRejects, ChargeCritic
  <2>11. CASE RunTests
    BY <2>11 DEF RunTests
  <2>12. CASE RetryFromBase
    BY <2>12 DEF RetryFromBase
  <2>13. CASE Submit
    BY <2>13 DEF Submit, Return
  <2>14. CASE EditCallRaises
    BY <2>14 DEF EditCallRaises, CallRaises, Return, ErrorResult
  <2>15. CASE CriticCallRaises
    BY <2>15 DEF CriticCallRaises, CallRaises, Return, ErrorResult
  <2>16. CASE StepRaises
    BY <2>16 DEF StepRaises, Return, ErrorResult
  <2>17. CASE UNCHANGED vars
    BY <2>17 DEF vars
  <2>18. CASE ParseRaises
    BY <2>18 DEF ParseRaises, Charge, Exhausted, Return, ErrorResult, Results
  <2> QED
    BY <2>1, <2>2, <2>3, <2>4, <2>5, <2>6, <2>7, <2>8, <2>9, <2>10, <2>11, <2>12,
       <2>13, <2>14, <2>15, <2>16, <2>17, <2>18 DEF Next

LEMMA GateStep == TypeOK /\ GateInv /\ [Next]_vars => GateInv'
  <2> SUFFICES ASSUME TypeOK, GateInv, [Next]_vars PROVE GateInv'
    OBVIOUS
  <2> USE SolverAssumption DEF TypeOK, Running, Final, counters, Jobs, GateInv, Validated, SubmittedEditPassedEveryGate
  <2>1. CASE Start
    BY <2>1 DEF Start
  <2>2. CASE StartRaises
    BY <2>2 DEF StartRaises
  <2>3. CASE Localize
    BY <2>3 DEF Localize
  <2>4. CASE NoSourceFile
    BY <2>4 DEF NoSourceFile, Return, ErrorResult
  <2>5. CASE LoopEnds
    BY <2>5 DEF LoopEnds
  <2>6. CASE ReplyNoCode
    BY <2>6 DEF ReplyNoCode, Charge
  <2>7. CASE ReplyBroken
    BY <2>7 DEF ReplyBroken, Charge
  <2>8. CASE ReplyEdit
    BY <2>8 DEF ReplyEdit, Charge
  <2>9. CASE CriticApproves
    BY <2>9 DEF CriticApproves, ChargeCritic
  <2>10. CASE CriticRejects
    BY <2>10 DEF CriticRejects, ChargeCritic
  <2>11. CASE RunTests
    BY <2>11 DEF RunTests, Accepted, Outcomes
  <2>12. CASE RetryFromBase
    BY <2>12 DEF RetryFromBase
  <2>13. CASE Submit
    BY <2>13 DEF Submit, Return
  <2>14. CASE EditCallRaises
    BY <2>14 DEF EditCallRaises, CallRaises, Return, ErrorResult
  <2>15. CASE CriticCallRaises
    BY <2>15 DEF CriticCallRaises, CallRaises, Return, ErrorResult
  <2>16. CASE StepRaises
    BY <2>16 DEF StepRaises, Return, ErrorResult
  <2>17. CASE UNCHANGED vars
    BY <2>17 DEF vars
  <2>18. CASE ParseRaises
    BY <2>18 DEF ParseRaises, Charge, Exhausted, Return, ErrorResult, Results
  <2> QED
    BY <2>1, <2>2, <2>3, <2>4, <2>5, <2>6, <2>7, <2>8, <2>9, <2>10, <2>11, <2>12,
       <2>13, <2>14, <2>15, <2>16, <2>17, <2>18 DEF Next

-----------------------------------------------------------------------------
LEMMA Invariant == Spec => [](TypeOK /\ SpendInv /\ StepSpendInv /\ CountInv /\ GateInv)
<1>1. Init => SpendInv /\ CountInv /\ GateInv
  <2>1. Init => SpendInv
    <3>1. Init => job.budget \in Nat /\ Review \in Nat
      BY SolverAssumption DEF Init, Jobs, Review
    <3> QED
      BY <3>1, SolverAssumption DEF Init, SpendInv, CostReported, Final
  <2>2. Init => CountInv
    BY DEF Init, CountInv, StepsAccounted
  <2>3. Init => GateInv
    BY DEF Init, GateInv, SubmittedEditPassedEveryGate, Final
  <2> QED
    BY <2>1, <2>2, <2>3
<1>2. Init => StepSpendInv
  <2> SUFFICES ASSUME Init PROVE StepSpendInv
    OBVIOUS
  <2>1. Review \in Nat
    BY SolverAssumption DEF Review
  <2>2. Spent(0) = 0 /\ Spent(MaxSteps) \in Nat
    BY <2>1, SolverAssumption, MultiplySucc DEF Spent
  <2> QED
    BY <2>2 DEF Init, StepSpendInv
<1> QED
  BY <1>1, <1>2, TypeCorrect, SpendStep, StepSpendStep, CountStep, GateStep, PTL DEF Spec

\* Whatever the models reply, charge and reject, a call of solve() costs its
\* providers' customer less than its budget, one edit call and one review.
THEOREM SpendIsBounded == Spec => []BoundedSpend
<1>1. SpendInv /\ StepSpendInv => BoundedSpend
  BY DEF SpendInv, StepSpendInv, Spent, Review, BoundedSpend
<1> QED
  BY <1>1, Invariant, PTL

\* A result reports the whole cost of its run, unless it ended in an exception.
THEOREM CostIsReported == Spec => []CostReported
<1>1. SpendInv => CostReported
  BY DEF SpendInv
<1> QED
  BY <1>1, Invariant, PTL

\* A result's counters add up to its steps.
THEOREM StepsAreAccounted == Spec => []StepsAccounted
<1>1. CountInv => StepsAccounted
  BY DEF CountInv
<1> QED
  BY <1>1, Invariant, PTL

\* No edit is submitted but one that parsed, that the critic approved and that
\* the tests the agent may see accepted.
THEOREM SubmissionIsGated == Spec => []SubmittedEditPassedEveryGate
<1>1. GateInv => SubmittedEditPassedEveryGate
  BY DEF GateInv
<1> QED
  BY <1>1, Invariant, PTL

-----------------------------------------------------------------------------
\* There is no work tree before solve() has begun, and none at its end.
WorkInv == (pc = "start" => work = "none") /\ NoWorkTreeLeft

\* However a run ends, by a result or by any exception, its work tree is gone.
THEOREM WorkTreeIsRemoved == Spec => []NoWorkTreeLeft
<1>1. Init => WorkInv
  BY DEF Init, WorkInv, NoWorkTreeLeft, Final
<1>2. WorkInv /\ [Next]_vars => WorkInv'
  <2> SUFFICES ASSUME WorkInv, [Next]_vars PROVE WorkInv'
    OBVIOUS
  <2> USE DEF WorkInv, NoWorkTreeLeft, Final
  <2>1. CASE Start \/ StartRaises \/ Localize \/ LoopEnds
    BY <2>1 DEF Start, StartRaises, Localize, LoopEnds
  <2>2. CASE NoSourceFile \/ ParseRaises \/ Submit \/ StepRaises
    BY <2>2 DEF NoSourceFile, ParseRaises, Submit, StepRaises, Return
  <2>3. CASE EditCallRaises \/ CriticCallRaises
    BY <2>3 DEF EditCallRaises, CriticCallRaises, CallRaises, Return
  <2>4. CASE ReplyNoCode \/ ReplyBroken \/ ReplyEdit
    BY <2>4 DEF ReplyNoCode, ReplyBroken, ReplyEdit
  <2>5. CASE CriticApproves \/ CriticRejects
    BY <2>5 DEF CriticApproves, CriticRejects
  <2>6. CASE RunTests
    <3>1. pc' \in {"submit", "retry"}
      BY <2>6 DEF RunTests
    <3> QED
      BY <3>1
  <2>7. CASE RetryFromBase \/ UNCHANGED vars
    BY <2>7 DEF RetryFromBase, vars
  <2> QED
    BY <2>1, <2>2, <2>3, <2>4, <2>5, <2>6, <2>7 DEF Next
<1>3. WorkInv => NoWorkTreeLeft
  BY DEF WorkInv
<1> QED
  BY <1>1, <1>2, <1>3, PTL DEF Spec
=============================================================================
