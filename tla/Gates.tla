-------------------------------- MODULE Gates --------------------------------
(***************************************************************************)
(* The regression gate of forgejudge/eval/gate.py, over the files a sweep   *)
(* left for each seed, baseline against candidate.  A file's resolution     *)
(* rate is the number of tasks resolved, out of Tasks.  Intervals are       *)
(* compared through the squares of their half widths, over a common         *)
(* denominator, so that every number is whole; the squares of the t values  *)
(* are rounded, and rounding of floats is left out.                         *)
(* A definition marked FAULT is no part of the model: it is a plausible     *)
(* defect in place of the definition after it, which a property must find.  *)
(***************************************************************************)
EXTENDS Integers, FiniteSets, Functions

CONSTANTS
  Tasks,      \* the number of tasks
  MaxFiles,   \* bound: files of one side
  NoRecords   \* a file without records

\* the claims below are about the seed counts TSquared knows
ASSUME GatesAssumption ==
  Tasks \in Nat /\ MaxFiles \in 0..4 /\ NoRecords \notin 0..Tasks

VARIABLES baseline, candidate, verdict

gateVars == <<baseline, candidate, verdict>>

SidesOfFiles == UNION {[1..n -> (0..Tasks) \cup {NoRecords}] : n \in 0..MaxFiles}

\* scores_from_run_artifacts: a file without records is passed over, and which
\* file a score is from does not matter
Scores(files) == Restrict(files, {i \in DOMAIN files : files[i] # NoRecords})

Seeds(s) == Cardinality(DOMAIN s)

\* FAULT: the standard error is not multiplied by the critical value.
StandardError(dof) == 1

\* the square of _t_critical, for the seed counts bounded here
TSquared(dof) == CASE dof = 1 -> 161 [] dof = 2 -> 19 [] dof = 3 -> 10

\* mean_ci: the mean is SumOf(s) over Divisor(s); HalfSquared(s) over
\* Divisor(s) ^ 2 * Freedom(s) is the square of the half width, 0 for no spread
SumOf(s) == SumFunction(s)
Squares(s) == [i \in DOMAIN s |-> s[i] * s[i]]
Divisor(s) == IF Seeds(s) = 0 THEN 1 ELSE Seeds(s)
Freedom(s) == IF Seeds(s) < 2 THEN 1 ELSE Seeds(s) - 1
HalfSquared(s) ==
  IF Seeds(s) < 2 THEN 0
  ELSE TSquared(Freedom(s)) * (Seeds(s) * SumOf(Squares(s)) - SumOf(s) * SumOf(s))

\* candidate_upper < baseline_lower: the means' distance, positive, exceeds the
\* sum of two half widths, d > u + v, that is d^2 - u^2 - v^2 > 2 * u * v
Below(c, b) ==
  LET d == SumOf(b) * Divisor(c) - SumOf(c) * Divisor(b)
      scale == Freedom(b) * Freedom(c)
      u == HalfSquared(b) * Divisor(c) * Divisor(c) * Freedom(c)
      v == HalfSquared(c) * Divisor(b) * Divisor(b) * Freedom(b)
      rest == d * d * scale - u - v
  IN  d > 0 /\ rest >= 0 /\ (IF u = 0 \/ v = 0 THEN rest > 0 ELSE rest * rest > 4 * u * v)

GateInit ==
  /\ baseline \in SidesOfFiles /\ candidate \in SidesOfFiles /\ verdict = "none"

Refuses(b, c) == (Seeds(b) = 0 /\ Seeds(c) = 0) \/ Seeds(b) = 1 \/ Seeds(c) = 1

\* ValueError: nothing to compare, or one seed
RefuseToJudge ==
  /\ verdict = "none" /\ Refuses(Scores(baseline), Scores(candidate))
  /\ verdict' = "refused"
  /\ UNCHANGED <<baseline, candidate>>

RegressionGate ==
  /\ verdict = "none" /\ ~ Refuses(Scores(baseline), Scores(candidate))
  /\ verdict' = IF Below(Scores(candidate), Scores(baseline)) THEN "fail" ELSE "pass"
  /\ UNCHANGED <<baseline, candidate>>

GateNext == RefuseToJudge \/ RegressionGate

GateSpec == GateInit /\ [][GateNext]_gateVars

-----------------------------------------------------------------------------
(* An improved or equal candidate passes, and so does ordinary seed noise: of *)
(* up to four seeds a side, the gate fails only when it was given enough of    *)
(* them and every seed of the candidate is below every seed of the baseline.  *)
(* Conversely, two sides without any spread fail on the smallest loss.        *)
FailureSeparatesSeeds ==
  LET b == Scores(baseline)
      c == Scores(candidate)
      Flat(s) == \A i, j \in DOMAIN s : s[i] = s[j]
      Lower == \A i \in DOMAIN b, j \in DOMAIN c : c[j] < b[i]
  IN  /\ verdict = "fail" => Seeds(b) >= 2 /\ Seeds(c) # 1 /\ Lower
      /\ verdict # "none" /\ Seeds(b) >= 2 /\ Seeds(c) >= 2 /\ Flat(b) /\ Flat(c) =>
           (verdict = "fail" <=> Lower)
=============================================================================
