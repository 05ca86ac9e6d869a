----------------------------- MODULE Calibration -----------------------------
(***************************************************************************)
(* forgejudge/eval/calibrate.py and judge.py: the judge scores the patch of *)
(* each row of the gold set, and its verdicts are compared with the human   *)
(* ones by Cohen's kappa, a fraction kept as <<numerator, denominator>>.    *)
(* The judge's model is external: a reply is the scores that each pattern   *)
(* of _parse_score finds in it, in turn, 0 where a pattern finds none.      *)
(* A definition marked FAULT is no part of the model: it is a plausible     *)
(* defect in place of the definition after it, which a property must find.  *)
(***************************************************************************)
EXTENDS Integers, Sequences, FiniteSets, Functions

CONSTANTS
  GoldRows,    \* rows of judge_gold.jsonl, with what the dataset knows of them
  GoldSets,    \* bound: sequences of them
  Replies,     \* bound: what the judge's model may say
  Nothing      \* no patch field, no gold patch; no calibration.json, no kappa

ASSUME CalibrationAssumption ==
  /\ GoldSets \subseteq Seq(GoldRows)
  /\ \A row \in GoldRows : row.human_score \in Int
  /\ Replies \subseteq Seq(0..5)

VARIABLES
  gold,      \* the rows of the gold set
  pairs,     \* <<judge, reference>> verdicts so far
  artifact,  \* calibration.json
  judging    \* "judge", "done" or "raised"

calibrationVars == <<gold, pairs, artifact, judging>>

Score == 1..5
MinScore == 1
Verdict(score) == score >= 4      \* GOOD_THRESHOLD

\* Score: <N>, then N/5, then any digit, then the minimum
ParseScore(reply) ==
  LET found == {i \in DOMAIN reply : reply[i] # 0}
  IN  IF found = {} THEN MinScore ELSE reply[CHOOSE i \in found : \A j \in found : i <= j]

\* a row's own patch wins, a bad row has none but that
PatchForRow(row) ==
  IF row.patch # Nothing THEN row.patch
  ELSE IF row.kind = "gold" /\ row.solution # Nothing THEN row.solution ELSE "blank"

\* rater_a and rater_b as sequences of labels
Uses(rater, label) == Cardinality({i \in DOMAIN rater : rater[i] = label})

LabelsOf(a, b) == {a[i] : i \in DOMAIN a} \cup {b[i] : i \in DOMAIN b}

\* FAULT: both marginals are the first rater's.
OwnChance(a, b) == SumFunction([l \in LabelsOf(a, b) |-> Uses(a, l) * Uses(a, l)])

Chance(a, b) == SumFunction([l \in LabelsOf(a, b) |-> Uses(a, l) * Uses(b, l)])

CohenKappa(a, b) ==
  LET n == Len(a)
      agree == Cardinality({i \in DOMAIN a : a[i] = b[i]})
      chance == Chance(a, b)
  IN  IF chance = n * n
      THEN IF agree = n THEN <<1, 1>> ELSE <<0, 1>>
      ELSE <<n * agree - chance, n * n - chance>>

\* the two raters' labels, in the order of the rows
ByJudge(p) == [i \in DOMAIN p |-> p[i][1]]
ByHumans(p) == [i \in DOMAIN p |-> p[i][2]]

Count(p, judge, ref) == Cardinality({i \in DOMAIN p : p[i] = <<judge, ref>>})

ComputeCalibration(p) ==
  [n |-> Len(p),
   tp |-> Count(p, TRUE, TRUE), fp |-> Count(p, TRUE, FALSE),
   fn |-> Count(p, FALSE, TRUE), tn |-> Count(p, FALSE, FALSE),
   kappa |-> IF p = <<>> THEN Nothing
             ELSE CohenKappa(ByJudge(p), ByHumans(p))]

CalibrationInit ==
  /\ gold \in GoldSets /\ pairs = <<>> /\ artifact = Nothing /\ judging = "judge"

-----------------------------------------------------------------------------
Row == gold[Len(pairs) + 1]

Compare(score) ==
  /\ pairs' = Append(pairs, <<Verdict(score), Verdict(Row.human_score)>>)
  /\ UNCHANGED <<gold, artifact, judging>>

\* no reply is asked for where there is nothing to judge
JudgeBlank ==
  /\ judging = "judge" /\ Len(pairs) < Len(gold) /\ Row.known
  /\ PatchForRow(Row) = "blank" /\ Compare(MinScore)

JudgePatch(reply) ==
  /\ judging = "judge" /\ Len(pairs) < Len(gold) /\ Row.known
  /\ PatchForRow(Row) # "blank" /\ Compare(ParseScore(reply))

\* an unknown instance_id, or every model of the judge's chain failed
JudgeRaises ==
  /\ judging = "judge" /\ Len(pairs) < Len(gold) /\ judging' = "raised"
  /\ ~ Row.known \/ PatchForRow(Row) # "blank"
  /\ UNCHANGED <<gold, pairs, artifact>>

WriteCalibration ==
  /\ judging = "judge" /\ Len(pairs) = Len(gold) /\ judging' = "done"
  /\ artifact' = ComputeCalibration(pairs)
  /\ UNCHANGED <<gold, pairs>>

DryRun ==
  /\ judging = "judge" /\ pairs = <<>> /\ judging' = "done"
  /\ artifact' = ComputeCalibration(<<>>)
  /\ UNCHANGED <<gold, pairs>>

CalibrationNext ==
  \/ JudgeBlank \/ \E reply \in Replies : JudgePatch(reply)
  \/ JudgeRaises \/ WriteCalibration \/ DryRun

CalibrationSpec == CalibrationInit /\ [][CalibrationNext]_calibrationVars

-----------------------------------------------------------------------------
(* A published calibration is about the whole gold set or, from a dry run,    *)
(* about none of it, and its rows are judged as what they are: a bad row       *)
(* without a patch of its own always counts as judged bad.  Its kappa is one:  *)
(* positive denominator, 1 exactly if the raters agree on every row, the same  *)
(* whichever rater comes first, and what the confusion matrix beside it says,  *)
(* although the two are computed apart.                                       *)
CalibrationIsWhole ==
  artifact # Nothing =>
    LET c == artifact
        k == c.kappa
        numerator == 2 * (c.tp * c.tn - c.fp * c.fn)
        denominator == (c.tp + c.fp) * (c.fp + c.tn) + (c.tp + c.fn) * (c.fn + c.tn)
    IN  /\ c.n \in {0, Len(gold)} /\ c.tp + c.fn + c.fp + c.tn = c.n
        /\ c.tp + c.fp <=
             Cardinality({i \in DOMAIN gold : gold[i].kind = "gold" \/ gold[i].patch # Nothing})
        /\ c.n > 0 =>
             /\ k[2] > 0 /\ (k[1] = k[2] <=> c.fp + c.fn = 0)
             /\ k = CohenKappa(ByHumans(pairs), ByJudge(pairs))
             /\ IF denominator = 0 THEN k = <<1, 1>> ELSE k[1] * denominator = numerator * k[2]
=============================================================================
