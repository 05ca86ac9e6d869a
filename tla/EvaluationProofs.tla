--------------------------- MODULE EvaluationProofs ---------------------------
(***************************************************************************)
(* Theorems about the tools around a run: tracing's links, for any         *)
(* accounts; the judge's calibration, for any gold set and replies; and the *)
(* regression gate, for any number of tasks and any rates of the seeds.    *)
(***************************************************************************)
EXTENDS Tracing, Calibration, Gates, Induction, FiniteSetTheorems, TLAPS

(* Each entry of the cache is the project of its own keys or nothing, and if  *)
(* setup_tracing chose the exporters under these keys, spans go out under     *)
(* them.                                                                     *)
CacheInv ==
  /\ cache \in [Keys -> {ProjectOf[k] : k \in Keys} \cup {None}]
  /\ keys \in Keys \cup {None} /\ up \in BOOLEAN
  /\ \A k \in Keys : cache[k] \in {ProjectOf[k], None}
  /\ routed /\ keys # None => keys \in exporters
  /\ LinkIsCurrent

(* A link is that of the keys in force and of their project, whichever were   *)
(* asked for before, and whatever failed in between; and its trace was sent   *)
(* there, unless the exporters were the caller's.                            *)
THEOREM LinksAreCurrent == TracingSpec => []LinkIsCurrent
<1>1. TracingInit => CacheInv
  BY DEF TracingInit, CacheInv, LinkIsCurrent
<1>2. CacheInv /\ [TracingNext]_tracingVars => CacheInv'
  <2> SUFFICES ASSUME CacheInv, [TracingNext]_tracingVars PROVE CacheInv'
    OBVIOUS
  <2> USE DEF CacheInv, LinkIsCurrent, env, provider
  <2>1. ASSUME NEW k \in Keys \cup {None}, SetKeys(k)
        PROVE  CacheInv'
    BY <2>1 DEF SetKeys
  <2>2. CASE Connectivity
    BY <2>2 DEF Connectivity
  <2>3. CASE SetupTracing \/ SetupWithExporter
    BY <2>3 DEF SetupTracing, SetupWithExporter
  <2>4. CASE TraceUrlFor
    <3>1. CASE ~ (traced /\ keys # None)
      BY <2>4, <3>1 DEF TraceUrlFor
    <3>2. CASE traced /\ keys # None
      <4>1. ProjectId \in {ProjectOf[keys], None} /\ keys \in Keys
        BY <3>2 DEF ProjectId, Fetched
      <4>2. ProjectId = None => ~ up \/ ProjectOf[keys] = None
        BY <3>2 DEF ProjectId, Fetched
      <4>3. link' = [keys |-> keys, project |-> ProjectId]
            /\ cache' = [cache EXCEPT ![keys] = ProjectId]
            /\ UNCHANGED <<keys, up, routed, exporters, traced>>
        BY <2>4, <3>2 DEF TraceUrlFor, Remember
      <4>4. \A k \in Keys : cache'[k] \in {ProjectOf[k], None}
        BY <4>1, <4>3
      <4>5. cache' \in [Keys -> {ProjectOf[k] : k \in Keys} \cup {None}]
        BY <4>1, <4>3
      <4>6. LinkIsCurrent'
        BY <3>2, <4>1, <4>2, <4>3
      <4> QED
        BY <4>3, <4>4, <4>5, <4>6
    <3> QED
      BY <3>1, <3>2
  <2>5. CASE UNCHANGED tracingVars
    BY <2>5 DEF tracingVars
  <2> QED
    BY <2>1, <2>2, <2>3, <2>4, <2>5 DEF TracingNext
<1>3. CacheInv => LinkIsCurrent
  BY DEF CacheInv
<1> QED
  BY <1>1, <1>2, <1>3, PTL DEF TracingSpec

-----------------------------------------------------------------------------
(* Calibration: counting the verdicts. *)
\* A set of indices in two parts.
LEMMA InTwoParts ==
  ASSUME NEW n \in Nat, NEW A, NEW B, A \subseteq 1..n, B \subseteq 1..n, A \cap B = {}
  PROVE  /\ Cardinality(A) \in Nat /\ Cardinality(B) \in Nat
         /\ Cardinality(A \cup B) = Cardinality(A) + Cardinality(B)
<1>1. IsFiniteSet(1..n)
  BY FS_Interval
<1>2. IsFiniteSet(A) /\ IsFiniteSet(B)
  BY <1>1, FS_Subset
<1>3. Cardinality(A \cap B) = 0
  BY FS_EmptySet
<1>4. Cardinality(A) \in Nat /\ Cardinality(B) \in Nat
  BY <1>2, FS_CardinalityType
<1>5. Cardinality(A \cup B) = Cardinality(A) + Cardinality(B) - Cardinality(A \cap B)
  BY <1>2, FS_Union
<1> QED
  BY <1>3, <1>4, <1>5

\* The confusion matrix divides the rows, and gives each rater's use of a label
\* and the rows on which the two agree.
LEMMA MatrixIsWhole ==
  ASSUME NEW y, NEW z, y # z, NEW p \in Seq({y, z} \X {y, z}),
         NEW tp, tp = Count(p, y, y), NEW fp, fp = Count(p, y, z),
         NEW fn, fn = Count(p, z, y), NEW tn, tn = Count(p, z, z)
  PROVE  /\ tp \in Nat /\ fp \in Nat /\ fn \in Nat /\ tn \in Nat
         /\ Len(p) = tp + fp + fn + tn
         /\ Uses(ByJudge(p), y) = tp + fp /\ Uses(ByJudge(p), z) = fn + tn
         /\ Uses(ByHumans(p), y) = tp + fn /\ Uses(ByHumans(p), z) = fp + tn
         /\ Cardinality({i \in DOMAIN p : p[i][1] = p[i][2]}) = tp + tn
<1> DEFINE At(j, r) == {i \in DOMAIN p : p[i] = <<j, r>>}
           TP == At(y, y)
           FP == At(y, z)
           FN == At(z, y)
           TN == At(z, z)
<1>1. Len(p) \in Nat /\ DOMAIN p = 1..Len(p)
  OBVIOUS
<1>2. \A i \in DOMAIN p : \E j, r \in {y, z} : p[i] = <<j, r>>
  OBVIOUS
<1>3. \A j, r, k, s : <<j, r>> = <<k, s>> <=> j = k /\ r = s
  OBVIOUS
<1>4. /\ TP \subseteq 1..Len(p) /\ FP \subseteq 1..Len(p)
      /\ FN \subseteq 1..Len(p) /\ TN \subseteq 1..Len(p)
  BY <1>1
<1>5. /\ tp = Cardinality(TP) /\ fp = Cardinality(FP)
      /\ fn = Cardinality(FN) /\ tn = Cardinality(TN)
  BY DEF Count
<1>6. \A i \in DOMAIN p : /\ p[i][1] = p[i][2] <=> i \in TP \/ i \in TN
                          /\ p[i][1] = y <=> i \in TP \/ i \in FP
                          /\ p[i][1] = z <=> i \in FN \/ i \in TN
                          /\ p[i][2] = y <=> i \in TP \/ i \in FN
                          /\ p[i][2] = z <=> i \in FP \/ i \in TN
  BY <1>2
<1>7. /\ TP \cap FP = {} /\ TP \cap FN = {} /\ TP \cap TN = {}
      /\ FP \cap FN = {} /\ FP \cap TN = {} /\ FN \cap TN = {}
  OBVIOUS
<1>8. \A i \in DOMAIN p : i \in TP \/ i \in FP \/ i \in FN \/ i \in TN
  BY <1>2
<1>9. /\ {i \in DOMAIN p : p[i][1] = y} = TP \cup FP
      /\ {i \in DOMAIN p : p[i][1] = z} = FN \cup TN
      /\ {i \in DOMAIN p : p[i][2] = y} = TP \cup FN
      /\ {i \in DOMAIN p : p[i][2] = z} = FP \cup TN
      /\ {i \in DOMAIN p : p[i][1] = p[i][2]} = TP \cup TN
  BY <1>4, <1>1, <1>6
<1>10. DOMAIN p = (TP \cup FP) \cup (FN \cup TN)
  BY <1>8
<1> HIDE DEF TP, FP, FN, TN
<1>11. \A A, B \in SUBSET (1..Len(p)) :
         A \cap B = {} => /\ Cardinality(A) \in Nat /\ Cardinality(B) \in Nat
                         /\ Cardinality(A \cup B) = Cardinality(A) + Cardinality(B)
  BY <1>1, InTwoParts
<1>12. /\ tp \in Nat /\ fp \in Nat /\ fn \in Nat /\ tn \in Nat
       /\ Cardinality(TP \cup FP) = tp + fp /\ Cardinality(FN \cup TN) = fn + tn
       /\ Cardinality(TP \cup FN) = tp + fn /\ Cardinality(FP \cup TN) = fp + tn
       /\ Cardinality(TP \cup TN) = tp + tn
  <2>1. /\ TP \in SUBSET (1..Len(p)) /\ FP \in SUBSET (1..Len(p))
        /\ FN \in SUBSET (1..Len(p)) /\ TN \in SUBSET (1..Len(p))
    BY <1>4
  <2>2. Cardinality(TP) \in Nat /\ Cardinality(FP) \in Nat
        /\ Cardinality(TP \cup FP) = Cardinality(TP) + Cardinality(FP)
    BY <1>7, <1>11, <2>1, Zenon
  <2>3. Cardinality(FN) \in Nat /\ Cardinality(TN) \in Nat
        /\ Cardinality(FN \cup TN) = Cardinality(FN) + Cardinality(TN)
    BY <1>7, <1>11, <2>1, Zenon
  <2>4. /\ Cardinality(TP \cup FN) = Cardinality(TP) + Cardinality(FN)
        /\ Cardinality(FP \cup TN) = Cardinality(FP) + Cardinality(TN)
        /\ Cardinality(TP \cup TN) = Cardinality(TP) + Cardinality(TN)
    BY <1>7, <1>11, <2>1, Zenon
  <2> QED
    BY <1>5, <2>2, <2>3, <2>4, Zenon
<1>13. Cardinality(DOMAIN p) = (tp + fp) + (fn + tn)
  <2>1. (TP \cup FP) \cap (FN \cup TN) = {}
    BY <1>7
  <2>2. TP \cup FP \subseteq 1..Len(p) /\ FN \cup TN \subseteq 1..Len(p)
    BY <1>4
  <2>3. Cardinality((TP \cup FP) \cup (FN \cup TN)) = Cardinality(TP \cup FP) + Cardinality(FN \cup TN)
    BY <1>11, <2>1, <2>2
  <2> QED
    BY <1>10, <1>12, <2>3
<1>14. Cardinality(1..Len(p)) = Len(p)
  BY <1>1, FS_Interval
<1>15. Len(p) = tp + fp + fn + tn
  <2>1. Cardinality(DOMAIN p) = Len(p)
    BY <1>1, <1>14
  <2> QED
    BY <1>12, <1>13, <2>1, (tp + fp) + (fn + tn) = tp + fp + fn + tn
<1>16. /\ DOMAIN ByJudge(p) = DOMAIN p /\ DOMAIN ByHumans(p) = DOMAIN p
       /\ \A i \in DOMAIN p : ByJudge(p)[i] = p[i][1] /\ ByHumans(p)[i] = p[i][2]
  BY DEF ByJudge, ByHumans
<1>17. /\ \A l : Uses(ByJudge(p), l) = Cardinality({i \in DOMAIN p : p[i][1] = l})
       /\ \A l : Uses(ByHumans(p), l) = Cardinality({i \in DOMAIN p : p[i][2] = l})
  <2> SUFFICES ASSUME NEW l
               PROVE  /\ Uses(ByJudge(p), l) = Cardinality({i \in DOMAIN p : p[i][1] = l})
                      /\ Uses(ByHumans(p), l) = Cardinality({i \in DOMAIN p : p[i][2] = l})
    OBVIOUS
  <2>1. /\ {i \in DOMAIN ByJudge(p) : ByJudge(p)[i] = l} = {i \in DOMAIN p : p[i][1] = l}
        /\ {i \in DOMAIN ByHumans(p) : ByHumans(p)[i] = l} = {i \in DOMAIN p : p[i][2] = l}
    BY <1>16
  <2> QED
    BY <2>1 DEF Uses
<1>18. /\ Uses(ByJudge(p), y) = tp + fp /\ Uses(ByJudge(p), z) = fn + tn
       /\ Uses(ByHumans(p), y) = tp + fn /\ Uses(ByHumans(p), z) = fp + tn
       /\ Cardinality({i \in DOMAIN p : p[i][1] = p[i][2]}) = tp + tn
  <2>1. /\ Uses(ByJudge(p), y) = Cardinality({i \in DOMAIN p : p[i][1] = y})
        /\ Uses(ByJudge(p), z) = Cardinality({i \in DOMAIN p : p[i][1] = z})
        /\ Uses(ByHumans(p), y) = Cardinality({i \in DOMAIN p : p[i][2] = y})
        /\ Uses(ByHumans(p), z) = Cardinality({i \in DOMAIN p : p[i][2] = z})
    BY <1>17, Zenon
  <2>2. /\ Uses(ByJudge(p), y) = Cardinality(TP \cup FP)
        /\ Uses(ByJudge(p), z) = Cardinality(FN \cup TN)
        /\ Uses(ByHumans(p), y) = Cardinality(TP \cup FN)
        /\ Uses(ByHumans(p), z) = Cardinality(FP \cup TN)
        /\ Cardinality({i \in DOMAIN p : p[i][1] = p[i][2]}) = Cardinality(TP \cup TN)
    BY <1>9, <2>1, Zenon
  <2> QED
    BY <1>12, <2>2, Zenon
<1> QED
  BY <1>12, <1>15, <1>18

\* Chance agreement is a sum over at most the two labels there are.
LEMMA ChanceOfTwoLabels ==
  ASSUME NEW y, NEW z, y # z, NEW a, NEW b,
         \A l \in {y, z} : Uses(a, l) \in Nat /\ Uses(b, l) \in Nat,
         LabelsOf(a, b) \subseteq {y, z},
         \A l \in {y, z} \ LabelsOf(a, b) : Uses(a, l) = 0
  PROVE  Chance(a, b) = Uses(a, y) * Uses(b, y) + Uses(a, z) * Uses(b, z)
<1> DEFINE L == LabelsOf(a, b)
           F == [l \in {y, z} |-> Uses(a, l) * Uses(b, l)]
           G == [l \in L |-> Uses(a, l) * Uses(b, l)]
<1>1. \A l \in {y, z} : F[l] \in Int /\ (l \notin L => F[l] = 0)
  <2> SUFFICES ASSUME NEW l \in {y, z} PROVE Uses(a, l) * Uses(b, l) \in Int
                 /\ (l \notin L => Uses(a, l) * Uses(b, l) = 0)
    OBVIOUS
  <2>1. Uses(a, l) \in Nat /\ Uses(b, l) \in Nat /\ (l \notin L => Uses(a, l) = 0)
    OBVIOUS
  <2> HIDE DEF L
  <2> QED
    BY <2>1
<1>2. IsFiniteSet({y, z})
  <2>1. {y, z} = {y} \cup {z}
    OBVIOUS
  <2>2. IsFiniteSet({y}) /\ IsFiniteSet({z})
    BY FS_Singleton
  <2> QED
    BY <2>1, <2>2, FS_Union
<1>3. L \subseteq {y, z}
  OBVIOUS
<1>4. Chance(a, b) = SumFunctionOnSet(G, L)
  BY DEF Chance, SumFunction
<1>5. \A l \in L : G[l] = F[l]
  BY <1>3
<1>6. F[y] = Uses(a, y) * Uses(b, y) /\ F[z] = Uses(a, z) * Uses(b, z)
  OBVIOUS
<1> HIDE DEF L, F, G
<1>7. SumFunctionOnSet(G, L) = SumFunctionOnSet(F, L)
  <2>1. IsFiniteSet(L)
    BY <1>2, <1>3, FS_Subset
  <2>2. \A l \in L : G[l] \in Int /\ G[l] = F[l]
    BY <1>1, <1>3, <1>5
  <2> QED
    BY <2>1, <2>2, SumCongruence
<1>8. ASSUME NEW M \in SUBSET {y, z}, NEW l \in {y, z}, l \notin M => l \notin L
      PROVE  SumFunctionOnSet(F, M) = F[l] + SumFunctionOnSet(F, M \ {l})
  <2>1. IsFiniteSet(M) /\ \A k \in M : F[k] \in Int
    BY <1>1, <1>2, FS_Subset
  <2>2. CASE l \in M
    BY <2>1, <2>2, SumLess
  <2>3. CASE l \notin M
    <3>1. F[l] = 0 /\ M \ {l} = M
      BY <1>1, <1>8, <2>3
    <3>2. SumFunctionOnSet(F, M) \in Int
      BY <2>1, SumType
    <3> QED
      BY <3>1, <3>2
  <2> QED
    BY <2>2, <2>3
<1>9. SumFunctionOnSet(F, L) = F[y] + SumFunctionOnSet(F, L \ {y})
  BY <1>3, <1>8
<1>10. SumFunctionOnSet(F, L \ {y}) = F[z] + SumFunctionOnSet(F, (L \ {y}) \ {z})
  <2>1. L \ {y} \in SUBSET {y, z} /\ (z \notin L \ {y} => z \notin L)
    BY <1>3
  <2> QED
    BY <1>8, <2>1
<1>11. (L \ {y}) \ {z} = {}
  BY <1>3
<1>12. SumFunctionOnSet(F, (L \ {y}) \ {z}) = 0
  BY <1>11, SumEmpty
<1>13. F[y] \in Int /\ F[z] \in Int
  BY <1>1
<1> QED
  BY <1>4, <1>6, <1>7, <1>9, <1>10, <1>12, <1>13
\* Cohen's kappa, from the counts of the confusion matrix.
Kappa(tp, fp, fn, tn) ==
  LET n == tp + fp + fn + tn
      chance == (tp + fp) * (tp + fn) + (fn + tn) * (fp + tn)
  IN  IF chance = n * n THEN IF tp + tn = n THEN <<1, 1>> ELSE <<0, 1>>
      ELSE <<n * (tp + tn) - chance, n * n - chance>>

\* Disagreement by chance, and what the matrix says of agreement beyond it.
LEMMA ChanceFromMatrix ==
  ASSUME NEW tp \in Nat, NEW fp \in Nat, NEW fn \in Nat, NEW tn \in Nat,
         NEW n, n = tp + fp + fn + tn,
         NEW c, c = (tp + fp) * (tp + fn) + (fn + tn) * (fp + tn)
  PROVE  /\ n \in Nat /\ c \in Nat /\ n * n \in Nat
         /\ n * n - c = (tp + fp) * (fp + tn) + (tp + fn) * (fn + tn)
         /\ n * (tp + tn) - c = 2 * (tp * tn - fp * fn)
         /\ c <= n * n
  OBVIOUS
\* What a kappa has to do with the confusion matrix beside it.
FitsMatrix(k, tp, fp, fn, tn) ==
  LET numerator == 2 * (tp * tn - fp * fn)
      denominator == (tp + fp) * (fp + tn) + (tp + fn) * (fn + tn)
  IN  /\ k[2] > 0 /\ (k[1] = k[2] <=> fp + fn = 0)
      /\ IF denominator = 0 THEN k = <<1, 1>> ELSE k[1] * denominator = numerator * k[2]

LEMMA KappaIsOfMatrix ==
  ASSUME NEW tp \in Nat, NEW fp \in Nat, NEW fn \in Nat, NEW tn \in Nat,
         tp + fp + fn + tn > 0
  PROVE  FitsMatrix(Kappa(tp, fp, fn, tn), tp, fp, fn, tn)
<1> SUFFICES ASSUME NEW k, k = Kappa(tp, fp, fn, tn),
                    NEW denominator, denominator = (tp + fp) * (fp + tn) + (tp + fn) * (fn + tn),
                    NEW numerator, numerator = 2 * (tp * tn - fp * fn)
             PROVE  /\ k[2] > 0 /\ (k[1] = k[2] <=> fp + fn = 0)
                    /\ IF denominator = 0 THEN k = <<1, 1>>
                       ELSE k[1] * denominator = numerator * k[2]
  BY Zenon DEF FitsMatrix
<1> DEFINE n == tp + fp + fn + tn
           c == (tp + fp) * (tp + fn) + (fn + tn) * (fp + tn)
           m == n * n
           g == n * (tp + tn)
<1>1. /\ n \in Nat /\ c \in Nat /\ m \in Nat /\ c <= m
      /\ m - c = denominator /\ g - c = numerator
  BY ChanceFromMatrix
<1>2. g \in Nat /\ (g = m <=> tp + tn = n)
  <2> DEFINE a == tp + tn
             b == fp + fn
  <2>1. n = a + b /\ a \in Nat /\ b \in Nat
    OBVIOUS
  <2>2. n > 0
    OBVIOUS
  <2> HIDE DEF a, b, n
  <2>3. n * a \in Nat /\ n * b \in Nat /\ n * n = n * a + n * b
    BY <2>1
  <2>4. n * b = 0 <=> b = 0
    BY <2>1, <2>2
  <2>5. n * a = n * n <=> a = n
    BY <2>1, <2>3, <2>4
  <2> QED
    BY <2>3, <2>5 DEF a
<1>3. tp + tn = n <=> fp + fn = 0
  OBVIOUS
<1>4. k = IF c = m THEN IF tp + tn = n THEN <<1, 1>> ELSE <<0, 1>> ELSE <<g - c, m - c>>
  BY DEF Kappa
<1>5. denominator = 0 => tp + tn = n
  <2>1. (tp + fp) * (fp + tn) \in Nat /\ (tp + fn) * (fn + tn) \in Nat
    OBVIOUS
  <2> SUFFICES ASSUME denominator = 0 PROVE tp + tn = n
    OBVIOUS
  <2>2. (tp + fp) * (fp + tn) = 0 /\ (tp + fn) * (fn + tn) = 0
    BY <2>1
  <2>3. \A x, y \in Nat : x * y = 0 => x = 0 \/ y = 0
    OBVIOUS
  <2>4. (tp + fp = 0 \/ fp + tn = 0) /\ (tp + fn = 0 \/ fn + tn = 0)
    <3>1. tp + fp \in Nat /\ fp + tn \in Nat /\ tp + fn \in Nat /\ fn + tn \in Nat
      OBVIOUS
    <3> QED
      BY <2>2, <2>3, <3>1
  <2> QED
    BY <2>4
<1> HIDE DEF n, c, m, g
<1>6. CASE c = m
  <2>1. denominator = 0
    BY <1>1, <1>6
  <2>2. k = <<1, 1>> /\ fp + fn = 0
    BY <1>3, <1>4, <1>5, <1>6, <2>1
  <2> QED
    BY <2>1, <2>2
<1>7. CASE c # m
  <2>1. k = <<g - c, m - c>>
    BY <1>4, <1>7
  <2>2. k[1] = numerator /\ k[2] = denominator
    BY <1>1, <2>1
  <2>3. denominator > 0 /\ denominator \in Int /\ numerator \in Int
    BY <1>1, <1>2, <1>7
  <2>4. numerator = denominator <=> g = m
    BY <1>1, <1>2
  <2> QED
    BY <1>2, <1>3, <2>2, <2>3, <2>4
<1> QED
  BY <1>6, <1>7

\* The kappa of a list of pairs is that of its confusion matrix, whichever rater
\* comes first, although it is computed from the labels.
MatrixTells(p, y, z) ==
  LET tp == Count(p, y, y)
      fp == Count(p, y, z)
      fn == Count(p, z, y)
      tn == Count(p, z, z)
  IN  /\ tp \in Nat /\ fp \in Nat /\ fn \in Nat /\ tn \in Nat
      /\ Len(p) = tp + fp + fn + tn /\ Uses(ByJudge(p), y) = tp + fp
      /\ CohenKappa(ByJudge(p), ByHumans(p)) = Kappa(tp, fp, fn, tn)
      /\ CohenKappa(ByHumans(p), ByJudge(p)) = Kappa(tp, fp, fn, tn)

LEMMA KappaOfLabels ==
  ASSUME NEW y, NEW z, y # z, NEW p \in Seq({y, z} \X {y, z})
  PROVE  MatrixTells(p, y, z)
<1> SUFFICES ASSUME NEW tp, tp = Count(p, y, y), NEW fp, fp = Count(p, y, z),
                    NEW fn, fn = Count(p, z, y), NEW tn, tn = Count(p, z, z)
             PROVE  /\ tp \in Nat /\ fp \in Nat /\ fn \in Nat /\ tn \in Nat
                    /\ Len(p) = tp + fp + fn + tn /\ Uses(ByJudge(p), y) = tp + fp
                    /\ CohenKappa(ByJudge(p), ByHumans(p)) = Kappa(tp, fp, fn, tn)
                    /\ CohenKappa(ByHumans(p), ByJudge(p)) = Kappa(tp, fp, fn, tn)
  BY Zenon DEF MatrixTells
<1> DEFINE a == ByJudge(p)
           b == ByHumans(p)
<1>1. /\ tp \in Nat /\ fp \in Nat /\ fn \in Nat /\ tn \in Nat
      /\ Len(p) = tp + fp + fn + tn
      /\ Uses(a, y) = tp + fp /\ Uses(a, z) = fn + tn
      /\ Uses(b, y) = tp + fn /\ Uses(b, z) = fp + tn
      /\ Cardinality({i \in DOMAIN p : p[i][1] = p[i][2]}) = tp + tn
  BY MatrixIsWhole
<1>2. /\ DOMAIN p = 1..Len(p) /\ Len(p) \in Nat
      /\ \A i \in DOMAIN p : p[i][1] \in {y, z} /\ p[i][2] \in {y, z}
  OBVIOUS
<1>3. /\ DOMAIN a = DOMAIN p /\ DOMAIN b = DOMAIN p
      /\ \A i \in DOMAIN p : a[i] = p[i][1] /\ b[i] = p[i][2]
  BY DEF ByJudge, ByHumans
<1>4. Len(a) = Len(p) /\ Len(b) = Len(p)
  <2>1. a = [i \in 1..Len(p) |-> p[i][1]] /\ b = [i \in 1..Len(p) |-> p[i][2]]
    BY <1>2 DEF ByJudge, ByHumans
  <2>2. a \in Seq({y, z}) /\ b \in Seq({y, z})
    BY <1>2, <2>1
  <2> QED
    BY <1>2, <1>3, <2>2
<1>5. LabelsOf(a, b) \subseteq {y, z} /\ LabelsOf(b, a) \subseteq {y, z}
  BY <1>2, <1>3 DEF LabelsOf
<1>6. \A l : l \notin LabelsOf(a, b) => Uses(a, l) = 0 /\ Uses(b, l) = 0
  <2> SUFFICES ASSUME NEW l, l \notin LabelsOf(a, b) PROVE Uses(a, l) = 0 /\ Uses(b, l) = 0
    OBVIOUS
  <2>1. {i \in DOMAIN a : a[i] = l} = {} /\ {i \in DOMAIN b : b[i] = l} = {}
    BY DEF LabelsOf
  <2> QED
    BY <2>1, FS_EmptySet DEF Uses
<1>7. LabelsOf(a, b) = LabelsOf(b, a)
  BY DEF LabelsOf
<1>8. Cardinality({i \in DOMAIN a : a[i] = b[i]}) = tp + tn
      /\ Cardinality({i \in DOMAIN b : b[i] = a[i]}) = tp + tn
  <2>1. {i \in DOMAIN a : a[i] = b[i]} = {i \in DOMAIN p : p[i][1] = p[i][2]}
        /\ {i \in DOMAIN b : b[i] = a[i]} = {i \in DOMAIN p : p[i][1] = p[i][2]}
    BY <1>3
  <2> QED
    BY <1>1, <2>1
<1> HIDE DEF a, b
<1>9. \A l \in {y, z} : Uses(a, l) \in Nat /\ Uses(b, l) \in Nat
  <2>1. /\ tp + fp \in Nat /\ fn + tn \in Nat
        /\ tp + fn \in Nat /\ fp + tn \in Nat
    <3>1. tp \in Nat /\ fp \in Nat /\ fn \in Nat /\ tn \in Nat
      BY <1>1, Zenon
    <3> QED
      BY ONLY <3>1
  <2> QED
    BY <1>1, <2>1, Zenon
<1>10. Chance(a, b) = Uses(a, y) * Uses(b, y) + Uses(a, z) * Uses(b, z)
  BY <1>5, <1>6, <1>9, ChanceOfTwoLabels
<1>11. Chance(b, a) = Uses(b, y) * Uses(a, y) + Uses(b, z) * Uses(a, z)
  BY <1>5, <1>6, <1>7, <1>9, ChanceOfTwoLabels
<1>12. Chance(a, b) = (tp + fp) * (tp + fn) + (fn + tn) * (fp + tn)
  BY <1>1, <1>10
<1>13. Chance(b, a) = (tp + fp) * (tp + fn) + (fn + tn) * (fp + tn)
  BY <1>1, <1>11
<1>14. CohenKappa(a, b) = Kappa(tp, fp, fn, tn)
  BY <1>1, <1>4, <1>8, <1>12 DEF CohenKappa, Kappa
<1>15. CohenKappa(b, a) = Kappa(tp, fp, fn, tn)
  BY <1>1, <1>4, <1>8, <1>13 DEF CohenKappa, Kappa
<1> QED
  BY <1>1, <1>14, <1>15 DEF a, b

\* The same of verdicts.
LEMMA KappaOfPairs ==
  ASSUME NEW p \in Seq(BOOLEAN \X BOOLEAN)
  PROVE  MatrixTells(p, TRUE, FALSE)
<1> SUFFICES ASSUME NEW y, NEW z, y = TRUE, z = FALSE
             PROVE  MatrixTells(p, y, z)
  BY Zenon
<1>1. y # z /\ BOOLEAN = {y, z}
  OBVIOUS
<1>2. p \in Seq({y, z} \X {y, z})
  BY <1>1, Zenon
<1>3. y # z
  BY <1>1
<1> QED
  BY <1>2, <1>3, KappaOfLabels, Zenon

-----------------------------------------------------------------------------
(* The inductive invariant: the verdicts so far are about the first rows of    *)
(* the gold set, none of them good where there is nothing to judge, and a      *)
(* calibration is of the verdicts there are, once they can no longer grow.     *)
CalibrationInv ==
  /\ gold \in Seq(GoldRows)
  /\ pairs \in Seq(BOOLEAN \X BOOLEAN) /\ Len(pairs) <= Len(gold)
  /\ \A i \in DOMAIN pairs : pairs[i][1] => gold[i].kind = "gold" \/ gold[i].patch # Nothing
  /\ artifact # Nothing => /\ judging # "judge" /\ artifact = ComputeCalibration(pairs)
                           /\ pairs = <<>> \/ Len(pairs) = Len(gold)

\* A reply is read as a number, whatever of it is found.
LEMMA ParsedScores ==
  ASSUME NEW reply \in Replies
  PROVE  ParseScore(reply) \in Int
<1> DEFINE found == {i \in DOMAIN reply : reply[i] # 0}
           least == CHOOSE i \in found : \A j \in found : i <= j
<1>1. reply \in Seq(0..5)
  BY CalibrationAssumption
<1>2. CASE found = {}
  BY <1>2 DEF ParseScore, MinScore
<1>3. CASE found # {}
  <2>1. found \in SUBSET Nat
    BY <1>1
  <2>2. \E i \in found : \A j \in found : i <= j
    BY <1>3, <2>1, LeastNat
  <2>3. least \in found
    BY <2>2
  <2>4. reply[least] \in Int
    BY <1>1, <2>3
  <2> QED
    BY <1>3, <2>4 DEF ParseScore
<1> QED
  BY <1>2, <1>3

\* One more row judged keeps it.
LEMMA ComparisonKeepsInv ==
  ASSUME CalibrationInv, judging = "judge", Len(pairs) < Len(gold), NEW score \in Int, Compare(score),
         Verdict(score) => Row.kind = "gold" \/ Row.patch # Nothing
  PROVE  CalibrationInv'
<1> DEFINE v == <<Verdict(score), Verdict(Row.human_score)>>
           m == Len(pairs) + 1
<1>1. v \in BOOLEAN \X BOOLEAN
  <2>1. Row \in GoldRows
    BY DEF CalibrationInv, Row
  <2>2. Row.human_score \in Int
    BY <2>1, CalibrationAssumption
  <2>3. Verdict(score) \in BOOLEAN /\ Verdict(Row.human_score) \in BOOLEAN
    BY <2>2 DEF Verdict
  <2> QED
    BY <2>3, Zenon
<1>2. /\ pairs \in Seq(BOOLEAN \X BOOLEAN) /\ gold \in Seq(GoldRows)
      /\ pairs' = Append(pairs, v) /\ gold' = gold /\ artifact' = artifact /\ judging' = judging
  BY DEF CalibrationInv, Compare
<1>3. v[1] => gold[m].kind = "gold" \/ gold[m].patch # Nothing
  BY DEF Row
<1> HIDE DEF v
<1>4. /\ pairs' \in Seq(BOOLEAN \X BOOLEAN) /\ Len(pairs') = m /\ m <= Len(gold')
      /\ DOMAIN pairs' = DOMAIN pairs \cup {m} /\ pairs'[m] = v
      /\ \A i \in DOMAIN pairs : pairs'[i] = pairs[i]
  <2>1. Len(pairs) \in Nat /\ Len(gold) \in Nat /\ DOMAIN pairs = 1..Len(pairs)
    BY <1>2
  <2>2. /\ pairs' \in Seq(BOOLEAN \X BOOLEAN) /\ Len(pairs') = m /\ pairs'[m] = v
        /\ \A i \in 1..Len(pairs) : pairs'[i] = pairs[i]
    BY <1>1, <1>2
  <2>3. DOMAIN pairs' = 1..m
    BY <2>2
  <2> QED
    BY <1>2, <2>1, <2>2, <2>3
<1>5. \A i \in DOMAIN pairs' : pairs'[i][1] => gold'[i].kind = "gold" \/ gold'[i].patch # Nothing
  <2> SUFFICES ASSUME NEW i \in DOMAIN pairs', pairs'[i][1]
               PROVE  gold[i].kind = "gold" \/ gold[i].patch # Nothing
    BY <1>2
  <2>1. CASE i \in DOMAIN pairs
    BY <1>4, <2>1 DEF CalibrationInv
  <2>2. CASE i = m
    BY <1>3, <1>4, <2>2
  <2> QED
    BY <1>4, <2>1, <2>2
<1>6. artifact' = Nothing
  BY <1>2 DEF CalibrationInv
<1> QED
  BY <1>2, <1>4, <1>5, <1>6 DEF CalibrationInv

LEMMA CalibrationInvHolds == CalibrationSpec => []CalibrationInv
<1>1. CalibrationInit => CalibrationInv
  <2> SUFFICES ASSUME CalibrationInit PROVE CalibrationInv
    OBVIOUS
  <2>1. gold \in Seq(GoldRows) /\ pairs = <<>> /\ artifact = Nothing
    BY CalibrationAssumption DEF CalibrationInit
  <2>2. pairs \in Seq(BOOLEAN \X BOOLEAN) /\ Len(pairs) = 0 /\ DOMAIN pairs = {}
    BY <2>1
  <2>3. Len(gold) \in Nat
    BY <2>1
  <2> QED
    BY <2>1, <2>2, <2>3 DEF CalibrationInv
<1>2. CalibrationInv /\ [CalibrationNext]_calibrationVars => CalibrationInv'
  <2> SUFFICES ASSUME CalibrationInv, [CalibrationNext]_calibrationVars PROVE CalibrationInv'
    OBVIOUS
  <2>1. CASE JudgeBlank
    <3>1. ~ Verdict(MinScore) /\ MinScore \in Int
      BY DEF Verdict, MinScore
    <3> QED
      BY <2>1, <3>1, ComparisonKeepsInv DEF JudgeBlank
  <2>2. ASSUME NEW reply \in Replies, JudgePatch(reply)
        PROVE  CalibrationInv'
    <3>1. Row.kind = "gold" \/ Row.patch # Nothing
      BY <2>2 DEF JudgePatch, PatchForRow
    <3>2. ParseScore(reply) \in Int
      BY ParsedScores
    <3> QED
      BY <2>2, <3>1, <3>2, ComparisonKeepsInv DEF JudgePatch
  <2>3. CASE JudgeRaises
    BY <2>3 DEF JudgeRaises, CalibrationInv
  <2>4. CASE WriteCalibration
    BY <2>4 DEF WriteCalibration, CalibrationInv, ComputeCalibration, Count, ByJudge, ByHumans
  <2>5. CASE DryRun
    BY <2>5 DEF DryRun, CalibrationInv, ComputeCalibration, Count, ByJudge, ByHumans
  <2>6. CASE UNCHANGED calibrationVars
    BY <2>6 DEF calibrationVars, CalibrationInv, ComputeCalibration, Count, ByJudge, ByHumans
  <2> QED
    BY <2>1, <2>2, <2>3, <2>4, <2>5, <2>6 DEF CalibrationNext
<1> QED
  BY <1>1, <1>2, PTL DEF CalibrationSpec

\* What is published is whole, and its kappa is what the matrix beside it says.
THEOREM CalibrationHolds == CalibrationSpec => []CalibrationIsWhole
<1>1. CalibrationInv => CalibrationIsWhole
  <2> DEFINE Good == {i \in DOMAIN gold : gold[i].kind = "gold" \/ gold[i].patch # Nothing}
             Whole(n, tp, fp, fn, tn, k) ==
               /\ n \in {0, Len(gold)} /\ tp + fn + fp + tn = n /\ tp + fp <= Cardinality(Good)
               /\ n > 0 => /\ k = CohenKappa(ByHumans(pairs), ByJudge(pairs))
                           /\ FitsMatrix(k, tp, fp, fn, tn)
  <2> SUFFICES ASSUME CalibrationInv, artifact # Nothing
               PROVE  Whole(artifact.n, artifact.tp, artifact.fp, artifact.fn, artifact.tn,
                            artifact.kappa)
    BY Zenon DEF CalibrationIsWhole, FitsMatrix
  <2> SUFFICES ASSUME NEW tp, tp = artifact.tp, NEW fp, fp = artifact.fp,
                      NEW fn, fn = artifact.fn, NEW tn, tn = artifact.tn,
                      NEW n, n = artifact.n, NEW k, k = artifact.kappa
               PROVE  Whole(n, tp, fp, fn, tn, k)
    BY Zenon
  <2>1. /\ artifact = ComputeCalibration(pairs) /\ (pairs = <<>> \/ Len(pairs) = Len(gold))
        /\ gold \in Seq(GoldRows) /\ pairs \in Seq(BOOLEAN \X BOOLEAN)
    BY DEF CalibrationInv
  <2>2. /\ n = Len(pairs) /\ tp = Count(pairs, TRUE, TRUE) /\ fp = Count(pairs, TRUE, FALSE)
        /\ fn = Count(pairs, FALSE, TRUE) /\ tn = Count(pairs, FALSE, FALSE)
        /\ pairs # <<>> => k = CohenKappa(ByJudge(pairs), ByHumans(pairs))
    BY <2>1 DEF ComputeCalibration
  <2>3. MatrixTells(pairs, TRUE, FALSE)
    BY <2>1, KappaOfPairs, Zenon
  <2>4. /\ tp \in Nat /\ fp \in Nat /\ fn \in Nat /\ tn \in Nat
        /\ n = tp + fp + fn + tn /\ Uses(ByJudge(pairs), TRUE) = tp + fp
        /\ CohenKappa(ByJudge(pairs), ByHumans(pairs)) = Kappa(tp, fp, fn, tn)
        /\ CohenKappa(ByHumans(pairs), ByJudge(pairs)) = Kappa(tp, fp, fn, tn)
    BY <2>2, <2>3, Zenon DEF MatrixTells
  <2>5. tp \in Nat /\ fp \in Nat /\ fn \in Nat /\ tn \in Nat /\ n = tp + fp + fn + tn
    BY <2>4
  <2>6. n \in {0, Len(gold)} /\ (n > 0 => pairs # <<>>)
    BY <2>1, <2>2
  <2>7. tp + fn + fp + tn = n
    BY ONLY <2>5
  <2>8. tp + fp <= Cardinality(Good)
    <3> DEFINE judged == {i \in DOMAIN ByJudge(pairs) : ByJudge(pairs)[i] = TRUE}
    <3>1. DOMAIN gold = 1..Len(gold) /\ Len(gold) \in Nat
      BY <2>1
    <3>2. Good \subseteq 1..Len(gold)
      BY <3>1
    <3>3. DOMAIN ByJudge(pairs) = DOMAIN pairs /\ \A i \in DOMAIN pairs : ByJudge(pairs)[i] = pairs[i][1]
      BY DEF ByJudge
    <3>4. DOMAIN pairs \subseteq DOMAIN gold
      BY <2>1, <3>1 DEF CalibrationInv
    <3>5. judged \subseteq Good
      BY <3>3, <3>4 DEF CalibrationInv
    <3>6. tp + fp = Cardinality(judged)
      BY <2>4, Zenon DEF Uses
    <3> HIDE DEF Good, judged
    <3>7. IsFiniteSet(Good)
      <4>1. IsFiniteSet(1..Len(gold))
        BY <3>1, FS_Interval
      <4> QED
        BY <3>2, <4>1, FS_Subset
    <3>8. Cardinality(judged) <= Cardinality(Good)
      BY <3>5, <3>7, FS_Subset
    <3> QED
      BY <3>6, <3>8
  <2>9. ASSUME n > 0
        PROVE  /\ k = CohenKappa(ByHumans(pairs), ByJudge(pairs))
               /\ FitsMatrix(k, tp, fp, fn, tn)
    <3>1. k = Kappa(tp, fp, fn, tn) /\ k = CohenKappa(ByHumans(pairs), ByJudge(pairs))
      BY <2>2, <2>4, <2>6, <2>9, Zenon
    <3>2. tp + fp + fn + tn > 0
      BY <2>5, <2>9
    <3>3. FitsMatrix(Kappa(tp, fp, fn, tn), tp, fp, fn, tn)
      BY <2>5, <3>2, KappaIsOfMatrix
    <3> QED
      BY <3>1, <3>3, Zenon
  <2> QED
    BY <2>6, <2>7, <2>8, <2>9, Zenon
<1>2. CalibrationSpec => []CalibrationInv
  BY CalibrationInvHolds
<1> QED
  BY <1>1, <1>2, PTL

-----------------------------------------------------------------------------
(* The regression gate: arithmetic first. *)
LEMMA Times ==
  ASSUME NEW a \in Int, NEW b \in Int, a <= b, NEW c \in Nat
  PROVE  c * a <= c * b
OBVIOUS

LEMMA Products ==
  ASSUME NEW a \in Nat, NEW b \in Nat, NEW c \in Nat, NEW d \in Nat, a <= b, c <= d
  PROVE  a * c <= b * d
<1>1. c * a <= c * b
  BY Times
<1>2. b * c <= b * d
  BY Times
<1>3. c * a = a * c /\ c * b = b * c /\ a * c \in Int /\ b * c \in Int /\ b * d \in Int
  OBVIOUS
<1> QED
  BY <1>1, <1>2, <1>3

LEMMA SquaresAreNatural ==
  ASSUME NEW a \in Int
  PROVE  a * a \in Nat /\ (a * a = 0 <=> a = 0)
OBVIOUS

(* A side of the gate: finitely many rates. *)
IsSide(s) == IsFiniteSet(DOMAIN s) /\ \A i \in DOMAIN s : s[i] \in Nat

LEMMA ScoresAreASide ==
  ASSUME NEW files \in SidesOfFiles
  PROVE  IsSide(Scores(files)) /\ Seeds(Scores(files)) \in 0..4
<1>1. PICK n \in 0..MaxFiles : files \in [1..n -> (0..Tasks) \cup {NoRecords}]
  BY DEF SidesOfFiles
<1>2. n \in 0..4 /\ Tasks \in Nat
  BY GatesAssumption
<1> DEFINE D == {i \in DOMAIN files : files[i] # NoRecords}
<1>3. DOMAIN Scores(files) = D /\ \A i \in D : Scores(files)[i] = files[i]
  BY DEF Scores, Restrict
<1>4. D \subseteq 1..n
  BY <1>1
<1>5. \A i \in D : files[i] \in Nat
  BY <1>1, <1>2
<1> HIDE DEF D
<1>6. IsFiniteSet(1..n) /\ Cardinality(1..n) = n
  BY <1>2, FS_Interval
<1>7. IsFiniteSet(D) /\ Cardinality(D) <= n
  BY <1>4, <1>6, FS_Subset
<1>8. Cardinality(D) \in Nat
  BY <1>7, FS_CardinalityType
<1> QED
  BY <1>2, <1>3, <1>5, <1>7, <1>8 DEF IsSide, Seeds

LEMMA SumsOfASide ==
  ASSUME NEW s, IsSide(s)
  PROVE  Seeds(s) \in Nat /\ SumOf(s) \in Nat /\ SumOf(Squares(s)) \in Int
<1>1. IsFiniteSet(DOMAIN s) /\ \A i \in DOMAIN s : s[i] \in Int /\ 0 <= s[i]
  BY DEF IsSide
<1>2. SumOf(s) = SumFunctionOnSet(s, DOMAIN s)
  BY DEF SumOf, SumFunction
<1>3. SumOf(Squares(s)) = SumFunctionOnSet(Squares(s), DOMAIN s)
  BY DEF SumOf, SumFunction, Squares
<1>4. \A i \in DOMAIN s : Squares(s)[i] \in Int
  BY <1>1 DEF Squares
<1>5. SumOf(s) \in Int /\ SumOf(Squares(s)) \in Int
  BY <1>1, <1>2, <1>3, <1>4, SumType
<1>6. SumOf(s) >= 0
  <2> DEFINE zero == [i \in DOMAIN s |-> 0]
  <2>1. \A i \in DOMAIN s : zero[i] \in Int /\ zero[i] = 0 /\ zero[i] <= s[i]
    BY <1>1
  <2> HIDE DEF zero
  <2>2. SumFunctionOnSet(zero, DOMAIN s) = Cardinality(DOMAIN s) * 0
    BY <1>1, <2>1, SumOfEqual
  <2>3. SumFunctionOnSet(zero, DOMAIN s) <= SumFunctionOnSet(s, DOMAIN s)
    BY <1>1, <2>1, SumMonotone
  <2>4. Cardinality(DOMAIN s) \in Nat
    BY <1>1, FS_CardinalityType
  <2>5. Cardinality(DOMAIN s) * 0 = 0
    BY <2>4
  <2> QED
    BY <1>2, <2>2, <2>3, <2>5
<1>7. Seeds(s) \in Nat
  BY <1>1, FS_CardinalityType DEF Seeds
<1> QED
  BY <1>5, <1>6, <1>7

\* n times the variance, times n: what mean_ci's interval is made of.
Spread(s) == Seeds(s) * SumOf(Squares(s)) - SumOf(s) * SumOf(s)

LEMMA OneSeedAside ==
  ASSUME NEW k \in Nat, NEW x \in Int, NEW a \in Int, NEW b \in Int, a * a <= k * b,
         NEW n, n = k + 1, NEW total, total = x + a, NEW squares, squares = x * x + b
  PROVE  (n * x - total) * (n * x - total) <= k * (n * squares - total * total)
<1>1. n * x - total = k * x - a
  OBVIOUS
<1>2. (k * x - a) * (k * x - a) = k * k * (x * x) - 2 * (k * (a * x)) + a * a
  OBVIOUS
<1>3. k * (n * squares - total * total)
        = k * k * (x * x) + (k + 1) * (k * b) - 2 * (k * (a * x)) - k * (a * a)
  OBVIOUS
<1>4. k * b \in Int /\ a * a \in Int /\ a * a <= k * b
  OBVIOUS
<1>5. (k + 1) * (a * a) <= (k + 1) * (k * b)
  <2>1. k + 1 \in Nat
    OBVIOUS
  <2> QED
    BY <1>4, <2>1, Times
<1>6. (k + 1) * (a * a) = k * (a * a) + a * a
  OBVIOUS
<1>7. /\ k * k * (x * x) \in Int /\ k * (a * x) \in Int /\ k * (a * a) \in Int
      /\ (k + 1) * (k * b) \in Int /\ a * a \in Int
  OBVIOUS
<1> QED
  BY <1>1, <1>2, <1>3, <1>5, <1>6, <1>7

\* No seed is far from its side's mean: this is what keeps noise from failing.
LEMMA SeedsAreNearTheMean ==
  ASSUME NEW s, IsSide(s), NEW i \in DOMAIN s, NEW e, e = Seeds(s) * s[i] - SumOf(s)
  PROVE  /\ e \in Int /\ Spread(s) \in Nat /\ e * e <= (Seeds(s) - 1) * Spread(s)
<1> DEFINE D == DOMAIN s
           x == s[i]
           a == SumFunctionOnSet(s, D \ {i})
           b == SumFunctionOnSet(Squares(s), D \ {i})
           k == Cardinality(D \ {i})
<1>1. IsFiniteSet(D) /\ IsFiniteSet(D \ {i})
  BY FS_RemoveElement DEF IsSide
<1>2. Seeds(s) = k + 1 /\ k \in Nat
  <2>1. Cardinality(D \ {i}) = Cardinality(D) - 1 /\ Cardinality(D) \in Nat /\ k \in Nat
    BY <1>1, FS_RemoveElement, FS_CardinalityType
  <2> QED
    BY <2>1 DEF Seeds
<1>3. /\ \A j \in D : s[j] \in Int /\ Squares(s)[j] = s[j] * s[j]
      /\ \A j \in D : s[j] \in Int
      /\ \A j \in D : Squares(s)[j] \in Int
  BY DEF IsSide, Squares
<1>4. SumOf(s) = SumFunctionOnSet(s, D) /\ SumOf(Squares(s)) = SumFunctionOnSet(Squares(s), D)
  BY DEF SumOf, SumFunction, Squares
<1>5. SumOf(s) = x + a /\ SumOf(Squares(s)) = Squares(s)[i] + b
  BY <1>1, <1>3, <1>4, SumLess
<1>6. /\ \A j \in D \ {i} : s[j] \in Int /\ Squares(s)[j] = s[j] * s[j]
      /\ \A j \in D \ {i} : s[j] \in Int
      /\ \A j \in D \ {i} : Squares(s)[j] \in Int
  BY <1>3
<1>7. a \in Int /\ b \in Int /\ a * a <= k * b
  BY <1>1, <1>6, SumType, SquareOfSum
<1>8. SumOf(s) * SumOf(s) <= Seeds(s) * SumOf(Squares(s))
  BY <1>1, <1>3, <1>4, SquareOfSum DEF Seeds
<1>9. x \in Int /\ Squares(s)[i] = x * x
  BY <1>3
<1>10. Seeds(s) \in Nat /\ SumOf(s) \in Nat /\ SumOf(Squares(s)) \in Int
  BY SumsOfASide
<1> HIDE DEF D, x, a, b, k
<1>11. e = Seeds(s) * x - SumOf(s)
  BY DEF x
<1>12. (Seeds(s) * x - SumOf(s)) * (Seeds(s) * x - SumOf(s))
         <= k * (Seeds(s) * SumOf(Squares(s)) - SumOf(s) * SumOf(s))
  <2>1. SumOf(Squares(s)) = x * x + b
    BY <1>5, <1>9
  <2> QED
    BY <1>2, <1>5, <1>7, <1>9, <2>1, OneSeedAside
<1>13. e \in Int
  BY <1>9, <1>10, <1>11
<1>14. Spread(s) \in Nat
  <2>1. SumOf(s) * SumOf(s) \in Int /\ Seeds(s) * SumOf(Squares(s)) \in Int
    BY <1>10
  <2> QED
    BY <1>8, <2>1 DEF Spread
<1>15. k = Seeds(s) - 1
  BY <1>2
<1> QED
  BY <1>11, <1>12, <1>13, <1>14, <1>15 DEF Spread

\* A half width, scaled, reaches as far as any of the side's seeds: the square of
\* the critical value is at least that of the seeds but one.
LEMMA ReachesItsSeeds ==
  ASSUME NEW k \in Nat, NEW spread \in Nat, NEW e \in Int, e * e <= k * spread,
         NEW t \in Nat, k * k <= t, NEW m \in Nat, NEW l \in Nat
  PROVE  (m * e) * (m * e) * (l * k) <= (t * spread) * m * m * l
<1>1. e * e \in Nat /\ k * spread \in Nat /\ k * k \in Nat
  BY SquaresAreNatural
<1>2. k * (e * e) <= k * (k * spread)
  BY <1>1, Times
<1>3. spread * (k * k) <= spread * t
  BY <1>1, Times
<1>4. k * (e * e) <= t * spread
  <2>1. k * (k * spread) = spread * (k * k) /\ spread * t = t * spread
    OBVIOUS
  <2>2. /\ k * (e * e) \in Int /\ k * (k * spread) \in Int /\ t * spread \in Int
        /\ spread * (k * k) \in Int /\ spread * t \in Int
    OBVIOUS
  <2> QED
    BY <1>2, <1>3, <2>1, <2>2
<1>5. m * m * l \in Nat /\ k * (e * e) \in Int /\ t * spread \in Int
  BY SquaresAreNatural
<1>6. (m * m * l) * (k * (e * e)) <= (m * m * l) * (t * spread)
  BY <1>4, <1>5, Times
<1>7. (m * e) * (m * e) * (l * k) = (m * m * l) * (k * (e * e))
  OBVIOUS
<1>8. (t * spread) * m * m * l = (m * m * l) * (t * spread)
  OBVIOUS
<1> QED
  BY <1>6, <1>7, <1>8

\* Two intervals around means at most p + q apart, of half widths p and q at
\* least, meet.
LEMMA IntervalsMeet ==
  ASSUME NEW d \in Int, NEW p \in Int, NEW q \in Int, d > 0, d <= p + q,
         NEW scale \in Nat, scale > 0, NEW u \in Nat, NEW v \in Nat,
         p * p * scale <= v, q * q * scale <= u,
         NEW rest, rest = d * d * scale - u - v,
         rest >= 0, IF u = 0 \/ v = 0 THEN rest > 0 ELSE rest * rest > 4 * u * v
  PROVE  FALSE
<1> DEFINE w == p * q * scale
           pp == p * p * scale
           qq == q * q * scale
           dd == d * d * scale
<1>1. /\ p * p \in Nat /\ q * q \in Nat /\ d * d \in Nat
      /\ (p * p = 0 <=> p = 0) /\ (q * q = 0 <=> q = 0)
  BY SquaresAreNatural
<1>2. w \in Int /\ pp \in Nat /\ qq \in Nat /\ dd \in Nat
  BY <1>1
<1>3. dd <= pp + qq + 2 * w
  <2>1. d * d <= (p + q) * (p + q)
    <3>1. d \in Nat /\ p + q \in Nat
      OBVIOUS
    <3> QED
      BY <3>1, Products
  <2>2. (p + q) * (p + q) = p * p + q * q + 2 * (p * q)
    OBVIOUS
  <2>3. scale * (d * d) <= scale * (p * p + q * q + 2 * (p * q))
    <3>1. p * p + q * q + 2 * (p * q) \in Int /\ d * d \in Int
      OBVIOUS
    <3> QED
      BY <2>1, <2>2, <3>1, Times
  <2>4. scale * (d * d) = dd
    OBVIOUS
  <2>5. scale * (p * p + q * q + 2 * (p * q)) = pp + qq + 2 * w
    OBVIOUS
  <2> QED
    BY <2>3, <2>4, <2>5
<1>4. w * w = pp * qq
  OBVIOUS
<1>5. \A z \in Nat : z * scale = 0 => z = 0
  OBVIOUS
<1>6. (pp = 0 => p = 0) /\ (qq = 0 => q = 0)
  BY <1>1, <1>5
<1>7. (p = 0 => w = 0) /\ (q = 0 => w = 0)
  OBVIOUS
<1>8. pp <= v /\ qq <= u /\ rest = dd - u - v
  OBVIOUS
<1> HIDE DEF w, pp, qq, dd
<1>9. rest \in Int /\ rest <= 2 * w
  BY <1>2, <1>3, <1>8
<1>10. CASE u = 0 \/ v = 0
  <2>1. pp = 0 \/ qq = 0
    BY <1>2, <1>8, <1>10
  <2>2. w = 0
    BY <1>6, <1>7, <2>1
  <2> QED
    BY <1>9, <1>10, <2>2
<1>11. CASE ~ (u = 0 \/ v = 0)
  <2>1. rest \in Nat /\ 2 * w \in Nat
    BY <1>2, <1>9
  <2>2. rest * rest <= (2 * w) * (2 * w)
    BY <1>9, <2>1, Products
  <2>3. (2 * w) * (2 * w) = 4 * (w * w)
    BY <1>2
  <2>4. pp * qq <= v * u
    BY <1>2, <1>8, Products
  <2>5. pp * qq \in Int /\ v * u \in Int /\ rest * rest \in Int
    BY <1>2, <2>1
  <2>6. 4 * u * v = 4 * (v * u)
    OBVIOUS
  <2>7. rest * rest > 4 * u * v
    BY <1>11
  <2> QED
    BY <1>4, <2>2, <2>3, <2>4, <2>5, <2>6, <2>7
<1> QED
  BY <1>10, <1>11

LEMMA CriticalValues ==
  ASSUME NEW n \in 2..4
  PROVE  TSquared(n - 1) \in Nat /\ (n - 1) * (n - 1) <= TSquared(n - 1)
<1>1. n - 1 = 1 \/ n - 1 = 2 \/ n - 1 = 3
  OBVIOUS
<1>2. TSquared(1) = 161 /\ TSquared(2) = 19 /\ TSquared(3) = 10
  BY DEF TSquared
<1> QED
  BY <1>1, <1>2

\* What mean_ci makes of a side with at least two seeds.
LEMMA IntervalOfASide ==
  ASSUME NEW s, IsSide(s), Seeds(s) \in 2..4
  PROVE  /\ Divisor(s) = Seeds(s) /\ Freedom(s) = Seeds(s) - 1
         /\ HalfSquared(s) = TSquared(Seeds(s) - 1) * Spread(s)
BY DEF Divisor, Freedom, HalfSquared, Spread

\* The gate does not fail where a seed of the candidate reaches one of the baseline.
LEMMA NoiseIsNotBelow ==
  ASSUME NEW b, NEW c, IsSide(b), IsSide(c), Seeds(b) \in 2..4, Seeds(c) \in 2..4,
         NEW i \in DOMAIN b, NEW j \in DOMAIN c, b[i] <= c[j]
  PROVE  ~ Below(c, b)
<1> SUFFICES ASSUME Below(c, b) PROVE FALSE
  OBVIOUS
<1> DEFINE m == Seeds(b)
           n == Seeds(c)
           x == b[i]
           y == c[j]
           e == m * x - SumOf(b)
           f == n * y - SumOf(c)
           sb == Spread(b)
           sc == Spread(c)
           tb == TSquared(m - 1)
           tc == TSquared(n - 1)
           p == m * f
           q == n * (0 - e)
           d == SumOf(b) * n - SumOf(c) * m
           scale == (m - 1) * (n - 1)
           u == (tb * sb) * n * n * (n - 1)
           v == (tc * sc) * m * m * (m - 1)
           rest == d * d * scale - u - v
<1>1. /\ m \in 2..4 /\ n \in 2..4 /\ x \in Nat /\ y \in Nat /\ x <= y
      /\ SumOf(b) \in Nat /\ SumOf(c) \in Nat
  BY SumsOfASide DEF IsSide
<1>2. /\ e \in Int /\ sb \in Nat /\ e * e <= (m - 1) * sb
      /\ f \in Int /\ sc \in Nat /\ f * f <= (n - 1) * sc
  BY SeedsAreNearTheMean
<1>3. /\ tb \in Nat /\ (m - 1) * (m - 1) <= tb
      /\ tc \in Nat /\ (n - 1) * (n - 1) <= tc
  BY <1>1, CriticalValues
<1>4. d > 0 /\ rest >= 0 /\ (IF u = 0 \/ v = 0 THEN rest > 0 ELSE rest * rest > 4 * u * v)
  <2>1. /\ Divisor(b) = m /\ Freedom(b) = m - 1 /\ HalfSquared(b) = tb * sb
        /\ Divisor(c) = n /\ Freedom(c) = n - 1 /\ HalfSquared(c) = tc * sc
    BY IntervalOfASide
  <2> HIDE DEF m, n, sb, sc, tb, tc
  <2> QED
    BY <2>1 DEF Below
<1>5. d <= p + q
  <2>1. d = m * n * (x - y) + p + q
    <3> DEFINE sumB == SumOf(b)
               sumC == SumOf(c)
    <3>1. m \in Int /\ n \in Int /\ x \in Int /\ y \in Int /\ sumB \in Int /\ sumC \in Int
      BY <1>1
    <3> HIDE DEF m, n, x, y, sumB, sumC
    <3>2. \A g \in Int, h \in Int : (g * n) - h * m
            = m * n * (x - y) + m * (n * y - h) + n * (0 - (m * x - g))
      BY <3>1
    <3>3. sumB * n - sumC * m = m * n * (x - y) + m * (n * y - sumC) + n * (0 - (m * x - sumB))
      BY <3>1, <3>2
    <3> QED
      BY <3>3 DEF sumB, sumC
  <2>2. m * n * (x - y) <= 0
    <3>1. m * n \in Nat /\ y - x \in Nat
      BY <1>1
    <3>2. (m * n) * (y - x) \in Nat
      BY <3>1
    <3>3. m * n * (x - y) = 0 - (m * n) * (y - x)
      BY <1>1
    <3> QED
      BY <3>2, <3>3
  <2>3. p \in Int /\ q \in Int /\ m * n * (x - y) \in Int
    BY <1>1, <1>2
  <2> HIDE DEF p, q, d
  <2> QED
    BY <2>1, <2>2, <2>3
<1> HIDE DEF e, f, m, n, sb, sc, tb, tc, x, y
<1>6. m - 1 \in Nat /\ n - 1 \in Nat /\ m \in Nat /\ n \in Nat /\ 0 - e \in Int
  BY <1>1, <1>2
<1>7. (0 - e) * (0 - e) = e * e
  BY <1>2
<1>8. p * p * scale <= v
  BY <1>2, <1>3, <1>6, ReachesItsSeeds
<1>9. q * q * ((n - 1) * (m - 1)) <= u
  BY <1>2, <1>3, <1>6, <1>7, ReachesItsSeeds
<1>10. scale \in Nat /\ scale > 0 /\ (n - 1) * (m - 1) = scale
  BY <1>1
<1>11. u \in Nat /\ v \in Nat
  BY <1>2, <1>3, <1>6
<1>12. d \in Int /\ p \in Int /\ q \in Int
  BY <1>1, <1>2
<1>13. q * q * scale <= u
  BY <1>9, <1>10
<1> HIDE DEF p, q, d, scale, u, v
<1> QED
  BY <1>4, <1>5, <1>8, <1>10, <1>11, <1>12, <1>13, IntervalsMeet

\* A side without any spread is its seeds' rate.
LEMMA FlatSides ==
  ASSUME NEW s, IsSide(s), Seeds(s) \in 2..4, \A i, j \in DOMAIN s : s[i] = s[j]
  PROVE  /\ HalfSquared(s) = 0
         /\ \A i \in DOMAIN s : SumOf(s) = Seeds(s) * s[i]
         /\ DOMAIN s # {}
<1>1. DOMAIN s # {}
  BY FS_EmptySet DEF Seeds
<1>2. PICK k \in DOMAIN s : TRUE
  BY <1>1
<1> DEFINE x == s[k]
           n == Seeds(s)
<1>3. x \in Int /\ IsFiniteSet(DOMAIN s) /\ x * x \in Int /\ n \in Nat
  BY DEF IsSide
<1>4. \A i \in DOMAIN s : s[i] = x /\ Squares(s)[i] = x * x
  BY DEF Squares
<1>5. SumOf(s) = n * x
  BY <1>3, <1>4, SumOfEqual DEF SumOf, SumFunction, Seeds
<1>6. SumOf(Squares(s)) = n * (x * x)
  <2>1. SumOf(Squares(s)) = SumFunctionOnSet(Squares(s), DOMAIN s)
    BY DEF SumOf, SumFunction, Squares
  <2>2. SumFunctionOnSet(Squares(s), DOMAIN s) = Cardinality(DOMAIN s) * (x * x)
    BY <1>3, <1>4, SumOfEqual
  <2> QED
    BY <2>1, <2>2 DEF Seeds
<1> HIDE DEF x, n
<1>7. Spread(s) = 0
  <2>1. n * (n * (x * x)) - (n * x) * (n * x) = 0
    BY <1>3
  <2> QED
    BY <1>5, <1>6, <2>1 DEF Spread, n
<1>8. HalfSquared(s) = 0
  <2>1. HalfSquared(s) = TSquared(Seeds(s) - 1) * 0
    BY <1>7, IntervalOfASide
  <2>2. TSquared(Seeds(s) - 1) \in Nat
    BY CriticalValues
  <2> QED
    BY <2>1, <2>2
<1>9. \A i \in DOMAIN s : SumOf(s) = Seeds(s) * s[i]
  BY <1>4, <1>5 DEF n
<1> QED
  BY <1>1, <1>8, <1>9

\* Two of them: any loss is below.
LEMMA FlatLossIsBelow ==
  ASSUME NEW b, NEW c, IsSide(b), IsSide(c), Seeds(b) \in 2..4, Seeds(c) \in 2..4,
         \A i, j \in DOMAIN b : b[i] = b[j], \A i, j \in DOMAIN c : c[i] = c[j],
         \A i \in DOMAIN b, j \in DOMAIN c : c[j] < b[i]
  PROVE  Below(c, b)
<1>1. PICK i \in DOMAIN b, j \in DOMAIN c : c[j] < b[i]
  BY FlatSides
<1> DEFINE x == b[i]
           y == c[j]
           m == Seeds(b)
           n == Seeds(c)
           d == SumOf(b) * n - SumOf(c) * m
           scale == (m - 1) * (n - 1)
<1>2. SumOf(b) = m * x /\ SumOf(c) = n * y /\ HalfSquared(b) = 0 /\ HalfSquared(c) = 0
  BY FlatSides
<1>3. /\ Divisor(b) = m /\ Freedom(b) = m - 1
      /\ Divisor(c) = n /\ Freedom(c) = n - 1
  BY IntervalOfASide
<1>4. x \in Nat /\ y \in Nat /\ y < x /\ m \in 2..4 /\ n \in 2..4
  BY <1>1 DEF IsSide
<1> HIDE DEF x, y, m, n
<1>5. d \in Nat /\ d > 0
  <2>1. d = (m * n) * (x - y)
    BY <1>2, <1>4
  <2>2. m * n \in Nat /\ m * n > 0 /\ x - y \in Nat /\ x - y > 0
    BY <1>4
  <2>3. \A g, h \in Nat : g > 0 /\ h > 0 => g * h \in Nat /\ g * h > 0
    OBVIOUS
  <2>4. (m * n) * (x - y) \in Nat /\ (m * n) * (x - y) > 0
    BY <2>2, <2>3
  <2> HIDE DEF d
  <2> QED
    BY <2>1, <2>4
<1>6. scale \in Nat /\ scale > 0
  BY <1>4
<1>7. 0 * n * n * (n - 1) = 0 /\ 0 * m * m * (m - 1) = 0
  BY <1>4
<1>8. Below(c, b) <=> d > 0 /\ d * d * scale - 0 - 0 >= 0 /\ d * d * scale - 0 - 0 > 0
  BY <1>2, <1>3, <1>7 DEF Below
<1> HIDE DEF d, scale
<1>9. d * d \in Nat /\ d * d > 0
  BY <1>5
<1>10. d * d * scale \in Nat /\ d * d * scale > 0
  <2> DEFINE g == d * d
  <2>1. g \in Nat /\ g > 0
    BY <1>9
  <2> HIDE DEF g
  <2>2. g * scale \in Nat /\ g * scale > 0
    BY <1>6, <2>1
  <2> QED
    BY <2>2 DEF g
<1> QED
  BY <1>5, <1>8, <1>10

(* The verdict is the comparison's, of the sides that allow one.  This is also *)
(* the inductive invariant: the files do not change while they are compared.  *)
GateInv ==
  /\ baseline \in SidesOfFiles /\ candidate \in SidesOfFiles
  /\ verdict \in {"none", "refused", "fail", "pass"}
  /\ verdict = "refused" => Refuses(Scores(baseline), Scores(candidate))
  /\ verdict \in {"fail", "pass"} =>
       /\ ~ Refuses(Scores(baseline), Scores(candidate))
       /\ verdict = "fail" <=> Below(Scores(candidate), Scores(baseline))

LEMMA GateInvHolds == GateSpec => []GateInv
<1>1. GateInit => GateInv
  BY DEF GateInit, GateInv
<1>2. GateInv /\ [GateNext]_gateVars => GateInv'
  <2> SUFFICES ASSUME GateInv, [GateNext]_gateVars PROVE GateInv'
    OBVIOUS
  <2> USE DEF GateInv
  <2>1. CASE RefuseToJudge
    BY <2>1 DEF RefuseToJudge
  <2>2. CASE RegressionGate
    BY <2>2 DEF RegressionGate
  <2>3. CASE UNCHANGED gateVars
    BY <2>3 DEF gateVars
  <2> QED
    BY <2>1, <2>2, <2>3 DEF GateNext
<1> QED
  BY <1>1, <1>2, PTL DEF GateSpec

\* The gate fails only where every seed of the candidate is below every seed of
\* the baseline, whatever the rates, and on any loss where there is no spread.
THEOREM GateSeparatesSeeds == GateSpec => []FailureSeparatesSeeds
<1>1. GateInv => FailureSeparatesSeeds
  <2> DEFINE Lower(b, c) == \A i \in DOMAIN b, j \in DOMAIN c : c[j] < b[i]
             Flat(s) == \A i, j \in DOMAIN s : s[i] = s[j]
  <2> SUFFICES ASSUME GateInv, NEW b, b = Scores(baseline), NEW c, c = Scores(candidate)
               PROVE  /\ verdict = "fail" => Seeds(b) >= 2 /\ Seeds(c) # 1 /\ Lower(b, c)
                      /\ verdict # "none" /\ Seeds(b) >= 2 /\ Seeds(c) >= 2 /\ Flat(b) /\ Flat(c) =>
                           (verdict = "fail" <=> Lower(b, c))
    BY Zenon DEF FailureSeparatesSeeds
  <2>1. IsSide(b) /\ IsSide(c) /\ Seeds(b) \in 0..4 /\ Seeds(c) \in 0..4
    BY ScoresAreASide DEF GateInv
  <2>2. \A i \in DOMAIN b, j \in DOMAIN c : c[j] < b[i] \/ b[i] <= c[j]
    BY <2>1 DEF IsSide
  <2>3. ASSUME verdict = "fail"
        PROVE  Seeds(b) >= 2 /\ Seeds(c) # 1 /\ Lower(b, c)
    <3>1. ~ Refuses(b, c) /\ Below(c, b)
      BY <2>3 DEF GateInv
    <3>2. Seeds(b) # 1 /\ Seeds(c) # 1 /\ (Seeds(b) # 0 \/ Seeds(c) # 0)
      BY <3>1 DEF Refuses
    <3>3. Seeds(b) # 0
      <4> SUFFICES ASSUME Seeds(b) = 0 PROVE FALSE
        OBVIOUS
      <4>1. DOMAIN b = {}
        BY <2>1, FS_EmptySet DEF IsSide, Seeds
      <4>2. SumOf(b) = 0
        BY <4>1, SumEmpty DEF SumOf, SumFunction
      <4>3. Divisor(b) = 1 /\ Divisor(c) = Seeds(c) /\ SumOf(c) \in Nat /\ Seeds(c) \in Nat
        BY <2>1, <3>2, SumsOfASide DEF Divisor
      <4>4. SumOf(b) * Divisor(c) - SumOf(c) * Divisor(b) > 0
        BY <3>1 DEF Below
      <4> QED
        BY <4>2, <4>3, <4>4
    <3>4. Seeds(b) \in 2..4 /\ (Seeds(c) = 0 \/ Seeds(c) \in 2..4)
      BY <2>1, <3>2, <3>3
    <3>5. CASE Seeds(c) = 0
      <4>1. DOMAIN c = {}
        BY <2>1, <3>5, FS_EmptySet DEF IsSide, Seeds
      <4> QED
        BY <3>4, <3>5, <4>1
    <3>6. CASE Seeds(c) \in 2..4
      <4>1. \A i \in DOMAIN b, j \in DOMAIN c : ~ (b[i] <= c[j])
        BY <2>1, <3>1, <3>4, <3>6, NoiseIsNotBelow
      <4> QED
        BY <2>2, <3>4, <3>6, <4>1
    <3> QED
      BY <3>4, <3>5, <3>6
  <2>4. ASSUME verdict # "none", Seeds(b) >= 2, Seeds(c) >= 2, Flat(b), Flat(c), Lower(b, c)
        PROVE  verdict = "fail"
    <3>1. Seeds(b) \in 2..4 /\ Seeds(c) \in 2..4
      BY <2>1, <2>4
    <3>2. Below(c, b)
      BY <2>1, <2>4, <3>1, FlatLossIsBelow
    <3>3. ~ Refuses(b, c)
      BY <3>1 DEF Refuses
    <3> QED
      BY <2>4, <3>2, <3>3 DEF GateInv
  <2> QED
    BY <2>3, <2>4
<1> QED
  BY <1>1, GateInvHolds, PTL
=============================================================================
