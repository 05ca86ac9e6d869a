-------------------------- MODULE PlaygroundProofs --------------------------
(* Theorems about Playground, for any number of clients and requests, any  *)
(* limit and window, any budget and any length of the day.                 *)
EXTENDS Playground, FiniteSetTheorems, SequenceTheorems, TLAPS

LEMMA DivisionMonotone ==
  ASSUME NEW a \in Nat, NEW b \in Nat, NEW n \in Nat \ {0}, a <= b
  PROVE  a \div n \in Nat /\ a \div n <= b \div n
  OBVIOUS

LEMMA MultiplyMonotone ==
  ASSUME NEW a \in Nat, NEW b \in Nat, NEW k \in Nat, a <= b
  PROVE  k * a <= k * b
  OBVIOUS

LEMMA MultiplySucc ==
  ASSUME NEW a \in Nat, NEW k \in Nat
  PROVE  k * (a + 1) = k * a + k /\ k * a \in Nat
  OBVIOUS

LEMMA DaysPass ==
  ASSUME NEW s \in Nat, NEW t \in Nat, s <= t
  PROVE  DayOf(s) \in Nat /\ DayOf(t) \in Nat /\ DayOf(s) <= DayOf(t)
  BY DivisionMonotone, PlaygroundAssumption DEF DayOf

LEMMA TodayIsADay ==
  ASSUME clock \in Times
  PROVE  Today \in Days /\ Today \in Nat
<1>1. clock \in Nat /\ MaxTime \in Nat /\ clock <= MaxTime
  BY PlaygroundAssumption DEF Times
<1> QED
  BY <1>1, DaysPass DEF Today, Days

\* What _rate_ok keeps of an address's hits, and what it adds.
LEMMA RecentHits ==
  ASSUME NEW ip \in Ips, hits \in [Ips -> Seq(Times)], clock \in Times,
         NEW k \in 0..Len(hits[ip])
  PROVE  LET kept == Recent(ip, k)
             n == Len(hits[ip])
             added == Append(kept, clock)
         IN  /\ n \in Nat
             /\ kept \in Seq(Times) /\ Len(kept) = n - k
             /\ \A i \in 1..(n - k) : kept[i] = hits[ip][k + i]
             /\ added \in Seq(Times) /\ Len(added) = n - k + 1
             /\ \A i \in 1..(n - k) : added[i] = hits[ip][k + i]
             /\ added[n - k + 1] = clock
<1> DEFINE kept == Recent(ip, k)
           n == Len(hits[ip])
<1>1. hits[ip] \in Seq(Times) /\ n \in Nat
  OBVIOUS
<1>2. \A i \in (k + 1)..n : hits[ip][i] \in Times
  BY <1>1
<1>3. /\ kept \in Seq(Times)
      /\ Len(kept) = IF k + 1 <= n THEN n - (k + 1) + 1 ELSE 0
      /\ \A i \in 1..(n - (k + 1) + 1) : kept[i] = hits[ip][(k + 1) + i - 1]
  <2> HIDE DEF n
  <2> QED
    BY <1>1, <1>2, SubSeqProperties DEF Recent, n
<1>4. /\ kept \in Seq(Times) /\ Len(kept) = n - k
      /\ \A i \in 1..(n - k) : kept[i] = hits[ip][k + i]
  BY <1>1, <1>3
<1> HIDE DEF kept
<1>5. /\ Append(kept, clock) \in Seq(Times)
      /\ Len(Append(kept, clock)) = Len(kept) + 1
      /\ \A i \in 1..Len(kept) : Append(kept, clock)[i] = kept[i]
      /\ Append(kept, clock)[Len(kept) + 1] = clock
  BY <1>4, AppendProperties
<1> QED
  BY <1>1, <1>4, <1>5 DEF kept

LEMMA UnderWayIsFinite ==
  /\ IsFiniteSet(UnderWay) /\ Cardinality(UnderWay) \in Nat
  /\ \A S : S \subseteq UnderWay => IsFiniteSet(S) /\ Cardinality(S) \in Nat
<1>1. UnderWay \subseteq Requests
  BY DEF UnderWay
<1> QED
  BY <1>1, PlaygroundAssumption, FS_Subset, FS_CardinalityType

\* The types after a handler's step through _roll_day() and the budget check.
LEMMA CheckBudgetTypes ==
  ASSUME TypeOK, NEW r \in Requests, pc[r] \in {"new", "verifying"}, CheckBudget(r)
  PROVE  /\ day' \in Days /\ tokensToday' \in Nat /\ peak' \in Nat
         /\ admittedOn' \in [Requests -> Days]
         /\ pc' \in [Requests -> {"new", "verifying", "queued", "solving", "solved",
                                  "grading", "done"}]
         /\ answer' \in [Requests -> {0, 200, 400, 403, 429, 500, 503}]
         /\ \A s \in Requests : pc'[s] = "grading" <=> pc[s] = "grading"
<1>1. Today \in Days
  BY TodayIsADay DEF TypeOK
<1>2. day' = Today /\ tokensToday' \in Nat
  BY DEF CheckBudget, TypeOK
<1>3. CASE tokensToday' >= DailyBudget
  <2>1. /\ pc' = [pc EXCEPT ![r] = "done"] /\ answer' = [answer EXCEPT ![r] = 503]
        /\ admittedOn' = admittedOn /\ peak' = peak
    BY <1>3 DEF CheckBudget, BudgetSpent, Respond
  <2> QED
    BY <1>1, <1>2, <2>1 DEF TypeOK
<1>4. CASE ~(tokensToday' >= DailyBudget)
  <2>1. Cardinality(UnderWay) + 1 \in Nat
    BY UnderWayIsFinite
  <2>2. pc' = [pc EXCEPT ![r] = "queued"] /\ answer' = answer
    BY <1>4 DEF CheckBudget, BudgetSpent, Goto
  <2>3. admittedOn' = [admittedOn EXCEPT ![r] = Today] /\ peak' \in Nat
    BY <1>4, <2>1 DEF CheckBudget, BudgetSpent, TypeOK
  <2> QED
    BY <1>1, <1>2, <2>2, <2>3 DEF TypeOK
<1> QED
  BY <1>3, <1>4

\* The variables keep their types, and the loop is the graded request's.
THEOREM TypeCorrect == Spec => []TypeOK
<1>1. Init => TypeOK
  <2> SUFFICES ASSUME Init PROVE TypeOK
    OBVIOUS
  <2>1. 0 \in Times /\ 0 \in Days
    BY PlaygroundAssumption, DivisionMonotone DEF Times, Days, DayOf
  <2>2. <<>> \in Seq(Times)
    OBVIOUS
  <2> QED
    BY <2>1, <2>2, PlaygroundAssumption DEF Init, TypeOK
<1>2. TypeOK /\ [Next]_vars => TypeOK'
  <2> SUFFICES ASSUME TypeOK, [Next]_vars PROVE TypeOK'
    OBVIOUS
  <2> USE PlaygroundAssumption DEF limiter, budget, Respond, Goto, Runs
  <2>1. CASE Tick
    BY <2>1 DEF Tick, TypeOK, Times
  <2>2. ASSUME NEW r \in Requests, RejectUnknownTask(r) PROVE TypeOK'
    BY <2>2 DEF RejectUnknownTask, TypeOK
  <2>3. ASSUME NEW r \in Requests, RejectLimited(r) PROVE TypeOK'
    <3>1. hits' \in [Ips -> Seq(Times)]
      <4>1. PICK k \in 0..Len(hits[IpOf[r]]) :
              hits' = [hits EXCEPT ![IpOf[r]] = Recent(IpOf[r], k)]
        BY <2>3 DEF RejectLimited
      <4>2. IpOf[r] \in Ips /\ hits \in [Ips -> Seq(Times)] /\ clock \in Times
        BY DEF TypeOK
      <4>3. Recent(IpOf[r], k) \in Seq(Times)
        BY <4>2, RecentHits
      <4> QED
        BY <4>1, <4>2, <4>3
    <3> QED
      BY <2>3, <3>1 DEF RejectLimited, TypeOK
  <2>4. ASSUME NEW r \in Requests, Grant(r) PROVE TypeOK'
    <3>1. hits' \in [Ips -> Seq(Times)]
      <4>1. PICK k \in 0..Len(hits[IpOf[r]]) :
              hits' = [hits EXCEPT ![IpOf[r]] = Append(Recent(IpOf[r], k), clock)]
        BY <2>4 DEF Grant
      <4>2. IpOf[r] \in Ips /\ hits \in [Ips -> Seq(Times)] /\ clock \in Times
        BY DEF TypeOK
      <4>3. Recent(IpOf[r], k) \in Seq(Times)
        BY <4>2, RecentHits
      <4>4. Append(Recent(IpOf[r], k), clock) \in Seq(Times)
        BY <4>2, <4>3, AppendProperties
      <4> QED
        BY <4>1, <4>2, <4>4
    <3>2. granted' \in [Ips -> Seq(Times)]
      BY <2>4, AppendProperties DEF Grant, TypeOK
    <3>3. UNCHANGED <<clock, spent, loop, charged>> /\ pc[r] = "new"
      BY <2>4 DEF Grant
    <3>4. CASE RequireTurnstile
      <4>1. /\ pc' = [pc EXCEPT ![r] = "verifying"] /\ answer' = answer
            /\ UNCHANGED budget
        BY <2>4, <3>4 DEF Grant
      <4> QED
        BY <3>1, <3>2, <3>3, <4>1 DEF TypeOK
    <3>5. CASE ~RequireTurnstile
      <4>1. CheckBudget(r)
        BY <2>4, <3>5 DEF Grant
      <4>2. /\ day' \in Days /\ tokensToday' \in Nat /\ peak' \in Nat
            /\ admittedOn' \in [Requests -> Days]
            /\ pc' \in [Requests -> {"new", "verifying", "queued", "solving", "solved",
                                    "grading", "done"}]
            /\ answer' \in [Requests -> {0, 200, 400, 403, 429, 500, 503}]
            /\ \A s \in Requests : pc'[s] = "grading" <=> pc[s] = "grading"
        BY <3>3, <4>1, CheckBudgetTypes
      <4>3. \A s \in Requests : pc'[s] = "grading" <=> loop' = s
        BY <3>3, <4>2 DEF TypeOK
      <4> QED
        BY <3>1, <3>2, <3>3, <4>2, <4>3 DEF TypeOK
    <3> QED
      BY <3>4, <3>5
  <2>5. ASSUME NEW r \in Requests, TurnstileAccepts(r) PROVE TypeOK'
    <3>1. /\ CheckBudget(r) /\ pc[r] = "verifying"
          /\ UNCHANGED <<clock, hits, granted, spent, loop, charged>>
      BY <2>5 DEF TurnstileAccepts
    <3> QED
      BY <3>1, CheckBudgetTypes DEF TypeOK
  <2>6. ASSUME NEW r \in Requests, TurnstileRefuses(r) PROVE TypeOK'
    BY <2>6 DEF TurnstileRefuses, TypeOK
  <2>7. ASSUME NEW r \in Requests, StartSolve(r) PROVE TypeOK'
    BY <2>7 DEF StartSolve, TypeOK
  <2>8. ASSUME NEW r \in Requests, SolveReturns(r) PROVE TypeOK'
    BY <2>8 DEF SolveReturns, TypeOK
  <2>9. ASSUME NEW r \in Requests, SolveRaises(r) PROVE TypeOK'
    BY <2>9 DEF SolveRaises, TypeOK
  <2>10. ASSUME NEW r \in Requests, Charge(r) PROVE TypeOK'
    BY <2>10 DEF Charge, TypeOK
  <2>11. ASSUME NEW r \in Requests, GradeEnds(r) PROVE TypeOK'
    BY <2>11 DEF GradeEnds, TypeOK
  <2>12. CASE UNCHANGED vars
    BY <2>12 DEF vars, TypeOK
  <2> QED
    BY <2>1, <2>2, <2>3, <2>4, <2>5, <2>6, <2>7, <2>8, <2>9, <2>10, <2>11, <2>12
       DEF Next, Arrive, Progress
<1> QED
  BY <1>1, <1>2, PTL DEF Spec

-----------------------------------------------------------------------------
\* An address's hits are the last of its grants, and the grants its hits no
\* longer hold had left the window when they were dropped, so they are out of
\* it ever since.
Dropped(ip) == Len(granted[ip]) - Len(hits[ip])

LimiterInv ==
  \A ip \in Ips :
    /\ Len(hits[ip]) <= Len(granted[ip]) /\ Len(hits[ip]) <= RateLimit
    /\ \A j \in 1..Len(hits[ip]) : hits[ip][j] = granted[ip][Dropped(ip) + j]
    /\ \A i \in 1..Dropped(ip) : clock - granted[ip][i] > Window

\* What dropping k expired hits leaves known of the grants.
LEMMA DropExpired ==
  ASSUME TypeOK, LimiterInv, NEW ip \in Ips, NEW k \in 0..Len(hits[ip]),
         Expired(ip, k)
  PROVE  /\ Len(granted[ip]) \in Nat /\ Len(hits[ip]) \in Nat
         /\ Dropped(ip) \in Nat /\ Dropped(ip) + k <= Len(granted[ip])
         /\ \A i \in 1..(Dropped(ip) + k) : clock - granted[ip][i] > Window
         /\ \A j \in 1..(Len(hits[ip]) - k) :
              hits[ip][k + j] = granted[ip][Dropped(ip) + k + j]
<1>1. Len(granted[ip]) \in Nat /\ Len(hits[ip]) \in Nat
  BY DEF TypeOK
<1>2. Dropped(ip) \in Nat /\ Dropped(ip) + k <= Len(granted[ip]) /\ k \in Nat
  <2>1. Len(hits[ip]) <= Len(granted[ip])
    BY DEF LimiterInv
  <2> QED
    BY <1>1, <2>1 DEF Dropped
<1>3. ASSUME NEW i \in 1..(Dropped(ip) + k) PROVE clock - granted[ip][i] > Window
  <2>1. CASE i <= Dropped(ip)
    BY <1>2, <2>1 DEF LimiterInv
  <2>2. CASE i > Dropped(ip)
    <3>1. i - Dropped(ip) \in 1..k /\ i - Dropped(ip) \in 1..Len(hits[ip])
      BY <1>1, <1>2, <2>2
    <3>2. hits[ip][i - Dropped(ip)] = granted[ip][Dropped(ip) + (i - Dropped(ip))]
      BY <3>1 DEF LimiterInv
    <3>3. clock - hits[ip][i - Dropped(ip)] > Window
      BY <3>1 DEF Expired
    <3>4. Dropped(ip) + (i - Dropped(ip)) = i
      BY <1>2
    <3> QED
      BY <3>2, <3>3, <3>4
  <2> QED
    BY <1>2, <2>1, <2>2
<1>4. ASSUME NEW j \in 1..(Len(hits[ip]) - k)
      PROVE  hits[ip][k + j] = granted[ip][Dropped(ip) + k + j]
  <2>1. k + j \in 1..Len(hits[ip])
    BY <1>1
  <2>2. hits[ip][k + j] = granted[ip][Dropped(ip) + (k + j)]
    BY <2>1 DEF LimiterInv
  <2>3. Dropped(ip) + (k + j) = Dropped(ip) + k + j
    BY <1>2
  <2> QED
    BY <2>2, <2>3
<1> QED
  BY <1>1, <1>2, <1>3, <1>4

\* The limiter after an address's k expired hits are dropped, and, if the request
\* is let through, its time is added to the hits and to the grants.
LEMMA LimiterSteps ==
  ASSUME TypeOK, LimiterInv, GrantsAreSpaced, NEW a \in Ips,
         NEW k \in 0..Len(hits[a]), Expired(a, k), clock' = clock,
         \/ hits' = [hits EXCEPT ![a] = Recent(a, k)] /\ granted' = granted
         \/ /\ hits' = [hits EXCEPT ![a] = Append(Recent(a, k), clock)]
            /\ granted' = [granted EXCEPT ![a] = Append(@, clock)]
            /\ Len(hits[a]) - k < RateLimit
  PROVE  LimiterInv' /\ GrantsAreSpaced'
<1> DEFINE n == Len(hits[a])
           g == Len(granted[a])
           h == Recent(a, k)
           out == Dropped(a) + k
<1> USE PlaygroundAssumption
<1>1. /\ n \in Nat /\ RateLimit \in Nat /\ g \in Nat /\ k \in Nat /\ n <= RateLimit /\ k <= n
      /\ Dropped(a) \in Nat /\ out \in Nat /\ out + (n - k) = g
      /\ \A i \in 1..out : clock - granted[a][i] > Window
      /\ \A j \in 1..(n - k) : hits[a][k + j] = granted[a][out + j]
  <2>1. g \in Nat /\ n \in Nat /\ Dropped(a) \in Nat
    BY DropExpired
  <2>2. n <= RateLimit /\ k \in Nat /\ k <= n
    BY <2>1 DEF LimiterInv
  <2>3. out + (n - k) = g
    BY <2>1, <2>2 DEF Dropped
  <2> QED
    BY <2>1, <2>2, <2>3, DropExpired
<1>2. /\ h \in Seq(Times) /\ Len(h) = n - k
      /\ \A j \in 1..(n - k) : h[j] = hits[a][k + j]
      /\ Len(Append(h, clock)) = n - k + 1
      /\ \A j \in 1..(n - k) : Append(h, clock)[j] = hits[a][k + j]
      /\ Append(h, clock)[n - k + 1] = clock
  <2>1. hits \in [Ips -> Seq(Times)] /\ clock \in Times
    BY DEF TypeOK
  <2> QED
    BY <2>1, RecentHits
<1>3. /\ hits \in [Ips -> Seq(Times)] /\ granted \in [Ips -> Seq(Times)]
      /\ clock \in Times
  BY DEF TypeOK
<1>4. /\ Len(Append(granted[a], clock)) = g + 1
      /\ \A i \in 1..g : Append(granted[a], clock)[i] = granted[a][i]
      /\ Append(granted[a], clock)[g + 1] = clock
  BY <1>3, AppendProperties
<1>5. ASSUME NEW ip \in Ips, ip # a
      PROVE  hits'[ip] = hits[ip] /\ granted'[ip] = granted[ip]
  BY <1>3, <1>5
<1> HIDE PlaygroundAssumption DEF n, g, h, out
<1>6. /\ hits'[a] \in {h, Append(h, clock)}
      /\ hits'[a] = h => granted'[a] = granted[a]
      /\ hits'[a] = Append(h, clock) =>
           granted'[a] = Append(granted[a], clock) /\ n - k < RateLimit
  <2>1. h # Append(h, clock)
    BY <1>1, <1>2
  <2> QED
    BY <1>3, <2>1 DEF h, n
<1>7. /\ Len(hits'[a]) <= Len(granted'[a]) /\ Len(hits'[a]) <= RateLimit
      /\ Len(granted'[a]) - Len(hits'[a]) = out
  <2>1. CASE hits'[a] = h
    <3>1. Len(hits'[a]) = n - k /\ Len(granted'[a]) = g
      BY <1>2, <1>6, <2>1 DEF g
    <3> QED
      BY <1>1, <3>1
  <2>2. CASE hits'[a] = Append(h, clock)
    <3>1. Len(hits'[a]) = n - k + 1 /\ Len(granted'[a]) = g + 1 /\ n - k < RateLimit
      BY <1>2, <1>4, <1>6, <2>2
    <3> QED
      BY <1>1, <3>1
  <2> QED
    BY <1>6, <2>1, <2>2
<1>8. ASSUME NEW j \in 1..Len(hits'[a])
      PROVE  hits'[a][j] = granted'[a][out + j]
  <2>1. CASE hits'[a] = h
    BY <1>1, <1>2, <1>6, <2>1
  <2>2. CASE hits'[a] = Append(h, clock) /\ j = n - k + 1
    BY <1>1, <1>2, <1>4, <1>6, <2>2
  <2>3. CASE hits'[a] = Append(h, clock) /\ j # n - k + 1
    <3>1. Len(hits'[a]) = n - k + 1
      BY <1>2, <2>3
    <3>2. j \in 1..(n - k) /\ out + j \in 1..g
      BY <1>1, <2>3, <3>1
    <3> QED
      BY <1>1, <1>2, <1>4, <1>6, <2>3, <3>2
  <2> QED
    BY <1>6, <2>1, <2>2, <2>3
<1>9. ASSUME NEW i \in 1..out
      PROVE  clock - granted'[a][i] > Window
  <2>1. i \in 1..g
    BY <1>1
  <2> QED
    BY <1>1, <1>4, <1>6, <2>1
<1>10. LimiterInv'
  <2>1. ASSUME NEW ip \in Ips, ip # a
        PROVE  /\ Len(hits'[ip]) <= Len(granted'[ip]) /\ Len(hits'[ip]) <= RateLimit
               /\ \A j \in 1..Len(hits'[ip]) :
                    hits'[ip][j] = granted'[ip][Dropped(ip)' + j]
               /\ \A i \in 1..Dropped(ip)' : clock' - granted'[ip][i] > Window
    <3>1. Dropped(ip)' = Dropped(ip)
      BY <1>5, <2>1 DEF Dropped
    <3> QED
      BY <1>5, <2>1, <3>1 DEF LimiterInv
  <2>2. Dropped(a)' = out
    BY <1>7 DEF Dropped
  <2>3. /\ \A j \in 1..Len(hits'[a]) : hits'[a][j] = granted'[a][Dropped(a)' + j]
        /\ \A i \in 1..Dropped(a)' : clock' - granted'[a][i] > Window
    BY <1>8, <1>9, <2>2
  <2> QED
    BY <1>7, <2>1, <2>3 DEF LimiterInv
<1>11. GrantsAreSpaced'
  <2> SUFFICES ASSUME NEW ip \in Ips, NEW i \in DOMAIN granted'[ip],
                      NEW j \in DOMAIN granted'[ip], j = i + RateLimit
               PROVE  granted'[ip][j] - granted'[ip][i] > Window
    BY DEF GrantsAreSpaced
  <2>1. CASE granted'[ip] = granted[ip]
    BY <2>1 DEF GrantsAreSpaced
  <2>2. CASE granted'[ip] # granted[ip]
    <3>1. ip = a /\ granted'[a] = Append(granted[a], clock) /\ n - k < RateLimit
      BY <1>5, <1>6, <2>2
    <3>2. DOMAIN granted'[a] = 1..(g + 1) /\ DOMAIN granted[a] = 1..g
      <4>1. Append(granted[a], clock) \in Seq(Times) /\ granted[a] \in Seq(Times)
        BY <1>3, AppendProperties
      <4> QED
        BY <1>1, <1>4, <3>1, <4>1 DEF g
    <3>3. CASE j \in 1..g
      <4>1. i \in 1..g
        BY <1>1, <3>1, <3>2, <3>3
      <4>2. granted[a][j] - granted[a][i] > Window
        BY <3>1, <3>2, <3>3, <4>1 DEF GrantsAreSpaced
      <4> QED
        BY <1>4, <3>1, <3>3, <4>1, <4>2
    <3>4. CASE j = g + 1
      \* The new grant's window holds the n - k hits kept, so the grant that is
      \* RateLimit before it is one of those dropped.
      <4>1. i \in 1..out /\ i \in 1..g
        BY <1>1, <3>1, <3>2, <3>4
      <4> QED
        BY <1>1, <1>4, <3>1, <3>4, <4>1
    <3> QED
      BY <1>1, <3>1, <3>2, <3>3, <3>4
  <2> QED
    BY <2>1, <2>2
<1> QED
  BY <1>10, <1>11

LEMMA LimiterInvHolds == Spec => [](LimiterInv /\ GrantsAreSpaced)
<1> DEFINE IInv == LimiterInv /\ GrantsAreSpaced
<1>1. Init => IInv
  <2> SUFFICES ASSUME Init PROVE IInv
    OBVIOUS
  <2>1. \A ip \in Ips : hits[ip] = <<>> /\ granted[ip] = <<>> /\ Dropped(ip) = 0
    BY DEF Init, Dropped
  <2> QED
    BY <2>1, PlaygroundAssumption DEF LimiterInv, GrantsAreSpaced
<1>2. TypeOK /\ TypeOK' /\ IInv /\ [Next]_vars => IInv'
  <2> SUFFICES ASSUME TypeOK, TypeOK', IInv, [Next]_vars PROVE IInv'
    OBVIOUS
  <2>1. CASE Tick
    <3>1. /\ clock' = clock + 1 /\ clock \in Nat
          /\ hits' = hits /\ granted' = granted
      BY <2>1 DEF Tick, limiter, TypeOK, Times
    <3>2. GrantsAreSpaced'
      BY <3>1 DEF GrantsAreSpaced
    <3>3. ASSUME NEW ip \in Ips
          PROVE  /\ Dropped(ip)' = Dropped(ip)
                 /\ \A i \in 1..Dropped(ip) : clock' - granted[ip][i] > Window
      <4>1. Dropped(ip)' = Dropped(ip)
        BY <3>1 DEF Dropped
      <4>2. ASSUME NEW i \in 1..Dropped(ip)
            PROVE  clock' - granted[ip][i] > Window
        <5>1. granted[ip] \in Seq(Times) /\ hits[ip] \in Seq(Times)
          BY DEF TypeOK
        <5>2. i \in 1..Len(granted[ip])
          BY <5>1 DEF Dropped
        <5>3. granted[ip][i] \in Times
          BY <5>1, <5>2
        <5>4. clock - granted[ip][i] > Window
          BY DEF LimiterInv
        <5> QED
          BY <3>1, <5>3, <5>4, PlaygroundAssumption DEF Times
      <4> QED
        BY <4>1, <4>2
    <3>4. LimiterInv'
      BY <3>1, <3>3 DEF LimiterInv
    <3> QED
      BY <3>2, <3>4
  <2>2. ASSUME NEW r \in Requests, RejectLimited(r) PROVE IInv'
    <3>1. IpOf[r] \in Ips /\ clock' = clock /\ granted' = granted
      BY <2>2, PlaygroundAssumption DEF RejectLimited
    <3>2. PICK k \in 0..Len(hits[IpOf[r]]) :
            /\ Expired(IpOf[r], k)
            /\ hits' = [hits EXCEPT ![IpOf[r]] = Recent(IpOf[r], k)]
      BY <2>2 DEF RejectLimited
    <3> QED
      BY <3>1, <3>2, LimiterSteps
  <2>3. ASSUME NEW r \in Requests, Grant(r) PROVE IInv'
    <3>1. /\ IpOf[r] \in Ips /\ clock' = clock
          /\ granted' = [granted EXCEPT ![IpOf[r]] = Append(@, clock)]
      BY <2>3, PlaygroundAssumption DEF Grant
    <3>2. PICK k \in 0..Len(hits[IpOf[r]]) :
            /\ Expired(IpOf[r], k) /\ Len(hits[IpOf[r]]) - k < RateLimit
            /\ hits' = [hits EXCEPT ![IpOf[r]] = Append(Recent(IpOf[r], k), clock)]
      BY <2>3 DEF Grant
    <3> QED
      BY <3>1, <3>2, LimiterSteps
  <2>4. CASE UNCHANGED <<clock, limiter>>
    <3>1. clock' = clock /\ hits' = hits /\ granted' = granted
      BY <2>4 DEF limiter
    <3> QED
      BY <3>1 DEF LimiterInv, GrantsAreSpaced, Dropped
  <2>5. ASSUME NEW r \in Requests,
               RejectUnknownTask(r) \/ Progress(r)
        PROVE  UNCHANGED <<clock, limiter>>
    BY <2>5 DEF RejectUnknownTask, Progress, TurnstileAccepts, TurnstileRefuses,
                StartSolve, SolveReturns, SolveRaises, Charge, GradeEnds
  <2>6. CASE UNCHANGED vars
    BY <2>4, <2>6 DEF vars
  <2> QED
    BY <2>1, <2>2, <2>3, <2>4, <2>5, <2>6 DEF Next, Arrive
<1> QED
  BY <1>1, <1>2, TypeCorrect, PTL DEF Spec

\* A sliding window: no RateLimit + 1 grants of one address within it.
THEOREM GrantSpacing == Spec => []GrantsAreSpaced
<1> QED
  BY LimiterInvHolds, PTL

\* The grants of an address are in the order of their times, all in the past.
GrantsAreOrdered ==
  \A ip \in Ips :
    /\ \A i \in DOMAIN granted[ip] : granted[ip][i] <= clock
    /\ \A i, j \in DOMAIN granted[ip] : i <= j => granted[ip][i] <= granted[ip][j]

LEMMA GrantsStayOrdered == Spec => []GrantsAreOrdered
<1>1. Init => GrantsAreOrdered
  BY DEF Init, GrantsAreOrdered
<1>2. TypeOK /\ TypeOK' /\ GrantsAreOrdered /\ [Next]_vars => GrantsAreOrdered'
  <2> SUFFICES ASSUME TypeOK, TypeOK', GrantsAreOrdered, [Next]_vars PROVE GrantsAreOrdered'
    OBVIOUS
  <2>1. clock \in Nat /\ \A ip \in Ips : granted[ip] \in Seq(Times)
    BY PlaygroundAssumption DEF TypeOK, Times
  <2>2. \A ip \in Ips : \A i \in DOMAIN granted[ip] : granted[ip][i] \in Int
    BY <2>1, PlaygroundAssumption DEF Times
  <2>3. CASE Tick
    <3>1. clock' = clock + 1 /\ granted' = granted
      BY <2>3 DEF Tick, limiter
    <3>2. \A ip \in Ips : \A i \in DOMAIN granted[ip] : granted[ip][i] <= clock + 1
      BY <2>1, <2>2 DEF GrantsAreOrdered
    <3> QED
      BY <3>1, <3>2 DEF GrantsAreOrdered
  <2>4. ASSUME NEW r \in Requests, Grant(r) PROVE GrantsAreOrdered'
    <3> DEFINE a == IpOf[r]
               n == Len(granted[a])
    <3>1. a \in Ips /\ clock' = clock /\ granted' = [granted EXCEPT ![a] = Append(@, clock)]
      BY <2>4, PlaygroundAssumption DEF Grant
    <3>2. granted \in [Ips -> Seq(Times)]
      BY DEF TypeOK
    <3> HIDE DEF a
    <3>3. /\ \A ip \in Ips \ {a} : granted'[ip] = granted[ip]
          /\ granted'[a] = Append(granted[a], clock)
      BY <3>1, <3>2
    <3>4. n \in Nat /\ DOMAIN granted[a] = 1..n
      BY <2>1, <3>1
    <3>5. /\ DOMAIN granted'[a] = 1..(n + 1) /\ granted'[a][n + 1] = clock
          /\ \A i \in 1..n : granted'[a][i] = granted[a][i]
      BY <2>1, <3>1, <3>3, <3>4
    <3>6. /\ \A i \in 1..n : granted[a][i] <= clock
          /\ \A i, j \in 1..n : i <= j => granted[a][i] <= granted[a][j]
      BY <3>1, <3>4 DEF GrantsAreOrdered
    <3> HIDE DEF n
    <3>7. \A i \in 1..(n + 1) : i \in 1..n \/ i = n + 1
      BY <3>4
    <3>8. /\ \A i \in 1..(n + 1) : granted'[a][i] <= clock
          /\ \A i, j \in 1..(n + 1) : i <= j => granted'[a][i] <= granted'[a][j]
      <4>1. \A i, j \in 1..(n + 1) : i <= j => (i \in 1..n /\ j \in 1..n)
              \/ (i \in 1..n /\ j = n + 1) \/ (i = n + 1 /\ j = n + 1)
        BY <3>4
      <4> QED
        BY <2>1, <3>5, <3>6, <3>7, <4>1
    <3> SUFFICES ASSUME NEW ip \in Ips
                 PROVE  /\ \A i \in DOMAIN granted'[ip] : granted'[ip][i] <= clock'
                        /\ \A i, j \in DOMAIN granted'[ip] :
                             i <= j => granted'[ip][i] <= granted'[ip][j]
      BY DEF GrantsAreOrdered
    <3>9. CASE ip = a
      BY <3>1, <3>5, <3>8, <3>9
    <3>10. CASE ip # a
      <4>1. granted'[ip] = granted[ip]
        BY <3>3, <3>10
      <4> QED
        BY <3>1, <4>1 DEF GrantsAreOrdered
    <3> QED
      BY <3>9, <3>10
  <2>5. CASE UNCHANGED <<clock, granted>>
    BY <2>5 DEF GrantsAreOrdered
  <2>6. ASSUME NEW r \in Requests,
               RejectUnknownTask(r) \/ RejectLimited(r) \/ Progress(r)
        PROVE  UNCHANGED <<clock, granted>>
    BY <2>6 DEF RejectUnknownTask, RejectLimited, Progress, TurnstileAccepts, TurnstileRefuses,
                StartSolve, SolveReturns, SolveRaises, Charge, GradeEnds, limiter
  <2>7. CASE UNCHANGED vars
    BY <2>5, <2>7 DEF vars, limiter
  <2> QED
    BY <2>3, <2>4, <2>5, <2>6, <2>7 DEF Next, Arrive
<1> QED
  BY <1>1, <1>2, TypeCorrect, PTL DEF Spec

\* What the limiter still holds of a refused address was let through within the window.
LEMMA RefusalIsDue ==
  ASSUME TypeOK, LimiterInv, GrantsAreOrdered, NEW r \in Requests, RejectLimited(r)
  PROVE  Cardinality({i \in DOMAIN granted[IpOf[r]] :
                        clock - granted[IpOf[r]][i] <= Window}) >= RateLimit
<1> DEFINE a == IpOf[r]
           g == Len(granted[a])
           n == Len(hits[a])
           within == {i \in DOMAIN granted[a] : clock - granted[a][i] <= Window}
<1>1. a \in Ips /\ RateLimit \in Nat /\ Window \in Nat /\ clock \in Nat
  BY PlaygroundAssumption DEF TypeOK, Times
<1>2. PICK k \in 0..n : Expired(a, k) /\ n - k >= RateLimit
  BY DEF RejectLimited
<1> DEFINE out == Dropped(a) + k
<1>3. /\ g \in Nat /\ n \in Nat /\ Dropped(a) \in Nat
      /\ \A j \in 1..(n - k) : hits[a][k + j] = granted[a][Dropped(a) + k + j]
  BY <1>1, <1>2, DropExpired
<1>4. Dropped(a) = g - n
  BY DEF Dropped
<1>5. granted[a] \in Seq(Times) /\ DOMAIN granted[a] = 1..g
      /\ \A i \in 1..g : granted[a][i] \in Int
  <2>1. granted[a] \in Seq(Times)
    BY <1>1 DEF TypeOK
  <2> QED
    BY <2>1, PlaygroundAssumption DEF Times
<1>6. \A i, j \in 1..g : i <= j => granted[a][i] <= granted[a][j]
  BY <1>1, <1>5 DEF GrantsAreOrdered
<1>7. k < n => clock - hits[a][k + 1] <= Window
  BY <1>2 DEF Expired
<1> HIDE DEF a
<1>8. out \in Nat /\ out + (n - k) = g /\ k \in Nat /\ k <= n
  BY <1>2, <1>3, <1>4
<1>9. IsFiniteSet(within)
  <2>1. IsFiniteSet(1..g)
    <3> HIDE DEF g
    <3>1. 1 \in Int /\ g \in Int
      BY <1>3
    <3> QED
      BY <3>1, FS_Interval, Zenon
  <2> QED
    BY <1>5, <2>1, FS_Subset
<1>10. (out + 1)..g \subseteq within
  <2> SUFFICES ASSUME NEW i \in (out + 1)..g PROVE i \in within
    OBVIOUS
  <2>1. k < n /\ out + 1 \in 1..g /\ i \in 1..g /\ out + 1 <= i
    BY <1>3, <1>8
  <2>2. hits[a][k + 1] = granted[a][out + 1]
    <3>1. 1 \in 1..(n - k)
      BY <1>3, <1>8, <2>1
    <3> QED
      BY <1>3, <3>1
  <2>3. granted[a][out + 1] <= granted[a][i]
    BY <1>6, <2>1
  <2>4. clock - granted[a][out + 1] <= Window
    BY <1>7, <2>1, <2>2
  <2>5. granted[a][out + 1] \in Int /\ granted[a][i] \in Int
    BY <1>5, <2>1
  <2> HIDE DEF out
  <2>6. clock - granted[a][i] <= Window
    BY <1>1, <2>3, <2>4, <2>5
  <2> QED
    BY <1>5, <2>1, <2>6
<1>11. Cardinality((out + 1)..g) = n - k
  <2>1. out + 1 \in Int /\ g \in Int
    BY <1>3, <1>8
  <2>2. Cardinality((out + 1)..g) = IF out + 1 > g THEN 0 ELSE g - (out + 1) + 1
    BY <2>1, FS_Interval
  <2> HIDE DEF out, g, n
  <2> QED
    BY <1>3, <1>8, <2>2
<1>12. Cardinality((out + 1)..g) <= Cardinality(within)
  BY <1>9, <1>10, FS_Subset
<1>13. Cardinality(within) \in Nat
  BY <1>9, FS_CardinalityType
<1> HIDE DEF within, out, g, n
<1>14. Cardinality(within) >= RateLimit
  BY <1>1, <1>2, <1>3, <1>8, <1>11, <1>12, <1>13
<1> QED
  BY <1>14 DEF within, a

\* A client is refused only when it is due.
THEOREM RefusedWhenDue == Spec => RefusalsAreDue
<1> DEFINE Due(r) == Cardinality({i \in DOMAIN granted[IpOf[r]] :
                                    clock - granted[IpOf[r]][i] <= Window}) >= RateLimit
<1>1. TypeOK /\ LimiterInv /\ GrantsAreOrdered /\ [Next]_vars
        => [\A r \in Requests : answer'[r] = 429 /\ answer[r] = 0 => Due(r)]_vars
  <2> SUFFICES ASSUME TypeOK, LimiterInv, GrantsAreOrdered, Next,
                      NEW r \in Requests, answer'[r] = 429, answer[r] = 0
               PROVE  Due(r)
    OBVIOUS
  <2>1. answer \in [Requests -> {0, 200, 400, 403, 429, 500, 503}]
    BY DEF TypeOK
  <2>2. ASSUME NEW q \in Requests, NEW code, Respond(q, code)
        PROVE  q = r /\ code = 429
    BY <2>1, <2>2 DEF Respond
  <2>3. ASSUME NEW q \in Requests, CheckBudget(q) PROVE FALSE
    <3>1. ~ Respond(q, 503)
      BY <2>2
    <3> QED
      BY <2>1, <2>3, <3>1 DEF CheckBudget, Goto
  <2>4. ASSUME UNCHANGED answer PROVE FALSE
    BY <2>4
  <2>5. PICK q \in Requests : Arrive(q) \/ Progress(q)
    BY <2>4 DEF Next, Tick
  <2>6. ~ RejectUnknownTask(q)
    BY <2>2 DEF RejectUnknownTask
  <2>7. ~ Grant(q)
    BY <2>3, <2>4 DEF Grant, Goto
  <2>8. ~ Progress(q)
    <3>1. ~ TurnstileAccepts(q)
      BY <2>3 DEF TurnstileAccepts
    <3>2. ~ TurnstileRefuses(q)
      BY <2>2 DEF TurnstileRefuses
    <3>3. ~ StartSolve(q) /\ ~ SolveReturns(q) /\ ~ Charge(q)
      BY <2>4 DEF StartSolve, SolveReturns, Charge, Goto
    <3>4. ~ SolveRaises(q) /\ ~ GradeEnds(q)
      BY <2>2 DEF SolveRaises, GradeEnds
    <3> QED
      BY <3>1, <3>2, <3>3, <3>4 DEF Progress
  <2>9. RejectLimited(q)
    BY <2>5, <2>6, <2>7, <2>8 DEF Arrive
  <2>10. q = r
    BY <2>2, <2>9 DEF RejectLimited
  <2> QED
    BY <2>9, <2>10, RefusalIsDue
<1> QED
  BY <1>1, TypeCorrect, LimiterInvHolds, GrantsStayOrdered, PTL DEF Spec, RefusalsAreDue

-----------------------------------------------------------------------------
\* A day on which solves were admitted had room when the last one was: what is
\* charged to the day, and what its solves under way may yet spend, fit.
InFlight(d) == {r \in UnderWay : admittedOn[r] = d}

Room(d) ==
  \/ charged[d] = 0 /\ InFlight(d) = {}
  \/ charged[d] + MaxTokens * Cardinality(InFlight(d)) < DailyBudget + MaxTokens * peak

BudgetInv ==
  /\ day <= Today
  /\ charged[day] <= tokensToday
  /\ \A d \in Days : d > day => charged[d] = 0 /\ InFlight(d) = {}
  /\ Cardinality(UnderWay) <= peak
  /\ \A d \in Days : Room(d)

LEMMA InFlightIsFinite ==
  \A d : /\ IsFiniteSet(InFlight(d)) /\ Cardinality(InFlight(d)) \in Nat
         /\ Cardinality(InFlight(d)) <= Cardinality(UnderWay)
<1>1. \A d : InFlight(d) \subseteq UnderWay
  BY DEF InFlight
<1> QED
  BY <1>1, UnderWayIsFinite, FS_Subset

\* Admitting a request: the day it is admitted on has spent less than its budget.
LEMMA AdmitKeepsBudget ==
  ASSUME TypeOK, BudgetInv, NEW r \in Requests, pc[r] \in {"new", "verifying"},
         CheckBudget(r), clock' = clock, charged' = charged
  PROVE  BudgetInv'
<1>1. /\ Today \in Days /\ Today \in Nat /\ Today' = Today /\ day' = Today
      /\ day \in Nat /\ day <= Today /\ day \in Days
  <2>1. Today \in Days /\ Today \in Nat
    BY TodayIsADay DEF TypeOK
  <2>2. Today' = Today /\ day' = Today
    BY DEF Today, DayOf, CheckBudget
  <2>3. day \in Days /\ day \in Nat /\ day <= Today
    BY DEF TypeOK, BudgetInv, Days
  <2> QED
    BY <2>1, <2>2, <2>3
<1>2. charged[Today] <= tokensToday' /\ charged[Today] \in Nat /\ tokensToday' \in Nat
  <2>1. tokensToday' = IF day = Today THEN tokensToday ELSE 0
    BY DEF CheckBudget
  <2> QED
    BY <1>1, <2>1 DEF BudgetInv, TypeOK
<1>3. r \notin UnderWay /\ pc \in [Requests -> {"new", "verifying", "queued",
                                   "solving", "solved", "grading", "done"}]
  BY DEF UnderWay, TypeOK
<1>4. CASE tokensToday' >= DailyBudget
  <2>1. /\ pc' = [pc EXCEPT ![r] = "done"] /\ admittedOn' = admittedOn
        /\ peak' = peak
    BY <1>4 DEF CheckBudget, BudgetSpent, Respond
  <2>2. UnderWay' = UnderWay
    BY <1>3, <2>1 DEF UnderWay
  <2>3. \A d : InFlight(d)' = InFlight(d)
    BY <2>1, <2>2 DEF InFlight
  <2>4. \A d \in Days : d > Today => d > day
    BY <1>1 DEF Days
  <2> QED
    BY <1>1, <1>2, <2>1, <2>2, <2>3, <2>4 DEF BudgetInv, Room
<1>5. CASE ~(tokensToday' >= DailyBudget)
  <2>1. /\ pc' = [pc EXCEPT ![r] = "queued"]
        /\ admittedOn' = [admittedOn EXCEPT ![r] = Today]
        /\ peak' = IF Cardinality(UnderWay) + 1 > peak
                     THEN Cardinality(UnderWay) + 1 ELSE peak
    BY <1>5 DEF CheckBudget, BudgetSpent, Goto
  <2>2. UnderWay' = UnderWay \union {r}
    BY <1>3, <2>1 DEF UnderWay
  <2>3. /\ Cardinality(UnderWay') = Cardinality(UnderWay) + 1
        /\ IsFiniteSet(UnderWay') /\ Cardinality(UnderWay') \in Nat
        /\ peak \in Nat /\ peak' \in Nat /\ peak <= peak'
        /\ Cardinality(UnderWay') <= peak'
    <3>1. /\ Cardinality(UnderWay') = Cardinality(UnderWay) + 1
          /\ IsFiniteSet(UnderWay')
      BY <1>3, <2>2, UnderWayIsFinite, FS_AddElement
    <3>2. Cardinality(UnderWay) \in Nat /\ peak \in Nat
      BY UnderWayIsFinite DEF TypeOK
    <3> QED
      BY <2>1, <3>1, <3>2
  <2>4. admittedOn \in [Requests -> Days]
    BY DEF TypeOK
  <2>5. \A d \in Days : d # Today => InFlight(d)' = InFlight(d)
    BY <1>3, <2>1, <2>2, <2>4 DEF InFlight, UnderWay
  <2>6. Room(Today)'
    <3>1. InFlight(Today)' \subseteq UnderWay'
      BY <1>1 DEF InFlight
    <3>2. /\ Cardinality(InFlight(Today)') \in Nat
          /\ Cardinality(InFlight(Today)') <= peak'
      <4>1. /\ IsFiniteSet(InFlight(Today)')
            /\ Cardinality(InFlight(Today)') <= Cardinality(UnderWay')
        BY <2>3, <3>1, FS_Subset
      <4> QED
        BY <2>3, <4>1, FS_CardinalityType
    <3>3. /\ MaxTokens * Cardinality(InFlight(Today)') <= MaxTokens * peak'
          /\ MaxTokens * Cardinality(InFlight(Today)') \in Nat
          /\ MaxTokens * peak' \in Nat
      BY <2>3, <3>2, MultiplyMonotone, MultiplySucc, PlaygroundAssumption
    <3>4. charged[Today] < DailyBudget /\ DailyBudget \in Nat
      BY <1>2, <1>5, PlaygroundAssumption
    <3>5. charged'[Today] + MaxTokens * Cardinality(InFlight(Today)')
            < DailyBudget + MaxTokens * peak'
      BY <1>2, <3>3, <3>4
    <3> QED
      BY <1>1, <3>5 DEF Room
  <2>7. ASSUME NEW d \in Days, d # Today PROVE Room(d)'
    <3>1. Room(d) /\ charged[d] \in Nat
      BY DEF BudgetInv, TypeOK
    <3>2. /\ MaxTokens * peak <= MaxTokens * peak' /\ MaxTokens * peak \in Nat
          /\ MaxTokens * peak' \in Nat /\ DailyBudget \in Nat
          /\ MaxTokens * Cardinality(InFlight(d)) \in Nat
      BY <2>3, InFlightIsFinite, MultiplyMonotone, MultiplySucc, PlaygroundAssumption
    <3> QED
      BY <2>5, <2>7, <3>1, <3>2 DEF Room
  <2>8. \A d \in Days : d > Today => d > day /\ d # Today
    BY <1>1 DEF Days
  <2>9. /\ day' <= Today' /\ charged'[day'] <= tokensToday'
        /\ \A d \in Days : d > day' => charged'[d] = 0 /\ InFlight(d)' = {}
    BY <1>1, <1>2, <2>5, <2>8 DEF BudgetInv
  <2>10. \A d \in Days : Room(d)'
    BY <2>6, <2>7, <1>1
  <2> QED
    BY <2>3, <2>9, <2>10 DEF BudgetInv
<1> QED
  BY <1>4, <1>5

\* A request whose solve is over leaves those under way; what it spent was
\* counted among what they may spend.
LEMMA LeaveKeepsBudget ==
  ASSUME TypeOK, BudgetInv, NEW r \in UnderWay, NEW n \in 0..MaxTokens,
         UnderWay' = UnderWay \ {r}, UNCHANGED <<clock, day, admittedOn, peak>>,
         tokensToday' = tokensToday + n,
         charged' = [charged EXCEPT ![admittedOn[r]] = @ + n]
  PROVE  BudgetInv'
<1> DEFINE a == admittedOn[r]
<1>1. /\ a \in Days /\ r \in InFlight(a) /\ n \in Nat /\ n <= MaxTokens
      /\ Today' = Today /\ peak \in Nat /\ day \in Days /\ tokensToday \in Nat
      /\ MaxTokens \in Nat /\ DailyBudget \in Nat
  BY PlaygroundAssumption DEF TypeOK, UnderWay, InFlight, Today, DayOf
<1>2. charged \in [Days -> Nat]
  BY DEF TypeOK
<1>3. Cardinality(UnderWay') <= peak'
  <2>1. Cardinality(UnderWay') \in Nat /\ Cardinality(UnderWay') <= Cardinality(UnderWay)
    BY UnderWayIsFinite, FS_Subset
  <2> QED
    BY <1>1, <2>1, UnderWayIsFinite DEF BudgetInv
<1>4. /\ InFlight(a)' = InFlight(a) \ {r}
      /\ \A d \in Days : d # a => InFlight(d)' = InFlight(d)
  BY DEF InFlight
<1>5. /\ Cardinality(InFlight(a)') \in Nat
      /\ Cardinality(InFlight(a)) = Cardinality(InFlight(a)') + 1
  <2>1. /\ IsFiniteSet(InFlight(a)')
        /\ Cardinality(InFlight(a)') = Cardinality(InFlight(a)) - 1
    BY <1>1, <1>4, InFlightIsFinite, FS_RemoveElement
  <2> QED
    BY <2>1, InFlightIsFinite, FS_CardinalityType
<1>6. Room(a)'
  <2>1. charged[a] + MaxTokens * Cardinality(InFlight(a)) < DailyBudget + MaxTokens * peak
    BY <1>1 DEF BudgetInv, Room
  <2>2. /\ MaxTokens * Cardinality(InFlight(a))
             = MaxTokens * Cardinality(InFlight(a)') + MaxTokens
        /\ MaxTokens * Cardinality(InFlight(a)') \in Nat
        /\ MaxTokens * peak \in Nat
    BY <1>1, <1>5, MultiplySucc
  <2>3. charged'[a] = charged[a] + n /\ charged[a] \in Nat
    BY <1>1, <1>2
  <2> HIDE DEF a
  <2>4. charged'[a] + MaxTokens * Cardinality(InFlight(a)') < DailyBudget + MaxTokens * peak
    BY <1>1, <2>1, <2>2, <2>3
  <2> QED
    BY <2>4 DEF Room, a
<1>7. ASSUME NEW d \in Days, d # a
      PROVE  charged'[d] = charged[d] /\ InFlight(d)' = InFlight(d) /\ Room(d)'
  <2>1. charged'[d] = charged[d] /\ InFlight(d)' = InFlight(d)
    BY <1>2, <1>4, <1>7
  <2> QED
    BY <2>1 DEF BudgetInv, Room
<1>8. ~(a > day)
  BY <1>1 DEF BudgetInv
<1>9. charged'[day'] <= tokensToday'
  <2>1. charged[day] <= tokensToday /\ charged[day] \in Nat
    BY <1>1, <1>2 DEF BudgetInv
  <2>2. CASE day = a
    BY <1>1, <1>2, <2>1, <2>2
  <2>3. CASE day # a
    BY <1>1, <1>7, <2>1, <2>3
  <2> QED
    BY <2>2, <2>3
<1>10. \A d \in Days : d > day' => charged'[d] = 0 /\ InFlight(d)' = {}
  BY <1>7, <1>8 DEF BudgetInv
<1>11. \A d \in Days : Room(d)'
  BY <1>6, <1>7
<1>12. day' <= Today'
  BY <1>1 DEF BudgetInv
<1> QED
  BY <1>3, <1>9, <1>10, <1>11, <1>12 DEF BudgetInv

\* A day overspends by less than the solves under way at once can spend.
THEOREM DailySpend == Spec => []DailySpendIsBounded
<1>1. Init => BudgetInv
  <2> SUFFICES ASSUME Init PROVE BudgetInv
    OBVIOUS
  <2>1. UnderWay = {} /\ \A d : InFlight(d) = {}
    BY DEF Init, UnderWay, InFlight
  <2>2. 0 \in Days /\ Today = 0 /\ \A d \in Days : charged[d] = 0
    BY PlaygroundAssumption, DivisionMonotone DEF Init, Today, DayOf, Days
  <2>3. Cardinality(UnderWay) = 0
    BY <2>1, FS_EmptySet
  <2> QED
    BY <2>1, <2>2, <2>3 DEF Init, BudgetInv, Room
<1>2. TypeOK /\ BudgetInv /\ [Next]_vars => BudgetInv'
  <2> SUFFICES ASSUME TypeOK, BudgetInv, [Next]_vars PROVE BudgetInv'
    OBVIOUS
  <2>1. /\ UnderWay' = UnderWay
        /\ UNCHANGED <<day, tokensToday, admittedOn, peak, charged>>
        /\ clock' \in {clock, clock + 1}
        => BudgetInv'
    <3> HAVE /\ UnderWay' = UnderWay
             /\ UNCHANGED <<day, tokensToday, admittedOn, peak, charged>>
             /\ clock' \in {clock, clock + 1}
    <3>1. \A d : InFlight(d)' = InFlight(d)
      BY DEF InFlight
    <3>2. day <= Today'
      <4>1. clock \in Nat /\ clock' \in Nat /\ clock <= clock'
        BY DEF TypeOK, Times
      <4>2. Today <= Today' /\ Today \in Nat /\ Today' \in Nat
        BY <4>1, DaysPass DEF Today
      <4>3. day \in Nat /\ day <= Today
        BY DEF TypeOK, Days, BudgetInv
      <4> QED
        BY <4>2, <4>3
    <3> QED
      BY <3>1, <3>2 DEF BudgetInv, Room
  <2>2. CASE Tick
    <3>1. UnderWay' = UnderWay
      BY <2>2 DEF Tick, UnderWay
    <3> QED
      BY <2>1, <2>2, <3>1 DEF Tick, TypeOK, Times, budget
  <2>3. ASSUME NEW r \in Requests,
               \/ RejectUnknownTask(r) \/ RejectLimited(r) \/ TurnstileRefuses(r)
               \/ StartSolve(r) \/ SolveReturns(r) \/ GradeEnds(r)
        PROVE  BudgetInv'
    <3>1. UnderWay' = UnderWay
      BY <2>3 DEF RejectUnknownTask, RejectLimited, TurnstileRefuses, StartSolve,
                  SolveReturns, GradeEnds, Runs, Goto, Respond, UnderWay, TypeOK
    <3>2. clock' = clock /\ UNCHANGED <<day, tokensToday, admittedOn, peak, charged>>
      BY <2>3 DEF RejectUnknownTask, RejectLimited, TurnstileRefuses, StartSolve,
                  SolveReturns, GradeEnds, budget
    <3> QED
      BY <2>1, <3>1, <3>2
  <2>4. ASSUME NEW r \in Requests, Grant(r) PROVE BudgetInv'
    <3>1. pc[r] = "new" /\ clock' = clock /\ charged' = charged
      BY <2>4 DEF Grant, Runs
    <3>2. CASE RequireTurnstile
      <4>1. /\ pc' = [pc EXCEPT ![r] = "verifying"]
            /\ UNCHANGED <<day, tokensToday, admittedOn, peak>>
        BY <2>4, <3>2 DEF Grant, Goto, budget
      <4>2. UnderWay' = UnderWay
        BY <3>1, <4>1 DEF UnderWay, TypeOK
      <4> QED
        BY <2>1, <3>1, <4>1, <4>2
    <3>3. CASE ~RequireTurnstile
      BY <2>4, <3>1, <3>3, AdmitKeepsBudget DEF Grant
    <3> QED
      BY <3>2, <3>3
  <2>5. ASSUME NEW r \in Requests, TurnstileAccepts(r) PROVE BudgetInv'
    BY <2>5, AdmitKeepsBudget DEF TurnstileAccepts, Runs
  <2>6. ASSUME NEW r \in Requests, SolveRaises(r) PROVE BudgetInv'
    <3>1. /\ r \in UnderWay /\ UnderWay' = UnderWay \ {r}
          /\ UNCHANGED <<clock, budget, charged>>
      BY <2>6 DEF SolveRaises, Runs, Respond, UnderWay, TypeOK
    <3>2. /\ tokensToday' = tokensToday + 0 /\ 0 \in 0..MaxTokens
          /\ charged' = [charged EXCEPT ![admittedOn[r]] = @ + 0]
      BY <2>6, <3>1, PlaygroundAssumption DEF budget, TypeOK
    <3> QED
      BY <3>1, <3>2, LeaveKeepsBudget DEF budget
  <2>7. ASSUME NEW r \in Requests, Charge(r) PROVE BudgetInv'
    <3>1. r \in UnderWay /\ UnderWay' = UnderWay \ {r} /\ spent[r] \in 0..MaxTokens
      BY <2>7 DEF Charge, Runs, Goto, UnderWay, TypeOK
    <3> QED
      BY <2>7, <3>1, LeaveKeepsBudget DEF Charge
  <2>8. CASE UNCHANGED vars
    <3>1. UnderWay' = UnderWay
      BY <2>8 DEF vars, UnderWay
    <3>2. clock' = clock /\ UNCHANGED <<day, tokensToday, admittedOn, peak, charged>>
      BY <2>8 DEF vars, budget
    <3> QED
      BY <2>1, <3>1, <3>2
  <2> QED
    BY <2>2, <2>3, <2>4, <2>5, <2>6, <2>7, <2>8 DEF Next, Arrive, Progress
<1>3. TypeOK /\ BudgetInv => DailySpendIsBounded
  <2> SUFFICES ASSUME TypeOK, BudgetInv, NEW d \in Days, charged[d] > 0
               PROVE  charged[d] < DailyBudget + MaxTokens * peak
    BY DEF DailySpendIsBounded
  <2>1. /\ charged[d] \in Nat /\ MaxTokens * Cardinality(InFlight(d)) \in Nat
        /\ MaxTokens * peak \in Nat /\ DailyBudget \in Nat
    BY InFlightIsFinite, MultiplySucc, PlaygroundAssumption DEF TypeOK
  <2>2. charged[d] + MaxTokens * Cardinality(InFlight(d)) < DailyBudget + MaxTokens * peak
    BY <2>1 DEF BudgetInv, Room
  <2> QED
    BY <2>1, <2>2
<1> QED
  BY <1>1, <1>2, <1>3, TypeCorrect, PTL DEF Spec
=============================================================================
