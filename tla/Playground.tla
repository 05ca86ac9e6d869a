----------------------------- MODULE Playground -----------------------------
(***************************************************************************)
(* playground_api/app.py: POST /api/solve, from many clients, on one event *)
(* loop.  A handler runs from one await to the next without another        *)
(* handler's step in between; solve() runs in a worker thread meanwhile,   *)
(* grade() on the loop itself.  Requests interleave at the awaits, and the *)
(* clock advances at any time.                                             *)
(*                                                                         *)
(* A request is known by whether its task_id is in the allowlist and by    *)
(* its client's address; a solve by the tokens it spent.                   *)
(* A definition marked FAULT is no part of the model: it is a plausible    *)
(* defect in place of the definition after it, which a property must find. *)
(***************************************************************************)
EXTENDS Integers, Sequences, FiniteSets

CONSTANTS
  Requests,          \* the requests clients send
  Ips,               \* the clients' addresses
  IpOf,              \* _client_ip() of each request
  Known,             \* the requests whose task_id is in the allowlist
  RequireTurnstile,  \* app.state.require_turnstile
  RateLimit,         \* app.state.rate_limit
  Window,            \* the 3600 of _rate_ok
  DayLength,         \* a day
  DailyBudget,       \* app.state.daily_budget
  MaxTokens,         \* the most tokens one solve() spends
  Workers,           \* the threads run_in_threadpool may use at once
  MaxTime,           \* bound: the last instant
  Free               \* no request: the loop is free

ASSUME PlaygroundAssumption ==
  /\ IsFiniteSet(Requests)
  /\ IpOf \in [Requests -> Ips] /\ Known \subseteq Requests
  /\ RequireTurnstile \in BOOLEAN
  /\ RateLimit \in Nat /\ Window \in Nat /\ DayLength \in Nat \ {0}
  /\ DailyBudget \in Nat /\ MaxTokens \in Nat /\ Workers \in Nat \ {0}
  /\ MaxTime \in Nat /\ Free \notin Requests

VARIABLES
  clock,        \* time.time() and datetime.now(), which agree
  hits,         \* app.state.hits: each address's recent requests' times
  day,          \* app.state.day
  tokensToday,  \* app.state.tokens_today
  pc,           \* where each request's handler is
  answer,       \* the status each request was answered with, 0 before
  spent,        \* what solve() returned for each request
  loop,         \* the request whose grade() occupies the event loop, or Free
  granted,      \* history: the times each address was let through the limiter
  admittedOn,   \* history: the day each request passed the budget check
  charged,      \* history: what the solves admitted on each day have spent
  peak          \* history: the most solves that were under way at once

limiter == <<hits, granted>>
budget == <<day, tokensToday, admittedOn, peak>>
vars == <<clock, limiter, budget, pc, answer, spent, loop, charged>>

Times == 0..MaxTime
DayOf(t) == t \div DayLength
Days == 0..DayOf(MaxTime)
Today == DayOf(clock)
UnderWay == {r \in Requests : pc[r] \in {"queued", "solving", "solved"}}

Init ==
  /\ clock = 0 /\ day = 0 /\ tokensToday = 0 /\ loop = Free /\ peak = 0
  /\ hits = [i \in Ips |-> <<>>] /\ granted = [i \in Ips |-> <<>>]
  /\ pc = [r \in Requests |-> "new"] /\ answer = [r \in Requests |-> 0]
  /\ spent = [r \in Requests |-> 0]
  /\ admittedOn = [r \in Requests |-> 0] /\ charged = [d \in Days |-> 0]

-----------------------------------------------------------------------------
Tick ==
  /\ clock < MaxTime
  /\ clock' = clock + 1
  /\ UNCHANGED <<limiter, budget, pc, answer, spent, loop, charged>>

Goto(r, label) == pc' = [pc EXCEPT ![r] = label] /\ UNCHANGED answer
Respond(r, code) ==
  pc' = [pc EXCEPT ![r] = "done"] /\ answer' = [answer EXCEPT ![r] = code]

\* The handler's next step can run: it is at label and the loop is free.
Runs(r, label) == pc[r] = label /\ loop = Free

\* FAULT: the budget must be exceeded, and not only spent.
BudgetExceeded == tokensToday' > DailyBudget

\* The day's tokens are spent.
BudgetSpent == tokensToday' >= DailyBudget

\* _roll_day(), then the fail-closed check, then the task is handed to a worker.
CheckBudget(r) ==
  /\ day' = Today
  /\ tokensToday' = IF day = Today THEN tokensToday ELSE 0
  /\ IF BudgetSpent
       THEN Respond(r, 503) /\ UNCHANGED <<admittedOn, peak>>
       ELSE LET underWay == Cardinality(UnderWay) + 1
            IN  /\ Goto(r, "queued")
                /\ admittedOn' = [admittedOn EXCEPT ![r] = Today]
                /\ peak' = IF underWay > peak THEN underWay ELSE peak

RejectUnknownTask(r) ==
  /\ Runs(r, "new") /\ r \notin Known
  /\ Respond(r, 400)
  /\ UNCHANGED <<clock, limiter, budget, spent, loop, charged>>

\* FAULT: a hit leaves the window when it is exactly that old.
ExpiredEarly(ip, k) ==
  /\ k \in 0..Len(hits[ip])
  /\ \A i \in 1..k : clock - hits[ip][i] >= Window
  /\ k < Len(hits[ip]) => clock - hits[ip][k + 1] < Window

\* FAULT: no hit is ever dropped.
ExpiredNever(ip, k) == k = 0

\* The while loop of _rate_ok drops the k oldest hits of the address.
Expired(ip, k) ==
  /\ k \in 0..Len(hits[ip])
  /\ \A i \in 1..k : clock - hits[ip][i] > Window
  /\ k < Len(hits[ip]) => clock - hits[ip][k + 1] <= Window
Recent(ip, k) == SubSeq(hits[ip], k + 1, Len(hits[ip]))

RejectLimited(r) ==
  /\ Runs(r, "new") /\ r \in Known
  /\ \E k \in 0..Len(hits[IpOf[r]]) :
       /\ Expired(IpOf[r], k)
       /\ Len(hits[IpOf[r]]) - k >= RateLimit
       /\ hits' = [hits EXCEPT ![IpOf[r]] = Recent(IpOf[r], k)]
  /\ Respond(r, 429)
  /\ UNCHANGED <<clock, granted, budget, spent, loop, charged>>

\* The limiter lets the request through; with no Turnstile in the way its
\* handler goes on, in the same step, to the budget.
Grant(r) ==
  /\ Runs(r, "new") /\ r \in Known
  /\ \E k \in 0..Len(hits[IpOf[r]]) :
       /\ Expired(IpOf[r], k)
       /\ Len(hits[IpOf[r]]) - k < RateLimit
       /\ hits' = [hits EXCEPT ![IpOf[r]] = Append(Recent(IpOf[r], k), clock)]
  /\ granted' = [granted EXCEPT ![IpOf[r]] = Append(@, clock)]
  /\ IF RequireTurnstile THEN Goto(r, "verifying") /\ UNCHANGED budget
                         ELSE CheckBudget(r)
  /\ UNCHANGED <<clock, spent, loop, charged>>

TurnstileAccepts(r) ==
  /\ Runs(r, "verifying")
  /\ CheckBudget(r)
  /\ UNCHANGED <<clock, limiter, spent, loop, charged>>

\* siteverify says no (403), or its request or its body raises (500).
TurnstileRefuses(r) ==
  /\ Runs(r, "verifying")
  /\ \E code \in {403, 500} : Respond(r, code)
  /\ UNCHANGED <<clock, limiter, budget, spent, loop, charged>>

StartSolve(r) ==
  /\ Runs(r, "queued")
  /\ Cardinality({s \in Requests : pc[s] = "solving"}) < Workers
  /\ Goto(r, "solving")
  /\ UNCHANGED <<clock, limiter, budget, spent, loop, charged>>

\* The worker thread is done, whatever the loop is doing.
SolveReturns(r) ==
  /\ pc[r] = "solving"
  /\ \E n \in 0..MaxTokens : spent' = [spent EXCEPT ![r] = n]
  /\ Goto(r, "solved")
  /\ UNCHANGED <<clock, limiter, budget, loop, charged>>

\* solve() raises before it can return a result: no tokens, a 500.
SolveRaises(r) ==
  /\ Runs(r, "solving")
  /\ Respond(r, 500)
  /\ UNCHANGED <<clock, limiter, budget, spent, loop, charged>>

\* The await returns: the spend is added to whatever day app.state is at, and
\* grade() starts on the loop.
Charge(r) ==
  /\ Runs(r, "solved")
  /\ tokensToday' = tokensToday + spent[r]
  /\ charged' = [charged EXCEPT ![admittedOn[r]] = @ + spent[r]]
  /\ Goto(r, "grading") /\ loop' = r
  /\ UNCHANGED <<clock, limiter, day, admittedOn, peak, spent>>

\* FAULT: the loop stays blocked.
GradeEndsBlocking(r) ==
  /\ loop = r /\ pc[r] = "grading"
  /\ \E code \in {200, 500} : Respond(r, code)
  /\ UNCHANGED <<clock, limiter, budget, spent, loop, charged>>

\* grade() returns, or raises.
GradeEnds(r) ==
  /\ loop = r
  /\ loop' = Free
  /\ \E code \in {200, 500} : Respond(r, code)
  /\ UNCHANGED <<clock, limiter, budget, spent, charged>>

Arrive(r) == RejectUnknownTask(r) \/ RejectLimited(r) \/ Grant(r)
Progress(r) ==
  \/ TurnstileAccepts(r) \/ TurnstileRefuses(r)
  \/ StartSolve(r) \/ SolveReturns(r) \/ SolveRaises(r)
  \/ Charge(r) \/ GradeEnds(r)

Next == Tick \/ \E r \in Requests : Arrive(r) \/ Progress(r)

Spec == Init /\ [][Next]_vars

\* asyncio runs its ready callbacks in turn, so a handler that can run does, and
\* siteverify has a timeout.  solve() and grade() owe nothing: each waits for
\* tests, and that wait's last communicate() has no timeout (NodeRun).  Nor need
\* clients send anything.
FairSpec ==
  Spec /\ \A r \in Requests : WF_vars(pc[r] \notin {"solving", "grading"} /\ Progress(r))

-----------------------------------------------------------------------------
\* The variables' types; the loop is held by the one request being graded.
TypeOK ==
  /\ clock \in Times /\ day \in Days /\ tokensToday \in Nat /\ peak \in Nat
  /\ hits \in [Ips -> Seq(Times)] /\ granted \in [Ips -> Seq(Times)]
  /\ pc \in [Requests -> {"new", "verifying", "queued", "solving", "solved",
                          "grading", "done"}]
  /\ answer \in [Requests -> {0, 200, 400, 403, 429, 500, 503}]
  /\ spent \in [Requests -> 0..MaxTokens]
  /\ loop \in Requests \union {Free}
  /\ \A r \in Requests : pc[r] = "grading" <=> loop = r
  /\ admittedOn \in [Requests -> Days] /\ charged \in [Days -> Nat]

\* The sliding window slides: of any RateLimit + 1 requests of one address that
\* the limiter let through, the first and the last are more than the window
\* apart.  As Turnstile is asked only about those, its calls are spaced too.
GrantsAreSpaced ==
  \A ip \in Ips : \A i, j \in DOMAIN granted[ip] :
    j = i + RateLimit => granted[ip][j] - granted[ip][i] > Window

\* The limiter does not starve a client: a refusal means RateLimit requests of
\* that address were let through within the window.
RefusalsAreDue ==
  [][\A r \in Requests : answer'[r] = 429 /\ answer[r] = 0 =>
       Cardinality({i \in DOMAIN granted[IpOf[r]] :
                      clock - granted[IpOf[r]][i] <= Window}) >= RateLimit]_vars

\* What the solves admitted on one day spend, whenever they end, exceeds the
\* day's budget by less than the solves that were under way at once can spend:
\* the check precedes the spend, and every solve in between passes it.
DailySpendIsBounded ==
  \A d \in Days : charged[d] > 0 => charged[d] < DailyBudget + MaxTokens * peak

\* What solve() and grade() must grant a request that arrived: that its own solve()
\* ends, that no grade() holds the loop for ever, whoever's it is, and that the
\* solves of others do not for ever take every thread.
WaitsEnd(r) ==
  /\ []<>(pc[r] # "solving")
  /\ []<>(\A s \in Requests : pc[s] # "grading")
  /\ []<>(Cardinality({s \in Requests : pc[s] = "solving"}) < Workers)

\* Every request that arrived is answered, unless one of these waits never ends.
EveryRequestIsAnswered ==
  \A r \in Requests : WaitsEnd(r) => (pc[r] # "new" ~> pc[r] = "done")

-----------------------------------------------------------------------------
\* app.py's docstring: "once the day's tokens are spent, the endpoint returns 503
\* rather than spending more".  The code does not: a solve that passed the check
\* before the day's tokens were spent spends after.
SpentBudgetStaysSpent ==
  [][tokensToday >= DailyBudget /\ day' = day => tokensToday' = tokensToday]_vars
=============================================================================
