------------------------------- MODULE Router -------------------------------
(***************************************************************************)
(* forgejudge/llm/router.py: complete() called by several threads, each    *)
(* walking its role's chain of models with bounded retries on rate limits, *)
(* and the module-level ledger they share.                                 *)
(*                                                                         *)
(* A model is its position in the chain; a reply is the price completion_- *)
(* cost() puts on it (0 where it cannot).  The ledger's update reads and   *)
(* writes in two steps, since a thread can lose the interpreter between    *)
(* the call of _LEDGER.get and the store.                                  *)
(* A definition marked FAULT is no part of the model: it is a plausible    *)
(* defect in place of the definition after it, which a property must find. *)
(***************************************************************************)
EXTENDS Integers, Sequences, FiniteSets

CONSTANTS
  Callers,       \* the threads that call complete()
  RunIds,        \* the run_ids they pass
  RunOf,         \* the run_id of each caller
  ChainLength,   \* how many models each caller's chain has
  Resetters,     \* the callers that also call reset_run()
  MaxAttempts,   \* _MAX_RATE_LIMIT_ATTEMPTS
  BackoffBase,   \* _BACKOFF_BASE_SECONDS
  BackoffMax,    \* _BACKOFF_MAX_SECONDS
  RetryAfter,    \* the delays a Retry-After header may name, in seconds
  NoHeader,      \* no Retry-After header, or one that is no number
  MaxCost,       \* the dearest reply
  MaxCalls       \* bound: calls of complete() by each caller

ASSUME RouterAssumption ==
  /\ RunOf \in [Callers -> RunIds]
  /\ ChainLength \in [Callers -> Nat \ {0}]
  /\ Resetters \subseteq Callers
  /\ MaxAttempts \in Nat \ {0} /\ MaxCost \in Nat /\ MaxCalls \in Nat
  /\ BackoffBase \in Nat /\ BackoffMax \in Nat
  /\ RetryAfter \subseteq Int /\ NoHeader \notin RetryAfter

VARIABLES
  pc,        \* where each caller is in complete()
  model,     \* the position in the chain it has reached
  attempt,   \* the for loop's attempt at that model
  price,     \* the price of the reply it got
  seen,      \* what _LEDGER.get returned to it
  ledger,    \* _LEDGER, 0 for a run_id it does not hold
  calls,     \* calls made so far
  slept,     \* history: seconds slept in this call
  log,       \* history: this call's requests, as <<model, outcome>>
  billed     \* history: what the answered calls cost since the last reset_run

local == <<model, attempt, price, seen, calls, slept, log>>
vars == <<pc, local, ledger, billed>>

Resting == {"idle", "returned", "failed", "raised"}

Init ==
  /\ pc = [c \in Callers |-> "idle"]
  /\ model = [c \in Callers |-> 1] /\ attempt = [c \in Callers |-> 1]
  /\ price = [c \in Callers |-> 0] /\ seen = [c \in Callers |-> 0]
  /\ calls = [c \in Callers |-> 0] /\ slept = [c \in Callers |-> 0]
  /\ log = [c \in Callers |-> <<>>]
  /\ ledger = [r \in RunIds |-> 0] /\ billed = [r \in RunIds |-> 0]

-----------------------------------------------------------------------------
Goto(c, label) == pc' = [pc EXCEPT ![c] = label]
Record(c, outcome) == log' = [log EXCEPT ![c] = Append(@, <<model[c], outcome>>)]

Begin(c) ==
  /\ pc[c] \in Resting /\ calls[c] < MaxCalls
  /\ Goto(c, "trying")
  /\ model' = [model EXCEPT ![c] = 1] /\ attempt' = [attempt EXCEPT ![c] = 1]
  /\ calls' = [calls EXCEPT ![c] = @ + 1]
  /\ slept' = [slept EXCEPT ![c] = 0] /\ log' = [log EXCEPT ![c] = <<>>]
  /\ UNCHANGED <<price, seen, ledger, billed>>

\* 2 ** n
PowerOfTwo[n \in Nat] == IF n = 0 THEN 1 ELSE 2 * PowerOfTwo[n - 1]

\* FAULT: the provider's header is honoured whatever it says.
BackoffHonoured(header, n) ==
  LET capped(s) == IF s < BackoffMax THEN s ELSE BackoffMax
  IN  IF header = NoHeader THEN capped(BackoffBase * PowerOfTwo[n - 1])
                           ELSE IF header > 0 THEN header ELSE 0

\* The delay before the retry that follows this attempt.
Backoff(header, n) ==
  LET capped(s) == IF s < BackoffMax THEN s ELSE BackoffMax
  IN  IF header = NoHeader THEN capped(BackoffBase * PowerOfTwo[n - 1])
                           ELSE capped(IF header > 0 THEN header ELSE 0)

\* A 429 with an attempt left: sleep and ask the same model again.
RateLimited(c) ==
  /\ pc[c] = "trying" /\ attempt[c] < MaxAttempts
  /\ \E header \in RetryAfter \union {NoHeader} :
       slept' = [slept EXCEPT ![c] = @ + Backoff(header, attempt[c])]
  /\ attempt' = [attempt EXCEPT ![c] = @ + 1]
  /\ Record(c, "limited")
  /\ UNCHANGED <<pc, model, price, seen, calls, ledger, billed>>

\* Retry-After: nan is a number to float() and to min() and max(), and none to
\* time.sleep(): the ValueError leaves complete().
SleepRaises(c) ==
  /\ pc[c] = "trying" /\ attempt[c] < MaxAttempts
  /\ Record(c, "limited")
  /\ Goto(c, "raised")
  /\ UNCHANGED <<model, attempt, price, seen, calls, slept, ledger, billed>>

\* FAULT: the chain's end is not looked for.
NextModelPastEnd(c) ==
  /\ model' = [model EXCEPT ![c] = @ + 1]
  /\ attempt' = [attempt EXCEPT ![c] = 1]
  /\ UNCHANGED pc

\* FAULT: the last model is never asked.
NextModelShort(c) ==
  IF model[c] + 1 >= ChainLength[c]
    THEN Goto(c, "failed") /\ UNCHANGED <<model, attempt>>
    ELSE /\ model' = [model EXCEPT ![c] = @ + 1]
         /\ attempt' = [attempt EXCEPT ![c] = 1]
         /\ UNCHANGED pc

\* The chain advances, or ends in the RuntimeError that names it.
NextModel(c) ==
  IF model[c] = ChainLength[c]
    THEN Goto(c, "failed") /\ UNCHANGED <<model, attempt>>
    ELSE /\ model' = [model EXCEPT ![c] = @ + 1]
         /\ attempt' = [attempt EXCEPT ![c] = 1]
         /\ UNCHANGED pc

\* FAULT: any 429 is taken for the last.
RateLimitedOutEarly(c) ==
  /\ pc[c] = "trying"
  /\ Record(c, "limited")
  /\ NextModel(c)
  /\ UNCHANGED <<price, seen, calls, slept, ledger, billed>>

\* The last attempt's 429: no sleep, the next model.
RateLimitedOut(c) ==
  /\ pc[c] = "trying" /\ attempt[c] = MaxAttempts
  /\ Record(c, "limited")
  /\ NextModel(c)
  /\ UNCHANGED <<price, seen, calls, slept, ledger, billed>>

\* FAULT: a chain whose last model fails is walked again from its head.
HardErrorAnew(c) ==
  /\ pc[c] = "trying"
  /\ IF model[c] = ChainLength[c]
       THEN /\ model' = [model EXCEPT ![c] = 1] /\ attempt' = [attempt EXCEPT ![c] = 1]
            /\ slept' = [slept EXCEPT ![c] = 0] /\ log' = [log EXCEPT ![c] = <<>>]
            /\ UNCHANGED pc
       ELSE Record(c, "hard") /\ NextModel(c) /\ UNCHANGED slept
  /\ UNCHANGED <<price, seen, calls, ledger, billed>>

\* A hard error: the next model at once.
HardError(c) ==
  /\ pc[c] = "trying"
  /\ Record(c, "hard")
  /\ NextModel(c)
  /\ UNCHANGED <<price, seen, calls, slept, ledger, billed>>

\* The reply has no choices: indexing it raises out of complete().
Malformed(c) ==
  /\ pc[c] = "trying"
  /\ Record(c, "malformed")
  /\ Goto(c, "raised")
  /\ UNCHANGED <<model, attempt, price, seen, calls, slept, ledger, billed>>

Answered(c) ==
  /\ pc[c] = "trying"
  /\ Record(c, "answered")
  /\ \E p \in 0..MaxCost : price' = [price EXCEPT ![c] = p]
  /\ Goto(c, "get")
  /\ UNCHANGED <<model, attempt, seen, calls, slept, ledger, billed>>

\* _LEDGER.get(run_id, 0.0)
GetLedger(c) ==
  /\ pc[c] = "get"
  /\ seen' = [seen EXCEPT ![c] = ledger[RunOf[c]]]
  /\ Goto(c, "set")
  /\ UNCHANGED <<model, attempt, price, calls, slept, log, ledger, billed>>

\* FAULT: the ledger holds the last cost alone.
TotalOverwritten(c) == price[c]

\* FAULT: the cost is added twice.
TotalDoubled(c) == seen[c] + 2 * price[c]

\* _LEDGER.get(run_id, 0.0) + cost
Total(c) == seen[c] + price[c]

\* The sum is stored, and the Completion is returned.
SetLedger(c) ==
  /\ pc[c] = "set"
  /\ ledger' = [ledger EXCEPT ![RunOf[c]] = Total(c)]
  /\ billed' = [billed EXCEPT ![RunOf[c]] = @ + price[c]]
  /\ Goto(c, "returned")
  /\ UNCHANGED local

\* reset_run(), by a caller between two of its calls.
ResetRun(c) ==
  /\ pc[c] \in Resting /\ c \in Resetters
  /\ ledger' = [ledger EXCEPT ![RunOf[c]] = 0]
  /\ billed' = [billed EXCEPT ![RunOf[c]] = 0]
  /\ UNCHANGED <<pc, local>>

Step(c) ==
  \/ RateLimited(c) \/ RateLimitedOut(c) \/ HardError(c)
  \/ SleepRaises(c) \/ Malformed(c) \/ Answered(c)
  \/ GetLedger(c) \/ SetLedger(c)

Next == \E c \in Callers : Begin(c) \/ Step(c) \/ ResetRun(c)

Spec == Init /\ [][Next]_vars

\* A thread inside complete() goes on: a provider's answer or litellm's
\* timeout comes, a backoff's sleep ends.  Nothing makes a caller call.
FairSpec == Spec /\ \A c \in Callers : WF_vars(Step(c))

-----------------------------------------------------------------------------
Outcome == {"limited", "hard", "malformed", "answered"}

\* The variables' types.
TypeOK ==
  /\ pc \in [Callers -> Resting \union {"trying", "get", "set"}]
  /\ model \in [Callers -> Nat] /\ \A c \in Callers : model[c] \in 1..ChainLength[c]
  /\ attempt \in [Callers -> 1..MaxAttempts]
  /\ price \in [Callers -> 0..MaxCost] /\ seen \in [Callers -> Nat]
  /\ calls \in [Callers -> 0..MaxCalls] /\ slept \in [Callers -> Nat]
  /\ log \in [Callers -> Seq(Nat \X Outcome)]
  /\ ledger \in [RunIds -> Nat] /\ billed \in [RunIds -> Nat]

\* How often a call asked model m, and how.
Asked(c, m) == {i \in DOMAIN log[c] : log[c][i][1] = m}
GivenUp(c, m) ==
  \/ \E i \in Asked(c, m) : log[c][i][2] = "hard"
  \/ Cardinality({i \in Asked(c, m) : log[c][i][2] = "limited"}) = MaxAttempts

\* The fallback order: a call asks a model only after giving up every model
\* before it in the chain -- on a hard error, or on the last of its attempts --
\* and asks no model that was given up, or more often than it has attempts.
FallbackInOrder ==
  \A c \in Callers :
    /\ \A i \in DOMAIN log[c] : \A m \in 1..(log[c][i][1] - 1) : GivenUp(c, m)
    /\ \A i, j \in DOMAIN log[c] : i < j => log[c][i][1] <= log[c][j][1]
    /\ \A m \in 1..ChainLength[c] : Cardinality(Asked(c, m)) <= MaxAttempts
    /\ \A i \in DOMAIN log[c] : i < Len(log[c]) /\ log[c][i][2] # "limited" =>
         log[c][i][2] = "hard" /\ log[c][i + 1][1] > log[c][i][1]

\* The RuntimeError that names the whole chain tells the truth.
FailureNamesTriedModels ==
  \A c \in Callers : pc[c] = "failed" => \A m \in 1..ChainLength[c] : GivenUp(c, m)

\* Whatever the providers' headers say, a call does not sleep longer than the
\* capped backoff between the attempts at each model it gave up or is at.
SleepIsBounded ==
  \A c \in Callers : slept[c] <= model[c] * (MaxAttempts - 1) * BackoffMax

\* A run_id's ledger is what its answered calls cost, where no call of that
\* run_id is between its read and its write.
LedgerExact ==
  \A r \in RunIds :
    (\A c \in Callers : RunOf[c] = r => pc[c] # "set") => ledger[r] = billed[r]

\* With run_ids shared between threads, and never reset, a ledger may lose a
\* cost but never invents one.
LedgerNeverOverstates == \A r \in RunIds : ledger[r] <= billed[r]

\* Every call of complete() ends.
CallsEnd == \A c \in Callers : pc[c] \notin Resting ~> pc[c] \in Resting

-----------------------------------------------------------------------------
\* To a caller, complete() is one step that answers and charges, or refuses.
callView ==
  [c \in Callers |->
     IF pc[c] = "idle" THEN "idle"
     ELSE IF pc[c] = "returned" THEN "answered"
     ELSE IF pc[c] \in {"failed", "raised"} THEN "refused"
     ELSE "pending"]

costView == [c \in Callers |-> IF pc[c] = "returned" THEN price[c] ELSE 0]

Service == INSTANCE Completions WITH call <- callView, cost <- costView

\* Where each run_id has one caller, complete() and its ledger keep the promise
\* of Completions: an answer's cost is on the books, once, when it is returned.
ServiceKept == Service!Spec
=============================================================================
