--------------------------- MODULE RouterProofs ---------------------------
(* Theorems about Router's ledger, for every set of callers, every chain   *)
(* and every price: exact where run_ids are private, never overstating     *)
(* where they are shared, and complete() an atomic answer-and-charge in    *)
(* the first case.  What a call does on its walk of the chain is no        *)
(* concern of the ledger's, so the invariants are about these variables.   *)
(* And about that walk: the order of the fallback, and that a call's error *)
(* names models that were each given up; and the cap on what it sleeps.    *)
EXTENDS Router, Induction, FiniteSetTheorems, TLAPS

LedgerTypeOK ==
  /\ pc \in [Callers -> Resting \union {"trying", "get", "set"}]
  /\ price \in [Callers -> Nat] /\ seen \in [Callers -> Nat]
  /\ ledger \in [RunIds -> Nat] /\ billed \in [RunIds -> Nat]

\* A caller between read and write holds the ledger's present value.
ReadIsCurrent == \A c \in Callers : pc[c] = "set" => seen[c] = ledger[RunOf[c]]
Exact == ledger = billed
ExactInv == ReadIsCurrent /\ Exact

\* A caller between read and write holds no more than was billed by then.
UnderInv ==
  /\ \A c \in Callers : pc[c] = "set" => seen[c] <= billed[RunOf[c]]
  /\ LedgerNeverOverstates

Private == \A c, d \in Callers : RunOf[c] = RunOf[d] => c = d

\* The steps of a call that leave the ledger alone.
Walk(c) ==
  \/ Begin(c) \/ RateLimited(c) \/ SleepRaises(c) \/ RateLimitedOut(c)
  \/ HardError(c) \/ Malformed(c)

LEMMA WalkChanges ==
  ASSUME NEW c \in Callers, Walk(c), LedgerTypeOK
  PROVE  /\ UNCHANGED <<price, seen, ledger, billed>>
         /\ \E label \in {"trying", "failed", "raised"} : pc' = [pc EXCEPT ![c] = label]
         /\ pc[c] \notin {"get", "set"}
  BY DEF Walk, Begin, RateLimited, SleepRaises, RateLimitedOut, HardError, Malformed,
         NextModel, Goto, Resting, LedgerTypeOK

LEMMA StepCases ==
  ASSUME NEW c \in Callers, Begin(c) \/ Step(c) \/ ResetRun(c)
  PROVE  Walk(c) \/ Answered(c) \/ GetLedger(c) \/ SetLedger(c) \/ ResetRun(c)
  BY DEF Step, Walk

LEMMA LedgerTypes == Spec => []LedgerTypeOK
<1>1. Init => LedgerTypeOK
  BY DEF Init, LedgerTypeOK, Resting
<1>2. LedgerTypeOK /\ [Next]_vars => LedgerTypeOK'
  <2> SUFFICES ASSUME LedgerTypeOK, [Next]_vars PROVE LedgerTypeOK'
    OBVIOUS
  <2>1. ASSUME NEW c \in Callers, Walk(c) PROVE LedgerTypeOK'
    BY <2>1, WalkChanges DEF LedgerTypeOK, Resting
  <2>2. ASSUME NEW c \in Callers, Answered(c) PROVE LedgerTypeOK'
    <3>1. PICK p \in 0..MaxCost : price' = [price EXCEPT ![c] = p]
      BY <2>2 DEF Answered
    <3>2. p \in Nat
      BY RouterAssumption
    <3>3. price' \in [Callers -> Nat]
      BY <3>1, <3>2 DEF LedgerTypeOK
    <3> QED
      BY <2>2, <3>3 DEF Answered, Goto, LedgerTypeOK
  <2>3. ASSUME NEW c \in Callers, GetLedger(c) PROVE LedgerTypeOK'
    BY <2>3, RouterAssumption DEF GetLedger, Goto, LedgerTypeOK
  <2>4. ASSUME NEW c \in Callers, SetLedger(c) PROVE LedgerTypeOK'
    <3>1. RunOf[c] \in RunIds /\ seen[c] \in Nat /\ price[c] \in Nat
      BY RouterAssumption DEF LedgerTypeOK
    <3>2. ledger' \in [RunIds -> Nat] /\ billed' \in [RunIds -> Nat]
      BY <2>4, <3>1 DEF SetLedger, Total, LedgerTypeOK
    <3> QED
      BY <2>4, <3>2 DEF SetLedger, Total, Goto, LedgerTypeOK, local, Resting
  <2>5. ASSUME NEW c \in Callers, ResetRun(c) PROVE LedgerTypeOK'
    BY <2>5, RouterAssumption DEF ResetRun, LedgerTypeOK, local
  <2>6. CASE UNCHANGED vars
    BY <2>6 DEF vars, local, LedgerTypeOK
  <2> QED
    BY <2>1, <2>2, <2>3, <2>4, <2>5, <2>6, StepCases DEF Next
<1> QED
  BY <1>1, <1>2, PTL DEF Spec

-----------------------------------------------------------------------------
LEMMA ExactStep ==
  ASSUME Private, LedgerTypeOK, ExactInv, [Next]_vars
  PROVE  ExactInv'
<1> USE DEF ExactInv, Exact
<1>1. ASSUME NEW c \in Callers, Walk(c) PROVE ExactInv'
  BY <1>1, WalkChanges DEF ReadIsCurrent, LedgerTypeOK
<1>2. ASSUME NEW c \in Callers, Answered(c) PROVE ExactInv'
  BY <1>2 DEF Answered, Goto, ReadIsCurrent, LedgerTypeOK
<1>3. ASSUME NEW c \in Callers, GetLedger(c) PROVE ExactInv'
  BY <1>3 DEF GetLedger, Goto, ReadIsCurrent, LedgerTypeOK
<1>4. ASSUME NEW c \in Callers, SetLedger(c) PROVE ExactInv'
  <2>1. ledger' = billed'
    BY <1>4 DEF SetLedger, Total, ReadIsCurrent, LedgerTypeOK
  <2>2. ReadIsCurrent'
    BY <1>4, RouterAssumption
       DEF SetLedger, Total, Goto, ReadIsCurrent, LedgerTypeOK, local, Private
  <2> QED
    BY <2>1, <2>2
<1>5. ASSUME NEW c \in Callers, ResetRun(c) PROVE ExactInv'
  <2>1. pc[c] # "set"
    BY <1>5 DEF ResetRun, Resting
  <2> QED
    BY <1>5, <2>1, RouterAssumption
       DEF ResetRun, ReadIsCurrent, LedgerTypeOK, local, Private
<1>6. CASE UNCHANGED vars
  BY <1>6 DEF vars, local, ReadIsCurrent
<1> QED
  BY <1>1, <1>2, <1>3, <1>4, <1>5, <1>6, StepCases DEF Next

\* Where every run_id has one caller, its ledger is what its calls cost.
THEOREM PrivateLedgerIsExact ==
  ASSUME Private
  PROVE  Spec => []LedgerExact
<1>1. Init => ExactInv
  BY DEF Init, ExactInv, ReadIsCurrent, Exact
<1>2. LedgerTypeOK /\ ExactInv /\ [Next]_vars => ExactInv'
  BY ExactStep
<1>3. ExactInv => LedgerExact
  BY DEF ExactInv, Exact, LedgerExact
<1> QED
  BY <1>1, <1>2, <1>3, LedgerTypes, PTL DEF Spec

-----------------------------------------------------------------------------
LEMMA UnderStep ==
  ASSUME Resetters = {}, LedgerTypeOK, UnderInv, [Next]_vars
  PROVE  UnderInv'
<1> USE DEF UnderInv, LedgerNeverOverstates
<1>1. ASSUME NEW c \in Callers, Walk(c) PROVE UnderInv'
  BY <1>1, WalkChanges DEF LedgerTypeOK
<1>2. ASSUME NEW c \in Callers, Answered(c) PROVE UnderInv'
  BY <1>2 DEF Answered, Goto, LedgerTypeOK
<1>3. ASSUME NEW c \in Callers, GetLedger(c) PROVE UnderInv'
  BY <1>3, RouterAssumption DEF GetLedger, Goto, LedgerTypeOK
<1>4. ASSUME NEW c \in Callers, SetLedger(c) PROVE UnderInv'
  <2>1. \A r \in RunIds : billed[r] <= billed'[r]
    BY <1>4, RouterAssumption DEF SetLedger, Total, LedgerTypeOK
  <2>2. \A r \in RunIds : ledger'[r] <= billed'[r]
    BY <1>4, RouterAssumption DEF SetLedger, Total, LedgerTypeOK
  <2>3. \A d \in Callers : pc'[d] = "set" => pc[d] = "set" /\ seen'[d] = seen[d]
    BY <1>4 DEF SetLedger, Total, Goto, LedgerTypeOK, local
  <2>4. \A d \in Callers : seen[d] \in Nat /\ billed[RunOf[d]] \in Nat
                          /\ billed'[RunOf[d]] \in Nat
    BY <1>4, RouterAssumption DEF SetLedger, Total, LedgerTypeOK
  <2> QED
    BY <2>1, <2>2, <2>3, <2>4, RouterAssumption
<1>5. ASSUME NEW c \in Callers, ResetRun(c) PROVE UnderInv'
  BY <1>5 DEF ResetRun
<1>6. CASE UNCHANGED vars
  BY <1>6 DEF vars, local
<1> QED
  BY <1>1, <1>2, <1>3, <1>4, <1>5, <1>6, StepCases DEF Next

\* However threads share run_ids, a ledger nobody resets holds no cost that was
\* not billed: all it can do is lose some.
THEOREM SharedLedgerNeverOverstates ==
  ASSUME Resetters = {}
  PROVE  Spec => []LedgerNeverOverstates
<1>1. Init => UnderInv
  BY DEF Init, UnderInv, LedgerNeverOverstates
<1>2. LedgerTypeOK /\ UnderInv /\ [Next]_vars => UnderInv'
  BY UnderStep
<1>3. UnderInv => LedgerNeverOverstates
  BY DEF UnderInv
<1> QED
  BY <1>1, <1>2, <1>3, LedgerTypes, PTL DEF Spec

-----------------------------------------------------------------------------
PriceInv == \A c \in Callers : price[c] \in 0..MaxCost

LEMMA PriceStep ==
  ASSUME LedgerTypeOK, PriceInv, [Next]_vars
  PROVE  PriceInv'
<1>1. ASSUME NEW c \in Callers, Walk(c) PROVE PriceInv'
  BY <1>1, WalkChanges DEF PriceInv
<1>2. ASSUME NEW c \in Callers, Answered(c) PROVE PriceInv'
  BY <1>2 DEF Answered, PriceInv, LedgerTypeOK
<1>3. ASSUME NEW c \in Callers, GetLedger(c) \/ SetLedger(c) \/ ResetRun(c)
      PROVE  PriceInv'
  BY <1>3 DEF GetLedger, SetLedger, Total, ResetRun, local, PriceInv
<1>4. CASE UNCHANGED vars
  BY <1>4 DEF vars, local, PriceInv
<1> QED
  BY <1>1, <1>2, <1>3, <1>4, StepCases DEF Next

\* What a caller sees of a step of complete(): nothing while it walks the chain
\* and reads the ledger, an answer and its charge together when it writes.
LEMMA StepSimulates ==
  ASSUME Private, LedgerTypeOK, ExactInv, PriceInv, [Next]_vars
  PROVE  [Service!Next]_(Service!vars)
<1> USE DEF Service!vars
<1>1. ASSUME NEW c \in Callers, Walk(c) PROVE [Service!Next]_(Service!vars)
  <2>1. CASE Begin(c)
    <3>1. callView[c] # "pending"
      BY <2>1 DEF Begin, Resting, callView
    <3>2. /\ callView' = [callView EXCEPT ![c] = "pending"]
          /\ costView' = [costView EXCEPT ![c] = 0]
          /\ ledger' = ledger
      BY <2>1 DEF Begin, Goto, callView, costView, LedgerTypeOK
    <3> QED
      BY <3>1, <3>2 DEF Service!Next, Service!Ask
  <2>2. CASE ~Begin(c)
    <3>1. pc[c] = "trying"
      BY <1>1, <2>2 DEF Walk, RateLimited, SleepRaises, RateLimitedOut, HardError, Malformed
    <3>2. PICK label \in {"trying", "failed", "raised"} : pc' = [pc EXCEPT ![c] = label]
      BY <1>1, WalkChanges
    <3>3. price' = price /\ ledger' = ledger
      BY <1>1, WalkChanges
    <3>4. costView' = costView
      BY <3>1, <3>2, <3>3 DEF costView, LedgerTypeOK
    <3>5. CASE label = "trying"
      <4>1. callView' = callView
        BY <3>1, <3>2, <3>5 DEF callView, LedgerTypeOK
      <4> QED
        BY <3>3, <3>4, <4>1
    <3>6. CASE label # "trying"
      <4>1. callView[c] = "pending" /\ callView' = [callView EXCEPT ![c] = "refused"]
        BY <3>1, <3>2, <3>6 DEF callView, LedgerTypeOK
      <4> QED
        BY <3>3, <3>4, <4>1 DEF Service!Next, Service!Refuse
    <3> QED
      BY <3>5, <3>6
  <2> QED
    BY <2>1, <2>2
<1>2. ASSUME NEW c \in Callers, Answered(c) PROVE [Service!Next]_(Service!vars)
  <2>1. callView' = callView /\ costView' = costView /\ ledger' = ledger
    BY <1>2 DEF Answered, Goto, callView, costView, LedgerTypeOK
  <2> QED
    BY <2>1
<1>3. ASSUME NEW c \in Callers, GetLedger(c) PROVE [Service!Next]_(Service!vars)
  <2>1. callView' = callView /\ costView' = costView /\ ledger' = ledger
    BY <1>3 DEF GetLedger, Goto, callView, costView, LedgerTypeOK
  <2> QED
    BY <2>1
<1>4. ASSUME NEW c \in Callers, SetLedger(c) PROVE [Service!Next]_(Service!vars)
  <2>1. callView[c] = "pending" /\ callView' = [callView EXCEPT ![c] = "answered"]
    BY <1>4 DEF SetLedger, Total, Goto, callView, LedgerTypeOK
  <2>2. costView' = [costView EXCEPT ![c] = price[c]]
    BY <1>4 DEF SetLedger, Total, Goto, costView, LedgerTypeOK, local
  <2>3. ledger' = [ledger EXCEPT ![RunOf[c]] = ledger[RunOf[c]] + price[c]]
    BY <1>4 DEF SetLedger, Total, ExactInv, ReadIsCurrent
  <2> QED
    BY <2>1, <2>2, <2>3 DEF PriceInv, Service!Next, Service!Answer
<1>5. ASSUME NEW c \in Callers, ResetRun(c) PROVE [Service!Next]_(Service!vars)
  <2>1. callView[c] # "pending"
    BY <1>5 DEF ResetRun, Resting, callView
  <2>2. callView' = callView /\ costView' = costView
    BY <1>5 DEF ResetRun, callView, costView, local
  <2> QED
    BY <1>5, <2>1, <2>2 DEF ResetRun, Service!Next, Service!ResetRun
<1>6. CASE UNCHANGED vars
  BY <1>6 DEF vars, local, callView, costView
<1> QED
  BY <1>1, <1>2, <1>3, <1>4, <1>5, <1>6, StepCases DEF Next

\* Where every run_id has one caller, complete() and its ledger implement the
\* service their callers are promised: one step that answers and charges.
THEOREM CompleteIsAtomic ==
  ASSUME Private
  PROVE  Spec => ServiceKept
<1>1. Init => Service!Init
  BY DEF Init, Service!Init, callView, costView
<1>2. Init => ExactInv /\ PriceInv
  BY RouterAssumption DEF Init, ExactInv, ReadIsCurrent, Exact, PriceInv
<1>3. LedgerTypeOK /\ ExactInv /\ PriceInv /\ [Next]_vars
        => ExactInv' /\ PriceInv' /\ [Service!Next]_(Service!vars)
  BY ExactStep, PriceStep, StepSimulates
<1> QED
  BY <1>1, <1>2, <1>3, LedgerTypes, PTL DEF Spec, ServiceKept, Service!Spec

-----------------------------------------------------------------------------
WalkTypeOK ==
  /\ pc \in [Callers -> Resting \union {"trying", "get", "set"}]
  /\ model \in [Callers -> Nat] /\ \A c \in Callers : model[c] \in 1..ChainLength[c]
  /\ attempt \in [Callers -> 1..MaxAttempts]
  /\ log \in [Callers -> Seq(Nat \X Outcome)]

\* While a model is being tried, its requests so far were its attempts, each
\* rate limited; the models before it were given up, and none after it asked.
WalkOK(c) ==
  /\ \A i \in DOMAIN log[c] : log[c][i][1] <= model[c]
  /\ \A m \in 1..(model[c] - 1) : GivenUp(c, m)
  /\ pc[c] = "trying" =>
       /\ Cardinality(Asked(c, model[c])) = attempt[c] - 1
       /\ \A i \in Asked(c, model[c]) : log[c][i][2] = "limited"
       /\ \A i \in DOMAIN log[c] : log[c][i][2] \in {"limited", "hard"}
  /\ pc[c] = "failed" => model[c] = ChainLength[c] /\ GivenUp(c, model[c])

\* FallbackInOrder, of one caller.
InOrder(c) ==
  /\ \A i \in DOMAIN log[c] : \A m \in 1..(log[c][i][1] - 1) : GivenUp(c, m)
  /\ \A i, j \in DOMAIN log[c] : i < j => log[c][i][1] <= log[c][j][1]
  /\ \A m \in 1..ChainLength[c] : Cardinality(Asked(c, m)) <= MaxAttempts
  /\ \A i \in DOMAIN log[c] : i < Len(log[c]) /\ log[c][i][2] # "limited" =>
       log[c][i][2] = "hard" /\ log[c][i + 1][1] > log[c][i][1]

WalkInv == \A c \in Callers : WalkOK(c) /\ InOrder(c)

\* A record is one entry more, for the model reached.
LEMMA RecordAppends ==
  ASSUME WalkTypeOK, NEW c \in Callers, NEW outcome \in Outcome, Record(c, outcome)
  PROVE  /\ log' \in [Callers -> Seq(Nat \X Outcome)]
         /\ \A d \in Callers \ {c} : log'[d] = log[d]
         /\ Len(log[c]) \in Nat /\ Len(log'[c]) = Len(log[c]) + 1
         /\ DOMAIN log[c] = 1..Len(log[c])
         /\ DOMAIN log'[c] = DOMAIN log[c] \union {Len(log[c]) + 1}
         /\ \A i \in DOMAIN log[c] : log'[c][i] = log[c][i]
         /\ log'[c][Len(log[c]) + 1] = <<model[c], outcome>>
         /\ \A i \in DOMAIN log'[c] : log'[c][i] \in Nat \X Outcome
<1>1. <<model[c], outcome>> \in Nat \X Outcome /\ log[c] \in Seq(Nat \X Outcome)
  BY DEF WalkTypeOK
<1>2. log' = [log EXCEPT ![c] = Append(log[c], <<model[c], outcome>>)]
  BY DEF Record
<1>3. log'[c] = Append(log[c], <<model[c], outcome>>)
  BY <1>2 DEF WalkTypeOK
<1>4. log'[c] \in Seq(Nat \X Outcome)
  BY <1>1, <1>3
<1> QED
  BY <1>1, <1>2, <1>3, <1>4 DEF WalkTypeOK

\* What a record makes of the requests for each model.
LEMMA RecordAsks ==
  ASSUME WalkTypeOK, NEW c \in Callers, NEW outcome \in Outcome, Record(c, outcome), NEW m
  PROVE  /\ IsFiniteSet(Asked(c, m))
         /\ m # model[c] => Asked(c, m)' = Asked(c, m)
         /\ m = model[c] =>
              /\ Asked(c, m)' = Asked(c, m) \union {Len(log[c]) + 1}
              /\ Cardinality(Asked(c, m)') = Cardinality(Asked(c, m)) + 1
<1>1. IsFiniteSet(Asked(c, m))
  <2>1. IsFiniteSet(DOMAIN log[c])
    BY RecordAppends, FS_Interval
  <2> QED
    BY <2>1, FS_Subset DEF Asked
<1>2. m # model[c] => Asked(c, m)' = Asked(c, m)
  BY RecordAppends DEF Asked
<1>3. ASSUME m = model[c]
      PROVE  /\ Asked(c, m)' = Asked(c, m) \union {Len(log[c]) + 1}
             /\ Cardinality(Asked(c, m)') = Cardinality(Asked(c, m)) + 1
  <2>1. Asked(c, m)' = Asked(c, m) \union {Len(log[c]) + 1}
    BY <1>3, RecordAppends DEF Asked
  <2>2. Len(log[c]) + 1 \notin Asked(c, m)
    BY RecordAppends DEF Asked
  <2> QED
    BY <1>1, <2>1, <2>2, FS_AddElement
<1> QED
  BY <1>1, <1>2, <1>3

\* A model given up stays so: the call asks it no more.
LEMMA StaysGivenUp ==
  ASSUME WalkTypeOK, NEW c \in Callers, NEW outcome \in Outcome, Record(c, outcome),
         NEW m, m # model[c], GivenUp(c, m)
  PROVE  GivenUp(c, m)'
<1>1. Asked(c, m)' = Asked(c, m)
  BY RecordAsks
<1>2. \A i \in Asked(c, m) : log'[c][i] = log[c][i]
  BY RecordAppends DEF Asked
<1>3. {i \in Asked(c, m) : log[c][i][2] = "limited"}
        = {i \in Asked(c, m) : log'[c][i][2] = "limited"}
  BY <1>2
<1> QED
  BY <1>1, <1>2, <1>3 DEF GivenUp

\* A request keeps the order, since every model before its own was given up.
LEMMA RequestKeepsOrder ==
  ASSUME WalkTypeOK, NEW c \in Callers, NEW outcome \in Outcome, Record(c, outcome),
         WalkOK(c), InOrder(c), pc[c] = "trying"
  PROVE  InOrder(c)' /\ \A m \in 1..(model[c] - 1) : GivenUp(c, m)'
<1> DEFINE last == Len(log[c]) + 1
<1>0. model[c] \in Nat /\ attempt[c] \in 1..MaxAttempts /\ MaxAttempts \in Nat
  BY RouterAssumption DEF WalkTypeOK
<1>1. \A m \in 1..(model[c] - 1) : GivenUp(c, m)'
  BY <1>0, StaysGivenUp DEF WalkOK
<1>2. ASSUME NEW i \in DOMAIN log'[c]
      PROVE  log'[c][i][1] \in Nat /\ log'[c][i][1] <= model[c]
  <2>1. log'[c][i] \in Nat \X Outcome
    BY RecordAppends
  <2>2. i \in DOMAIN log[c] => log'[c][i][1] <= model[c]
    BY RecordAppends DEF WalkOK
  <2>3. i = last => log'[c][i][1] = model[c]
    BY RecordAppends
  <2> QED
    BY <1>0, <2>1, <2>2, <2>3, RecordAppends
<1>3. ASSUME NEW i \in DOMAIN log'[c], NEW m \in 1..(log'[c][i][1] - 1)
      PROVE  GivenUp(c, m)'
  BY <1>0, <1>1, <1>2
<1>4. ASSUME NEW i \in DOMAIN log'[c], NEW j \in DOMAIN log'[c], i < j
      PROVE  log'[c][i][1] <= log'[c][j][1]
  <2>1. i \in DOMAIN log[c]
    BY <1>4, RecordAppends
  <2>2. j \in DOMAIN log[c] \/ log'[c][j][1] = model[c]
    BY <1>4, RecordAppends
  <2> QED
    BY <1>2, <1>4, <2>1, <2>2, RecordAppends DEF InOrder
<1>5. ASSUME NEW m \in 1..ChainLength[c]
      PROVE  Cardinality(Asked(c, m)') <= MaxAttempts
  <2>1. m = model[c] => Cardinality(Asked(c, m)) = attempt[c] - 1
    BY DEF WalkOK
  <2>2. m # model[c] => Cardinality(Asked(c, m)) <= MaxAttempts
    BY DEF InOrder
  <2> QED
    BY <1>0, <2>1, <2>2, RecordAsks
<1>6. ASSUME NEW i \in DOMAIN log'[c], i < Len(log'[c]), log'[c][i][2] # "limited"
      PROVE  log'[c][i][2] = "hard" /\ log'[c][i + 1][1] > log'[c][i][1]
  <2>1. i \in DOMAIN log[c] /\ log'[c][i] = log[c][i]
    BY <1>6, RecordAppends
  <2>2. log[c][i][2] = "hard"
    BY <1>6, <2>1 DEF WalkOK
  <2>3. CASE i < Len(log[c])
    <3>1. i + 1 \in DOMAIN log[c]
      BY <2>1, <2>3, RecordAppends
    <3> QED
      BY <1>6, <2>1, <2>2, <2>3, <3>1, RecordAppends DEF InOrder
  <2>4. CASE i = Len(log[c])
    <3>1. log'[c][i + 1][1] = model[c]
      BY <2>4, RecordAppends
    <3>2. log[c][i][1] # model[c]
      BY <2>1, <2>2 DEF WalkOK, Asked
    <3> QED
      BY <1>0, <1>2, <2>1, <2>2, <3>1, <3>2
  <2> QED
    BY <1>6, <2>1, <2>3, <2>4, RecordAppends
<1> QED
  BY <1>1, <1>3, <1>4, <1>5, <1>6 DEF InOrder

\* Nor do a caller's steps elsewhere, or other callers', disturb its walk.
LEMMA WalkUndisturbed ==
  ASSUME NEW c \in Callers, WalkOK(c), InOrder(c),
         log'[c] = log[c], model'[c] = model[c], attempt'[c] = attempt[c],
         pc'[c] = pc[c] \/ pc'[c] \notin {"trying", "failed"}
  PROVE  WalkOK(c)' /\ InOrder(c)'
<1>1. \A m : Asked(c, m)' = Asked(c, m) /\ (GivenUp(c, m)' <=> GivenUp(c, m))
  BY DEF Asked, GivenUp
<1> QED
  BY <1>1 DEF WalkOK, InOrder

LEMMA WalkTypes == Spec => []WalkTypeOK
<1>1. Init => WalkTypeOK
  BY RouterAssumption DEF Init, WalkTypeOK, Resting
<1>2. WalkTypeOK /\ [Next]_vars => WalkTypeOK'
  <2> SUFFICES ASSUME WalkTypeOK, [Next]_vars PROVE WalkTypeOK'
    OBVIOUS
  <2>1. ASSUME NEW c \in Callers, Begin(c)
        PROVE  WalkTypeOK'
    <3>1. \A d \in Callers : 1 \in 1..ChainLength[d]
      BY RouterAssumption
    <3>2. model' \in [Callers -> Nat] /\ \A d \in Callers : model'[d] \in 1..ChainLength[d]
      BY <2>1, <3>1 DEF Begin, WalkTypeOK
    <3>3. attempt' \in [Callers -> 1..MaxAttempts]
      BY <2>1, RouterAssumption DEF Begin, WalkTypeOK
    <3>4. log' \in [Callers -> Seq(Nat \X Outcome)]
      BY <2>1 DEF Begin, WalkTypeOK
    <3> QED
      BY <2>1, <3>2, <3>3, <3>4 DEF Begin, Goto, WalkTypeOK
  <2>2. ASSUME NEW c \in Callers, RateLimited(c)
        PROVE  WalkTypeOK'
    <3>1. log' \in [Callers -> Seq(Nat \X Outcome)]
      BY <2>2, RecordAppends DEF RateLimited, Outcome
    <3>2. attempt' \in [Callers -> 1..MaxAttempts]
      BY <2>2, RouterAssumption DEF RateLimited, WalkTypeOK
    <3>3. UNCHANGED <<pc, model>>
      BY <2>2 DEF RateLimited
    <3> QED
      BY <3>1, <3>2, <3>3 DEF WalkTypeOK
  <2>3. ASSUME NEW c \in Callers, SleepRaises(c) \/ Malformed(c) \/ Answered(c)
        PROVE  WalkTypeOK'
    <3>1. log' \in [Callers -> Seq(Nat \X Outcome)]
      BY <2>3, RecordAppends DEF SleepRaises, Malformed, Answered, Outcome
    <3> QED
      BY <2>3, <3>1 DEF SleepRaises, Malformed, Answered, Goto, WalkTypeOK, Resting
  <2>4. ASSUME NEW c \in Callers, RateLimitedOut(c) \/ HardError(c)
        PROVE  WalkTypeOK'
    <3>1. log' \in [Callers -> Seq(Nat \X Outcome)]
      BY <2>4, RecordAppends DEF RateLimitedOut, HardError, Outcome
    <3>2. NextModel(c)
      BY <2>4 DEF RateLimitedOut, HardError
    <3>3. ChainLength[c] \in Nat /\ model[c] \in Nat /\ model[c] \in 1..ChainLength[c]
      BY RouterAssumption DEF WalkTypeOK
    <3>4. CASE model[c] = ChainLength[c]
      BY <3>1, <3>2, <3>4 DEF NextModel, Goto, WalkTypeOK, Resting
    <3>5. CASE model[c] # ChainLength[c]
      <4>1. UNCHANGED pc /\ model' = [model EXCEPT ![c] = model[c] + 1]
            /\ attempt' = [attempt EXCEPT ![c] = 1]
        BY <3>2, <3>5 DEF NextModel
      <4>2. model[c] + 1 \in Nat /\ model[c] + 1 \in 1..ChainLength[c]
        BY <3>3, <3>5
      <4>3. model' \in [Callers -> Nat] /\ \A d \in Callers : model'[d] \in 1..ChainLength[d]
        BY <4>1, <4>2 DEF WalkTypeOK
      <4>4. attempt' \in [Callers -> 1..MaxAttempts]
        BY <4>1, RouterAssumption DEF WalkTypeOK
      <4> QED
        BY <3>1, <4>1, <4>3, <4>4 DEF WalkTypeOK
    <3> QED
      BY <3>4, <3>5
  <2>5. ASSUME NEW c \in Callers, GetLedger(c) \/ SetLedger(c) \/ ResetRun(c)
        PROVE  WalkTypeOK'
    BY <2>5 DEF GetLedger, SetLedger, ResetRun, local, Goto, WalkTypeOK, Resting
  <2>6. CASE UNCHANGED vars
    BY <2>6 DEF vars, local, WalkTypeOK
  <2> QED
    BY <2>1, <2>2, <2>3, <2>4, <2>5, <2>6 DEF Next, Step
<1> QED
  BY <1>1, <1>2, PTL DEF Spec

\* A model that is given up now, by a hard error or the last of its attempts.
LEMMA GivesUp ==
  ASSUME WalkTypeOK, NEW c \in Callers, WalkOK(c), InOrder(c),
         RateLimitedOut(c) \/ HardError(c)
  PROVE  WalkOK(c)' /\ InOrder(c)'
<1>0. PICK outcome \in {"limited", "hard"} :
         /\ Record(c, outcome) /\ NextModel(c) /\ pc[c] = "trying"
         /\ outcome = "limited" => attempt[c] = MaxAttempts
  BY DEF RateLimitedOut, HardError
<1>1. outcome \in Outcome
  BY DEF Outcome
<1>2. InOrder(c)' /\ \A m \in 1..(model[c] - 1) : GivenUp(c, m)'
  BY <1>0, <1>1, RequestKeepsOrder
<1>3. model[c] \in Nat /\ model[c] \in 1..ChainLength[c] /\ ChainLength[c] \in Nat
      /\ attempt[c] \in 1..MaxAttempts /\ MaxAttempts \in Nat
  BY RouterAssumption DEF WalkTypeOK
<1> DEFINE last == Len(log[c]) + 1
<1>4. \A m : m = model[c] => GivenUp(c, m)'
  <2>1. SUFFICES ASSUME NEW m, m = model[c] PROVE GivenUp(c, m)'
    OBVIOUS
  <2>2. last \in Asked(c, m)' /\ log'[c][last][2] = outcome
    <3>1. Asked(c, m)' = Asked(c, m) \union {last}
      BY <1>0, <1>1, <2>1, RecordAsks
    <3>2. log'[c][last] = <<model[c], outcome>>
      BY <1>0, <1>1, RecordAppends
    <3> QED
      BY <3>1, <3>2
  <2>3. CASE outcome = "hard"
    BY <2>2, <2>3 DEF GivenUp
  <2>4. CASE outcome = "limited"
    <3>1. Cardinality(Asked(c, m)') = MaxAttempts
      BY <1>0, <1>1, <1>3, <2>1, <2>4, RecordAsks DEF WalkOK
    <3>2. \A i \in Asked(c, m)' : log'[c][i][2] = "limited"
      BY <1>0, <1>1, <2>1, <2>2, <2>4, RecordAppends, RecordAsks DEF WalkOK, Asked
    <3>3. {i \in Asked(c, m)' : log'[c][i][2] = "limited"} = Asked(c, m)'
      BY <3>2
    <3> QED
      BY <3>1, <3>3 DEF GivenUp
  <2> QED
    BY <2>3, <2>4
<1>5. ASSUME NEW i \in DOMAIN log'[c]
      PROVE  log'[c][i][1] \in Nat /\ log'[c][i][1] <= model[c]
  <2>1. log'[c][i] \in Nat \X Outcome
    BY <1>0, <1>1, RecordAppends
  <2>2. i \in DOMAIN log[c] => log'[c][i][1] <= model[c]
    BY <1>0, <1>1, RecordAppends DEF WalkOK
  <2>3. i = last => log'[c][i][1] = model[c]
    BY <1>0, <1>1, RecordAppends
  <2> QED
    BY <1>0, <1>1, <1>3, <2>1, <2>2, <2>3, RecordAppends
<1>6. \A i \in DOMAIN log'[c] : log'[c][i][2] \in {"limited", "hard"}
  BY <1>0, <1>1, RecordAppends DEF WalkOK
<1>7. CASE model[c] = ChainLength[c]
  <2>1. model'[c] = model[c] /\ pc'[c] = "failed"
    BY <1>0, <1>7 DEF NextModel, Goto, WalkTypeOK
  <2> QED
    BY <1>2, <1>4, <1>5, <2>1, <1>7 DEF WalkOK
<1>8. CASE model[c] # ChainLength[c]
  <2>1. model'[c] = model[c] + 1 /\ attempt'[c] = 1 /\ pc'[c] = "trying"
    BY <1>0, <1>8 DEF NextModel, WalkTypeOK
  <2>2. \A m : m = model'[c] => Asked(c, m)' = {}
    BY <1>3, <1>5, <2>1 DEF Asked
  <2>3. \A m \in 1..(model'[c] - 1) : GivenUp(c, m)'
    BY <1>2, <1>3, <1>4, <2>1
  <2>4. \A m : m = model'[c] => Cardinality(Asked(c, m)') = attempt'[c] - 1
    BY <2>1, <2>2, FS_EmptySet
  <2>5. \A i \in DOMAIN log'[c] : log'[c][i][1] <= model'[c]
    BY <1>3, <1>5, <2>1
  <2> QED
    BY <1>2, <1>6, <2>1, <2>2, <2>3, <2>4, <2>5 DEF WalkOK
<1> QED
  BY <1>2, <1>7, <1>8

LEMMA WalkStep ==
  ASSUME WalkTypeOK, WalkInv, [Next]_vars
  PROVE  WalkInv'
<1> SUFFICES ASSUME NEW d \in Callers PROVE WalkOK(d)' /\ InOrder(d)'
  BY DEF WalkInv
<1>0. WalkOK(d) /\ InOrder(d)
  BY DEF WalkInv
<1>1. ASSUME NEW c \in Callers \ {d}, Begin(c) \/ Step(c) \/ ResetRun(c)
      PROVE  WalkOK(d)' /\ InOrder(d)'
  <2>1. pc'[d] = pc[d] /\ model'[d] = model[d] /\ attempt'[d] = attempt[d]
    BY <1>1 DEF Begin, Step, ResetRun, RateLimited, SleepRaises, RateLimitedOut, HardError,
         Malformed, Answered, GetLedger, SetLedger, NextModel, Goto, local, WalkTypeOK
  <2>2. log'[d] = log[d]
    BY <1>1 DEF Begin, Step, ResetRun, RateLimited, SleepRaises, RateLimitedOut, HardError,
         Malformed, Answered, GetLedger, SetLedger, Record, local, WalkTypeOK
  <2> QED
    BY <1>0, <2>1, <2>2, WalkUndisturbed
<1>2. CASE Begin(d)
  <2>1. model'[d] = 1 /\ attempt'[d] = 1 /\ log'[d] = <<>> /\ pc'[d] = "trying"
    BY <1>2 DEF Begin, Goto, WalkTypeOK
  <2>2. \A m : Asked(d, m)' = {}
    BY <2>1 DEF Asked
  <2>3. \A m : Cardinality(Asked(d, m)') = 0
    BY <2>2, FS_EmptySet
  <2>4. WalkOK(d)'
    BY <2>1, <2>2, <2>3 DEF WalkOK
  <2> QED
    BY <2>1, <2>3, <2>4, RouterAssumption DEF InOrder
<1>3. CASE RateLimited(d)
  <2>1. /\ Record(d, "limited") /\ pc[d] = "trying" /\ attempt[d] < MaxAttempts
        /\ UNCHANGED <<pc, model>> /\ attempt' = [attempt EXCEPT ![d] = attempt[d] + 1]
    BY <1>3 DEF RateLimited
  <2>2. "limited" \in Outcome
    BY DEF Outcome
  <2>3. InOrder(d)' /\ \A m \in 1..(model[d] - 1) : GivenUp(d, m)'
    BY <1>0, <2>1, <2>2, RequestKeepsOrder
  <2>4. attempt'[d] = attempt[d] + 1 /\ attempt[d] \in Int /\ model[d] \in Nat
    BY <2>1, RouterAssumption DEF WalkTypeOK
  <2>5. \A m : m = model[d] => /\ Cardinality(Asked(d, m)') = attempt'[d] - 1
                               /\ \A i \in Asked(d, m)' : log'[d][i][2] = "limited"
    <3> SUFFICES ASSUME NEW m, m = model[d]
                 PROVE  /\ Cardinality(Asked(d, m)') = attempt'[d] - 1
                        /\ \A i \in Asked(d, m)' : log'[d][i][2] = "limited"
      OBVIOUS
    <3>1. Cardinality(Asked(d, m)) = attempt[d] - 1
          /\ \A i \in Asked(d, m) : log[d][i][2] = "limited"
      BY <1>0, <2>1 DEF WalkOK
    <3>2. Cardinality(Asked(d, m)') = attempt'[d] - 1
      BY <2>1, <2>2, <2>4, <3>1, RecordAsks
    <3>3. Asked(d, m)' = Asked(d, m) \union {Len(log[d]) + 1}
      BY <2>1, <2>2, RecordAsks
    <3>4. \A i \in Asked(d, m) : log'[d][i] = log[d][i]
      BY <2>1, <2>2, RecordAppends DEF Asked
    <3>5. log'[d][Len(log[d]) + 1][2] = "limited"
      BY <2>1, <2>2, RecordAppends
    <3> QED
      BY <3>1, <3>2, <3>3, <3>4, <3>5
  <2>6. \A i \in DOMAIN log'[d] : log'[d][i][1] <= model[d] /\ log'[d][i][2] \in {"limited", "hard"}
    BY <1>0, <2>1, <2>2, <2>4, RecordAppends DEF WalkOK
  <2> QED
    BY <2>1, <2>3, <2>5, <2>6 DEF WalkOK
<1>4. CASE SleepRaises(d) \/ Malformed(d) \/ Answered(d)
  <2>1. PICK outcome \in Outcome : Record(d, outcome) /\ pc[d] = "trying"
    BY <1>4 DEF SleepRaises, Malformed, Answered, Outcome
  <2>2. model' = model /\ pc'[d] \notin {"trying", "failed"}
    BY <1>4 DEF SleepRaises, Malformed, Answered, Goto, WalkTypeOK
  <2>3. InOrder(d)' /\ \A m \in 1..(model[d] - 1) : GivenUp(d, m)'
    BY <1>0, <2>1, RequestKeepsOrder
  <2>4. ASSUME NEW i \in DOMAIN log'[d] PROVE log'[d][i][1] <= model[d]
    <3>1. i \in DOMAIN log[d] => log'[d][i][1] <= model[d]
      BY <1>0, <2>1, RecordAppends DEF WalkOK
    <3>2. i = Len(log[d]) + 1 => log'[d][i][1] = model[d]
      BY <2>1, RecordAppends
    <3>3. model[d] \in Nat
      BY DEF WalkTypeOK
    <3> QED
      BY <2>1, <3>1, <3>2, <3>3, RecordAppends
  <2> QED
    BY <2>2, <2>3, <2>4 DEF WalkOK
<1>5. CASE RateLimitedOut(d) \/ HardError(d)
  BY <1>0, <1>5, GivesUp
<1>6. CASE GetLedger(d) \/ SetLedger(d) \/ ResetRun(d)
  <2>1. UNCHANGED <<log, model, attempt>> /\ (pc'[d] = pc[d] \/ pc'[d] \in {"set", "returned"})
    BY <1>6 DEF GetLedger, SetLedger, ResetRun, local, Goto, WalkTypeOK
  <2> QED
    BY <1>0, <2>1, WalkUndisturbed
<1>7. CASE UNCHANGED vars
  BY <1>0, <1>7, WalkUndisturbed DEF vars, local
<1> QED
  BY <1>1, <1>2, <1>3, <1>4, <1>5, <1>6, <1>7 DEF Next, Step

LEMMA WalkInvHolds == Spec => []WalkInv
<1>1. Init => WalkInv
  <2> SUFFICES ASSUME Init, NEW c \in Callers PROVE WalkOK(c) /\ InOrder(c)
    BY DEF WalkInv
  <2>1. model[c] = 1 /\ log[c] = <<>> /\ pc[c] = "idle"
    BY DEF Init
  <2>2. \A m : Asked(c, m) = {} /\ Cardinality(Asked(c, m)) = 0
    BY <2>1, FS_EmptySet DEF Asked
  <2>3. WalkOK(c)
    BY <2>1 DEF WalkOK
  <2> QED
    BY <2>1, <2>2, <2>3, RouterAssumption DEF InOrder
<1>2. WalkTypeOK /\ WalkInv /\ [Next]_vars => WalkInv'
  BY WalkStep
<1> QED
  BY <1>1, <1>2, WalkTypes, PTL DEF Spec

\* However long a chain, and whatever other threads do, models are asked in
\* order, each for as long as it only limits the rate, and no attempt too often.
THEOREM FallbackOrder == Spec => []FallbackInOrder
<1>1. WalkInv => FallbackInOrder
  BY DEF WalkInv, InOrder, FallbackInOrder
<1> QED
  BY <1>1, WalkInvHolds, PTL

\* The RuntimeError that names the whole chain is raised only when every model
\* of it was given up.
THEOREM FailureIsHonest == Spec => []FailureNamesTriedModels
<1>1. WalkTypeOK /\ WalkInv => FailureNamesTriedModels
  <2> SUFFICES ASSUME WalkTypeOK, WalkInv, NEW c \in Callers, pc[c] = "failed",
                      NEW m \in 1..ChainLength[c]
               PROVE  GivenUp(c, m)
    BY DEF FailureNamesTriedModels
  <2>1. model[c] = ChainLength[c] /\ GivenUp(c, model[c])
        /\ \A n \in 1..(model[c] - 1) : GivenUp(c, n)
    BY DEF WalkInv, WalkOK
  <2>2. ChainLength[c] \in Nat
    BY RouterAssumption
  <2> QED
    BY <2>1, <2>2
<1> QED
  BY <1>1, WalkTypes, WalkInvHolds, PTL
-----------------------------------------------------------------------------
\* The recursion that doubles has a solution, so the delays are numbers.
LEMMA PowersAreNumbers == PowerOfTwo \in [Nat -> Nat]
<1> DEFINE Doubles(f) == f = [n \in Nat |-> IF n = 0 THEN 1 ELSE 2 * f[n - 1]]
           F == [n \in Nat |-> [p \in Nat |-> 2 * p]]
<1>1. PICK g \in [Nat -> Nat] : g[0] = 1 /\ \A n \in Nat : g[n + 1] = F[n][g[n]]
  <2>1. F \in [Nat -> [Nat -> Nat]]
    OBVIOUS
  <2> HIDE DEF F
  <2>2. PICK g : Solves(g, Nat, 1, F)
    <3>1. 1 \in Nat
      OBVIOUS
    <3> QED
      BY <2>1, <3>1, RecursionOverNat
  <2> QED
    BY <2>2 DEF Solves
<1>2. \A n \in Nat : n # 0 => g[n] = 2 * g[n - 1]
  <2> SUFFICES ASSUME NEW n \in Nat, n # 0 PROVE g[n] = 2 * g[n - 1]
    OBVIOUS
  <2>1. n - 1 \in Nat /\ (n - 1) + 1 = n /\ g[n - 1] \in Nat
    BY <1>1
  <2>2. g[(n - 1) + 1] = F[n - 1][g[n - 1]]
    BY <1>1, <2>1
  <2> QED
    BY <2>1, <2>2
<1>3. Doubles(g)
  BY <1>1, <1>2
<1>4. PowerOfTwo = CHOOSE f : Doubles(f)
  BY DEF PowerOfTwo
<1>5. Doubles(PowerOfTwo)
  BY <1>3, <1>4
<1>6. \A n \in Nat : PowerOfTwo[n] = IF n = 0 THEN 1 ELSE 2 * PowerOfTwo[n - 1]
  BY <1>5
<1> DEFINE Good == {n \in Nat : PowerOfTwo[n] \in Nat}
<1>7. 0 \in Good
  BY <1>6
<1>8. ASSUME NEW n \in Nat, n \in Good PROVE n + 1 \in Good
  <2>1. PowerOfTwo[n + 1] = 2 * PowerOfTwo[n]
    BY <1>6, n + 1 # 0, (n + 1) - 1 = n
  <2> QED
    BY <1>8, <2>1
<1>9. Nat \subseteq Good
  <2> HIDE DEF Good
  <2> QED
    BY <1>7, <1>8, InductionOverNat
<1> QED
  BY <1>5, <1>9

\* No delay is longer than the cap, whatever header asks for it.
LEMMA BackoffIsCapped ==
  ASSUME NEW header \in RetryAfter \union {NoHeader}, NEW n \in Nat \ {0}
  PROVE  Backoff(header, n) \in Nat /\ Backoff(header, n) <= BackoffMax
<1>1. BackoffBase * PowerOfTwo[n - 1] \in Nat
  <2>1. PowerOfTwo[n - 1] \in Nat
    BY PowersAreNumbers
  <2> QED
    BY <2>1, RouterAssumption
<1> QED
  BY <1>1, RouterAssumption DEF Backoff

\* The attempts that may have ended in a sleep: all but the last at each model
\* given up, and those before this one at the model being tried.
Sleeps(c) == (model[c] - 1) * (MaxAttempts - 1) + (attempt[c] - 1)

SleepInv ==
  /\ calls \in [Callers -> 0..MaxCalls] /\ slept \in [Callers -> Nat]
  /\ \A c \in Callers : slept[c] <= Sleeps(c) * BackoffMax

LEMMA MoreSleeps ==
  ASSUME NEW k \in Nat, NEW l \in Nat, k <= l
  PROVE  /\ k * BackoffMax \in Nat /\ k * BackoffMax <= l * BackoffMax
         /\ (k + 1) * BackoffMax = k * BackoffMax + BackoffMax
<1>1. BackoffMax \in Nat
  BY RouterAssumption
<1>2. PICK d \in Nat : l = k + d
  <2>1. l - k \in Nat /\ l = k + (l - k)
    OBVIOUS
  <2> QED
    BY <2>1
<1>3. d * BackoffMax \in Nat /\ k * BackoffMax \in Nat
      /\ l * BackoffMax = k * BackoffMax + d * BackoffMax
  BY <1>1, <1>2
<1>4. (k + 1) * BackoffMax = k * BackoffMax + BackoffMax
  BY <1>1
<1> QED
  BY <1>3, <1>4

\* The sleeps never exceed those of the models reached.
LEMMA SleepsAreCounted ==
  ASSUME WalkTypeOK, NEW c \in Callers
  PROVE  /\ Sleeps(c) \in Nat /\ model[c] * (MaxAttempts - 1) \in Nat
         /\ Sleeps(c) <= model[c] * (MaxAttempts - 1)
<1> DEFINE m == model[c] - 1
           k == MaxAttempts - 1
           a == attempt[c] - 1
<1>1. m \in Nat /\ k \in Nat /\ a \in Nat /\ a <= k
      /\ model[c] = m + 1
  BY RouterAssumption DEF WalkTypeOK
<1>2. Sleeps(c) = m * k + a
  BY DEF Sleeps
<1> HIDE DEF m, k, a
<1>3. m * k \in Nat /\ (m + 1) * k = m * k + k
  BY <1>1
<1>4. model[c] * (MaxAttempts - 1) = (m + 1) * k
  BY <1>1 DEF k
<1> QED
  BY <1>1, <1>2, <1>3, <1>4

LEMMA SleepStep == WalkTypeOK /\ SleepInv /\ [Next]_vars => SleepInv'
<1> SUFFICES ASSUME WalkTypeOK, SleepInv, [Next]_vars PROVE SleepInv'
  OBVIOUS
<1>0. BackoffMax \in Nat /\ MaxCalls \in Nat
  BY RouterAssumption
<1>1. ASSUME NEW c \in Callers, Begin(c) PROVE SleepInv'
  <2>1. calls' \in [Callers -> 0..MaxCalls]
    BY <1>0, <1>1 DEF Begin, SleepInv
  <2>2. slept' \in [Callers -> Nat]
    BY <1>1 DEF Begin, SleepInv
  <2>3. ASSUME NEW d \in Callers PROVE slept'[d] <= Sleeps(d)' * BackoffMax
    <3>1. CASE d = c
      <4>1. slept'[d] = 0 /\ model'[d] = 1 /\ attempt'[d] = 1
        BY <1>1, <3>1 DEF Begin, SleepInv, WalkTypeOK
      <4>2. MaxAttempts - 1 \in Int
        BY RouterAssumption
      <4>3. Sleeps(d)' = 0
        BY <4>1, <4>2 DEF Sleeps
      <4> QED
        BY <1>0, <4>1, <4>3
    <3>2. CASE d # c
      BY <1>1, <3>2 DEF Begin, SleepInv, WalkTypeOK, Sleeps
    <3> QED
      BY <3>1, <3>2
  <2> QED
    BY <2>1, <2>2, <2>3 DEF SleepInv
<1>2. ASSUME NEW c \in Callers, RateLimited(c) PROVE SleepInv'
  <2>1. PICK header \in RetryAfter \union {NoHeader} :
          slept' = [slept EXCEPT ![c] = @ + Backoff(header, attempt[c])]
    BY <1>2 DEF RateLimited
  <2>2. attempt[c] \in Nat \ {0}
    BY RouterAssumption DEF WalkTypeOK
  <2> DEFINE delay == Backoff(header, attempt[c])
  <2>3. delay \in Nat /\ delay <= BackoffMax
    BY <2>2, BackoffIsCapped
  <2> HIDE DEF delay
  <2>4. slept' = [slept EXCEPT ![c] = slept[c] + delay]
    BY <2>1 DEF delay
  <2>5. slept' \in [Callers -> Nat]
    BY <2>3, <2>4 DEF SleepInv
  <2>6. ASSUME NEW d \in Callers PROVE slept'[d] <= Sleeps(d)' * BackoffMax
    <3>1. CASE d = c
      <4>1. Sleeps(c) \in Nat
        BY SleepsAreCounted
      <4>2. model' = model /\ attempt'[c] = attempt[c] + 1
        BY <1>2 DEF RateLimited, WalkTypeOK
      <4>3. (model[c] - 1) * (MaxAttempts - 1) \in Int
        BY RouterAssumption DEF WalkTypeOK
      <4>4. Sleeps(c)' = Sleeps(c) + 1
        BY <2>2, <4>2, <4>3 DEF Sleeps
      <4>5. (Sleeps(c) + 1) * BackoffMax = Sleeps(c) * BackoffMax + BackoffMax
            /\ Sleeps(c) * BackoffMax \in Nat
        BY <4>1, MoreSleeps
      <4>6. slept[c] \in Nat /\ slept[c] <= Sleeps(c) * BackoffMax
        BY DEF SleepInv
      <4>7. slept'[c] = slept[c] + delay
        BY <2>4 DEF SleepInv
      <4> QED
        BY <1>0, <2>3, <3>1, <4>4, <4>5, <4>6, <4>7
    <3>2. CASE d # c
      BY <1>2, <2>4, <3>2 DEF RateLimited, SleepInv, WalkTypeOK, Sleeps
    <3> QED
      BY <3>1, <3>2
  <2> QED
    BY <1>2, <2>5, <2>6 DEF RateLimited, SleepInv
<1>3. ASSUME NEW c \in Callers, RateLimitedOut(c) \/ HardError(c) PROVE SleepInv'
  <2>1. NextModel(c) /\ UNCHANGED <<calls, slept>>
    BY <1>3 DEF RateLimitedOut, HardError
  <2>2. CASE model[c] = ChainLength[c]
    BY <2>1, <2>2 DEF NextModel, SleepInv, Sleeps
  <2>3. CASE model[c] # ChainLength[c]
    <3>1. model' = [model EXCEPT ![c] = @ + 1] /\ attempt' = [attempt EXCEPT ![c] = 1]
      BY <2>1, <2>3 DEF NextModel
    <3>2. ASSUME NEW d \in Callers PROVE slept'[d] <= Sleeps(d)' * BackoffMax
      <4>1. CASE d = c
        <5> DEFINE l == model[c] * (MaxAttempts - 1)
        <5>1. Sleeps(c) \in Nat /\ l \in Nat /\ Sleeps(c) <= l
          BY SleepsAreCounted
        <5>2. model'[c] - 1 = model[c] /\ attempt'[c] - 1 = 0
          BY <3>1 DEF WalkTypeOK
        <5>3. Sleeps(c)' = l
          BY <5>1, <5>2 DEF Sleeps
        <5> HIDE DEF l
        <5>4. Sleeps(c) * BackoffMax <= l * BackoffMax /\ Sleeps(c) * BackoffMax \in Nat
              /\ l * BackoffMax \in Nat
          BY <5>1, MoreSleeps
        <5>5. slept[c] \in Nat /\ slept[c] <= Sleeps(c) * BackoffMax
          BY DEF SleepInv
        <5> QED
          BY <2>1, <4>1, <5>3, <5>4, <5>5
      <4>2. CASE d # c
        BY <2>1, <3>1, <4>2 DEF SleepInv, WalkTypeOK, Sleeps
      <4> QED
        BY <4>1, <4>2
    <3> QED
      BY <2>1, <3>2 DEF SleepInv
  <2> QED
    BY <2>2, <2>3
<1>4. ASSUME NEW c \in Callers,
             \/ SleepRaises(c) \/ Malformed(c) \/ Answered(c)
             \/ GetLedger(c) \/ SetLedger(c) \/ ResetRun(c)
      PROVE  SleepInv'
  <2>1. UNCHANGED <<model, attempt, calls, slept>>
    BY <1>4 DEF SleepRaises, Malformed, Answered, GetLedger, SetLedger, ResetRun, local
  <2> QED
    BY <2>1 DEF SleepInv, Sleeps
<1>5. CASE UNCHANGED vars
  BY <1>5 DEF vars, local, SleepInv, Sleeps
<1> QED
  BY <1>1, <1>2, <1>3, <1>4, <1>5 DEF Next, Step

LEMMA SleepInvHolds == Spec => []SleepInv
<1>1. Init => SleepInv
  <2> SUFFICES ASSUME Init PROVE SleepInv
    OBVIOUS
  <2>1. MaxCalls \in Nat /\ MaxAttempts - 1 \in Int /\ BackoffMax \in Nat
    BY RouterAssumption
  <2>2. \A c \in Callers : Sleeps(c) = 0
    BY <2>1 DEF Init, Sleeps
  <2> QED
    BY <2>1, <2>2 DEF Init, SleepInv
<1> QED
  BY <1>1, WalkTypes, SleepStep, PTL DEF Spec

\* However many models a chain has and whatever their providers' headers ask
\* for, no call sleeps longer than the capped backoff between its attempts.
THEOREM SleepBounded == Spec => []SleepIsBounded
<1>1. WalkTypeOK /\ SleepInv => SleepIsBounded
  <2> SUFFICES ASSUME WalkTypeOK, SleepInv, NEW c \in Callers
               PROVE  slept[c] <= model[c] * (MaxAttempts - 1) * BackoffMax
    BY DEF SleepIsBounded
  <2> DEFINE l == model[c] * (MaxAttempts - 1)
  <2>1. Sleeps(c) \in Nat /\ l \in Nat /\ Sleeps(c) <= l
    BY SleepsAreCounted
  <2> HIDE DEF l
  <2>2. Sleeps(c) * BackoffMax <= l * BackoffMax /\ Sleeps(c) * BackoffMax \in Nat
        /\ l * BackoffMax \in Nat
    BY <2>1, MoreSleeps
  <2>3. slept[c] \in Nat /\ slept[c] <= Sleeps(c) * BackoffMax
    BY DEF SleepInv
  <2>4. slept[c] <= l * BackoffMax
    BY <2>2, <2>3
  <2> QED
    BY <2>4 DEF l
<1> QED
  BY <1>1, WalkTypes, SleepInvHolds, PTL

\* The variables' types, the delays' and the prices' among them.
THEOREM RouterTypes == Spec => []TypeOK
<1>1. LedgerTypeOK /\ WalkTypeOK /\ SleepInv /\ PriceInv => TypeOK
  <2> SUFFICES ASSUME LedgerTypeOK, WalkTypeOK, SleepInv, PriceInv PROVE TypeOK
    OBVIOUS
  <2>1. price \in [Callers -> 0..MaxCost]
    BY DEF LedgerTypeOK, PriceInv
  <2> QED
    BY <2>1 DEF LedgerTypeOK, WalkTypeOK, SleepInv, TypeOK
<1>2. Init => PriceInv
  BY RouterAssumption DEF Init, PriceInv
<1>3. LedgerTypeOK /\ PriceInv /\ [Next]_vars => PriceInv'
  BY PriceStep
<1> QED
  BY <1>1, <1>2, <1>3, LedgerTypes, WalkTypes, SleepInvHolds, PTL DEF Spec
=============================================================================
