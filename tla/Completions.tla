----------------------------- MODULE Completions -----------------------------
(***************************************************************************)
(* What the callers of forgejudge/llm/router.py are promised of complete() *)
(* and its ledger: a call ends, by an answer or by an exception, and an    *)
(* answer's cost is on the books of its run_id, once and whole, when the   *)
(* caller has it.                                                          *)
(***************************************************************************)
EXTENDS Integers

CONSTANTS
  Callers,   \* the threads that call complete()
  RunIds,    \* the run_ids they pass
  RunOf,     \* the run_id of each caller
  MaxCost    \* the dearest answer

VARIABLES
  call,      \* each caller's call: "idle", "pending", "answered" or "refused"
  cost,      \* what each caller's answer says it cost
  ledger     \* the cost accumulated for each run_id

vars == <<call, cost, ledger>>

Init ==
  /\ call = [c \in Callers |-> "idle"]
  /\ cost = [c \in Callers |-> 0]
  /\ ledger = [r \in RunIds |-> 0]

Ask(c) ==
  /\ call[c] # "pending"
  /\ call' = [call EXCEPT ![c] = "pending"]
  /\ cost' = [cost EXCEPT ![c] = 0]
  /\ UNCHANGED ledger

\* The answer and its charge are one step.
Answer(c) ==
  /\ call[c] = "pending"
  /\ call' = [call EXCEPT ![c] = "answered"]
  /\ \E p \in 0..MaxCost :
       /\ cost' = [cost EXCEPT ![c] = p]
       /\ ledger' = [ledger EXCEPT ![RunOf[c]] = @ + p]

Refuse(c) ==
  /\ call[c] = "pending"
  /\ call' = [call EXCEPT ![c] = "refused"]
  /\ UNCHANGED <<cost, ledger>>

\* reset_run(), by a caller between two of its calls.
ResetRun(c) ==
  /\ call[c] # "pending"
  /\ ledger' = [ledger EXCEPT ![RunOf[c]] = 0]
  /\ UNCHANGED <<call, cost>>

Next == \E c \in Callers : Ask(c) \/ Answer(c) \/ Refuse(c) \/ ResetRun(c)

Spec == Init /\ [][Next]_vars
=============================================================================
