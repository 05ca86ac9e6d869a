------------------------------- MODULE Harden -------------------------------
(***************************************************************************)
(* forgejudge/golden/harden.py: one file of a gold fix is mutated, one node *)
(* of its syntax tree at a time where the fix changed it, and the task's    *)
(* tests must fail on each mutant.                                         *)
(*                                                                         *)
(* Nodes are numbered as _Counter visits them, parents first: under a node  *)
(* n are those from n + 1 until n.until.  A node also knows its kind and    *)
(* the span of its lines.  _Mutator visits children first.  The             *)
(* operator a node's own is swapped for is left out: no entry of the three  *)
(* tables maps an operator to itself, so that a mutant differs from its     *)
(* source.  What difflib takes for changed is the environment's choice.    *)
(* A definition marked FAULT is no part of the model: it is a plausible     *)
(* defect in place of the definition after it, which a property must find.  *)
(***************************************************************************)
EXTENDS Integers, FiniteSets

CONSTANTS
  Programs,   \* syntax trees: functions from 1..n to nodes
  Lines,      \* the lines of a file
  Threshold,  \* <<a, b>>: a mutation score of a/b is enough
  Everything  \* the scope None

\* what lies under a node is numbered without a gap, and so is what lies under that
IsTree(nodes) ==
  LET size == Cardinality(DOMAIN nodes)
  IN  /\ size \in Nat /\ DOMAIN nodes = 1..size
      /\ \A m \in 1..size :
           /\ nodes[m].until \in m..size /\ nodes[m].first \in Int /\ nodes[m].last \in Int
           /\ \A n \in (m + 1)..nodes[m].until : nodes[n].until <= nodes[m].until

ASSUME HardenAssumption ==
  /\ \A nodes \in Programs : IsTree(nodes)
  /\ Lines \subseteq Int /\ \A lines \in SUBSET Lines : lines # Everything

VARIABLES
  program,  \* the fixed file's tree
  changed,  \* the lines of it difflib has replaced or inserted
  differs,  \* fix_text # base_text
  next,     \* the index i of the next mutant
  probed,   \* the points mutated so far
  lost,     \* history: those whose mutant ast.unparse() could not write down
  killed, survivors,
  step      \* "mutate", "test", "done", "raised"

hardenVars == <<program, changed, differs, next, probed, lost, killed, survivors, step>>
file == <<program, changed, differs>>
tally == <<killed, survivors>>

Swappable == {"Compare", "BinOp", "BoolOp"}   \* with an operator of the tables
Constant == {"bool", "int"}

\* changed_line_numbers: a fix that only deletes scopes nothing out
LinesInScope == IF changed = {} /\ differs THEN Everything ELSE changed

\* FAULT: a node is in scope by the line it starts on.
StartsInScope(node, lines) == lines = Everything \/ node.first \in lines

NodeInScope(node, lines) ==
  lines = Everything \/ (node.kind # "Module" /\ lines \cap (node.first..node.last) # {})

\* _Counter: a bool is an int, and counts once
Counted(node, lines) ==
  NodeInScope(node, lines) /\ (node.kind \in Swappable \/ node.kind \in Constant)

CounterN == Cardinality({n \in DOMAIN program : Counted(program[n], LinesInScope)})

\* _Mutator: swaps, then negates a bool or increments an int
Hits(node, lines) ==
  /\ NodeInScope(node, lines)
  /\ \/ node.kind \in Swappable
     \/ node.kind = "bool"
     \/ node.kind = "int"

Under(n, m) == m < n /\ n <= program[m].until

\* m is visited before n, children first
Before(m, n) == Under(m, n) \/ (m < n /\ ~ Under(n, m))

Points == {n \in DOMAIN program : Hits(program[n], LinesInScope)}

\* the node the i-th mutant changes; none if it was not applied
Target(i) == {n \in Points : Cardinality({m \in Points : Before(m, n)}) = i}

HardenInit ==
  /\ program \in Programs /\ changed \in SUBSET Lines /\ differs \in BOOLEAN
  /\ changed # {} => differs
  /\ next = 0 /\ probed = {} /\ lost = {} /\ killed = 0 /\ survivors = {}
  /\ step = "mutate"

-----------------------------------------------------------------------------
\* base, test_patch, fix and the mutant are laid into a temporary tree; an
\* index at which no mutation applies is passed over
Mutate ==
  /\ step = "mutate" /\ next < CounterN
  /\ probed' = probed \cup Target(next)
  /\ step' = IF Target(next) = {} THEN step ELSE "test"
  /\ next' = IF Target(next) = {} THEN next + 1 ELSE next
  /\ UNCHANGED <<file, lost, tally>>

\* a mutant that has no source text is passed over too
UnparseFails ==
  /\ step = "mutate" /\ next < CounterN /\ Target(next) # {}
  /\ lost' = lost \cup Target(next) /\ next' = next + 1
  /\ UNCHANGED <<file, probed, tally, step>>

\* passed < total for some node of fail_to_pass and pass_to_pass, or all passed
TestsFail ==
  /\ step = "test" /\ step' = "mutate" /\ next' = next + 1
  /\ killed' = killed + 1
  /\ UNCHANGED <<file, probed, lost, survivors>>

TestsPass ==
  /\ step = "test" /\ step' = "mutate" /\ next' = next + 1
  /\ survivors' = survivors \cup {next}
  /\ UNCHANGED <<file, probed, lost, killed>>

Finish ==
  /\ step = "mutate" /\ next = CounterN /\ step' = "done"
  /\ UNCHANGED <<file, next, probed, lost, tally>>

\* git or the file system raises; the finally clause removes the tree
HardenRaises ==
  /\ step \in {"mutate", "test"} /\ step' = "raised"
  /\ UNCHANGED <<file, next, probed, lost, tally>>

HardenNext == Mutate \/ UnparseFails \/ TestsFail \/ TestsPass \/ Finish \/ HardenRaises

HardenSpec == HardenInit /\ [][HardenNext]_hardenVars

MutantsTotal == killed + Cardinality(survivors)

Status ==
  IF MutantsTotal = 0 THEN "inconclusive"
  ELSE IF killed * Threshold[2] >= Threshold[1] * MutantsTotal THEN "hardened" ELSE "weak"

-----------------------------------------------------------------------------
(* A mutation score counts what it claims to: when the check is over, every   *)
(* node of the fix's region that can be swapped was, once, although _Counter  *)
(* that bounds the loop and _Mutator that indexes it visit the tree in        *)
(* different orders and each have their own test of what is mutable.  A node   *)
(* goes untested only if its mutant could not be written down, and a check is *)
(* inconclusive only if that is so of every node of the fix's lines, or of    *)
(* the whole file where the fix only deletes.                                 *)
EveryPointIsProbedOnce ==
  step = "done" =>
    LET mutable == {n \in DOMAIN program : program[n].kind \in Swappable \cup Constant}
        touched == {n \in mutable : \E l \in changed : program[n].first <= l /\ l <= program[n].last}
        region  == IF changed = {} /\ differs THEN mutable ELSE touched
    IN  /\ probed \cup lost = region /\ probed \cap lost = {}
        /\ MutantsTotal = Cardinality(probed)
        /\ Status = "inconclusive" <=> region \subseteq lost
=============================================================================
