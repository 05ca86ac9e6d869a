------------------------------- MODULE Board -------------------------------
(***************************************************************************)
(* forgejudge/store/db.py: the leaderboard query, from the rows of table   *)
(* runs to one line per model and scaffold version.  A line's rates and    *)
(* costs are averages over the universe, every task some run is about; they *)
(* are kept as the sums that its n_tasks divides, rates in units of 1/Unit. *)
(* A definition marked FAULT is no part of the model: it is a plausible    *)
(* defect in place of the definition after it, which a property must find. *)
(***************************************************************************)
EXTENDS Integers, FiniteSets, Functions

CONSTANT Unit   \* a multiple of every number of runs one task can have

ASSUME BoardAssumption == Unit \in Nat \ {0}

Universe(runs) == {r.task : r \in runs}

OfModel(runs, model, version) ==
  {r \in runs : r.model = model /\ r.version = version}

OfTask(runs, task) == {r \in runs : r.task = task}

Resolved(runs) == {r \in runs : r.resolved}

TaskRate(runs) ==
  IF runs = {} THEN 0 ELSE (Cardinality(Resolved(runs)) * Unit) \div Cardinality(runs)

\* FAULT: the tasks a model did not run are left out instead of counting as 0.
OwnUniverse(runs, model, version) == Universe(OfModel(runs, model, version))

\* per_task_full: every model against every task of the universe
Grid(runs, model, version) == Universe(runs)

Line(runs, model, version) ==
  LET own == OfModel(runs, model, version)
      tasks == Grid(runs, model, version)
  IN  [model     |-> model,
       version   |-> version,
       n_tasks   |-> Cardinality(tasks),
       n_runs    |-> Cardinality(own),
       n_seeds   |-> Cardinality({r.seed : r \in own}),
       pass_at_1 |-> SumFunction([t \in tasks |-> TaskRate(OfTask(own, t))]),
       pass_at_k |-> Unit * Cardinality({t \in tasks : Resolved(OfTask(own, t)) # {}}),
       cost      |-> SumFunction([r \in own |-> r.cost])]

Leaderboard(runs) == {Line(runs, r.model, r.version) : r \in runs}

-----------------------------------------------------------------------------
(* Rates are compared by cross-multiplication, since the denominator is the  *)
(* universe.                                                                *)
Falls(old, now) ==
  old.pass_at_1 > 0 => now.pass_at_1 * old.n_tasks < old.pass_at_1 * now.n_tasks

(* When a run of another model brings a new task in, no rate of a model that *)
(* did not run it rises, and one that was positive falls.                   *)
PenalisesSkipping(runs) ==
  \A new \in runs :
    LET before == {r \in runs : r.task # new.task}
    IN  \A l \in Leaderboard(before) :
          OfTask(OfModel(runs, l.model, l.version), new.task) = {} =>
            Falls(l, Line(runs, l.model, l.version))
=============================================================================
