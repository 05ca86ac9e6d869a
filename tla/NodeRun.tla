------------------------------- MODULE NodeRun -------------------------------
(***************************************************************************)
(* One node id of run_nodeids_status_map in golden/materialize.py: the      *)
(* pytest process, the processes it leaves behind, the pipe that is its      *)
(* stdout, the junit report, and _run_pytest's two timeouts.  What runs      *)
(* inside the process group is the candidate's code and may do anything a   *)
(* process does: spawn, leave the session, keep the pipe, crash.            *)
(* _killpg's fallback is not modelled: pytest leads its session and is our   *)
(* child, so the group is there, and ours to signal, until it is reaped.    *)
(* A definition marked FAULT is no part of the model: it is a plausible     *)
(* defect in place of the definition after it, which a property must find.  *)
(***************************************************************************)
CONSTANTS Children   \* bound: processes the tests may start

VARIABLES
  pytest,   \* "running", "exited" or "killed"
  child,    \* each child: "none", in the "group", in its "own" session, "dead"
  holds,    \* the children that have the pipe's write end open
  report,   \* the junit file: "empty", "torn", or what it says of the node
  phase,    \* "wait", "killed" (the second wait), "untimed" (the third), "read", "done"
  status    \* status[nodeid]

nodeVars == <<pytest, child, holds, report, phase, status>>
tests == <<pytest, child, holds, report>>

Statuses == {"PASSED", "FAILED", "ERROR", "SKIPPED", "XFAIL"}
Passing == {"PASSED", "XFAIL"}
Alive(c) == child[c] \in {"group", "own"}

NodeInit ==
  /\ pytest = "running" /\ child = [c \in Children |-> "none"] /\ holds = {}
  /\ report = "empty" /\ phase = "wait" /\ status = "none"

-----------------------------------------------------------------------------
(* the tests *)

\* fork, with or without the pipe; from an escaped process, out of the group
Spawn(c, where, kept) ==
  /\ child[c] = "none"
  /\ \/ pytest = "running"
     \/ \E d \in Children : Alive(d) /\ (child[d] = "own" => where = "own")
  /\ child' = [child EXCEPT ![c] = where]
  /\ holds' = IF kept THEN holds \cup {c} ELSE holds
  /\ UNCHANGED <<pytest, report, phase, status>>

ChildExits(c) ==
  /\ Alive(c) /\ child' = [child EXCEPT ![c] = "dead"] /\ holds' = holds \ {c}
  /\ UNCHANGED <<pytest, report, phase, status>>

\* the report is written as the session ends: not at once, and "missing" where
\* no case in it answers to the node id
StartReport ==
  /\ pytest = "running" /\ report = "empty" /\ report' = "torn"
  /\ UNCHANGED <<pytest, child, holds, phase, status>>

FinishReport(outcome) ==
  /\ pytest = "running" /\ report = "torn" /\ report' = outcome
  /\ UNCHANGED <<pytest, child, holds, phase, status>>

\* at the end of the session, or by os._exit, a crash or the OOM killer before it
PytestExits ==
  /\ pytest = "running" /\ pytest' = "exited"
  /\ UNCHANGED <<child, holds, report, phase, status>>

-----------------------------------------------------------------------------
(* _run_pytest *)

\* communicate() returns when the pipe is closed and pytest has ended
Closed == pytest # "running" /\ holds = {}

Returns ==
  /\ phase = "wait" /\ Closed /\ phase' = "read"
  /\ UNCHANGED <<tests, status>>

\* FAULT: the process is killed instead of its group.
KillProcess ==
  /\ pytest' = (IF pytest = "running" THEN "killed" ELSE pytest)
  /\ UNCHANGED <<child, holds>>

KillGroup ==
  /\ pytest' = (IF pytest = "running" THEN "killed" ELSE pytest)
  /\ child' = [c \in Children |-> IF child[c] = "group" THEN "dead" ELSE child[c]]
  /\ holds' = {c \in holds : child[c] = "own"}

TimesOut ==
  /\ phase = "wait" /\ phase' = "killed"
  /\ KillGroup
  /\ UNCHANGED <<report, status>>

\* the ten seconds are over; proc.kill() finds pytest dead
TimesOutAgain ==
  /\ phase = "killed" /\ phase' = "untimed"
  /\ UNCHANGED <<tests, status>>

\* FAULT: the report of a run that timed out is read.
ReadAfterTimeout ==
  /\ phase \in {"killed", "untimed"} /\ Closed /\ phase' = "read"
  /\ UNCHANGED <<tests, status>>

FailTimedOut ==
  /\ phase \in {"killed", "untimed"} /\ Closed /\ phase' = "done"
  /\ status' = "FAILED"
  /\ UNCHANGED tests

\* an empty or unparsable report has no case, and no case means FAILED
ReadReport ==
  /\ phase = "read" /\ phase' = "done"
  /\ status' = IF report \in Statuses THEN report ELSE "FAILED"
  /\ UNCHANGED tests

NodeNext ==
  \/ \E c \in Children :
       \/ \E where \in {"group", "own"}, kept \in BOOLEAN : Spawn(c, where, kept)
       \/ ChildExits(c)
  \/ StartReport \/ \E outcome \in Statuses \cup {"missing"} : FinishReport(outcome)
  \/ PytestExits
  \/ Returns \/ TimesOut \/ TimesOutAgain \/ FailTimedOut \/ ReadReport

NodeSpec == NodeInit /\ [][NodeNext]_nodeVars

(* The harness's own steps happen, the timeouts among them; nothing is asked of *)
(* the tests.                                                                *)
NodeFairness ==
  WF_nodeVars(Returns) /\ WF_nodeVars(TimesOut) /\ WF_nodeVars(TimesOutAgain)
  /\ WF_nodeVars(FailTimedOut) /\ WF_nodeVars(ReadReport)

-----------------------------------------------------------------------------
NodeRunTypeOK ==
  /\ pytest \in {"running", "exited", "killed"}
  /\ child \in [Children -> {"none", "group", "own", "dead"}]
  /\ holds \in SUBSET Children
  /\ report \in Statuses \cup {"empty", "torn", "missing"}
  /\ phase \in {"wait", "killed", "untimed", "read", "done"}
  /\ status \in Statuses \cup {"none"}

(* A node passes only by the report of a pytest that ended by itself in time, *)
(* whole, and naming the node PASSED or XFAIL: not by an exit code, by part of *)
(* a report, or by a report that a process killed too late had written.      *)
PassingIsReported ==
  status \in Passing => report = status /\ pytest = "exited"

(* Before a node that timed out is recorded, every process of its group is    *)
(* gone, whatever was being spawned when the timeout struck, and so are the   *)
(* tests that could still change the work tree from within the group.        *)
TimedOutGroupIsGone ==
  phase \in {"killed", "untimed"} => pytest # "running" /\ \A c \in Children : child[c] # "group"

(* The node ends, whatever its tests do, as long as no process that left the  *)
(* session keeps the pipe open for ever: for that, there is no timeout left.  *)
EndsUnlessHeld ==
  <>[](\A c \in holds : child[c] # "own") => <>(phase = "done")
=============================================================================
