------------------------------ MODULE MCSolver ------------------------------
(* Constants for TLC: one edit of each kind the gates tell apart.            *)
EXTENDS Solver

CONSTANTS base, good, breaks, useless, loops

MCEdits == {base, good, breaks, useless, loops}
MCFixes == {good, breaks, loops}
MCKeeps == {base, good, useless}
MCHangs == {loops}
MCBudgets == {0, 2, 4}
=============================================================================
