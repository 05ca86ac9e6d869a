---------------------------- MODULE MCPlayground ----------------------------
(* Constants for TLC: two addresses, one of which asks twice; for the       *)
(* limiter one that asks three times, with another client beside it and a    *)
(* request for a task that is not in the allowlist.                          *)
EXTENDS Playground, TLC

CONSTANTS a1, a2, a3, b1, x, ipA, ipB

MCIps == {ipA, ipB}

BudgetRequests == {a1, a2, a3}
BudgetIpOf == a1 :> ipA @@ a2 :> ipA @@ a3 :> ipB
BudgetKnown == BudgetRequests

LimiterRequests == {a1, a2, a3, b1, x}
LimiterIpOf == a1 :> ipA @@ a2 :> ipA @@ a3 :> ipA @@ b1 :> ipB @@ x :> ipA
LimiterKnown == LimiterRequests \ {x}

FewRequests == {a1, a2}
FewIpOf == a1 :> ipA @@ a2 :> ipA
FewKnown == FewRequests
=============================================================================
