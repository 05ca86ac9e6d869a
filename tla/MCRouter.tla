------------------------------ MODULE MCRouter ------------------------------
(* Constants for TLC: two callers, with a run_id each or one between them.   *)
EXTENDS Router, TLC

CONSTANTS c1, c2, r1, r2

TwoCallers == {c1, c2}
OneRun == {r1}
TwoRuns == {r1, r2}

PrivateRuns == c1 :> r1 @@ c2 :> r2
SharedRun == c1 :> r1 @@ c2 :> r1

ShortChains == c1 :> 2 @@ c2 :> 1

Nobody == {}
NoDelays == {}
Delays == {-5, 3, 90}
=============================================================================
