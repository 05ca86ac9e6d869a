---------------------------- MODULE MCLeaderboard ----------------------------
(* Constants for TLC: two models, the second workflow run under a later      *)
(* version than the first.  Errors in half of the runs are tolerated: a      *)
(* sweep of one seed may have just as many, one of two seeds has more.       *)
EXTENDS Leaderboard, TLC

CONSTANTS a, b, t, u

MCModels == {a, b}
MCTasks == {t, u}
MCSeeds == {0, 1}
MCVersionOf == 0 :> 1 @@ 1 :> 1 @@ 2 :> 2
MCSeedChoices == {{0}, {1}, {0, 1}}
MCStoreRuns == {<<<<a, t, 0>>, "unresolved">>}

(* the runs of a sweep that do not err *)
SweepOf(S, outcome) ==
  [c \in MCTasks \X S |-> IF c \in DOMAIN outcome THEN outcome[c] ELSE "error"]

MCResults ==
  {SweepOf({0}, <<t, 0>> :> "resolved"),
   SweepOf({1}, <<t, 1>> :> "unresolved" @@ <<u, 1>> :> "resolved"),
   SweepOf({0, 1}, <<t, 1>> :> "resolved")}
MCErrorsOutOf == <<1, 2>>
=============================================================================
