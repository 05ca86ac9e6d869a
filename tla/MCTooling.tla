------------------------------ MODULE MCTooling ------------------------------
(* Constants and one specification for TLC over the components that share no  *)
(* state: a behaviour exercises one of them, and the others stay as they are, *)
(* since the product of all would say nothing that a sum does not.           *)
EXTENDS GoldenSet, Harden, NodeRun, Gates, Calibration, Tracing, TLC

VARIABLE subject   \* the component exercised

-----------------------------------------------------------------------------
(* GoldenSet: directories 2 and 3 claim one id; v1 is a good fixture, which    *)
(* also cures v2's base; v2 is no good by itself, and "odd" has a bad meta.yaml. *)
MCIdOf == 1 :> 7 @@ 2 :> 5 @@ 3 :> 5
MCValid == {<<"v1", "v1">>, <<"v1", "v2">>}
MCCures == MCValid

(* Harden: trees of four nodes over three lines. *)
Node(until, kind, span) ==
  [until |-> until, kind |-> kind, first |-> span[1], last |-> span[2]]
Leaves == {"bool", "int", "str"}
Inner == {"Compare", "Is"}
MCPrograms ==
  {<<Node(4, "Module", <<1, 3>>), Node(4, a, <<1, 3>>), Node(3, b, s), Node(4, c, t)>> :
     a \in Inner, b \in Leaves, c \in Leaves,
     s \in {<<1, 1>>, <<1, 2>>}, t \in {<<2, 2>>, <<3, 3>>}} \cup
  {<<Node(4, "Module", <<1, 3>>), Node(4, a, <<1, 3>>), Node(4, b, <<2, 3>>), Node(4, c, t)>> :
     a \in Inner, b \in Inner, c \in Leaves, t \in {<<2, 2>>, <<2, 3>>, <<3, 3>>}}
MCThreshold == <<1, 2>>

(* Calibration: rows with and without a patch of their own, a gold patch, a    *)
(* known task; replies with a label, a rating, a digit and nothing at all.    *)
GoldRow(known, patch, kind, solution, human) ==
  [known |-> known, patch |-> patch, kind |-> kind, solution |-> solution,
   human_score |-> human]
MCGoldRows ==
  {GoldRow(TRUE, Nothing, "gold", "patch", 4), GoldRow(TRUE, Nothing, "gold", Nothing, 5),
   GoldRow(TRUE, "patch", "bad", "patch", 2), GoldRow(TRUE, Nothing, "bad", "patch", 1),
   GoldRow(FALSE, Nothing, "gold", Nothing, 5)}
MCGoldSets == UNION {[1..n -> MCGoldRows] : n \in 0..4}
MCReplies == {<<5, 1, 1>>, <<0, 3, 4>>, <<0, 0, 4>>, <<0, 0, 0>>}

(* Tracing: two accounts with a project, one without. *)
MCKeys == {"k1", "k2", "k3"}
MCProjectOf == "k1" :> "p1" @@ "k2" :> "p2" @@ "k3" :> None

-----------------------------------------------------------------------------
ToolingInit ==
  /\ subject \in {"golden", "node", "harden", "gates", "calibration", "tracing"}
  /\ Init /\ NodeInit
  /\ IF subject = "harden" THEN HardenInit
     ELSE /\ program = <<>> /\ changed = {} /\ differs = FALSE /\ next = 0
          /\ probed = {} /\ lost = {} /\ killed = 0 /\ survivors = {} /\ step = "idle"
  /\ IF subject = "gates" THEN GateInit
     ELSE baseline = <<>> /\ candidate = <<>> /\ verdict = "none"
  /\ IF subject = "calibration" THEN CalibrationInit
     ELSE gold = <<>> /\ pairs = <<>> /\ artifact = Nothing /\ judging = "idle"
  /\ IF subject = "tracing" THEN TracingInit
     ELSE /\ keys = None /\ up = FALSE /\ exporters = {} /\ traced = FALSE
          /\ cache = [k \in Keys |-> None] /\ link = None /\ routed = FALSE

ToolingNext ==
  /\ UNCHANGED subject
  /\ \/ /\ subject = "golden" /\ Next
        /\ UNCHANGED <<nodeVars, hardenVars, gateVars, calibrationVars, tracingVars>>
     \/ /\ subject = "node" /\ NodeNext
        /\ UNCHANGED <<vars, hardenVars, gateVars, calibrationVars, tracingVars>>
     \/ /\ subject = "harden" /\ HardenNext
        /\ UNCHANGED <<vars, nodeVars, gateVars, calibrationVars, tracingVars>>
     \/ /\ subject = "gates" /\ GateNext
        /\ UNCHANGED <<vars, nodeVars, hardenVars, calibrationVars, tracingVars>>
     \/ /\ subject = "calibration" /\ CalibrationNext
        /\ UNCHANGED <<vars, nodeVars, hardenVars, gateVars, tracingVars>>
     \/ /\ subject = "tracing" /\ TracingNext
        /\ UNCHANGED <<vars, nodeVars, hardenVars, gateVars, calibrationVars>>

(* The harness's own steps are fair where it is what runs. *)
ToolingSpec ==
  /\ ToolingInit
  /\ [][ToolingNext]_<<subject, vars, nodeVars, hardenVars, gateVars, calibrationVars, tracingVars>>
  /\ subject = "node" => NodeFairness

-----------------------------------------------------------------------------
(* The end of a test run, where it is what runs. *)
NodeEndsUnlessHeld == subject = "node" => EndsUnlessHeld
=============================================================================
