------------------------------ MODULE MCHarness ------------------------------
(* Constants for TLC: a source file, a test file of test_patch, one of base, *)
(* a conftest.py and a .gitignore, each with its namesake one directory      *)
(* down, where a diff's unstripped names point; the source file's alone may  *)
(* be in base.                                                               *)
EXTENDS Harness, TLC

CONSTANTS src, tst, old, conf, ign, bsrc, btst, bold, bconf, bign, f, p

MCFiles == {src, tst, old, conf, ign}
MCUnstripped ==
  src :> bsrc @@ tst :> btst @@ old :> bold @@ conf :> bconf @@ ign :> bign
MCPaths == MCFiles \union {bsrc, btst, bold, bconf, bign}

MCBases ==
  {[q \in MCPaths |-> IF q \in B THEN "base" ELSE "absent"] :
     B \in {{src, old} \union more : more \in SUBSET {tst, conf, ign, bsrc}}}

MCPatches == UNION {[S -> Changes] : S \in SUBSET MCFiles}

MCTestFiles == {tst}
MCAutoload == {conf, bconf}
MCIgnoreFiles == {ign, bign}
MCF2P == {f}
MCP2P == {p}
MCFileOf == f :> tst @@ p :> old
=============================================================================
