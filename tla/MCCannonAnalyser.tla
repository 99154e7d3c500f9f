-------------------------- MODULE MCCannonAnalyser --------------------------
(* Instance of CannonAnalyser for TLC: a slot for each of the four owners  *)
(* an analysis can have, so that a launch always finds one.                *)
EXTENDS CannonAnalyser, TLC

CONSTANTS r1, r2, r3, r4

MCRun == {r1, r2, r3, r4}

Symmetry == Permutations(MCRun)
=============================================================================
