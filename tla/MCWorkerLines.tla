---------------------------- MODULE MCWorkerLines ----------------------------
(* Two bases. The first has two patches and three assimilators one after   *)
(* the other or at once; the second a patch and an assimilator.            *)
EXTENDS WorkerLines, TLC

MCBase       == 1..2
MCPatch      == 1..3
MCGeyser     == 1..4
MCPatchBase  == <<1, 1, 2>>
MCGeyserBase == <<1, 1, 1, 2>>
Symmetry     == Permutations(Probe)

(* The smaller instance for liveness: no symmetry, a patch for each base,  *)
(* two assimilators for the first.                                         *)
FewPatches    == 1..2
FewPatchBase  == <<1, 2>>
FewGeysers    == 1..3
FewGeyserBase == <<1, 1, 2>>
=============================================================================
