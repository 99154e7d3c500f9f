---------------------------- MODULE MCBuildTasks ----------------------------
(* Instances of BuildTasks for TLC. *)
EXTENDS BuildTasks, TLC

CONSTANTS w1, w2, plot, geyser

MCWorker == {w1, w2}
MCSite == {plot, geyser}
MCType == {"pylon", "tech", "assimilator"}
MCMineral == [t \in MCType |-> IF t = "tech" THEN 2 ELSE 1]
MCGas == [t \in MCType |-> IF t = "tech" THEN 1 ELSE 0]
MCPlan == {[type |-> "pylon", site |-> plot], [type |-> "tech", site |-> plot],
           [type |-> "assimilator", site |-> geyser]}
SmallPlan == {p \in MCPlan : p.type # "tech"}
MCBank == {[minerals |-> 0, vespene |-> 0], [minerals |-> 3, vespene |-> 4]}
SmallBank == {[minerals |-> 2, vespene |-> 4]}
MCIncome == {[minerals |-> 0, vespene |-> 0], [minerals |-> 1, vespene |-> 0]}
NoGasBank == {[minerals |-> m, vespene |-> 0] : m \in {0, 2}}
NoGasIncome == {[minerals |-> m, vespene |-> 0] : m \in {0, 2}}

Symmetry == Permutations(MCWorker)
=============================================================================
