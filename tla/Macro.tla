------------------------------- MODULE Macro --------------------------------
(***************************************************************************)
(* What the bot decides to build next: every third frame MacroManager asks *)
(* its managers for their top priority, and the first of the highest is    *)
(* produced if the resources, a worker and a place are there.              *)
(*                                                                         *)
(* A building is a task (ordered or constructing) until it is completed;   *)
(* what happens to a task in between is BuildTasks' subject. Warp gates,   *)
(* which the bot never researches, are left out. The income is what it may *)
(* be: it enters as the number of gates ProductionManager finds it good    *)
(* for. A choice that cannot be produced changes nothing and is no step.   *)
(***************************************************************************)
EXTENDS Integers

CONSTANTS
  Cap, NexusSupply, PylonSupply, \* of the game: 200, 15, 8
  Slack,                 \* supply below which a pylon is asked for in time: 10
  OpeningGoal, MaxProbes, \* goals of WorkerBuildManager: 16, REASONABLE_MAX_PROBE_COUNT
  MostBases,             \* half of the base locations
  Lines, Geysers,        \* of a fresh base: ideal mineral workers (16), geysers (2)
  PerGeyser,             \* workers of a geyser: 3
  Eager,                 \* the offset in ExpandBuildManager's priority: 12
  MaxGates,              \* bound: gates that an income is good for
  MaxPylons,             \* bound: pylons are counted as far as they add supply
  MaxLosses              \* bound: losses of units and buildings

ASSUME MacroAssumption ==
  /\ Cap \in Nat /\ NexusSupply \in Nat /\ PylonSupply \in Nat /\ Slack \in Nat
  /\ OpeningGoal \in Nat \ {0} /\ MaxProbes \in Nat /\ OpeningGoal <= MaxProbes
  /\ MostBases \in Nat \ {0} /\ Lines \in Nat /\ Geysers \in Nat /\ PerGeyser \in Nat \ {0}
  /\ PylonSupply * MaxPylons >= Cap
  /\ Eager \in Nat /\ MaxGates \in Nat /\ MaxPylons \in Nat /\ MaxLosses \in Nat

VARIABLES
  strategy,          \* Strategy::currentStrategy: the managers and the goals
  done, tasks,       \* completed buildings, and building tasks, per type
  rising,            \* nexuses under construction: bases without a completed nexus
  probes, fighters,  \* units
  training, arming,  \* nexuses that train a probe, gateways that train a stalker
  losses

vars == <<strategy, done, tasks, rising, probes, fighters, training, arming, losses>>

Building == {"Pylon", "Nexus", "Forge", "Gateway", "Core", "Assimilator"}

TypeOK ==
  /\ strategy \in {"MACRO", "CANNONS"}
  /\ done \in [Building -> Nat] /\ tasks \in [Building -> Nat]
  /\ rising \in 0..tasks["Nexus"]
  /\ probes \in Nat /\ fighters \in Nat
  /\ training \in 0..done["Nexus"] /\ arming \in 0..done["Gateway"]
  /\ losses \in 0..MaxLosses

Init ==
  /\ strategy \in {"MACRO", "CANNONS"}
  /\ done = [b \in Building |-> IF b = "Nexus" THEN 1 ELSE 0]
  /\ tasks = [b \in Building |-> 0] /\ rising = 0
  /\ probes \in 1..OpeningGoal /\ fighters = 0 /\ training = 0 /\ arming = 0
  /\ losses = 0

-----------------------------------------------------------------------------
(* The counts the managers use.                                            *)
Used      == probes + training + 2 * (fighters + arming)    \* GetCurrentSupply
MaxSupply == LET supply == NexusSupply * done["Nexus"] + PylonSupply * done["Pylon"]
             IN  IF supply <= Cap THEN supply ELSE Cap      \* GetMaxSupply
Total(b)  == done[b] + tasks[b]                             \* getBuildingCount, TOTAL
Bases     == done["Nexus"] + rising                         \* BasesManager::getBases
Goal      == IF strategy = "CANNONS" THEN OpeningGoal ELSE MaxProbes

Item(b, p) == [type |-> b, priority |-> p]
Nothing    == Item("none", -1)

(* The managers.                                                           *)
SupplyItem_Mutant ==
  LET available == MaxSupply + PylonSupply * tasks["Pylon"]
      consumed  == done["Nexus"] + (IF done["Core"] > 0 THEN 2 * done["Gateway"] ELSE 0)
  IN  IF available < Used THEN Item("Pylon", 1000)
      ELSE IF Used + consumed > available THEN Item("Pylon", 12)
      ELSE IF Used + 2 * consumed > available THEN Item("Pylon", 6)
      ELSE IF available - consumed - Used < Slack /\ Total("Gateway") > 0 THEN Item("Pylon", 1)
      ELSE Nothing

\* The supply that is used, that is there or under way, and that may be used soon. A nexus
\* under construction counts for nothing: getUnits gives the completed ones.
SupplyItem ==
  LET available == MaxSupply + PylonSupply * tasks["Pylon"]
      consumed  == done["Nexus"] + (IF done["Core"] > 0 THEN 2 * done["Gateway"] ELSE 0)
  IN  IF available <= Used THEN Item("Pylon", 1000)
      ELSE IF Used + consumed > available THEN Item("Pylon", 12)
      ELSE IF Used + 2 * consumed > available THEN Item("Pylon", 6)
      ELSE IF available - consumed - Used < Slack /\ Total("Gateway") > 0 THEN Item("Pylon", 1)
      ELSE Nothing

ForgeItem_Mutant ==
  IF done["Forge"] = 0 /\ done["Pylon"] > 0 THEN Item("Forge", 20) ELSE Nothing

ForgeItem == IF Total("Forge") = 0 /\ done["Pylon"] > 0 THEN Item("Forge", 20) ELSE Nothing

WorkerItem_Mutant ==
  IF done["Nexus"] > training /\ probes <= Goal THEN Item("Probe", 13) ELSE Nothing

\* Probes in production are not counted.
WorkerItem ==
  IF done["Nexus"] > training /\ probes < Goal THEN Item("Probe", 13) ELSE Nothing

GasItem ==
  LET n == done["Nexus"]
      a == Total("Assimilator")
      over == probes - Lines * n
      target == IF over < 0 THEN -((-over) \div PerGeyser) ELSE over \div PerGeyser
  IN  IF strategy # "CANNONS" /\ Geysers * n > a /\ probes >= Lines * n + PerGeyser * a - n
      THEN Item("Assimilator", 7 + target - a) ELSE Nothing

\* The probes that are required: getMineralWorkersPositions and getVespeneWorkersPositions,
\* two for each patch and three for each geyser that has something left. They grow when a
\* nexus is placed, not when it is ordered, and dwindle as bases are mined out.
Required == 0..(Lines + PerGeyser * Geysers) * Bases

ExpandItem(required) ==
  LET priority == probes - required + Eager
  IN  IF /\ Total("Nexus") < MostBases /\ priority >= 0
         /\ strategy = "CANNONS" => Total("Nexus") > 1
      THEN Item("Nexus", priority) ELSE Nothing

\* The first of the items with the highest priority, if any manager has an item.
Tops(items) ==
  LET asked == {k \in DOMAIN items : items[k] # Nothing}
      best  == {k \in asked : \A j \in asked : items[j].priority <= items[k].priority}
  IN  {items[k] : k \in {i \in best : \A j \in best : i <= j}}

Half(p) == IF p < 0 THEN -((-p) \div 2) ELSE p \div 2

\* EconomyBuildManager: the priority is halved if we have more bases than the enemy is seen
\* to have, who is seen to have some: with one seen, this is told by our bases.
Economy(items) ==
  LET tops == Tops(items)
  IN  IF tops = {} THEN {Nothing}
      ELSE tops \cup (IF Bases > 1 THEN {Item(i.type, Half(i.priority)) : i \in tops} ELSE {})

EconomyItems ==
  UNION {Economy(items) : items \in {<<WorkerItem, GasItem, ExpandItem(required)>> : required \in Required}}

ProductionItem(required) ==
  IF done["Pylon"] > 0 /\ required > Total("Gateway")
  THEN Item("Gateway", 2 + required - Total("Gateway")) ELSE Nothing

UnitHireItem ==
  IF done["Gateway"] > arming /\ done["Core"] > 0 THEN Item("Stalker", 7) ELSE Nothing

TechItem_Mutant ==
  IF done["Gateway"] > 0 /\ Total("Core") = 0 THEN Item("Core", 15) ELSE Nothing

TechItem ==
  IF done["Pylon"] = 0 THEN Nothing
  ELSE IF done["Gateway"] = 0
       THEN IF Total("Gateway") = 0 THEN Item("Gateway", 10) ELSE Nothing
  ELSE IF Total("Core") = 0 THEN Item("Core", 15) ELSE Nothing

\* Strategy::onFrame: the managers of a strategy in their order.
Items(economy, gates) ==
  IF strategy = "CANNONS"
  THEN <<SupplyItem, economy, ForgeItem>>
  ELSE <<SupplyItem, economy, ProductionItem(gates), UnitHireItem, TechItem>>

-----------------------------------------------------------------------------
(* produceIfPossible                                                       *)
\* produceBuilding: a free worker, a place and the resources are found.
Order(b) ==
  /\ b \in Building /\ probes > 0
  /\ tasks' = IF b = "Pylon" /\ Total(b) >= MaxPylons THEN tasks ELSE [tasks EXCEPT ![b] = @ + 1]
  /\ UNCHANGED <<strategy, done, rising, probes, fighters, training, arming, losses>>

\* produce: a producer that trains nothing, and the game allows it.
Train(u) ==
  /\ \/ /\ u = "Probe" /\ training < done["Nexus"] /\ Used < MaxSupply
        /\ training' = training + 1 /\ UNCHANGED arming
     \/ /\ u = "Stalker" /\ arming < done["Gateway"] /\ done["Core"] > 0 /\ Used + 2 <= MaxSupply
        /\ arming' = arming + 1 /\ UNCHANGED training
  /\ UNCHANGED <<strategy, done, tasks, rising, probes, fighters, losses>>

\* What getTopPriority may choose, whatever the bases have left and the income is good for.
Choices ==
  UNION {{item.type : item \in Tops(items)} :
    items \in {Items(economy, gates) : economy \in EconomyItems, gates \in 0..MaxGates}}

\* MacroManager::onFrame, when it can produce what it has chosen.
Produce == \E choice \in Choices : Order(choice) \/ Train(choice)

-----------------------------------------------------------------------------
(* The game.                                                               *)
\* Strategy::onFrame, after the opening.
SwitchStrategy ==
  /\ strategy = "CANNONS" /\ strategy' = "MACRO"
  /\ UNCHANGED <<done, tasks, rising, probes, fighters, training, arming, losses>>

NexusPlaced ==
  /\ rising < tasks["Nexus"] /\ rising' = rising + 1
  /\ UNCHANGED <<strategy, done, tasks, probes, fighters, training, arming, losses>>

Completes_Mutant(b) ==
  /\ tasks[b] > 0
  /\ tasks' = [tasks EXCEPT ![b] = @ - 1] /\ done' = [done EXCEPT ![b] = @ + 1]
  /\ UNCHANGED <<strategy, rising, probes, fighters, training, arming, losses>>

\* A nexus is completed after it has been placed.
Completes(b) ==
  /\ tasks[b] > 0 /\ (b = "Nexus" => rising > 0)
  /\ tasks' = [tasks EXCEPT ![b] = @ - 1] /\ done' = [done EXCEPT ![b] = @ + 1]
  /\ rising' = IF b = "Nexus" THEN rising - 1 ELSE rising
  /\ UNCHANGED <<strategy, probes, fighters, training, arming, losses>>

\* An error, or a builder or a building under construction that is lost.
TaskFails(b) ==
  /\ tasks[b] > 0 /\ tasks' = [tasks EXCEPT ![b] = @ - 1]
  /\ \/ UNCHANGED rising /\ (b = "Nexus" => rising < tasks[b])
     \/ b = "Nexus" /\ rising > 0 /\ rising' = rising - 1
  /\ UNCHANGED <<strategy, done, probes, fighters, training, arming, losses>>

\* The pylons of the opening's rush are no tasks.
RushPylon ==
  /\ strategy = "CANNONS" /\ done["Pylon"] < MaxPylons
  /\ done' = [done EXCEPT !["Pylon"] = @ + 1]
  /\ UNCHANGED <<strategy, tasks, rising, probes, fighters, training, arming, losses>>

Trained ==
  /\ \/ /\ training > 0 /\ training' = training - 1 /\ probes' = probes + 1
        /\ UNCHANGED <<fighters, arming>>
     \/ /\ arming > 0 /\ arming' = arming - 1 /\ fighters' = fighters + 1
        /\ UNCHANGED <<probes, training>>
  /\ UNCHANGED <<strategy, done, tasks, rising, losses>>

\* With a building goes what it trains.
Destroyed(b) ==
  /\ done[b] > 0 /\ done' = [done EXCEPT ![b] = @ - 1]
  /\ training' \in {training} \cup (IF b = "Nexus" THEN {training - 1} ELSE {})
  /\ arming' \in {arming} \cup (IF b = "Gateway" THEN {arming - 1} ELSE {})
  /\ training' \in 0..done'["Nexus"] /\ arming' \in 0..done'["Gateway"]
  /\ UNCHANGED <<strategy, tasks, rising, probes, fighters>>

Dies ==
  /\ \/ probes > 0 /\ probes' = probes - 1 /\ UNCHANGED fighters
     \/ fighters > 0 /\ fighters' = fighters - 1 /\ UNCHANGED probes
  /\ UNCHANGED <<strategy, done, tasks, rising, training, arming>>

Loss ==
  /\ losses < MaxLosses /\ losses' = losses + 1
  /\ Dies \/ \E b \in Building : Destroyed(b)

Game ==
  \/ SwitchStrategy \/ RushPylon \/ NexusPlaced \/ Trained \/ Loss
  \/ \E b \in Building : Completes(b) \/ TaskFails(b)

Next == Produce \/ Game

Spec == Init /\ [][Next]_vars

\* The resources are there again and again; tasks are tried again until one succeeds.
Fairness ==
  /\ WF_vars(Produce) /\ WF_vars(Trained) /\ SF_vars(NexusPlaced)
  /\ \A b \in Building \ {"Forge"} : SF_vars(Completes(b))

FairSpec == Spec /\ Fairness

-----------------------------------------------------------------------------
(* The goal for probes is kept: it is exceeded by the probes in production *)
(* only, of which WorkerBuildManager knows nothing, so by as many as there *)
(* are other nexuses, and not at all in the opening, whose only nexus is   *)
(* free when it is asked (WorkerBuildManager.cpp:16).                      *)
WorkersWithinGoal ==
  /\ probes + training <= MaxProbes + MostBases - 1
  /\ strategy = "CANNONS" => probes + training <= OpeningGoal

(* Nothing that is under way is asked for again: there is never a second   *)
(* forge or cybernetics core, no base beyond half of the locations, and no *)
(* gateway beyond what the income is good for (UnitInfoManager.cpp:152).   *)
NothingTwice ==
  /\ Total("Forge") <= 1 /\ Total("Core") <= 1
  /\ Total("Nexus") <= MostBases
  /\ Total("Gateway") <= MaxGates \/ Total("Gateway") = 1

(* A supply block ends: whatever fails and is lost on the way, pylons are  *)
(* asked for until something can be trained again, or all of the game's    *)
(* limit is used (SupplyBuildManager.cpp:14).                              *)
Blocked      == Used >= MaxSupply
SupplyServed == Blocked ~> (~Blocked \/ Used >= Cap \/ probes = 0)

(* The way to fighters is not starved: outside the opening there is a core *)
(* in the end, though probes and pylons come before the gateway and a      *)
(* mined-out base may put a nexus before it. It can wait for ever only     *)
(* near the game's limit of supply, where pylons are asked for for ever,   *)
(* or if the last pylon is lost when all probes are there and the nexuses  *)
(* carry them: nobody asks for a pylon for the gateway's sake              *)
(* (TechBuildManager.cpp:18, SupplyBuildManager.cpp:17).                   *)
HasCore   == done["Core"] > 0
Unpowered == Total("Pylon") = 0 /\ probes >= Goal /\ SupplyItem = Nothing
CoreComes ==
  strategy = "MACRO" ~> (HasCore \/ Used + Slack > Cap \/ probes = 0 \/ Unpowered)
=============================================================================
