---------------------------- MODULE MacroProofs -----------------------------
(***************************************************************************)
(* Proofs about Macro, for every value of its constants: the types, and    *)
(* that what is under way is not asked for again. Every choice of          *)
(* getTopPriority goes back to the manager that has asked for it, and to   *)
(* what it has then seen (LEMMA ChoiceJustified).                          *)
(***************************************************************************)
EXTENDS Macro, TLAPS

\* In the opening nobody expands, so the only nexus trains one probe at a time.
OneNexus == strategy = "CANNONS" => Total("Nexus") <= 1

IInv == TypeOK /\ WorkersWithinGoal /\ NothingTwice /\ OneNexus

-----------------------------------------------------------------------------
(* What the managers may ask for.                                          *)
LEMMA SupplyType == SupplyItem.type \in {"Pylon", "none"}
BY DEF SupplyItem, Item, Nothing

LEMMA WorkerType == WorkerItem.type \in {"Probe", "none"} /\ (WorkerItem.type = "Probe" => probes < Goal)
BY DEF WorkerItem, Item, Nothing

LEMMA GasType == GasItem.type \in {"Assimilator", "none"}
BY DEF GasItem, Item, Nothing

LEMMA ExpandType ==
  ASSUME NEW required
  PROVE  /\ ExpandItem(required).type \in {"Nexus", "none"}
         /\ ExpandItem(required).type = "Nexus" =>
              Total("Nexus") < MostBases /\ (strategy = "CANNONS" => Total("Nexus") > 1)
BY DEF ExpandItem, Item, Nothing

LEMMA ForgeType == ForgeItem.type \in {"Forge", "none"} /\ (ForgeItem.type = "Forge" => Total("Forge") = 0)
BY DEF ForgeItem, Item, Nothing

LEMMA ProductionType ==
  ASSUME NEW required
  PROVE  /\ ProductionItem(required).type \in {"Gateway", "none"}
         /\ ProductionItem(required).type = "Gateway" => required > Total("Gateway")
BY DEF ProductionItem, Item, Nothing

LEMMA HireType == UnitHireItem.type \in {"Stalker", "none"}
BY DEF UnitHireItem, Item, Nothing

LEMMA TechType ==
  /\ TechItem.type \in {"Gateway", "Core", "none"}
  /\ TechItem.type = "Gateway" => Total("Gateway") = 0
  /\ TechItem.type = "Core" => Total("Core") = 0
BY DEF TechItem, Item, Nothing

(* Halving a priority does not change what is asked for.                   *)
LEMMA EconomyType ==
  ASSUME NEW economy \in EconomyItems
  PROVE  \E required \in Required :
           economy.type \in {"none", WorkerItem.type, GasItem.type, ExpandItem(required).type}
<1>1. PICK required \in Required : economy \in Economy(<<WorkerItem, GasItem, ExpandItem(required)>>)
  BY DEF EconomyItems
<1> DEFINE items == <<WorkerItem, GasItem, ExpandItem(required)>>
<1>2. ASSUME NEW item \in Tops(items) PROVE item \in {WorkerItem, GasItem, ExpandItem(required)}
  <2>1. PICK k \in DOMAIN items : item = items[k]
    BY <1>2 DEF Tops
  <2>2. k \in 1..3
    OBVIOUS
  <2> QED BY <2>1, <2>2
<1>3. \/ economy = Nothing \/ economy \in Tops(items)
      \/ \E i \in Tops(items) : economy = Item(i.type, Half(i.priority))
  BY <1>1 DEF Economy
<1> QED BY <1>2, <1>3 DEF Nothing, Item

LEMMA ChoiceJustified ==
  ASSUME NEW c \in Choices
  PROVE  /\ c = "Probe" => probes < Goal
         /\ c = "Nexus" => /\ Total("Nexus") < MostBases
                           /\ strategy = "CANNONS" => Total("Nexus") > 1
         /\ c = "Forge" => Total("Forge") = 0
         /\ c = "Core"  => Total("Core") = 0
         /\ c = "Gateway" => \/ Total("Gateway") = 0
                             \/ \E required \in 0..MaxGates : required > Total("Gateway")
<1>1. PICK economy \in EconomyItems, gates \in 0..MaxGates :
        \E item \in Tops(Items(economy, gates)) : c = item.type
  BY DEF Choices
<1> DEFINE items == Items(economy, gates)
<1>2. PICK k \in DOMAIN items : c = items[k].type
  BY <1>1 DEF Tops
<1>3. c \in {SupplyItem.type, economy.type, ForgeItem.type, ProductionItem(gates).type,
             UnitHireItem.type, TechItem.type}
  <2>1. CASE strategy = "CANNONS"
    <3>1. items = <<SupplyItem, economy, ForgeItem>>
      BY <2>1 DEF Items
    <3>2. k \in 1..3
      BY <3>1
    <3> QED BY <1>2, <3>1, <3>2
  <2>2. CASE strategy # "CANNONS"
    <3>1. items = <<SupplyItem, economy, ProductionItem(gates), UnitHireItem, TechItem>>
      BY <2>2 DEF Items
    <3>2. k \in 1..5
      BY <3>1
    <3> QED BY <1>2, <3>1, <3>2
  <2> QED BY <2>1, <2>2
<1>4. PICK required \in Required :
        economy.type \in {"none", WorkerItem.type, GasItem.type, ExpandItem(required).type}
  BY EconomyType
<1> QED BY <1>3, <1>4, SupplyType, WorkerType, GasType, ExpandType, ForgeType, ProductionType,
           HireType, TechType

-----------------------------------------------------------------------------
LEMMA InitIInv == Init => IInv
<1> SUFFICES ASSUME Init PROVE IInv
  OBVIOUS
<1>1. TypeOK
  BY MacroAssumption DEF Init, TypeOK, Building
<1>2. WorkersWithinGoal
  BY MacroAssumption DEF Init, WorkersWithinGoal
<1>3. NothingTwice /\ OneNexus
  BY MacroAssumption DEF Init, NothingTwice, OneNexus, Total, Building
<1> QED BY <1>1, <1>2, <1>3 DEF IInv

(* An order adds a task of a kind that the chosen item's manager has found *)
(* missing.                                                                *)
LEMMA OrderStep ==
  ASSUME IInv, NEW c \in Choices, Order(c)
  PROVE  IInv'
<1> USE MacroAssumption
<1>1. TypeOK'
  <2>1. tasks' \in [Building -> Nat] /\ \A b \in Building : tasks'[b] >= tasks[b]
    BY DEF IInv, TypeOK, Order
  <2>2. rising' \in 0..tasks'["Nexus"]
    BY <2>1 DEF IInv, TypeOK, Order, Building
  <2> QED BY <2>1, <2>2 DEF IInv, TypeOK, Order
<1>2. WorkersWithinGoal'
  BY DEF IInv, WorkersWithinGoal, Order
<1>3. \A b \in Building : b # c => Total(b)' = Total(b)
  BY DEF IInv, TypeOK, Order, Total
<1>4. Total(c)' \in {Total(c), Total(c) + 1}
  BY DEF IInv, TypeOK, Order, Total
<1>5. \A b \in Building : Total(b) \in Nat
  BY DEF IInv, TypeOK, Total
<1>6. NothingTwice'
  <2>1. Total("Forge")' <= 1
    BY <1>3, <1>4, <1>5, ChoiceJustified DEF IInv, NothingTwice, Building
  <2>2. Total("Core")' <= 1
    BY <1>3, <1>4, <1>5, ChoiceJustified DEF IInv, NothingTwice, Building
  <2>3. Total("Nexus")' <= MostBases
    BY <1>3, <1>4, <1>5, ChoiceJustified DEF IInv, NothingTwice, Building
  <2>4. (Total("Gateway") <= MaxGates \/ Total("Gateway") = 1)'
    <3>1. CASE c = "Gateway"
      BY <3>1, <1>4, <1>5, ChoiceJustified DEF Building
    <3>2. CASE c # "Gateway"
      BY <3>2, <1>3 DEF IInv, NothingTwice, Building
    <3> QED BY <3>1, <3>2
  <2> QED BY <2>1, <2>2, <2>3, <2>4 DEF NothingTwice
<1>7. OneNexus'
  <2>1. strategy' = strategy
    BY DEF Order
  <2>2. strategy = "CANNONS" => c # "Nexus"
    BY <1>5, ChoiceJustified DEF IInv, OneNexus, Building
  <2> QED BY <2>1, <2>2, <1>3 DEF IInv, OneNexus, Building
<1> QED BY <1>1, <1>2, <1>6, <1>7 DEF IInv

(* A nexus that is free: fewer are training than there are, and there are  *)
(* no more than NothingTwice and OneNexus allow.                           *)
LEMMA TrainStep ==
  ASSUME IInv, NEW c \in Choices, Train(c)
  PROVE  IInv'
<1> USE MacroAssumption
<1>1. TypeOK'
  BY DEF IInv, TypeOK, Train, Building
<1>2. WorkersWithinGoal'
  <2>1. CASE c = "Probe"
    <3>1. /\ probes < Goal /\ training < done["Nexus"]
          /\ training' = training + 1 /\ probes' = probes /\ strategy' = strategy
      BY <2>1, ChoiceJustified DEF Train
    <3>2. /\ done["Nexus"] \in Nat /\ tasks["Nexus"] \in Nat /\ training \in Nat /\ probes \in Nat
          /\ done["Nexus"] + tasks["Nexus"] <= MostBases
          /\ strategy = "CANNONS" => done["Nexus"] + tasks["Nexus"] <= 1
      BY DEF IInv, TypeOK, NothingTwice, OneNexus, Total, Building
    <3> QED BY <3>1, <3>2 DEF Goal, WorkersWithinGoal
  <2>2. CASE c # "Probe"
    BY <2>2 DEF IInv, WorkersWithinGoal, Train
  <2> QED BY <2>1, <2>2
<1>3. NothingTwice' /\ OneNexus'
  BY DEF IInv, NothingTwice, OneNexus, Total, Train
<1> QED BY <1>1, <1>2, <1>3 DEF IInv

LEMMA FewerStillWithin ==
  \A a, b, c \in Nat, m \in Int : b <= c /\ a + c <= m => a + b <= m
OBVIOUS

(* What the game does adds nothing: it completes what is under way, loses  *)
(* it, or ends the opening.                                                *)
LEMMA GameStep ==
  ASSUME IInv, Game
  PROVE  IInv'
<1> USE MacroAssumption
<1> USE DEF IInv
<1>1. CASE SwitchStrategy
  BY <1>1 DEF SwitchStrategy, TypeOK, WorkersWithinGoal, NothingTwice, OneNexus, Total
<1>2. CASE RushPylon
  <2>1. done' \in [Building -> Nat] /\ \A b \in Building \ {"Pylon"} : done'[b] = done[b]
    BY <1>2 DEF RushPylon, TypeOK, Building
  <2>2. TypeOK'
    BY <1>2, <2>1 DEF RushPylon, TypeOK, Building
  <2> QED BY <1>2, <2>1, <2>2 DEF RushPylon, WorkersWithinGoal, NothingTwice, OneNexus, Total, Building
<1>3. CASE NexusPlaced
  BY <1>3 DEF NexusPlaced, TypeOK, WorkersWithinGoal, NothingTwice, OneNexus, Total, Building
<1>4. CASE Trained
  BY <1>4 DEF Trained, TypeOK, WorkersWithinGoal, NothingTwice, OneNexus, Total, Building
<1>5. ASSUME NEW b \in Building, Completes(b) PROVE IInv'
  <2>1. done' \in [Building -> Nat] /\ tasks' \in [Building -> Nat]
    BY <1>5 DEF Completes, TypeOK
  <2>2. \A x \in Building : Total(x)' = Total(x) /\ done'[x] >= done[x]
    BY <1>5 DEF Completes, TypeOK, Total
  <2>3. rising' \in 0..tasks'["Nexus"]
    BY <1>5 DEF Completes, TypeOK, Building
  <2>4. TypeOK'
    BY <1>5, <2>1, <2>2, <2>3 DEF Completes, TypeOK, Building
  <2>5. WorkersWithinGoal'
    BY <1>5 DEF Completes, WorkersWithinGoal
  <2> QED BY <1>5, <2>2, <2>4, <2>5 DEF Completes, NothingTwice, OneNexus, Building
<1>6. ASSUME NEW b \in Building, TaskFails(b) PROVE IInv'
  <2>1. tasks' \in [Building -> Nat] /\ \A x \in Building : tasks'[x] <= tasks[x]
    BY <1>6 DEF TaskFails, TypeOK
  <2>2. \A x \in Building : Total(x) \in Nat /\ Total(x)' \in Nat /\ Total(x)' <= Total(x)
    BY <1>6, <2>1 DEF TaskFails, TypeOK, Total
  <2>3. rising' \in 0..tasks'["Nexus"]
    BY <1>6 DEF TaskFails, TypeOK, Building
  <2>4. TypeOK'
    BY <1>6, <2>1, <2>3 DEF TaskFails, TypeOK
  <2>5. WorkersWithinGoal'
    BY <1>6 DEF TaskFails, WorkersWithinGoal
  <2>6. OneNexus'
    BY <1>6, <2>2 DEF TaskFails, OneNexus, Building
  <2>7. (Total("Gateway") <= MaxGates \/ Total("Gateway") = 1)'
    <3>1. Total("Gateway")' \in Nat /\ Total("Gateway")' <= Total("Gateway")
      BY <2>2 DEF Building
    <3>2. Total("Gateway")' \in {Total("Gateway"), Total("Gateway") - 1}
      BY <1>6 DEF TaskFails, TypeOK, Total, Building
    <3> QED BY <3>1, <3>2, <2>2 DEF NothingTwice, Building
  <2> QED BY <2>2, <2>4, <2>5, <2>6, <2>7 DEF NothingTwice, Building
<1>7. CASE Loss
  <2>1. losses' \in 0..MaxLosses
    BY <1>7 DEF Loss, TypeOK
  <2>2. CASE Dies
    <3>1. TypeOK'
      BY <2>1, <2>2 DEF Dies, TypeOK
    <3>2. WorkersWithinGoal'
      BY <2>2 DEF Dies, TypeOK, WorkersWithinGoal, Building
    <3> QED BY <2>2, <3>1, <3>2 DEF Dies, NothingTwice, OneNexus, Total
  <2>3. ASSUME NEW b \in Building, Destroyed(b) PROVE IInv'
    <3>1. done' \in [Building -> Nat]
      BY <2>3 DEF Destroyed, TypeOK
    <3>2. TypeOK'
      BY <2>1, <2>3, <3>1 DEF Destroyed, TypeOK
    <3>3. training \in Nat /\ training' \in Nat /\ training' <= training
      BY <2>3, <3>1 DEF Destroyed, TypeOK, Building
    <3>4. WorkersWithinGoal'
      <4>1. probes' = probes /\ strategy' = strategy /\ probes \in Nat /\ probes' \in Nat
        BY <2>3 DEF Destroyed, TypeOK
      <4>2. MaxProbes + MostBases - 1 \in Int /\ OpeningGoal \in Int
        OBVIOUS
      <4> QED BY ONLY <4>1, <4>2, <3>3, WorkersWithinGoal, FewerStillWithin DEF WorkersWithinGoal
    <3>5. \A x \in Building : Total(x)' \in Nat /\ Total(x)' \in {Total(x), Total(x) - 1}
      BY <2>3, <3>1 DEF Destroyed, TypeOK, Total
    <3>6. \A x \in Building : Total(x) \in Nat
      BY DEF TypeOK, Total
    <3>7. NothingTwice' /\ OneNexus'
      BY <2>3, <3>5, <3>6 DEF Destroyed, NothingTwice, OneNexus, Building
    <3> QED BY <3>2, <3>4, <3>7
  <2> QED BY <1>7, <2>2, <2>3 DEF Loss
<1> QED BY <1>1, <1>2, <1>3, <1>4, <1>5, <1>6, <1>7 DEF Game

LEMMA Inductive == IInv /\ [Next]_vars => IInv'
<1> SUFFICES ASSUME IInv, [Next]_vars PROVE IInv'
  OBVIOUS
<1>1. CASE Produce
  BY <1>1, OrderStep, TrainStep DEF Produce
<1>2. CASE Game
  BY <1>2, GameStep
<1>3. CASE UNCHANGED vars
  BY <1>3 DEF vars, IInv, TypeOK, WorkersWithinGoal, NothingTwice, OneNexus, Total
<1> QED BY <1>1, <1>2, <1>3 DEF Next

-----------------------------------------------------------------------------
LEMMA Invariance == Spec => []IInv
BY InitIInv, Inductive, PTL DEF Spec

(* The types; in particular never more nexuses train probes, or gateways   *)
(* stalkers, than there are.                                               *)
THEOREM TypeCorrect == Spec => []TypeOK
<1>1. IInv => TypeOK
  BY DEF IInv
<1> QED BY Invariance, <1>1, PTL

(* WorkerBuildManager's blindness for probes in production costs at most   *)
(* one probe more per nexus, whatever the goals and the number of bases.   *)
THEOREM WorkersBounded == Spec => []WorkersWithinGoal
<1>1. IInv => WorkersWithinGoal
  BY DEF IInv
<1> QED BY Invariance, <1>1, PTL

(* No building that is under way is asked for a second time.               *)
THEOREM NothingAskedTwice == Spec => []NothingTwice
<1>1. IInv => NothingTwice
  BY DEF IInv
<1> QED BY Invariance, <1>1, PTL
=============================================================================
