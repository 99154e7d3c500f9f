-------------------------- MODULE BuildTasksProofs --------------------------
(***************************************************************************)
(* Theorems about BuildTasks, for every number of workers, sites, tasks    *)
(* and for every price list. The ledger has a module of its own,           *)
(* LedgerProofs.                                                           *)
(***************************************************************************)
EXTENDS BuildTasks, TLAPS

(* Two open tasks never share a worker, so that an error or a death names  *)
(* one task (handleError and unitDisappearedCallback look for the worker). *)
OneTaskPerWorker ==
  \A i, j \in Id : status[i] \in Open /\ status[j] \in Open /\ worker[i] = worker[j]
                     => i = j

(* The parts of the inductive invariant. *)

\* Ids are handed out once, and squads and tasks are created together.
KnownIds ==
  /\ \A i \in Id : status[i] # "ABSENT" => i < nextId /\ plan[i] \in Plan
  /\ \A s \in squads : s < nextId
  /\ \A s \in Id : s \notin squads => member[s] = {} /\ ~ended[s]

\* SquadManager keeps every probe in one squad.
Apart(S, T) == S \cap T = {}

OneSquadPerUnit ==
  /\ Apart(unassigned, mining) /\ Apart(unassigned, gas) /\ Apart(unassigned, lent)
  /\ Apart(mining, gas) /\ Apart(mining, lent) /\ Apart(gas, lent)
  /\ \A s \in Id : /\ Apart(member[s], unassigned) /\ Apart(member[s], mining)
                   /\ Apart(member[s], gas) /\ Apart(member[s], lent)
  /\ \A s, r \in Id : s # r => Apart(member[s], member[r])

\* A task that waits for its building has its squad, its order and its worker.
OpenTaskHasSquad ==
  \A i \in Id : status[i] \in Open => i \in squads /\ ~ended[i] /\ member[i] = {worker[i]}

\* An order that has acted since its task left the open states has ended.
ActedOrdersEnded ==
  /\ phase = "squads" => todo \subseteq squads
  /\ phase = "buildings" => todo = {}
  /\ phase \in {"squads", "buildings"} =>
       \A s \in squads \ todo : status[s] \in {"FAILED", "IN_PROGRESS"} => ended[s]

IInv == /\ TypeOK /\ KnownIds /\ OneSquadPerUnit /\ OpenTaskHasSquad
        /\ ActedOrdersEnded /\ NoDanglingTask /\ BuildingPresent

-----------------------------------------------------------------------------
(* Sums and differences of resources are resources. *)
LEMMA ResourceArithmetic ==
  ASSUME NEW r \in Resources, NEW b \in Resources
  PROVE  Plus(r, b) \in Resources /\ Minus(r, b) \in Resources
BY DEF Plus, Minus, Resources

(* What is booked for a planned building is an amount of resources. *)
LEMMA BookedType ==
  ASSUME NEW p \in Plan
  PROVE  Booked(p.type) \in Resources
BY ConstantsAssumption DEF Booked, Resources

(* A refund for tasks that exist leaves an amount of resources set aside. *)
LEMMA RefundType ==
  ASSUME reserved \in Resources, NEW S, \A i \in S : plan[i] \in Plan
  PROVE  Refund(S) \in Resources
<1>1. CASE S = {}
  BY <1>1 DEF Refund
<1>2. CASE S # {}
  BY <1>2, BookedType, ResourceArithmetic DEF Refund
<1> QED BY <1>1, <1>2

LEMMA AdvanceStep ==
  ASSUME IInv, Advance
  PROVE  IInv'
<1> USE DEF IInv, Advance, Goto, taskVars, squadVars, lineVars, gameVars
<1>1. KnownIds' /\ OneSquadPerUnit' /\ OpenTaskHasSquad' /\ ActedOrdersEnded'
          /\ NoDanglingTask' /\ BuildingPresent'
  BY DEF KnownIds, OneSquadPerUnit, Apart, OpenTaskHasSquad, ActedOrdersEnded,
         NoDanglingTask, BuildingPresent
<1>2. TypeOK'
  BY DEF TypeOK, Phase, Status, Pending, Open
<1> QED BY <1>1, <1>2

LEMMA HandleErrorStep ==
  ASSUME IInv, NEW w \in Worker, HandleError(w)
  PROVE  IInv'
<1> USE DEF IInv, HandleError, Failing, taskVars, squadVars, lineVars, gameVars
<1>1. OneSquadPerUnit' /\ OpenTaskHasSquad' /\ ActedOrdersEnded'
          /\ BuildingPresent'
  BY DEF OneSquadPerUnit, Apart, OpenTaskHasSquad, ActedOrdersEnded, BuildingPresent
<1>2. TypeOK'
  BY DEF TypeOK, Phase, Status, Pending, Open
<1>3. KnownIds'
  BY ConstantsAssumption DEF KnownIds, TypeOK, Id, Open, Pending
<1>4. NoDanglingTask'
  BY DEF NoDanglingTask, TypeOK, ActedOrdersEnded
<1> QED BY <1>1, <1>2, <1>3, <1>4

LEMMA NewStructureStep ==
  ASSUME IInv, NEW w \in Worker, NewStructure(w)
  PROVE  IInv'
<1> USE DEF IInv, NewStructure, Matching, taskVars, squadVars, lineVars, gameVars
<1>1. KnownIds' /\ OneSquadPerUnit' /\ ActedOrdersEnded'
  BY DEF KnownIds, OneSquadPerUnit, Apart, ActedOrdersEnded
<1>2. TypeOK'
  BY ConstantsAssumption, ResourceArithmetic, BookedType DEF TypeOK, KnownIds,
         Resources, Phase, Status, Pending, Open, Id
<1>3. OpenTaskHasSquad'
  BY DEF OpenTaskHasSquad, TypeOK, Open, Pending
<1>4. NoDanglingTask'
  BY DEF NoDanglingTask, TypeOK, ActedOrdersEnded
<1>5. BuildingPresent'
  BY ConstantsAssumption DEF BuildingPresent, TypeOK, Open, Pending, KnownIds
<1> QED BY <1>1, <1>2, <1>3, <1>4, <1>5

LEMMA StructureCompletesStep ==
  ASSUME IInv, NEW p \in Site, StructureCompletes(p)
  PROVE  IInv'
<1> USE DEF IInv, StructureCompletes, taskVars, squadVars, lineVars, gameVars
<1>1. TypeOK' /\ KnownIds' /\ OneSquadPerUnit' /\ OpenTaskHasSquad'
          /\ ActedOrdersEnded' /\ NoDanglingTask' /\ BuildingPresent'
  BY DEF TypeOK, KnownIds, OneSquadPerUnit, Apart, OpenTaskHasSquad,
         ActedOrdersEnded, NoDanglingTask, BuildingPresent
<1> QED BY <1>1

LEMMA NewWorkerStep ==
  ASSUME IInv, NEW w \in Worker, NewWorker(w)
  PROVE  IInv'
<1> USE DEF IInv, NewWorker, Registered, taskVars, squadVars, lineVars, gameVars
<1>1. TypeOK' /\ KnownIds' /\ OpenTaskHasSquad' /\ ActedOrdersEnded'
          /\ NoDanglingTask' /\ BuildingPresent'
  BY DEF TypeOK, KnownIds, OpenTaskHasSquad, ActedOrdersEnded, NoDanglingTask,
         BuildingPresent
<1>2. OneSquadPerUnit'
  BY DEF OneSquadPerUnit, Apart, TypeOK, KnownIds
<1> QED BY <1>1, <1>2

LEMMA WorkerGoneStep ==
  ASSUME IInv, NEW w \in Worker, WorkerGone(w)
  PROVE  IInv'
<1> USE DEF IInv, WorkerGone, OpenTasksOf, Registered, taskVars, squadVars, lineVars, gameVars
<1>1. OneSquadPerUnit' /\ ActedOrdersEnded' /\ BuildingPresent'
  BY DEF OneSquadPerUnit, Apart, ActedOrdersEnded, BuildingPresent
<1>2. TypeOK'
  <2> DEFINE S == {i \in OpenTasksOf(w) : status[i] \in Pending}
  <2>1. \A i \in S : plan[i] \in Plan
    BY DEF TypeOK, KnownIds, Pending
  <2>2. reserved' = Refund(S) /\ reserved \in Resources
    BY DEF TypeOK
  <2>3. reserved' \in Resources
    <3> HIDE DEF S
    <3> QED BY <2>1, <2>2, RefundType
  <2>4. status' \in [Id -> Status] /\ worker' \in [Id -> Worker \cup {None}]
    BY DEF TypeOK, Status
  <2> QED BY <2>3, <2>4 DEF TypeOK
<1>3. KnownIds'
  BY ConstantsAssumption DEF KnownIds, TypeOK, Id, Open, Pending
<1>4. OpenTaskHasSquad'
  BY DEF OpenTaskHasSquad, TypeOK, Open, Pending
<1>5. NoDanglingTask'
  BY DEF NoDanglingTask, TypeOK, ActedOrdersEnded
<1> QED BY <1>1, <1>2, <1>3, <1>4, <1>5

LEMMA StructureGoneStep ==
  ASSUME IInv, NEW p \in Site, StructureGone(p)
  PROVE  IInv'
<1> USE DEF IInv, StructureGone, Dying, taskVars, squadVars, lineVars, gameVars
<1>1. KnownIds' /\ OneSquadPerUnit' /\ ActedOrdersEnded' /\ BuildingPresent'
  BY DEF KnownIds, OneSquadPerUnit, Apart, ActedOrdersEnded, BuildingPresent
<1>2. TypeOK'
  BY DEF TypeOK, Phase, Status, Pending, Open
<1>3. OpenTaskHasSquad'
  BY DEF OpenTaskHasSquad, TypeOK, Open, Pending
<1>4. NoDanglingTask'
  BY DEF NoDanglingTask, TypeOK, ActedOrdersEnded
<1> QED BY <1>1, <1>2, <1>3, <1>4

LEMMA OtherBuildingGoneStep ==
  ASSUME IInv, NEW p \in Site, OtherBuildingGone(p)
  PROVE  IInv'
<1> USE DEF IInv, OtherBuildingGone, taskVars, squadVars, lineVars, gameVars
<1>1. TypeOK' /\ KnownIds' /\ OneSquadPerUnit' /\ OpenTaskHasSquad'
          /\ ActedOrdersEnded' /\ NoDanglingTask' /\ BuildingPresent'
  BY DEF TypeOK, KnownIds, OneSquadPerUnit, Apart, OpenTaskHasSquad,
         ActedOrdersEnded, NoDanglingTask, BuildingPresent
<1> QED BY <1>1

LEMMA BaseGoneStep ==
  ASSUME IInv, NEW S \in SUBSET Worker, BaseGone(S)
  PROVE  IInv'
<1> USE DEF IInv, BaseGone, taskVars, squadVars, lineVars, gameVars
<1>1. TypeOK' /\ KnownIds' /\ OneSquadPerUnit' /\ OpenTaskHasSquad'
          /\ ActedOrdersEnded' /\ NoDanglingTask' /\ BuildingPresent'
  BY DEF TypeOK, KnownIds, OneSquadPerUnit, Apart, OpenTaskHasSquad,
         ActedOrdersEnded, NoDanglingTask, BuildingPresent
<1> QED BY <1>1

LEMMA EconomyStep ==
  ASSUME IInv, Economy
  PROVE  IInv'
<1> USE DEF IInv, Economy, Goto, taskVars, squadVars, lineVars, gameVars
<1>1. KnownIds' /\ OneSquadPerUnit' /\ OpenTaskHasSquad' /\ ActedOrdersEnded'
          /\ NoDanglingTask' /\ BuildingPresent'
  BY DEF KnownIds, OneSquadPerUnit, Apart, OpenTaskHasSquad, ActedOrdersEnded,
         NoDanglingTask, BuildingPresent
<1>2. TypeOK'
  BY ConstantsAssumption, ResourceArithmetic, BookedType DEF TypeOK, KnownIds,
         Resources, Phase, Status, Pending, Open, Id
<1> QED BY <1>1, <1>2

LEMMA WorkersStep ==
  ASSUME IInv, Workers
  PROVE  IInv'
<1> USE DEF IInv, Workers, Goto, FreeUnits, AssignFreeUnits, Completed,
            taskVars, squadVars, lineVars, gameVars
<1>1. KnownIds' /\ OpenTaskHasSquad' /\ ActedOrdersEnded' /\ NoDanglingTask'
          /\ BuildingPresent'
  BY DEF KnownIds, OpenTaskHasSquad, ActedOrdersEnded, NoDanglingTask,
         BuildingPresent
<1>2. TypeOK'
  <2>1. PICK back \in SUBSET lent : AssignFreeUnits(FreeUnits(back))
    OBVIOUS
  <2>2. FreeUnits(back) \subseteq Worker
    BY DEF TypeOK
  <2>3. /\ unassigned' \subseteq Worker /\ mining' \subseteq Worker
        /\ gas' \subseteq Worker /\ lent' \subseteq Worker
    BY <2>1, <2>2 DEF TypeOK
  <2>4. cmd' \in [Worker -> Plan \cup {None}]
    BY <2>1 DEF TypeOK
  <2> QED BY <2>3, <2>4 DEF TypeOK, Phase
<1>3. OneSquadPerUnit'
  BY DEF OneSquadPerUnit, Apart, TypeOK, KnownIds
<1> QED BY <1>1, <1>2, <1>3

LEMMA StartMovingStep ==
  ASSUME IInv, NEW s \in Id, StartMoving(s)
  PROVE  IInv'
<1> USE DEF IInv, StartMoving, Skips, ActsNext, taskVars, squadVars, lineVars, gameVars
<1>1. KnownIds' /\ OneSquadPerUnit' /\ ActedOrdersEnded' /\ NoDanglingTask'
          /\ BuildingPresent'
  BY DEF KnownIds, OneSquadPerUnit, Apart, ActedOrdersEnded, NoDanglingTask,
         BuildingPresent
<1>2. TypeOK'
  BY DEF TypeOK, Phase, Status, Pending, Open
<1>3. OpenTaskHasSquad'
  BY DEF OpenTaskHasSquad, TypeOK, Open, Pending
<1> QED BY <1>1, <1>2, <1>3

LEMMA OrderBuildingStep ==
  ASSUME IInv, NEW s \in Id, OrderBuilding(s)
  PROVE  IInv'
<1> USE DEF IInv, OrderBuilding, Skips, ActsNext, taskVars, squadVars, lineVars, gameVars
<1>1. KnownIds' /\ OneSquadPerUnit' /\ ActedOrdersEnded' /\ NoDanglingTask'
          /\ BuildingPresent'
  BY DEF KnownIds, OneSquadPerUnit, Apart, ActedOrdersEnded, NoDanglingTask,
         BuildingPresent
<1>2. TypeOK'
  BY ConstantsAssumption, ResourceArithmetic, BookedType DEF TypeOK, KnownIds,
         Resources, Phase, Status, Pending, Open, Id
<1>3. OpenTaskHasSquad'
  BY DEF OpenTaskHasSquad, TypeOK, Open, Pending
<1> QED BY <1>1, <1>2, <1>3

LEMMA WaitStep ==
  ASSUME IInv, NEW s \in Id, Wait(s)
  PROVE  IInv'
<1> USE DEF IInv, Wait, Skips, ActsNext, taskVars, squadVars, lineVars, gameVars
<1>1. TypeOK' /\ KnownIds' /\ OneSquadPerUnit' /\ OpenTaskHasSquad'
          /\ ActedOrdersEnded' /\ NoDanglingTask' /\ BuildingPresent'
  BY DEF TypeOK, KnownIds, OneSquadPerUnit, Apart, OpenTaskHasSquad,
         ActedOrdersEnded, NoDanglingTask, BuildingPresent
<1> QED BY <1>1

LEMMA EndOrderStep ==
  ASSUME IInv, NEW s \in Id, EndOrder(s)
  PROVE  IInv'
<1> USE DEF IInv, EndOrder, Skips, ActsNext, taskVars, squadVars, lineVars, gameVars
<1>1. TypeOK' /\ OneSquadPerUnit' /\ NoDanglingTask' /\ BuildingPresent'
  BY DEF TypeOK, OneSquadPerUnit, Apart, NoDanglingTask, BuildingPresent
<1>2. KnownIds'
  <2>1. s \in squads
    BY DEF ActedOrdersEnded
  <2> QED BY <2>1 DEF KnownIds, TypeOK
<1>3. OpenTaskHasSquad'
  BY DEF OpenTaskHasSquad, TypeOK, Open, Pending
<1>4. ActedOrdersEnded'
  BY DEF ActedOrdersEnded, TypeOK, Open, Pending
<1> QED BY <1>1, <1>2, <1>3, <1>4

LEMMA OpeningActsStep ==
  ASSUME IInv, NEW w \in Worker, OpeningActs(w)
  PROVE  IInv'
<1> USE DEF IInv, OpeningActs, taskVars, squadVars, lineVars, gameVars
<1>1. KnownIds' /\ OneSquadPerUnit' /\ OpenTaskHasSquad' /\ ActedOrdersEnded'
          /\ NoDanglingTask' /\ BuildingPresent'
  BY DEF KnownIds, OneSquadPerUnit, Apart, OpenTaskHasSquad, ActedOrdersEnded,
         NoDanglingTask, BuildingPresent
<1>2. TypeOK'
  <2>1. reserved' \in Resources
    BY ConstantsAssumption DEF TypeOK, Resources
  <2>2. bank' \in Resources /\ cmd' \in [Worker -> Plan \cup {None}]
    BY BookedType, ResourceArithmetic DEF TypeOK
  <2> QED BY <2>1, <2>2 DEF TypeOK
<1> QED BY <1>1, <1>2

LEMMA SquadsDoneStep ==
  ASSUME IInv, SquadsDone
  PROVE  IInv'
<1> USE DEF IInv, SquadsDone, Goto, taskVars, squadVars, lineVars, gameVars
<1>1. KnownIds' /\ OneSquadPerUnit' /\ OpenTaskHasSquad' /\ ActedOrdersEnded'
          /\ NoDanglingTask' /\ BuildingPresent'
  BY DEF KnownIds, OneSquadPerUnit, Apart, OpenTaskHasSquad, ActedOrdersEnded,
         NoDanglingTask, BuildingPresent
<1>2. TypeOK'
  BY DEF TypeOK, Phase, Status, Pending, Open
<1> QED BY <1>1, <1>2

LEMMA EraseTasksStep ==
  ASSUME IInv, EraseTasks
  PROVE  IInv'
<1> USE DEF IInv, EraseTasks, Goto, Finished, taskVars, squadVars, lineVars, gameVars
<1>1. KnownIds' /\ OneSquadPerUnit' /\ ActedOrdersEnded' /\ BuildingPresent'
  BY DEF KnownIds, OneSquadPerUnit, Apart, ActedOrdersEnded, BuildingPresent
<1>2. TypeOK'
  BY DEF TypeOK, Phase, Status, Pending, Open
<1>3. OpenTaskHasSquad'
  BY DEF OpenTaskHasSquad, TypeOK, Open, Pending
<1>4. NoDanglingTask'
  BY DEF NoDanglingTask, TypeOK, ActedOrdersEnded
<1> QED BY <1>1, <1>2, <1>3, <1>4

LEMMA ProduceBuildingStep ==
  ASSUME IInv, NEW p \in Plan, NEW w \in Worker, ProduceBuilding(p, w)
  PROVE  IInv'
<1> USE DEF IInv, ProduceBuilding, Goto, FreePlace, taskVars, squadVars, lineVars, gameVars
<1>1. OneSquadPerUnit' /\ ActedOrdersEnded' /\ BuildingPresent'
  BY DEF OneSquadPerUnit, Apart, ActedOrdersEnded, BuildingPresent
<1>2. TypeOK'
  BY ConstantsAssumption, ResourceArithmetic, BookedType DEF TypeOK, KnownIds,
         Resources, Phase, Status, Pending, Open, Id
<1>3. KnownIds'
  BY DEF KnownIds, TypeOK, Id
<1>4. OpenTaskHasSquad'
  BY ConstantsAssumption DEF OpenTaskHasSquad, TypeOK, KnownIds, OneSquadPerUnit,
         Apart, Open, Pending, Id
<1>5. NoDanglingTask'
  BY DEF NoDanglingTask, TypeOK, ActedOrdersEnded
<1> QED BY <1>1, <1>2, <1>3, <1>4, <1>5

LEMMA ProduceNothingStep ==
  ASSUME IInv, ProduceNothing
  PROVE  IInv'
<1> USE DEF IInv, ProduceNothing, Goto, taskVars, squadVars, lineVars, gameVars
<1>1. KnownIds' /\ OneSquadPerUnit' /\ OpenTaskHasSquad' /\ ActedOrdersEnded'
          /\ NoDanglingTask' /\ BuildingPresent'
  BY DEF KnownIds, OneSquadPerUnit, Apart, OpenTaskHasSquad, ActedOrdersEnded,
         NoDanglingTask, BuildingPresent
<1>2. TypeOK'
  BY DEF TypeOK, Phase, Status, Pending, Open
<1> QED BY <1>1, <1>2

LEMMA LendWorkerStep ==
  ASSUME IInv, NEW w \in Worker, LendWorker(w)
  PROVE  IInv'
<1> USE DEF IInv, LendWorker, Goto, taskVars, squadVars, lineVars, gameVars
<1>1. KnownIds' /\ OneSquadPerUnit' /\ OpenTaskHasSquad' /\ ActedOrdersEnded'
          /\ NoDanglingTask' /\ BuildingPresent'
  BY DEF KnownIds, OneSquadPerUnit, Apart, OpenTaskHasSquad, ActedOrdersEnded,
         NoDanglingTask, BuildingPresent
<1>2. TypeOK'
  BY DEF TypeOK, Phase, Status, Pending, Open
<1> QED BY <1>1, <1>2
-----------------------------------------------------------------------------
LEMMA InitInvariant == Init => IInv
BY ConstantsAssumption
   DEF Init, IInv, TypeOK, KnownIds, OneSquadPerUnit, Apart, OpenTaskHasSquad,
       ActedOrdersEnded, NoDanglingTask, BuildingPresent, Resources, Phase, Status, Open,
       Pending, Id

LEMMA NextInvariant == IInv /\ [Next]_vars => IInv'
<1> SUFFICES ASSUME IInv, [Next]_vars
             PROVE  IInv'
  OBVIOUS
<1>1. CASE UNCHANGED vars
  BY <1>1 DEF vars, taskVars, squadVars, lineVars, gameVars, IInv, TypeOK, KnownIds,
              OneSquadPerUnit, OpenTaskHasSquad, ActedOrdersEnded, NoDanglingTask,
              BuildingPresent
<1>2. CASE \/ Advance \/ Economy \/ Workers \/ SquadsDone \/ EraseTasks \/ ProduceNothing
  BY <1>2, AdvanceStep, EconomyStep, WorkersStep, SquadsDoneStep, EraseTasksStep,
     ProduceNothingStep
<1>3. CASE \E w \in Worker : \/ HandleError(w) \/ NewStructure(w) \/ NewWorker(w)
                             \/ WorkerGone(w) \/ OpeningActs(w) \/ LendWorker(w)
  BY <1>3, HandleErrorStep, NewStructureStep, NewWorkerStep, WorkerGoneStep,
     OpeningActsStep, LendWorkerStep
<1>4. CASE \E p \in Site : StructureCompletes(p) \/ StructureGone(p) \/ OtherBuildingGone(p)
  BY <1>4, StructureCompletesStep, StructureGoneStep, OtherBuildingGoneStep
<1>5. CASE \E S \in SUBSET Worker : BaseGone(S)
  BY <1>5, BaseGoneStep
<1>6. CASE \E s \in Id : StartMoving(s) \/ OrderBuilding(s) \/ Wait(s) \/ EndOrder(s)
  BY <1>6, StartMovingStep, OrderBuildingStep, WaitStep, EndOrderStep
<1>7. CASE \E p \in Plan, w \in Worker : ProduceBuilding(p, w)
  BY <1>7, ProduceBuildingStep
<1> QED BY <1>1, <1>2, <1>3, <1>4, <1>5, <1>6, <1>7 DEF Next

THEOREM Invariance == Spec => []IInv
<1> QED BY InitInvariant, NextInvariant, PTL DEF Spec

(* Every variable keeps its type. *)
THEOREM TypeCorrect == Spec => []TypeOK
<1>1. IInv => TypeOK
  BY DEF IInv
<1> QED BY <1>1, Invariance, PTL

(* No BuildingOrder that can still be stepped points to a destroyed task:  *)
(* BuildingManager destroys only what every squad has already let go.      *)
THEOREM OrdersHaveTasks == Spec => []NoDanglingTask
<1>1. IInv => NoDanglingTask
  BY DEF IInv
<1> QED BY <1>1, Invariance, PTL

(* A task that is still to be started or ordered has its worker, alone, in *)
(* its squad: the unchecked begin() of BuildingOrder::onStep is safe.      *)
THEOREM BuildersStay == Spec => []BuilderPresent
<1>1. IInv => BuilderPresent
  <2> SUFFICES ASSUME IInv, NEW i \in Id, status[i] \in Open
               PROVE  /\ i \in squads /\ ~ended[i] /\ member[i] = {worker[i]}
                      /\ worker[i] \notin unassigned \cup mining \cup gas \cup lent
                      /\ \A s \in squads \ {i} : worker[i] \notin member[s]
    BY DEF BuilderPresent
  <2>1. i \in squads /\ ~ended[i] /\ member[i] = {worker[i]}
    BY DEF IInv, OpenTaskHasSquad
  <2> QED BY <2>1 DEF IInv, TypeOK, OneSquadPerUnit, Apart
<1> QED BY <1>1, Invariance, PTL

(* The search of BuildingManager for a worker's task finds one at most. *)
THEOREM OneTaskEach == Spec => []OneTaskPerWorker
<1>1. IInv => OneTaskPerWorker
  BY DEF IInv, OneTaskPerWorker, OpenTaskHasSquad, OneSquadPerUnit, Apart
<1> QED BY <1>1, Invariance, PTL

(* BuildingManager::onFrame never reads a building that is gone. *)
THEOREM BuildingsStay == Spec => []BuildingPresent
<1>1. IInv => BuildingPresent
  BY DEF IInv
<1> QED BY <1>1, Invariance, PTL

-----------------------------------------------------------------------------
(* The refinement: a step of the frame is a step of BuildRequests, or      *)
(* changes nothing for those who count the tasks.                          *)
LEMMA InitRefines == Init => Requests!Init
BY DEF Init, Requests!Init, Stage, Builder, Open, Pending, Id

\* What does not touch the tasks does not touch the requests.
LEMMA Invisible ==
  ASSUME UNCHANGED <<status, worker, nextId>>
  PROVE  UNCHANGED Requests!vars
BY DEF Requests!vars, Stage, Builder

\* Neither does a step within the open states.
LEMMA StillOpen ==
  ASSUME NEW s \in Id, status \in [Id -> Status], status[s] \in Open, NEW t \in Open,
         status' = [status EXCEPT ![s] = t], UNCHANGED <<worker, nextId>>
  PROVE  UNCHANGED Requests!vars
<1>1. \A i \in Id : status'[i] \in Open <=> status[i] \in Open
  OBVIOUS
<1>2. \A i \in Id : status'[i] \notin Open => status'[i] = status[i]
  OBVIOUS
<1>3. Stage' = Stage
  BY <1>1, <1>2 DEF Stage, Open, Pending
<1>4. Builder' = Builder
  BY <1>1 DEF Builder
<1> QED BY <1>3, <1>4 DEF Requests!vars

\* Open tasks that leave the open states together, for one and the same stage.
LEMMA Leaving ==
  ASSUME IInv, NEW S \in SUBSET Id, \A i \in S : status[i] \in Open,
         NEW st \in {"IN_PROGRESS", "FAILED"},
         status' = [i \in Id |-> IF i \in S THEN st ELSE status[i]],
         \A i \in Id \ S : worker'[i] = worker[i],
         UNCHANGED nextId
  PROVE  \/ UNCHANGED Requests!vars
         \/ st = "IN_PROGRESS" /\ Requests!Place(S)
         \/ st = "FAILED" /\ Requests!Abandon(S)
<1> DEFINE to == IF st = "FAILED" THEN "over" ELSE "constructing"
<1>1. Stage' = [i \in Id |-> IF i \in S THEN to ELSE Stage[i]]
  BY DEF Stage, Open, Pending, IInv, TypeOK
<1>2. Builder' = [i \in Id |-> IF i \in S THEN None ELSE Builder[i]]
  BY DEF Builder, Open, Pending
<1>3. \A i \in S : Stage[i] = "ordered"
  BY DEF Stage, Open, Pending
<1>4. CASE S = {}
  BY <1>1, <1>2, <1>4 DEF Requests!vars, Stage, Builder
<1>5. CASE S # {}
  BY <1>1, <1>2, <1>3, <1>5 DEF Requests!Place, Requests!Abandon, Requests!Move
<1> QED BY <1>4, <1>5

\* Tasks whose building is complete or destroyed.
LEMMA Closing ==
  ASSUME IInv, NEW S \in SUBSET Id, \A i \in S : status[i] = "IN_PROGRESS",
         status' \in [Id -> Status],
         \A i \in S : status'[i] \in {"FAILED", "ABSENT"},
         \A i \in Id \ S : \/ status'[i] = status[i]
                           \/ status[i] = "FAILED" /\ status'[i] = "ABSENT",
         \A i \in Id : status[i] \in Open => worker'[i] = worker[i],
         UNCHANGED nextId
  PROVE  UNCHANGED Requests!vars \/ Requests!Close(S)
<1>1. Stage' = [i \in Id |-> IF i \in S THEN "over" ELSE Stage[i]]
  <2>1. \A i \in Id : (status[i] = "FAILED" => ~(i >= nextId)) /\ (i \in S => ~(i >= nextId))
    BY DEF IInv, KnownIds, TypeOK, Id
  <2> QED BY <2>1 DEF Stage, Open, Pending, IInv, TypeOK
<1>2. Builder' = [i \in Id |-> IF i \in S THEN None ELSE Builder[i]]
  BY DEF Builder, Open, Pending
<1>3. \A i \in S : Stage[i] = "constructing"
  BY DEF Stage, Open, Pending
<1>4. CASE S = {}
  BY <1>1, <1>2, <1>4 DEF Requests!vars, Stage, Builder
<1>5. CASE S # {}
  BY <1>1, <1>2, <1>3, <1>5 DEF Requests!Close, Requests!Move
<1> QED BY <1>4, <1>5

LEMMA RequestRefines ==
  ASSUME IInv, NEW p \in Plan, NEW w \in Worker, ProduceBuilding(p, w)
  PROVE  Requests!Request(nextId, w)
<1> USE DEF ProduceBuilding
<1>1. status[nextId] = "ABSENT" /\ nextId \in Id /\ nextId \in Nat
  BY DEF IInv, KnownIds, TypeOK, Id
<1>2. Stage[nextId] = "none"
  BY <1>1 DEF Stage, Open, Pending
<1>3. \A j \in Id : Builder[j] # w
  BY ConstantsAssumption DEF Builder, IInv, OpenTaskHasSquad, OneSquadPerUnit, Apart, TypeOK
<1>4. Stage' = [Stage EXCEPT ![nextId] = "ordered"]
  <2>1. \A i \in Id \ {nextId} : i >= nextId' <=> i >= nextId
    BY <1>1 DEF Id
  <2>2. \A i \in Id \ {nextId} : status'[i] = status[i]
    BY DEF IInv, TypeOK
  <2>3. status'[nextId] = "NEW"
    BY <1>1 DEF IInv, TypeOK
  <2> HIDE DEF ProduceBuilding
  <2> QED BY <1>1, <2>1, <2>2, <2>3 DEF Stage, Open, Pending
<1>5. Builder' = [Builder EXCEPT ![nextId] = w]
  BY <1>1 DEF Builder, Open, Pending, IInv, TypeOK
<1> QED BY <1>2, <1>3, <1>4, <1>5 DEF Requests!Request

LEMMA NextRefines == IInv /\ [Next]_vars => [Requests!Next]_Requests!vars
<1> SUFFICES ASSUME IInv, [Next]_vars
             PROVE  Requests!Next \/ UNCHANGED Requests!vars
  OBVIOUS
<1> USE DEF taskVars
<1>1. CASE UNCHANGED vars
  BY <1>1, Invisible DEF vars
<1>2. CASE Advance \/ Economy \/ Workers \/ SquadsDone \/ ProduceNothing
  BY <1>2, Invisible DEF Advance, Economy, Workers, SquadsDone, ProduceNothing
<1>3. CASE EraseTasks
  <2> DEFINE S == {i \in Finished : status[i] = "IN_PROGRESS"}
  <2>1. UNCHANGED Requests!vars \/ Requests!Close(S)
    BY <1>3, Closing DEF EraseTasks, Finished, IInv, TypeOK, Status, Open, Pending
  <2> QED BY <2>1 DEF Requests!Next, Finished
<1>4. ASSUME NEW w \in Worker, HandleError(w)
      PROVE  Requests!Next \/ UNCHANGED Requests!vars
  BY <1>4, Leaving DEF HandleError, Failing, Requests!Next
<1>5. ASSUME NEW w \in Worker, NewStructure(w)
      PROVE  Requests!Next \/ UNCHANGED Requests!vars
  BY <1>5, Leaving DEF NewStructure, Matching, Open, Requests!Next
<1>6. ASSUME NEW w \in Worker, WorkerGone(w)
      PROVE  Requests!Next \/ UNCHANGED Requests!vars
  BY <1>6, Leaving DEF WorkerGone, OpenTasksOf, Requests!Next
<1>7. ASSUME NEW w \in Worker, NewWorker(w) \/ OpeningActs(w) \/ LendWorker(w)
      PROVE  UNCHANGED Requests!vars
  BY <1>7, Invisible DEF NewWorker, OpeningActs, LendWorker
<1>8. ASSUME NEW p \in Site, StructureGone(p)
      PROVE  Requests!Next \/ UNCHANGED Requests!vars
  <2> DEFINE S == Dying(p)
  <2>1. UNCHANGED Requests!vars \/ Requests!Close(S)
    BY <1>8, Closing DEF StructureGone, Dying, IInv, TypeOK, Status
  <2> QED BY <2>1 DEF Requests!Next, Dying
<1>9. ASSUME NEW p \in Site, StructureCompletes(p) \/ OtherBuildingGone(p)
      PROVE  UNCHANGED Requests!vars
  BY <1>9, Invisible DEF StructureCompletes, OtherBuildingGone
<1>10. ASSUME NEW S \in SUBSET Worker, BaseGone(S)
       PROVE  UNCHANGED Requests!vars
  BY <1>10, Invisible DEF BaseGone
<1>11. ASSUME NEW s \in Id, StartMoving(s) \/ OrderBuilding(s)
       PROVE  UNCHANGED Requests!vars
  BY <1>11, StillOpen DEF StartMoving, OrderBuilding, IInv, TypeOK, Open, Pending
<1>12. ASSUME NEW s \in Id, Wait(s) \/ EndOrder(s)
       PROVE  UNCHANGED Requests!vars
  BY <1>12, Invisible DEF Wait, EndOrder
<1>13. ASSUME NEW p \in Plan, NEW w \in Worker, ProduceBuilding(p, w)
       PROVE  Requests!Next
  BY <1>13, RequestRefines DEF Requests!Next, ProduceBuilding
<1> QED BY <1>1, <1>2, <1>3, <1>4, <1>5, <1>6, <1>7, <1>8, <1>9, <1>10, <1>11, <1>12,
           <1>13 DEF Next

(* The task list implements BuildRequests: getBuildingCount never counts a *)
(* request twice or after its end, and an ordered one has its own builder. *)
THEOREM Refinement == Spec => RequestsKept
<1> QED BY InitRefines, NextRefines, Invariance, PTL DEF Spec, RequestsKept, Requests!Spec

-----------------------------------------------------------------------------
(* Before the first gas: the price list asks for minerals for everything,  *)
(* no observation reports vespene and nothing on the way brings any.       *)
NoVespene ==
  /\ \A t \in Type : Mineral[t] >= 1
  /\ \A b \in Bank \cup Income : b.vespene = 0

\* A pending task covers its own minerals on the vespene counter.
VespeneBlocked ==
  /\ bank.vespene <= 0 /\ reserved.vespene >= 0
  /\ \A i \in PendingTasks : reserved.vespene >= Booked(plan[i].type).vespene
  /\ OnePendingWithoutGas

LEMMA BlockedInit == NoVespene /\ Init => VespeneBlocked
BY ConstantsAssumption
   DEF NoVespene, Init, VespeneBlocked, OnePendingWithoutGas, PendingTasks, Pending

LEMMA BlockedNext == NoVespene /\ IInv /\ VespeneBlocked /\ [Next]_vars => VespeneBlocked'
<1> SUFFICES ASSUME NoVespene, IInv, VespeneBlocked, [Next]_vars
             PROVE  VespeneBlocked'
  OBVIOUS
<1> USE DEF taskVars, VespeneBlocked, OnePendingWithoutGas, PendingTasks, Pending
<1>1. CASE UNCHANGED vars
  BY <1>1 DEF vars
<1>2. CASE Advance \/ Workers \/ SquadsDone \/ ProduceNothing
  BY <1>2 DEF Advance, Workers, SquadsDone, ProduceNothing
<1>3. CASE Economy
  BY <1>3, ConstantsAssumption DEF Economy, NoVespene
<1>4. CASE EraseTasks
  BY <1>4 DEF EraseTasks, Finished
<1>5. ASSUME NEW w \in Worker, HandleError(w)
      PROVE  VespeneBlocked'
  BY <1>5 DEF HandleError
<1>6. ASSUME NEW w \in Worker, NewStructure(w)
      PROVE  VespeneBlocked'
  BY <1>6 DEF NewStructure, Matching
<1>7. ASSUME NEW w \in Worker, WorkerGone(w)
      PROVE  VespeneBlocked'
  <2> DEFINE S == {i \in OpenTasksOf(w) : status[i] \in Pending}
  <2>1. CASE S = {}
    BY <1>7, <2>1 DEF WorkerGone, Refund, OpenTasksOf, Open
  <2>2. CASE S # {}
    <3>1. PICK i \in PendingTasks : S = {i} /\ PendingTasks = {i}
      BY <2>2 DEF OpenTasksOf
    <3>2. Refund(S) = Minus(reserved, Booked(plan[i].type))
      BY <3>1 DEF Refund
    <3>3. reserved'.vespene = reserved.vespene - Booked(plan[i].type).vespene
      BY <1>7, <3>2 DEF WorkerGone, Minus
    <3>4. reserved'.vespene >= 0
      BY <3>1, <3>3, BookedType DEF IInv, TypeOK, Resources, KnownIds
    <3>5. PendingTasks' = {}
      BY <1>7, <3>1 DEF WorkerGone, OpenTasksOf, Open
    <3> QED BY <1>7, <3>4, <3>5 DEF WorkerGone
  <2> QED BY <2>1, <2>2
<1>8. ASSUME NEW w \in Worker, NewWorker(w) \/ LendWorker(w)
      PROVE  VespeneBlocked'
  BY <1>8 DEF NewWorker, LendWorker
<1>9. ASSUME NEW w \in Worker, OpeningActs(w)
      PROVE  VespeneBlocked'
  <2>1. reserved'.vespene = reserved.vespene
    BY <1>9 DEF OpeningActs, IInv, TypeOK, Resources
  <2>2. bank'.vespene <= 0
    BY <1>9, ConstantsAssumption DEF OpeningActs, IInv, TypeOK, Resources, Minus, Booked
  <2> QED BY <1>9, <2>1, <2>2 DEF OpeningActs
<1>10. ASSUME NEW p \in Site, StructureGone(p)
       PROVE  VespeneBlocked'
  BY <1>10 DEF StructureGone, Dying
<1>11. ASSUME NEW p \in Site, StructureCompletes(p) \/ OtherBuildingGone(p)
       PROVE  VespeneBlocked'
  BY <1>11 DEF StructureCompletes, OtherBuildingGone
<1>12. ASSUME NEW S \in SUBSET Worker, BaseGone(S)
       PROVE  VespeneBlocked'
  BY <1>12 DEF BaseGone
<1>13. ASSUME NEW s \in Id, StartMoving(s) \/ Wait(s) \/ EndOrder(s)
       PROVE  VespeneBlocked'
  BY <1>13 DEF StartMoving, Wait, EndOrder, IInv, TypeOK
<1>14. ASSUME NEW s \in Id, OrderBuilding(s)
       PROVE  VespeneBlocked'
  <2>1. s \in PendingTasks /\ plan[s] \in Plan
    BY <1>14 DEF OrderBuilding, IInv, KnownIds
  <2>2. /\ reserved'.vespene = reserved.vespene - Booked(plan[s].type).vespene
        /\ bank'.vespene = bank.vespene - Booked(plan[s].type).vespene
    BY <1>14 DEF OrderBuilding, Minus
  <2>3. Booked(plan[s].type).vespene \in Nat
    BY <2>1, ConstantsAssumption DEF Booked
  <2>4. reserved'.vespene >= 0 /\ bank'.vespene <= 0
    BY <2>1, <2>2, <2>3 DEF IInv, TypeOK, Resources
  <2>5. PendingTasks' = {}
    BY <1>14, <2>1 DEF OrderBuilding, IInv, TypeOK
  <2> QED BY <2>4, <2>5
<1>15. ASSUME NEW p \in Plan, NEW w \in Worker, ProduceBuilding(p, w)
       PROVE  VespeneBlocked'
  <2>1. PICK income \in Income : Available(income).vespene >= Gas[p.type]
    BY <1>15 DEF ProduceBuilding
  <2>2. reserved.vespene = 0
    <3>1. Available(income).vespene = bank.vespene - reserved.vespene + income.vespene
      BY DEF Available, Plus, Minus
    <3>2. Gas[p.type] \in Nat /\ income.vespene = 0
      BY ConstantsAssumption DEF NoVespene
    <3>3. bank.vespene \in Int /\ reserved.vespene \in Int
      BY DEF IInv, TypeOK, Resources
    <3> QED BY <2>1, <3>1, <3>2, <3>3
  <2>3. PendingTasks = {}
    BY <2>2, ConstantsAssumption DEF NoVespene, Booked, IInv, KnownIds
  <2>4. nextId \in Id
    BY <1>15 DEF ProduceBuilding
  <2>5. PendingTasks' = {nextId} /\ plan'[nextId] = p
    BY <1>15, <2>3, <2>4 DEF ProduceBuilding, IInv, TypeOK
  <2>6. Booked(p.type).vespene \in Nat
    BY ConstantsAssumption DEF Booked
  <2>7. reserved'.vespene = Booked(p.type).vespene /\ bank' = bank
    BY <1>15, <2>2, <2>6 DEF ProduceBuilding, Plus
  <2> QED BY <2>5, <2>6, <2>7
<1> QED BY <1>1, <1>2, <1>3, <1>4, <1>5, <1>6, <1>7, <1>8, <1>9, <1>10, <1>11, <1>12,
           <1>13, <1>14, <1>15 DEF Next

(* Without vespene at most one building task waits for its resources,      *)
(* however cheap the others are.                                           *)
THEOREM OnePending == ASSUME NoVespene PROVE Spec => []OnePendingWithoutGas
<1>1. Init => VespeneBlocked
  BY NoVespene, BlockedInit
<1>2. IInv /\ VespeneBlocked /\ [Next]_vars => VespeneBlocked'
  BY NoVespene, BlockedNext
<1>3. VespeneBlocked => OnePendingWithoutGas
  BY DEF VespeneBlocked
<1> QED BY <1>1, <1>2, <1>3, Invariance, PTL DEF Spec
=============================================================================
