----------------------------- MODULE BuildTasks -----------------------------
(***************************************************************************)
(* The life of a building task: MacroManager::produceBuilding creates it,  *)
(* a builder squad with a BuildingOrder carries it out, BuildingManager    *)
(* reacts to the game's errors, new units and lost units, and              *)
(* EconomyManager keeps the resources that are set aside for it.           *)
(*                                                                         *)
(* CCBot::OnStep runs once per game observation on one thread; the steps   *)
(* of a frame are the values of phase, in the order the code makes them:   *)
(*    errors     CCBot::handleErrors                                       *)
(*    new        UnitInfoManager::updateUnits, units seen the first time   *)
(*    gone       UnitInfoManager::updateUnits, units that are missing      *)
(*    economy    EconomyManager::onFrame                                   *)
(*    workers    WorkerManager::onFrame                                    *)
(*    squads     SquadManager::onFrame, one order after the other          *)
(*    buildings  BuildingManager::onFrame                                  *)
(*    macro      GameCommander::onFrame: the macro manager, the modules    *)
(* What the game does between two observations (it accepts or rejects a    *)
(* build command, a unit dies) is folded into the step that learns of it.  *)
(***************************************************************************)
EXTENDS Integers, FiniteSets, FiniteSetsExt

CONSTANTS
  Worker,        \* the probes' tags
  Site,          \* the positions the location search can return
  Type,          \* the building types asked for
  Plan,          \* what the location search can come up with: a type on a site
  Refinery,      \* the types that are built on a geyser
  Unreserved,    \* the types whose location search ignores the reserve map
  Mineral, Gas,  \* what a type costs
  Bank,          \* the resources an observation may report
  Income,        \* the resources a builder's walk may be expected to bring in
  MaxTask,       \* bound: the tasks one behaviour creates
  MaxLent,       \* bound: what the opening's orders set aside and never give back
  Opening,       \* is the cannon opening, which builds with probes of its own, played
  StaleCommands, \* may a probe that returned to mining keep its build command
  None

Id == 1..MaxTask
Resources == [minerals : Int, vespene : Int]

ASSUME ConstantsAssumption ==
  /\ Refinery \subseteq Type /\ Unreserved \subseteq Type
  /\ Mineral \in [Type -> Nat] /\ Gas \in [Type -> Nat]
  /\ Bank \subseteq [minerals : Nat, vespene : Nat]
  /\ Income \subseteq [minerals : Nat, vespene : Nat]
  /\ Plan \subseteq [type : Type, site : Site]
  /\ MaxTask \in Nat /\ MaxLent \in Nat
  /\ Opening \in BOOLEAN /\ StaleCommands \in BOOLEAN
  /\ None \notin Worker \cup Site \cup Plan

VARIABLES
  phase,
  \* BuildingManager: the tasks by id, "ABSENT" before newTask and after the erasure
  status, plan, worker, building,
  nextId,
  \* SquadManager and WorkerManager: the builder squad of task i has number i
  squads, member, ended, todo,
  unassigned, mining, gas, lent,
  \* EconomyManager
  bank, reserved,
  \* BuildingPlacer's reserve map
  tiles,
  \* the game: what stands on a site, and the build command a probe is carrying out
  built, cmd

taskVars  == <<status, plan, worker, building>>
squadVars == <<squads, member, ended>>
lineVars  == <<unassigned, mining, gas, lent>>
gameVars  == <<built, cmd>>
vars == <<phase, taskVars, nextId, squadVars, todo, lineVars, bank, reserved,
          tiles, gameVars>>

Pending == {"NEW", "SCHEDULED"}     \* its resources are set aside
Open    == Pending \cup {"ORDERED"} \* its worker is on the way
Status  == Open \cup {"IN_PROGRESS", "FAILED", "ABSENT"}
Phase   == {"errors", "new", "gone", "economy", "workers", "squads",
            "buildings", "macro"}

Registered == unassigned \cup mining \cup gas \cup lent
                \cup UNION {member[s] : s \in squads}

-----------------------------------------------------------------------------
(* The operators whose names end in _Mutant are variations of the           *)
(* definition that follows them; no behaviour of the specification uses    *)
(* them.                                                                   *)

(* The two switches of EconomyManager have no break: an amount of minerals *)
(* is booked on the vespene counter as well.                               *)
Booked_Mutant(t) == [minerals |-> Mineral[t], vespene |-> Gas[t]] \* with breaks

Booked(t) == [minerals |-> Mineral[t], vespene |-> Mineral[t] + Gas[t]]

Plus(r, b)  == [minerals |-> r.minerals + b.minerals, vespene |-> r.vespene + b.vespene]
Minus(r, b) == [minerals |-> r.minerals - b.minerals, vespene |-> r.vespene - b.vespene]

(* EconomyManager::getResource against the price of a type. *)
Affordable(t) == Mineral[t] <= bank.minerals /\ Gas[t] <= bank.vespene

(* EconomyManager::getAvailableResources, with what comes in on the way. *)
Available(income) == Plus(Minus(bank, reserved), income)

(* workerDied for every open task of w. A worker has at most one (theorem  *)
(* OneTaskPerWorker), so the refund is that task's.                        *)
OpenTasksOf_Mutant(w) == {i \in Id : status[i] \in Pending /\ worker[i] = w}

OpenTasksOf(w) == {i \in Id : status[i] \in Open /\ worker[i] = w}

Refund_Mutant(S) == \* the minerals only
  IF S = {} THEN reserved
  ELSE [reserved EXCEPT !.minerals = @ - Mineral[plan[CHOOSE i \in S : TRUE].type]]

Refund(S) ==
  IF S = {} THEN reserved
  ELSE Minus(reserved, Booked(plan[CHOOSE i \in S : TRUE].type))

-----------------------------------------------------------------------------
Init ==
  /\ phase = "macro"
  /\ status = [i \in Id |-> "ABSENT"]
  /\ plan = [i \in Id |-> None]
  /\ worker = [i \in Id |-> None]
  /\ building = [i \in Id |-> None]
  /\ nextId = 1
  /\ squads = {} /\ todo = {}
  /\ member = [i \in Id |-> {}]
  /\ ended = [i \in Id |-> FALSE]
  /\ mining = Worker
  /\ unassigned = {} /\ gas = {} /\ lent = {}
  /\ bank \in Bank
  /\ reserved = [minerals |-> 0, vespene |-> 0]
  /\ tiles = {}
  /\ built = [p \in Site |-> "empty"]
  /\ cmd = [w \in Worker |-> None]

Goto(from, to) == phase = from /\ phase' = to

Advance ==
  /\ \/ Goto("errors", "new")
     \/ Goto("new", "gone")
     \/ Goto("gone", "economy")
  /\ UNCHANGED <<taskVars, nextId, squadVars, todo, lineVars, bank, reserved,
                 tiles, gameVars>>

(* BuildingManager::handleError: the game has rejected the command of w.   *)
(* placementFailure gives nothing back; the tiles are free again.          *)
Failing_Mutant(w) == {i \in Id : /\ status[i] \in Pending
                                 /\ worker[i] = w
                                 /\ plan[i].type = cmd[w].type}

Failing(w) == {i \in Id : /\ status[i] \in Open
                          /\ worker[i] = w
                          /\ plan[i].type = cmd[w].type}

HandleError_Mutant(w) == \* gives the price back
  /\ phase = "errors"
  /\ cmd[w] # None
  /\ status' = [i \in Id |-> IF i \in Failing(w) THEN "FAILED" ELSE status[i]]
  /\ reserved' = Refund(Failing(w))
  /\ tiles' = tiles \ {plan[i].site : i \in Failing(w)}
  /\ cmd' = [cmd EXCEPT ![w] = None]
  /\ UNCHANGED <<phase, plan, worker, building, nextId, squadVars, todo, lineVars,
                 bank, built>>

HandleError(w) ==
  /\ phase = "errors"
  /\ cmd[w] # None
  /\ status' = [i \in Id |-> IF i \in Failing(w) THEN "FAILED" ELSE status[i]]
  /\ tiles' = tiles \ {plan[i].site : i \in Failing(w)}
  /\ cmd' = [cmd EXCEPT ![w] = None]
  /\ UNCHANGED <<phase, plan, worker, building, nextId, squadVars, todo, lineVars,
                 bank, reserved, built>>

(* BuildingManager::newUnitCallback: the structure that w was sent to      *)
(* build stands. Every ordered task of that type and position takes it.    *)
Matching_Mutant(p) == {i \in Id : status[i] # "ABSENT" /\ plan[i] = p}

Matching(p) == {i \in Id : status[i] = "ORDERED" /\ plan[i] = p}

NewStructure_Mutant(w) == \* buildingPlaced is told the builder, not the building
  /\ phase = "new"
  /\ cmd[w] # None
  /\ built[cmd[w].site] = "empty"
  /\ built' = [built EXCEPT ![cmd[w].site] = "rising"]
  /\ cmd' = [cmd EXCEPT ![w] = None]
  /\ status' = [i \in Id |-> IF i \in Matching(cmd[w]) THEN "IN_PROGRESS" ELSE status[i]]
  /\ building' = [i \in Id |-> IF i \in Matching(cmd[w]) THEN w ELSE building[i]]
  /\ worker' = [i \in Id |-> IF i \in Matching(cmd[w]) THEN None ELSE worker[i]]
  /\ UNCHANGED <<phase, plan, nextId, squadVars, todo, lineVars, bank, reserved, tiles>>

NewStructure(w) ==
  /\ phase = "new"
  /\ cmd[w] # None
  /\ built[cmd[w].site] = "empty"
  /\ built' = [built EXCEPT ![cmd[w].site] = "rising"]
  /\ cmd' = [cmd EXCEPT ![w] = None]
  /\ status' = [i \in Id |-> IF i \in Matching(cmd[w]) THEN "IN_PROGRESS" ELSE status[i]]
  /\ building' = [i \in Id |-> IF i \in Matching(cmd[w]) THEN cmd[w].site ELSE building[i]]
  /\ worker' = [i \in Id |-> IF i \in Matching(cmd[w]) THEN None ELSE worker[i]]
  /\ UNCHANGED <<phase, plan, nextId, squadVars, todo, lineVars, bank, reserved, tiles>>

(* The observation shows a structure as completed: Unit::isCompleted. *)
StructureCompletes(p) ==
  /\ phase = "new"
  /\ built[p] = "rising"
  /\ built' = [built EXCEPT ![p] = "complete"]
  /\ UNCHANGED <<phase, taskVars, nextId, squadVars, todo, lineVars, bank, reserved,
                 tiles, cmd>>

(* SquadManager::addUnitCallback: a new probe starts in the unassigned squad. *)
NewWorker(w) ==
  /\ phase = "new"
  /\ w \notin Registered
  /\ unassigned' = unassigned \cup {w}
  /\ UNCHANGED <<phase, taskVars, nextId, squadVars, todo, mining, gas, lent, bank,
                 reserved, tiles, gameVars>>

(* A probe is dead. SquadManager::removeUnitCallback takes it out of its   *)
(* squad, then BuildingManager::unitDisappearedCallback fails its task and *)
(* workerDied gives back what is still set aside. The tiles stay reserved. *)
WorkerGone(w) ==
  /\ phase = "gone"
  /\ w \in Registered
  /\ unassigned' = unassigned \ {w}
  /\ mining' = mining \ {w}
  /\ gas' = gas \ {w}
  /\ lent' = lent \ {w}
  /\ member' = [s \in Id |-> member[s] \ {w}]
  /\ reserved' = Refund({i \in OpenTasksOf(w) : status[i] \in Pending})
  /\ status' = [i \in Id |-> IF i \in OpenTasksOf(w) THEN "FAILED" ELSE status[i]]
  /\ worker' = [i \in Id |-> IF i \in OpenTasksOf(w) THEN None ELSE worker[i]]
  /\ cmd' = [cmd EXCEPT ![w] = None]
  /\ UNCHANGED <<phase, plan, building, nextId, squads, ended, todo, bank, tiles, built>>

(* One of our structures is destroyed: buildingDied, and                   *)
(* BuildingPlacer::unitDisappearedCallback frees the tiles under it.       *)
Dying_Mutant(p) == \* the search stops at the first task
  LET D == {i \in Id : status[i] = "IN_PROGRESS" /\ building[i] = p}
  IN {i \in D : \A j \in D : i <= j}

Dying(p) == {i \in Id : status[i] = "IN_PROGRESS" /\ building[i] = p}

StructureGone(p) ==
  /\ phase = "gone"
  /\ built[p] # "empty"
  /\ built' = [built EXCEPT ![p] = "empty"]
  /\ status' = [i \in Id |-> IF i \in Dying(p) THEN "FAILED" ELSE status[i]]
  /\ building' = [i \in Id |-> IF i \in Dying(p) THEN None ELSE building[i]]
  /\ tiles' = tiles \ {p}
  /\ UNCHANGED <<phase, plan, worker, nextId, squadVars, todo, lineVars, bank, reserved,
                 cmd>>

(* A building of another player disappears: BuildingPlacer frees the tiles *)
(* of any building, ours or not.                                           *)
OtherBuildingGone(p) ==
  /\ phase = "gone"
  /\ p \in tiles
  /\ tiles' = tiles \ {p}
  /\ UNCHANGED <<phase, taskVars, nextId, squadVars, todo, lineVars, bank, reserved,
                 gameVars>>

(* The nexus of the workers in S falls: Base::onDestroyed deforms its two lines. *)
BaseGone(S) ==
  /\ phase = "gone"
  /\ S # {} /\ S \subseteq mining \cup gas
  /\ mining' = mining \ S
  /\ gas' = gas \ S
  /\ unassigned' = unassigned \cup S
  /\ UNCHANGED <<phase, taskVars, nextId, squadVars, todo, lent, bank, reserved, tiles,
                 gameVars>>

-----------------------------------------------------------------------------
(* EconomyManager::onFrame forgets what was spent in the last frame. *)
Economy ==
  /\ Goto("economy", "workers")
  /\ bank' \in Bank
  /\ UNCHANGED <<taskVars, nextId, squadVars, todo, lineVars, reserved, tiles, gameVars>>

(* WorkerManager::onFrame: deform the squads whose order has ended; if any *)
(* base is complete, every probe without a squad joins a line. The line's  *)
(* order commands it at once, unless that order has ended itself: then the *)
(* probe keeps its command.                                                *)
Completed_Mutant == {s \in squads : ended[s] /\ member[s] # {}} \* skips empty squads

Completed == {s \in squads : ended[s]}

FreeUnits_Mutant(back) == unassigned \cup back \cup UNION {member[s] : s \in squads}

FreeUnits(back) == unassigned \cup back \cup UNION {member[s] : s \in Completed}

AssignFreeUnits(free) ==
  \/ /\ unassigned' = {}
     /\ mining' \in SUBSET (mining \cup gas \cup free)
     /\ gas' = (mining \cup gas \cup free) \ mining'
     /\ \E keep \in SUBSET (IF StaleCommands THEN free ELSE {}) :
          cmd' = [w \in Worker |-> IF w \in free \ keep THEN None ELSE cmd[w]]
  \/ /\ mining = {} /\ gas = {} \* no completed base
     /\ unassigned' = free
     /\ UNCHANGED <<mining, gas, cmd>>

Workers ==
  /\ Goto("workers", "squads")
  /\ \E back \in SUBSET lent : /\ lent' = lent \ back
                               /\ AssignFreeUnits(FreeUnits(back))
  /\ squads' = squads \ Completed
  /\ todo' = squads \ Completed
  /\ member' = [s \in Id |-> IF s \in Completed THEN {} ELSE member[s]]
  /\ ended' = [s \in Id |-> IF s \in Completed THEN FALSE ELSE ended[s]]
  /\ UNCHANGED <<taskVars, nextId, bank, reserved, tiles, built>>

(* SquadManager::onFrame lets the squads act in the order of their ids. *)
ActsNext(s) == phase = "squads" /\ s \in todo /\ \A r \in todo : s <= r

Skips(s) == /\ ActsNext(s)
            /\ todo' = todo \ {s}

(* BuildingOrder::onStep, first branch: the builder walks to the site, and *)
(* forgets any other command.                                              *)
StartMoving(s) ==
  /\ Skips(s)
  /\ ~ended[s] /\ status[s] = "NEW"
  /\ \E w \in member[s] : cmd' = [cmd EXCEPT ![w] = None]
  /\ status' = [status EXCEPT ![s] = "SCHEDULED"]
  /\ UNCHANGED <<phase, plan, worker, building, nextId, squadVars, lineVars, bank,
                 reserved, tiles, built>>

(* Second branch: once the price is there the command is given and         *)
(* ordered() releases the reservation; a refinery needs its geyser in      *)
(* sight, so it may have to wait.                                          *)
OrderBuilding(s) ==
  /\ Skips(s)
  /\ ~ended[s] /\ status[s] = "SCHEDULED"
  /\ Affordable(plan[s].type)
  /\ \E w \in member[s] : cmd' = [cmd EXCEPT ![w] = plan[s]]
  /\ bank' = Minus(bank, Booked(plan[s].type))
  /\ reserved' = Minus(reserved, Booked(plan[s].type))
  /\ status' = [status EXCEPT ![s] = "ORDERED"]
  /\ UNCHANGED <<phase, plan, worker, building, nextId, squadVars, lineVars, tiles, built>>

Wait(s) ==
  /\ Skips(s)
  /\ \/ ended[s]
     \/ status[s] = "ORDERED"
     \/ /\ status[s] = "SCHEDULED"
        /\ ~Affordable(plan[s].type) \/ plan[s].type \in Refinery
  /\ UNCHANGED <<phase, taskVars, nextId, squadVars, lineVars, bank, reserved, tiles,
                 gameVars>>

(* The last test of onStep: the order ends with its task. *)
EndOrder(s) ==
  /\ Skips(s)
  /\ ~ended[s] /\ status[s] \in {"FAILED", "IN_PROGRESS"}
  /\ ended' = [ended EXCEPT ![s] = TRUE]
  /\ UNCHANGED <<phase, taskVars, nextId, squads, member, lineVars, bank, reserved, tiles,
                 gameVars>>

(* FirstPylonPlacementOrder::onStep: the probe of the opening sets minerals *)
(* aside (allocateWithCap), which nothing gives back, and builds on its     *)
(* own: Unit::build spends, no task knows.                                  *)
OpeningActs(w) ==
  /\ phase = "squads"
  /\ w \in lent
  /\ \E amount \in 0..MaxLent :
       /\ amount = 0 \/ amount <= bank.minerals - reserved.minerals
       /\ reserved.minerals + amount <= MaxLent
       /\ reserved' = [reserved EXCEPT !.minerals = @ + amount]
  /\ \/ UNCHANGED <<cmd, bank>>
     \/ /\ cmd[w] = None
        /\ \E p \in Plan : /\ cmd' = [cmd EXCEPT ![w] = p]
                           /\ bank' = Minus(bank, Booked(p.type))
  /\ UNCHANGED <<phase, taskVars, nextId, squadVars, todo, lineVars, tiles, built>>

SquadsDone_Mutant == \* BuildingManager::onFrame runs before all squads have acted
  /\ Goto("squads", "buildings")
  /\ UNCHANGED <<taskVars, nextId, squadVars, todo, lineVars, bank, reserved, tiles, gameVars>>

SquadsDone ==
  /\ Goto("squads", "buildings")
  /\ todo = {}
  /\ UNCHANGED <<taskVars, nextId, squadVars, todo, lineVars, bank, reserved, tiles, gameVars>>

-----------------------------------------------------------------------------
(* BuildingManager::onFrame: a task whose building is complete, and one    *)
(* that failed, is destroyed.                                              *)
Finished == {i \in Id : \/ status[i] = "FAILED"
                        \/ status[i] = "IN_PROGRESS" /\ built[building[i]] = "complete"}

EraseTasks ==
  /\ Goto("buildings", "macro")
  /\ status' = [i \in Id |-> IF i \in Finished THEN "ABSENT" ELSE status[i]]
  /\ plan' = [i \in Id |-> IF i \in Finished THEN None ELSE plan[i]]
  /\ worker' = [i \in Id |-> IF i \in Finished THEN None ELSE worker[i]]
  /\ building' = [i \in Id |-> IF i \in Finished THEN None ELSE building[i]]
  /\ UNCHANGED <<nextId, squadVars, todo, lineVars, bank, reserved, tiles, gameVars>>

(* MacroManager::produceBuilding: a free place, a probe of a mineral line  *)
(* and, by the time it arrives, the price. newTask sets the price aside.   *)
FreePlace(p) == /\ built[p.site] = "empty"
                /\ p.site \in tiles => p.type \in Unreserved

ProduceBuilding(p, w) ==
  /\ Goto("macro", "errors")
  /\ nextId \in Id
  /\ FreePlace(p)
  /\ w \in mining
  /\ \E income \in Income :
       /\ Available(income).minerals >= Mineral[p.type]
       /\ Available(income).vespene >= Gas[p.type]
  /\ tiles' = tiles \cup {p.site}
  /\ status' = [status EXCEPT ![nextId] = "NEW"]
  /\ plan' = [plan EXCEPT ![nextId] = p]
  /\ worker' = [worker EXCEPT ![nextId] = w]
  /\ reserved' = Plus(reserved, Booked(p.type))
  /\ squads' = squads \cup {nextId}
  /\ member' = [member EXCEPT ![nextId] = {w}]
  /\ mining' = mining \ {w}
  /\ nextId' = nextId + 1
  /\ UNCHANGED <<building, ended, todo, unassigned, gas, lent, bank, gameVars>>

(* Two frames of three, and whenever produceBuilding returns early. *)
ProduceNothing ==
  /\ Goto("macro", "errors")
  /\ UNCHANGED <<taskVars, nextId, squadVars, todo, lineVars, bank, reserved, tiles, gameVars>>

(* CannonStartModule and ScoutModule take probes with WorkerManager::formSquad. *)
LendWorker(w) ==
  /\ Goto("macro", "errors")
  /\ Opening
  /\ w \in mining
  /\ mining' = mining \ {w}
  /\ lent' = lent \cup {w}
  /\ UNCHANGED <<taskVars, nextId, squadVars, todo, unassigned, gas, bank, reserved, tiles,
                 gameVars>>

Next ==
  \/ Advance \/ Economy \/ Workers \/ SquadsDone \/ EraseTasks \/ ProduceNothing
  \/ \E w \in Worker : \/ HandleError(w) \/ NewStructure(w) \/ NewWorker(w)
                       \/ WorkerGone(w) \/ OpeningActs(w) \/ LendWorker(w)
  \/ \E p \in Site : StructureCompletes(p) \/ StructureGone(p) \/ OtherBuildingGone(p)
  \/ \E S \in SUBSET Worker : BaseGone(S)
  \/ \E s \in Id : StartMoving(s) \/ OrderBuilding(s) \/ Wait(s) \/ EndOrder(s)
  \/ \E p \in Plan, w \in Worker : ProduceBuilding(p, w)

Spec == Init /\ [][Next]_vars

(* The frame loop never stops, and the game answers a build command: the   *)
(* structure appears or an error comes back, in some frame's step for it.  *)
Answer(w) == HandleError(w) \/ NewStructure(w)

FairSpec == Spec /\ WF_vars(Next) /\ \A w \in Worker : SF_vars(Answer(w))

-----------------------------------------------------------------------------
(* Every variable has its type. *)
TypeOK ==
  /\ phase \in Phase
  /\ status \in [Id -> Status]
  /\ plan \in [Id -> Plan \cup {None}]
  /\ worker \in [Id -> Worker \cup {None}]
  /\ building \in [Id -> Site \cup {None}]
  /\ nextId \in 1..MaxTask + 1
  /\ squads \subseteq Id /\ todo \subseteq Id
  /\ member \in [Id -> SUBSET Worker]
  /\ ended \in [Id -> BOOLEAN]
  /\ unassigned \subseteq Worker /\ mining \subseteq Worker
  /\ gas \subseteq Worker /\ lent \subseteq Worker
  /\ bank \in Resources /\ reserved \in Resources
  /\ tiles \subseteq Site
  /\ built \in [Site -> {"empty", "rising", "complete"}]
  /\ cmd \in [Worker -> Plan \cup {None}]

(* BuildingOrder holds a bare pointer to a task that BuildingManager owns  *)
(* and destroys: an order that can still be stepped has a live task.       *)
NoDanglingTask == \A s \in squads : ~ended[s] => status[s] # "ABSENT"

(* BuildingOrder::onStep takes the first unit of its squad without a look  *)
(* whether there is one: whenever a task still has to be started or        *)
(* ordered, its own worker, and nobody else, is in its squad, in no other  *)
(* one, and the order is still running.                                    *)
BuilderPresent ==
  \A i \in Id : status[i] \in Open =>
    /\ i \in squads /\ ~ended[i] /\ member[i] = {worker[i]}
    /\ worker[i] \notin unassigned \cup mining \cup gas \cup lent
    /\ \A s \in squads \ {i} : worker[i] \notin member[s]

(* BuildingManager::onFrame reads the building of a task in progress: that *)
(* building is still there, whatever died since it was placed.             *)
BuildingPresent ==
  \A i \in Id : status[i] = "IN_PROGRESS" =>
    building[i] \in Site /\ built[building[i]] # "empty"

(* What is set aside is exactly the price of the tasks that have not been  *)
(* ordered yet, however each of them ends.                                 *)
PendingTasks == {i \in Id : status[i] \in Pending}

LedgerExact ==
  /\ reserved.minerals = SumFunction([i \in PendingTasks |-> Booked(plan[i].type).minerals])
  /\ reserved.vespene = SumFunction([i \in PendingTasks |-> Booked(plan[i].type).vespene])

(* With late errors and the opening's own reservations more may be set     *)
(* aside than the pending tasks cost, but never less: no price is given    *)
(* back twice.                                                             *)
LedgerCovers ==
  /\ reserved.minerals >= SumFunction([i \in PendingTasks |-> Booked(plan[i].type).minerals])
  /\ reserved.vespene >= SumFunction([i \in PendingTasks |-> Booked(plan[i].type).vespene])

(* As long as no vespene is mined, minerals that are booked on the vespene *)
(* counter make every further request look too dear: at most one task at a *)
(* time is waiting for its resources.                                      *)
OnePendingWithoutGas == \A i, j \in PendingTasks : i = j

-----------------------------------------------------------------------------
(* What UnitInfoManager::getBuildingCount makes of the tasks.              *)
Stage == [i \in Id |->
  CASE status[i] \in Open -> "ordered"
    [] status[i] = "IN_PROGRESS" -> "constructing"
    [] status[i] = "ABSENT" /\ i >= nextId -> "none"
    [] OTHER -> "over"]

Builder == [i \in Id |-> IF status[i] \in Open THEN worker[i] ELSE None]

Requests == INSTANCE BuildRequests WITH stage <- Stage, builder <- Builder

(* The task list keeps the promise of BuildRequests to the managers that   *)
(* count it.                                                               *)
RequestsKept == Requests!Spec

(* A builder whose task has failed or whose building stands is let go.     *)
BuilderReleased ==
  \A s \in Id : (s \in squads /\ status[s] \in {"FAILED", "IN_PROGRESS"}) ~> s \notin squads

(* An ordered task does not count as ordered for ever, provided the game   *)
(* answers.                                                                *)
OrderAnswered == \A i \in Id : status[i] = "ORDERED" ~> status[i] # "ORDERED"
=============================================================================
