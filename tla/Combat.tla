------------------------------- MODULE Combat -------------------------------
(***************************************************************************)
(* A frame of CCBot::OnStep for the units that leave the base: callbacks   *)
(* in any number and order, then WorkerManager, SquadManager,              *)
(* EnemyBasesManager, Strategy, and CombatManager with its modules.        *)
(***************************************************************************)
EXTENDS Opening, Army

VARIABLE phase \* what the frame does next

vars == <<enemyVars, openingVars, armyVars, phase>>

TypeOK ==
  /\ EnemyTypeOK /\ OpeningTypeOK /\ ArmyTypeOK
  /\ phase \in {"events", "strategy", "combat", "scout"}

Init == EnemyInit /\ OpeningInit /\ ArmyInit /\ phase = "events"

-----------------------------------------------------------------------------
\* UnitInfoManager::onFrame. In the strategy of the opening (Strategy.cpp:34) nobody expands
\* and nobody hires fighters.
BaseEvent(l) ==
  /\ \/ current = "MACRO" /\ NexusPlaced(l) /\ UNCHANGED armyVars
     \/ NexusCompletes(l) /\ UNCHANGED armyVars
     \/ NexusGone(l) /\ DefenderStays(l)
  /\ UNCHANGED <<belief, openingVars>>

ProbeEvent ==
  /\ Answered \/ Refused \/ \E s \in SquadId : ProbeDies(s)
  /\ UNCHANGED <<enemyVars, armyVars>>

ArmyEvent ==
  /\ current = "MACRO"
  /\ Trained \/ FighterDies
  /\ UNCHANGED <<enemyVars, openingVars>>

Event ==
  /\ phase = "events" /\ UNCHANGED phase
  /\ \/ EnemyEvent /\ UNCHANGED <<openingVars, armyVars>>
     \/ \E l \in Location : BaseEvent(l)
     \/ ProbeEvent
     \/ ArmyEvent

\* The part of WorkerManager and SquadManager
SquadsFrame(more) ==
  /\ phase = "events" /\ phase' = "strategy"
  /\ SquadsAct(more) /\ ArmyActs
  /\ UNCHANGED <<enemyVars, current>>

\* The part of EnemyManager and Strategy
StrategyFrame(due) ==
  /\ phase = "strategy" /\ phase' = "combat"
  /\ EnemyFrame(due) /\ SwitchStrategy
  /\ UNCHANGED armyVars

\* CombatManager::onFrame. The scout module returns at once in the strategy of the opening.
CombatFrame ==
  /\ phase = "combat" /\ phase' = IF current = "CANNONS" THEN "events" ELSE "scout"
  /\ ArmyFrame /\ OpeningFrame
  /\ UNCHANGED enemyVars

LastFrame ==
  /\ phase = "scout" /\ phase' = "events"
  /\ ScoutFrame /\ ArmyRests
  /\ UNCHANGED enemyVars

Frame ==
  \/ \E more \in 0..Missing : SquadsFrame(more)
  \/ \E due \in BOOLEAN : StrategyFrame(due)
  \/ CombatFrame \/ LastFrame

Next == Event \/ Frame

Spec == Init /\ [][Next]_vars

\* Frames go on and the timer is due again and again; again and again the economy has the
\* minerals; and the game carries out a command that is given again and again.
Carried == phase = "events" /\ Answered /\ UNCHANGED <<enemyVars, armyVars, phase>>

Fairness ==
  /\ WF_vars(Frame)
  /\ SF_vars(StrategyFrame(TRUE))
  /\ SF_vars(Missing > 0 /\ SquadsFrame(Missing))
  /\ SF_vars(Carried)

FairSpec == Spec /\ Fairness

-----------------------------------------------------------------------------
(* Whenever CombatManager has reformed the squads and has not taken the    *)
(* defenders along, every base with a nexus has its defender, unless there *)
(* is no fighter left in the squad that gives them: deaths, lost bases,    *)
(* completed attacks and drafts leave no base open for more than a frame   *)
(* (CombatManager.cpp:117).                                                *)
Defended ==
  phase = "scout" /\ ~drafted =>
    defended = ready \/ (IF attack = "none" THEN army = 0 ELSE left = 0)

(* Reforming the squads neither loses a fighter nor counts one twice: the  *)
(* number of fighters changes by callbacks only (SquadManager.cpp:103,     *)
(* CombatManager.cpp:96).                                                  *)
FightersKept == [][phase # "events" => Fighters' + lost' = Fighters + lost]_vars

(* Every probe of the opening comes back: once the strategy is not the     *)
(* opening's any more, the orders of both squads end and WorkerManager     *)
(* dissolves them, whichever of the two has placed the cannon, died or     *)
(* been promoted (CannonStartModule.cpp:206).                              *)
ScoutsReturn == current = "MACRO" ~> Probing = {}

(* The rush comes to an end: a cannon stands and the strategy changes, or  *)
(* the placer has died, unless the order waits for a pylon nobody builds.  *)
(* It does so only if the game has refused a pylon, or if the order was    *)
(* paid in part when it asked for one, because half of the price passes    *)
(* for all of it: once all is allocated nothing calls the placer off any   *)
(* more (FirstPylonPlacementOrder.cpp:21, :24, :36, :43).                  *)
Over == target = "MACRO" \/ ~Rushing
RushEnds ==
  /\ Rushing ~> (Over \/ Waiting)
  /\ (Rushing /\ allocated >= Price /\ ~Waiting) ~> (Over \/ refused)

(* Enough fighters attack, also when every location on the map has been    *)
(* found clear: the timer of Strategy finds a target again (Strategy.cpp:  *)
(* 49, CombatManager.cpp:23).                                              *)
Enough   == Fighters >= AttackSize + Cardinality(ours)
Mustered == Enough ~> (attack # "none" \/ ~Enough)
=============================================================================
