----------------------------- MODULE EnemyBases -----------------------------
(***************************************************************************)
(* What the bot believes about the enemy's bases (EnemyBasesManager), and  *)
(* the timer of Strategy::onFrame that keeps the belief alive: locations   *)
(* where a depot has been seen are occupied, those not yet looked at are   *)
(* expected. The modules that send units somewhere extend this one.        *)
(***************************************************************************)
EXTENDS Naturals, FiniteSets

CONSTANTS Location,  \* base locations of the map
          Start,     \* the enemy's possible start locations
          Home,      \* our start location
          Depot,     \* tags of enemy resource depots
          Flying     \* whether the enemy's depots can leave their location

ASSUME EnemyBasesAssumption ==
  /\ IsFiniteSet(Location) /\ Start \subseteq Location /\ Home \in Location \ Start
  /\ Flying \in BOOLEAN

VARIABLES
  expected,   \* m_expectedBaseLocations
  occupied,   \* m_occupiedBaseLocations: pairs of a depot and its location
  depots,     \* m_depots, which are also the enemy depots in unitWrapperByTag
  ours, ready \* locations of BasesManager::m_bases; those with a completed nexus

belief    == <<expected, occupied, depots>>
bases     == <<ours, ready>>
enemyVars == <<belief, bases>>

Occupied == {p[2] : p \in occupied}
\* getAllExpectedEnemyBaseLocations, and what CombatManager::getAttackTarget finds
AllExpected == expected \cup Occupied
TargetKnown == AllExpected # {}

EnemyTypeOK ==
  /\ expected \subseteq Location /\ occupied \subseteq Depot \X Location
  /\ depots \subseteq Depot
  /\ ours \subseteq Location /\ ready \subseteq ours

\* onStart; the game starts with one base of ours, completed.
EnemyInit ==
  /\ expected = Start /\ occupied = {} /\ depots = {}
  /\ ours = {Home} /\ ready = {Home}

-----------------------------------------------------------------------------
(* Callbacks of UnitInfoManager.                                           *)
NewDepot_Mutant(d, l) ==
  /\ d \notin depots
  /\ depots' = depots \cup {d}
  /\ occupied' = IF \E p \in occupied : p[1] = d THEN occupied ELSE occupied \cup {<<d, l>>}
  /\ UNCHANGED expected

\* newUnitCallback. The map keeps an older entry of the same tag.
NewDepot(d, l) ==
  /\ d \notin depots
  /\ depots' = depots \cup {d}
  /\ occupied' = IF \E p \in occupied : p[1] = d THEN occupied ELSE occupied \cup {<<d, l>>}
  /\ expected' = expected \ {l}

\* A depot that is first seen away from the base locations.
NewDepotElsewhere(d) ==
  /\ d \notin depots
  /\ depots' = depots \cup {d}
  /\ UNCHANGED <<expected, occupied>>

\* unitDisappearedCallback, at a base location or elsewhere. A depot that has taken off is
\* forgotten as a unit (m_depots) but not as an occupant.
DepotGone(d) ==
  /\ d \in depots
  /\ depots' = depots \ {d}
  /\ \/ occupied' = {p \in occupied : p[1] # d}
     \/ Flying /\ UNCHANGED occupied
  /\ UNCHANGED expected

EnemyEvent ==
  /\ \E d \in Depot : \/ \E l \in Location \ ours : NewDepot(d, l)
                      \/ NewDepotElsewhere(d)
                      \/ DepotGone(d)
  /\ UNCHANGED bases

\* newBaseOccupied. The enemy is always left a location.
NexusPlaced(l) ==
  /\ l \notin ours \cup Occupied /\ ours \cup {l} # Location
  /\ ours' = ours \cup {l}
  /\ UNCHANGED ready

NexusCompletes(l) == l \in ours \ ready /\ ready' = ready \cup {l} /\ UNCHANGED ours

\* unitDisappearedCallback of BasesManager
NexusGone(l) == l \in ours /\ ours' = ours \ {l} /\ ready' = ready \ {l}

-----------------------------------------------------------------------------
Expecting_Mutant(e, due) == IF due THEN e \cup (Start \ (ours \cup e \cup Occupied)) ELSE e

\* The timer of Strategy::onFrame: after 60 s, then every 120 s, every location that is
\* neither ours nor believed the enemy's is expected again. When it is due is left open.
Expecting(e, due) == IF due THEN e \cup (Location \ (ours \cup e \cup Occupied)) ELSE e

\* EnemyBasesManager::onFrame, then Strategy's: expected locations of which a tile is
\* visible are clear; a location with a building of ours always is.
EnemyFrame(due) ==
  /\ \E visible \in SUBSET expected :
       ours \cap expected \subseteq visible /\ expected' = Expecting(expected \ visible, due)
  /\ UNCHANGED <<occupied, depots, bases>>

(* A location is never both expected and occupied, whatever order depots   *)
(* are seen, lost, cleared and re-expected in: a scout is never sent to    *)
(* look for what is known, and the timer adds no location twice            *)
(* (EnemyBasesManager.cpp:48, Strategy.cpp:58).                            *)
KnownOnce == expected \cap Occupied = {}
=============================================================================
