------------------------------ MODULE Opening ------------------------------
(***************************************************************************)
(* The probes that leave the lines for the enemy: the two scout squads of  *)
(* CannonStartModule, of which the first becomes the rush                  *)
(* (FirstPylonPlacementOrder), and the scout of ScoutModule. The modules   *)
(* remember a squad's id, WorkerManager dissolves a squad whose order has  *)
(* ended, and nobody else looks at these squads.                           *)
(*                                                                         *)
(* Each of the squads has at most one probe. An id is used again when no   *)
(* module remembers it and it has no probe: such a squad stays in the list *)
(* of WorkerManager and does nothing. Which placement the analysis finds,  *)
(* and where the probes walk, is left out; prices are in units of 50.      *)
(***************************************************************************)
EXTENDS EnemyBases

CONSTANTS MinPylon, MaxPylon, \* pylons of a placement: minPylonTarget, currentPylonTarget
          SquadId             \* ids of additional squads

ASSUME OpeningAssumption ==
  /\ MinPylon \in Nat /\ MaxPylon \in Nat /\ MinPylon <= MaxPylon
  /\ SquadId \subseteq Nat \ {0}

VARIABLES
  current, target, \* Strategy::currentStrategy, targetStrategy
  noted,      \* CannonStartModule::strategy
  squad,      \* the additional squads: order, whether it has ended, whether there is a probe
  main, sub, scout, \* m_mainSquad, m_subSquad, ScoutModule::m_basesScoutID; 0 is none
  needed, unbuilt, scheduled, cannonDue, allocated, \* the FirstPylonPlacementOrder
  command,    \* what the placer is doing in the game: unit->orders
  refused     \* whether the game has refused a pylon of this order

order       == <<needed, unbuilt, scheduled, cannonDue, allocated>>
rush        == <<order, command, refused>>
ids         == <<main, sub, scout>>
openingVars == <<current, target, noted, squad, ids, rush>>

Strategies == {"NONE", "MACRO", "CANNONS"}
NoSquad    == [order |-> "none", ended |-> FALSE, manned |-> FALSE]
Exists(s)  == s # 0 /\ squad[s].order # "none"
Probing    == {s \in SquadId : squad[s].manned /\ squad[s].order \in {"scout", "pylons"}}
Rush       == main # 0 /\ squad[main].order = "pylons"
Rushing    == Rush /\ squad[main].manned

Price == IF needed = 0 THEN 3 ELSE 2 * needed \* needMinerals

OpeningTypeOK ==
  /\ current \in Strategies /\ target \in Strategies /\ noted \in Strategies
  /\ squad \in [SquadId -> [order : {"none", "scout", "pylons", "bases"},
                            ended : BOOLEAN, manned : BOOLEAN]]
  /\ main \in SquadId \cup {0} /\ sub \in SquadId \cup {0} /\ scout \in SquadId \cup {0}
  /\ needed \in 0..MaxPylon /\ unbuilt \in 0..needed /\ scheduled \in 0..1
  /\ cannonDue \in BOOLEAN /\ allocated \in Nat
  /\ command \in {"none", "move", "pylon", "cannon"} /\ refused \in BOOLEAN

\* OnGameStart: the enemy's race decides.
OpeningInit ==
  /\ current = "NONE" /\ target \in {"MACRO", "CANNONS"} /\ noted = "NONE"
  /\ squad = [s \in SquadId |-> NoSquad]
  /\ main = 0 /\ sub = 0 /\ scout = 0
  /\ needed = 0 /\ unbuilt = 0 /\ scheduled = 0 /\ cannonDue = FALSE /\ allocated = 0
  /\ command = "none" /\ refused = FALSE

-----------------------------------------------------------------------------
(* The game's answers to the placer, and the callbacks they lead to.       *)
Ended(s) == [squad EXCEPT ![s].ended = TRUE]

\* A pylon at the scheduled place: processBuilding. The move queued behind it is done next.
PylonPlaced ==
  /\ Rush /\ command = "pylon"
  /\ scheduled' = 0 /\ command' \in {"none", "move"}
  /\ UNCHANGED <<current, target, noted, squad, ids, needed, unbuilt, cannonDue, allocated, refused>>

CannonPlaced ==
  /\ Rush /\ command = "cannon"
  /\ cannonDue' = FALSE /\ command' = "none"
  /\ target' = "MACRO" /\ squad' = Ended(main)
  /\ UNCHANGED <<current, noted, ids, needed, unbuilt, scheduled, allocated, refused>>

Arrived ==
  /\ Rush /\ command = "move" /\ command' = "none"
  /\ UNCHANGED <<current, target, noted, squad, ids, order, refused>>

Answered == PylonPlaced \/ CannonPlaced \/ Arrived

\* Not enough minerals, a blocked place, no power: the order is not told.
Refused ==
  /\ Rush /\ command \in {"pylon", "cannon"}
  /\ command' \in {"none"} \cup (IF command = "pylon" THEN {"move"} ELSE {})
  /\ refused' = (refused \/ command = "pylon")
  /\ UNCHANGED <<current, target, noted, squad, ids, order>>

\* onUnitRemoved: a scout of one base ends its order, the others only forget their probe.
ProbeDies(s) ==
  /\ squad[s].manned
  /\ squad' = [squad EXCEPT ![s].manned = FALSE,
                            ![s].ended = @ \/ squad[s].order = "scout"]
  /\ UNCHANGED <<current, target, noted, ids, rush>>

-----------------------------------------------------------------------------
NoRush ==
  /\ needed' = 0 /\ unbuilt' = 0 /\ scheduled' = 0 /\ cannonDue' = FALSE /\ allocated' = 0
  /\ command' = "none" /\ refused' = FALSE

PlaceNext_Mutant ==
  \/ /\ command # "none" \/ scheduled # 0
     /\ UNCHANGED <<unbuilt, scheduled, cannonDue, command>>
  \/ /\ command = "none" /\ scheduled = 0 /\ unbuilt > 0
     /\ command' = "pylon" /\ unbuilt' = unbuilt - 1 /\ scheduled' = 1
     /\ UNCHANGED cannonDue
  \/ /\ command = "none" /\ scheduled = 0 /\ unbuilt = 0
     /\ cannonDue' = TRUE /\ command' = IF cannonDue THEN "none" ELSE "cannon"
     /\ UNCHANGED <<unbuilt, scheduled>>

\* The end of FirstPylonPlacementOrder::onStep. A pylon is taken off the list when it is
\* asked for, whatever becomes of it; a cannon is asked for until it stands.
PlaceNext ==
  \/ /\ command # "none" \/ scheduled # 0
     /\ UNCHANGED <<unbuilt, scheduled, cannonDue, command>>
  \/ /\ command = "none" /\ scheduled = 0 /\ unbuilt > 0
     /\ command' = "pylon" /\ unbuilt' = unbuilt - 1 /\ scheduled' = 1
     /\ UNCHANGED cannonDue
  \/ /\ command = "none" /\ scheduled = 0 /\ unbuilt = 0
     /\ cannonDue' = TRUE /\ command' = IF cannonDue THEN "cannon" ELSE "none"
     /\ UNCHANGED <<unbuilt, scheduled>>

RushActs_Mutant(more) ==
  /\ allocated' = allocated + more
  /\ PlaceNext
  /\ UNCHANGED <<needed, refused>>

\* What could be allocated is counted twice, as allocated and as no longer needed. Without
\* enough of it the placer moves, whatever it was doing: also if it was about to build.
RushActs(more) ==
  /\ allocated' = allocated + more
  /\ \/ /\ Price > allocated + 2 * more
        /\ command' = IF unbuilt > 0 THEN "move" ELSE command
        /\ UNCHANGED <<unbuilt, scheduled, cannonDue>>
     \/ Price <= allocated + 2 * more /\ PlaceNext
  /\ UNCHANGED <<needed, refused>>

\* A pylon was asked for that the game has not to build any more: it was refused, or the
\* placer told to move. The order waits until it stands, which is for ever.
Waiting == scheduled # 0 /\ command # "pylon"

Missing == IF Price > allocated THEN Price - allocated ELSE 0
Running == Rush /\ ~squad[main].ended

\* WorkerManager::onFrame dissolves the squads whose order has ended. Then the others act
\* (SquadManager::onFrame): a scout of several bases may be at the last one, the rush takes
\* what minerals it gets, or ends without its placer.
SquadsAct(more) ==
  /\ \E home \in SUBSET {s \in SquadId : squad[s].order = "bases" /\ squad[s].manned} :
       squad' = [s \in SquadId |->
         IF squad[s].ended THEN NoSquad
         ELSE [squad[s] EXCEPT !.ended = s \in home \/ (Running /\ s = main /\ ~squad[s].manned)]]
  /\ \/ Running /\ Rushing /\ RushActs(more)
     \/ Running /\ ~Rushing /\ more = 0 /\ UNCHANGED rush
     \/ ~Running /\ more = 0 /\ NoRush
  /\ UNCHANGED <<target, noted, ids>>

\* Strategy::onFrame: the managers of the new strategy take over.
SwitchStrategy == current' = target /\ UNCHANGED <<target, noted, squad, ids, rush>>

-----------------------------------------------------------------------------
(* CombatManager::onFrame calls the modules.                               *)
\* validateSquadId
Valid(s) == IF Exists(s) THEN s ELSE 0

\* The id of a new squad: those that are free are alike.
Free  == {s \in SquadId \ {main, sub} : ~squad[s].manned}
Fresh == {s \in Free : \A r \in Free : s <= r}

\* formSquad and setOrder: a mineral probe, if there is one.
Formed(s, o) == squad' = [squad EXCEPT ![s] = [order |-> o, ended |-> FALSE, manned |-> TRUE]]

UpdateStrategy_Mutant(sq) ==
  IF noted # current /\ current # "CANNONS"
  THEN [s \in SquadId |-> [sq[s] EXCEPT !.ended = @ \/ s = main]]
  ELSE sq

\* The orders of both squads end when the strategy has changed; WorkerManager does the rest.
UpdateStrategy(sq) ==
  IF noted # current /\ current # "CANNONS"
  THEN [s \in SquadId |-> [sq[s] EXCEPT !.ended = @ \/ s \in {main, sub}]]
  ELSE sq

\* Nobody asks for the squads of the opening any more: the ids of those that are gone are
\* forgotten here, where the code keeps them.
OtherStrategy ==
  /\ current # "CANNONS"
  /\ squad' = UpdateStrategy(squad)
  /\ main' = Valid(main) /\ sub' = Valid(sub)
  /\ UNCHANGED rush

ScoutAgain_Mutant(m, u) ==
  /\ IF m = 0 /\ u # 0
     THEN main' = u /\ sub' = 0 /\ UNCHANGED squad
     ELSE \/ \E s \in Fresh : /\ Formed(s, "scout")
                              /\ main' = (IF m = 0 THEN s ELSE m)
                              /\ sub'  = (IF m = 0 THEN u ELSE s)
          \/ main' = m /\ sub' = u /\ UNCHANGED squad
  /\ UNCHANGED rush

\* The ids that are still valid are m and u. First a scout for the main squad, once there is
\* a pylon, then one for the sub squad, once there is a forge.
ScoutAgain(m, u) ==
  /\ m = 0 \/ u = 0
  /\ IF m = 0 /\ u # 0
     THEN main' = u /\ sub' = 0 /\ UNCHANGED squad
     ELSE \/ \E s \in Fresh : /\ Formed(s, "scout")
                              /\ main' = (IF m = 0 THEN s ELSE m)
                              /\ sub'  = (IF m = 0 THEN u ELSE s)
          \/ main' = m /\ sub' = u /\ UNCHANGED squad
  /\ UNCHANGED rush

\* A placement is selected, minerals are there, and the main squad has no such order yet.
\* What is left of the minerals in the next frame is what RushActs gets.
BeginRush(m, u) ==
  /\ m # 0 /\ u # 0 /\ squad[m].order # "pylons"
  /\ squad' = [squad EXCEPT ![m].order = "pylons", ![m].ended = FALSE]
  /\ needed' \in MinPylon..MaxPylon /\ unbuilt' = needed' /\ scheduled' = 0 /\ cannonDue' = FALSE
  /\ allocated' = 0 /\ command' \in {"none", "move"} /\ refused' = FALSE
  /\ main' = m /\ sub' = u

CannonsFrame ==
  LET m == Valid(main)
      u == Valid(sub)
  IN  /\ current = "CANNONS"
      /\ \/ TargetKnown /\ (ScoutAgain(m, u) \/ BeginRush(m, u))
         \/ /\ (m # 0 /\ u # 0) \/ ~TargetKnown
            /\ main' = m /\ sub' = u /\ UNCHANGED <<squad, rush>>

\* CannonStartModule::onFrame
OpeningFrame ==
  /\ OtherStrategy \/ CannonsFrame
  /\ noted' = current
  /\ UNCHANGED <<current, target, scout>>

\* ScoutModule::onFrame, which waits for a gateway. The squad it forgets is not dissolved.
ScoutFrame ==
  /\ current # "CANNONS"
  /\ LET known == Exists(scout) /\ squad[scout].manned
     IN  \/ ~known /\ expected # {} /\ \E s \in Fresh : Formed(s, "bases") /\ scout' = s
         \/ scout' = (IF known THEN scout ELSE 0) /\ UNCHANGED squad
         \/ UNCHANGED <<squad, scout>>
  /\ UNCHANGED <<current, target, noted, main, sub, rush>>

-----------------------------------------------------------------------------
(* No probe is left behind: one in an additional squad whose order has not *)
(* ended belongs to a squad that a module still remembers, whatever order  *)
(* probes die, squads are promoted and dissolved, and the strategy changes *)
(* in (CannonStartModule.cpp:211, ScoutModule.cpp:18). WorkerManager gives *)
(* back only the probes of ended orders.                                   *)
NothingLeftBehind ==
  \A s \in SquadId : squad[s].manned /\ ~squad[s].ended => s \in {main, sub, scout}

(* The rush asks for nothing before half of the price is allocated; the    *)
(* other half may be missing, because what is allocated is counted twice   *)
(* (FirstPylonPlacementOrder.cpp:21).                                      *)
HalfPaid ==
  Rush /\ (unbuilt < needed \/ scheduled # 0 \/ cannonDue) => 2 * allocated >= Price
=============================================================================
