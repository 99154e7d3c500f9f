---------------------------- MODULE CombatProofs ----------------------------
(***************************************************************************)
(* Proofs about Combat and the modules it composes, for every map, every   *)
(* number of squads and every size of an attack.                           *)
(*                                                                         *)
(* Every step of Combat is a step of each of its three parts. So each part *)
(* has an invariant of its own, and a lemma for each of its steps; the     *)
(* last section puts them together.                                        *)
(***************************************************************************)
EXTENDS Combat, FiniteSetTheorems, TLAPS

EInv == EnemyTypeOK /\ KnownOnce

\* A squad that is dissolved has no probe, and only the main squad is ever told to rush.
Dissolved  == \A s \in SquadId : squad[s].manned => squad[s].order # "none"
OnlyMain   == \A s \in SquadId : squad[s].order = "pylons" => s = main

OInv == OpeningTypeOK /\ Dissolved /\ OnlyMain /\ NothingLeftBehind /\ HalfPaid

IInv == EInv /\ OInv /\ ArmyTypeOK /\ Defended /\ phase \in {"events", "strategy", "combat", "scout"}

USE EnemyBasesAssumption, OpeningAssumption, ArmyAssumption

-----------------------------------------------------------------------------
(* The enemy's bases.                                                      *)
LEMMA EInitOK == EnemyInit => EInv
<1> SUFFICES ASSUME EnemyInit PROVE EInv
  OBVIOUS
<1>1. EnemyTypeOK
  BY DEF EnemyInit, EnemyTypeOK
<1>2. Occupied = {}
  BY DEF EnemyInit, Occupied
<1> QED BY <1>1, <1>2 DEF EInv, KnownOnce

(* A depot that is seen makes its location occupied, and no longer         *)
(* expected; one that goes makes it neither.                               *)
LEMMA EnemyEventOK ==
  ASSUME EInv, EnemyEvent
  PROVE  EInv'
<1> USE DEF EInv, EnemyTypeOK
<1>1. bases' = bases
  BY DEF EnemyEvent
<1>2. ASSUME NEW d \in Depot, NEW l \in Location \ ours, NewDepot(d, l) PROVE EInv'
  <2>1. EnemyTypeOK'
    BY <1>1, <1>2 DEF NewDepot, bases
  <2>2. Occupied' \subseteq Occupied \cup {l}
    BY <1>2 DEF NewDepot, Occupied
  <2>3. expected' = expected \ {l}
    BY <1>2 DEF NewDepot
  <2>4. KnownOnce'
    BY <2>2, <2>3 DEF KnownOnce
  <2> QED BY <2>1, <2>4
<1>3. ASSUME NEW d \in Depot, NewDepotElsewhere(d) PROVE EInv'
  BY <1>1, <1>3 DEF NewDepotElsewhere, bases, KnownOnce, Occupied
<1>4. ASSUME NEW d \in Depot, DepotGone(d) PROVE EInv'
  <2>1. occupied' \subseteq occupied /\ expected' = expected
    BY <1>4 DEF DepotGone
  <2>2. Occupied' \subseteq Occupied
    BY <2>1 DEF Occupied
  <2>3. KnownOnce'
    BY <2>1, <2>2 DEF KnownOnce
  <2> QED BY <1>1, <1>4, <2>1, <2>3 DEF DepotGone, bases
<1> QED BY <1>2, <1>3, <1>4 DEF EnemyEvent

LEMMA BasesOK ==
  ASSUME EInv, NEW l \in Location, NexusPlaced(l) \/ NexusCompletes(l) \/ NexusGone(l),
         UNCHANGED belief
  PROVE  EInv'
BY DEF EInv, EnemyTypeOK, KnownOnce, Occupied, NexusPlaced, NexusCompletes, NexusGone, belief

(* Whatever is expected again is not occupied.                             *)
LEMMA EnemyFrameOK ==
  ASSUME EInv, NEW due \in BOOLEAN, EnemyFrame(due)
  PROVE  EInv'
<1>1. PICK visible \in SUBSET expected : expected' = Expecting(expected \ visible, due)
  BY DEF EnemyFrame
<1>2. UNCHANGED <<occupied, depots, ours, ready>>
  BY DEF EnemyFrame, bases
<1>3. Occupied' = Occupied
  BY <1>2 DEF Occupied
<1>4. expected' \subseteq (expected \ visible) \cup (Location \ Occupied)
  BY <1>1 DEF Expecting
<1>5. EnemyTypeOK'
  BY <1>2, <1>4 DEF EInv, EnemyTypeOK
<1>6. KnownOnce'
  BY <1>3, <1>4 DEF EInv, KnownOnce
<1> QED BY <1>5, <1>6 DEF EInv

LEMMA EnemyRests ==
  ASSUME EInv, UNCHANGED enemyVars
  PROVE  EInv'
BY DEF EInv, EnemyTypeOK, KnownOnce, Occupied, enemyVars, belief, bases

-----------------------------------------------------------------------------
(* The opening. What is claimed of a squad depends on its order, whether   *)
(* it has ended and whether it has a probe.                                *)
Squads == [SquadId -> [order : {"none", "scout", "pylons", "bases"},
                       ended : BOOLEAN, manned : BOOLEAN]]

IdType     == main \in SquadId \cup {0} /\ sub \in SquadId \cup {0} /\ scout \in SquadId \cup {0}
OrderType  == /\ needed \in 0..MaxPylon /\ unbuilt \in 0..needed /\ scheduled \in 0..1
              /\ cannonDue \in BOOLEAN /\ allocated \in Nat
CommandType == command \in {"none", "move", "pylon", "cannon"} /\ refused \in BOOLEAN
StratType  == current \in Strategies /\ target \in Strategies /\ noted \in Strategies

LEMMA TypeParts ==
  OpeningTypeOK <=> StratType /\ squad \in Squads /\ IdType /\ OrderType /\ CommandType
BY DEF OpeningTypeOK, StratType, Squads, IdType, OrderType, CommandType

LEMMA TypePartsNext ==
  ASSUME StratType', squad' \in Squads, IdType', OrderType', CommandType'
  PROVE  OpeningTypeOK'
BY DEF OpeningTypeOK, StratType, Squads, IdType, OrderType, CommandType

SquadsOK == Dissolved /\ OnlyMain /\ NothingLeftBehind

LEMMA OInitOK == OpeningInit => OInv
<1> SUFFICES ASSUME OpeningInit PROVE OInv
  OBVIOUS
<1>1. OpeningTypeOK
  <2>1. squad \in Squads
    BY DEF OpeningInit, Squads, NoSquad
  <2>2. StratType /\ IdType /\ CommandType
    BY DEF OpeningInit, StratType, IdType, CommandType, Strategies
  <2>3. OrderType
    <3>1. 0 \in 0..MaxPylon /\ 0 \in 0..0 /\ 0 \in 0..1 /\ 0 \in Nat
      OBVIOUS
    <3> QED BY ONLY <3>1, OpeningInit DEF OpeningInit, OrderType
  <2> QED BY <2>1, <2>2, <2>3, TypeParts
<1>2. SquadsOK
  BY DEF OpeningInit, SquadsOK, Dissolved, OnlyMain, NothingLeftBehind, NoSquad
<1>3. HalfPaid
  BY DEF OpeningInit, HalfPaid, Rush
<1> QED BY <1>1, <1>2, <1>3 DEF OInv, SquadsOK

LEMMA OpeningRests ==
  ASSUME OInv, UNCHANGED openingVars
  PROVE  OInv'
BY DEF OInv, OpeningTypeOK, Dissolved, OnlyMain, NothingLeftBehind, HalfPaid, Rush, Price,
       openingVars, ids, rush, order

(* A step that changes no squad's order and takes no pylon off the list    *)
(* keeps what has been paid.                                               *)
LEMMA PaidRests ==
  ASSUME HalfPaid, Rush' => Rush, needed' = needed, unbuilt' = unbuilt, allocated' = allocated,
         scheduled' # 0 => scheduled # 0, cannonDue' => cannonDue
  PROVE  HalfPaid'
BY DEF HalfPaid, Price

(* Ending the main squad's order, or a probe's death, leaves no probe of   *)
(* an unended order that was not there before.                             *)
LEMMA SquadsRest ==
  ASSUME SquadsOK, UNCHANGED <<main, sub, scout>>,
         \A s \in SquadId : /\ squad'[s].order = squad[s].order
                            /\ squad'[s].manned => squad[s].manned
                            /\ squad[s].ended => squad'[s].ended
  PROVE  SquadsOK'
BY DEF SquadsOK, Dissolved, OnlyMain, NothingLeftBehind

LEMMA ProbeEventOK ==
  ASSUME OInv, Answered \/ Refused \/ \E s \in SquadId : ProbeDies(s)
  PROVE  OInv'
<1> USE TypeParts
<1>1. SquadsOK
  BY DEF OInv, SquadsOK
<1>2. IdType /\ squad \in Squads
  BY DEF OInv
<1>3. CASE CannonPlaced
  <2>1. squad' = [squad EXCEPT ![main].ended = TRUE] /\ main \in SquadId
    BY <1>2, <1>3 DEF CannonPlaced, Ended, Rush, IdType
  <2>2. squad' \in Squads
    BY <2>1, <1>2 DEF Squads
  <2>3. \A s \in SquadId : /\ squad'[s].order = squad[s].order
                           /\ squad'[s].manned = squad[s].manned
                           /\ squad[s].ended => squad'[s].ended
    BY <2>1, <1>2 DEF Squads
  <2>4. SquadsOK'
    BY <1>1, <1>3, <2>3, SquadsRest DEF CannonPlaced, ids
  <2>5. Rush
    BY <1>3 DEF CannonPlaced
  <2>6. HalfPaid'
    BY <1>3, <2>5, PaidRests DEF CannonPlaced, OInv
  <2>7. OpeningTypeOK'
    BY <1>3, <2>2, TypePartsNext
       DEF CannonPlaced, OInv, ids, StratType, IdType, OrderType, CommandType, Strategies
  <2> QED BY <2>4, <2>6, <2>7 DEF OInv, SquadsOK
<1>4. CASE PylonPlaced \/ Arrived \/ Refused
  <2>1. UNCHANGED <<current, target, noted, squad, ids>>
    BY <1>4 DEF PylonPlaced, Arrived, Refused
  <2>2. SquadsOK'
    BY <1>1, <2>1, SquadsRest DEF ids
  <2>3. Rush
    BY <1>4 DEF PylonPlaced, Arrived, Refused
  <2>4. /\ UNCHANGED <<needed, unbuilt, cannonDue, allocated>>
        /\ scheduled' \in {0, scheduled}
        /\ command' \in {"none", "move"} /\ refused' \in BOOLEAN
    BY <1>4 DEF PylonPlaced, Arrived, Refused, order, OInv, CommandType
  <2>5. HalfPaid'
    BY <2>3, <2>4, PaidRests DEF OInv
  <2>6. OpeningTypeOK'
    BY <2>1, <2>4, TypePartsNext DEF OInv, ids, StratType, IdType, OrderType, CommandType
  <2> QED BY <2>2, <2>5, <2>6 DEF OInv, SquadsOK
<1>5. ASSUME NEW s \in SquadId, ProbeDies(s) PROVE OInv'
  <2>1. squad' \in Squads
    <3>1. (squad[s].ended \/ squad[s].order = "scout") \in BOOLEAN
      OBVIOUS
    <3> DEFINE over == squad[s].ended \/ squad[s].order = "scout"
    <3>2. squad' = [squad EXCEPT ![s] = [squad[s] EXCEPT !.manned = FALSE, !.ended = over]]
      BY <1>2, <1>5 DEF ProbeDies, Squads
    <3> HIDE DEF over
    <3>3. over \in BOOLEAN
      BY <3>1 DEF over
    <3> QED BY <1>2, <3>2, <3>3 DEF Squads
  <2>2. \A r \in SquadId : /\ squad'[r].order = squad[r].order
                           /\ squad'[r].manned => squad[r].manned
                           /\ squad[r].ended => squad'[r].ended
    BY <1>2, <1>5 DEF ProbeDies, Squads
  <2>3. SquadsOK'
    BY <1>1, <1>5, <2>2, SquadsRest DEF ProbeDies, ids
  <2>4. Rush' => Rush
    BY <1>2, <1>5, <2>2 DEF ProbeDies, ids, Rush, IdType
  <2>5. HalfPaid'
    BY <1>5, <2>4, PaidRests DEF ProbeDies, rush, order, OInv
  <2>6. OpeningTypeOK'
    BY <1>5, <2>1, TypePartsNext
       DEF ProbeDies, OInv, ids, rush, order, StratType, IdType, OrderType, CommandType
  <2> QED BY <2>3, <2>5, <2>6 DEF OInv, SquadsOK
<1> QED BY <1>3, <1>4, <1>5 DEF Answered

(* What the rush asks for, it asks for when the minerals that are left     *)
(* count twice as much as the price: then half of it is allocated.         *)
LEMMA HalfIsPaid ==
  \A a, m, p \in Nat : p <= a + 2 * m \/ 2 * a >= p => 2 * (a + m) >= p
OBVIOUS

LEMMA PriceType == OrderType => Price \in Nat
BY DEF OrderType, Price

LEMMA RushActsOK ==
  ASSUME OInv, Rush, NEW more \in Nat, RushActs(more)
  PROVE  OrderType' /\ CommandType' /\ HalfPaid'
<1>1. OrderType /\ CommandType /\ HalfPaid
  BY TypeParts DEF OInv
<1>2. /\ allocated' = allocated + more /\ needed' = needed /\ refused' = refused
      /\ allocated' \in Nat /\ Price' = Price /\ Price \in Nat /\ allocated \in Nat
  BY <1>1, PriceType DEF RushActs, OrderType, Price
<1>3. CASE Price > allocated + 2 * more /\ UNCHANGED <<unbuilt, scheduled, cannonDue>>
  <2>1. command' \in {"move", command}
    BY <1>3, <1>1, <1>2 DEF RushActs, PlaceNext, OrderType
  <2>2. OrderType' /\ CommandType'
    BY <1>1, <1>2, <1>3, <2>1 DEF OrderType, CommandType
  <2>3. unbuilt < needed \/ scheduled # 0 \/ cannonDue => 2 * (allocated + more) >= Price
    BY <1>1, <1>2, HalfIsPaid DEF HalfPaid
  <2> QED BY <1>2, <1>3, <2>2, <2>3 DEF HalfPaid
<1>4. CASE Price <= allocated + 2 * more /\ PlaceNext
  <2>1. CommandType'
    BY <1>1, <1>2, <1>4 DEF CommandType, PlaceNext
  <2>2. unbuilt' \in 0..needed /\ scheduled' \in 0..1
    BY <1>1, <1>4 DEF OrderType, PlaceNext
  <2>3. cannonDue' \in BOOLEAN
    BY <1>1, <1>4 DEF OrderType, PlaceNext
  <2>4. OrderType'
    BY <1>1, <1>2, <2>2, <2>3 DEF OrderType
  <2>5. 2 * allocated' >= Price'
    BY <1>2, <1>4, HalfIsPaid
  <2> QED BY <2>1, <2>4, <2>5 DEF HalfPaid
<1> QED BY <1>3, <1>4 DEF RushActs

LEMMA SquadsActOK ==
  ASSUME OInv, NEW more \in 0..Missing, SquadsAct(more), UNCHANGED current
  PROVE  OInv'
<1>1. StratType /\ squad \in Squads /\ IdType /\ OrderType /\ CommandType /\ SquadsOK /\ HalfPaid
  BY TypeParts DEF OInv, SquadsOK
<1>2. more \in Nat
  BY <1>1, PriceType DEF Missing, OrderType
<1>3. PICK home \in SUBSET SquadId :
        squad' = [s \in SquadId |->
          IF squad[s].ended THEN NoSquad
          ELSE [squad[s] EXCEPT !.ended = s \in home \/ (Running /\ s = main /\ ~squad[s].manned)]]
  BY DEF SquadsAct
<1>4. \A s \in SquadId : squad[s].ended => squad'[s] = NoSquad
  BY <1>3
<1>5. \A s \in SquadId : ~squad[s].ended =>
        /\ squad'[s] = [squad[s] EXCEPT !.ended = squad'[s].ended]
        /\ squad'[s].ended \in BOOLEAN
        /\ squad'[s].order = squad[s].order /\ squad'[s].manned = squad[s].manned
  <2> SUFFICES ASSUME NEW s \in SquadId, ~squad[s].ended
               PROVE  /\ squad'[s] = [squad[s] EXCEPT !.ended = squad'[s].ended]
                      /\ squad'[s].ended \in BOOLEAN
                      /\ squad'[s].order = squad[s].order /\ squad'[s].manned = squad[s].manned
    OBVIOUS
  <2> DEFINE over == s \in home \/ (Running /\ s = main /\ ~squad[s].manned)
  <2>1. squad'[s] = [squad[s] EXCEPT !.ended = over]
    BY <1>3
  <2>2. over \in BOOLEAN
    OBVIOUS
  <2> HIDE DEF over
  <2>3. squad[s] \in [order : {"none", "scout", "pylons", "bases"},
                      ended : BOOLEAN, manned : BOOLEAN]
    BY <1>1 DEF Squads
  <2> QED BY <2>1, <2>2, <2>3
<1>6. squad' \in Squads
  <2>1. NoSquad \in [order : {"none", "scout", "pylons", "bases"},
                     ended : BOOLEAN, manned : BOOLEAN]
    BY DEF NoSquad
  <2>2. \A s \in SquadId : squad'[s] \in [order : {"none", "scout", "pylons", "bases"},
                                          ended : BOOLEAN, manned : BOOLEAN]
    <3> SUFFICES ASSUME NEW s \in SquadId
                 PROVE  squad'[s] \in [order : {"none", "scout", "pylons", "bases"},
                                       ended : BOOLEAN, manned : BOOLEAN]
      OBVIOUS
    <3>1. CASE squad[s].ended
      BY ONLY <1>4, <2>1, <3>1
    <3>2. CASE ~squad[s].ended
      <4>1. squad[s] \in [order : {"none", "scout", "pylons", "bases"},
                          ended : BOOLEAN, manned : BOOLEAN]
        BY <1>1 DEF Squads
      <4> QED BY ONLY <1>5, <3>2, <4>1
    <3> QED BY <3>1, <3>2
  <2> QED BY <1>3, <2>2 DEF Squads
<1>7. UNCHANGED <<main, sub, scout, current, target, noted>>
  BY DEF SquadsAct, ids
<1>8. SquadsOK'
  <2>1. \A s \in SquadId : squad'[s].manned =>
          ~squad[s].ended /\ squad[s].manned /\ squad'[s].order = squad[s].order
    <3>1. ~NoSquad.manned
      BY DEF NoSquad
    <3> QED BY ONLY <1>4, <1>5, <3>1
  <2>2. \A s \in SquadId : squad'[s].order = "pylons" => squad[s].order = "pylons"
    <3>1. NoSquad.order # "pylons"
      BY DEF NoSquad
    <3> QED BY ONLY <1>4, <1>5, <3>1
  <2> QED BY ONLY <1>1, <1>7, <2>1, <2>2
          DEF SquadsOK, Dissolved, OnlyMain, NothingLeftBehind
<1>9. StratType' /\ IdType'
  BY <1>1, <1>7 DEF StratType, IdType
<1>10. OrderType' /\ CommandType' /\ HalfPaid'
  <2>1. CASE Running /\ Rushing /\ RushActs(more)
    BY <2>1, <1>2, RushActsOK DEF Running
  <2>2. CASE Running /\ UNCHANGED rush
    <3>1. Rush
      BY <2>2 DEF Running
    <3>2. UNCHANGED <<needed, unbuilt, scheduled, cannonDue, allocated, command, refused>>
      BY <2>2 DEF rush, order
    <3>3. HalfPaid'
      BY <1>1, <3>1, <3>2, PaidRests
    <3> QED BY ONLY <1>1, <3>2, <3>3 DEF OrderType, CommandType
  <2>3. CASE NoRush
    <3>1. OrderType'
      <4>1. 0 \in 0..MaxPylon /\ 0 \in 0..0 /\ 0 \in 0..1 /\ 0 \in Nat
        OBVIOUS
      <4> QED BY ONLY <4>1, <2>3 DEF NoRush, OrderType
    <3>2. CommandType'
      BY <2>3 DEF NoRush, CommandType
    <3>3. HalfPaid'
      <4>1. ~(unbuilt' < needed' \/ scheduled' # 0 \/ cannonDue')
        BY <2>3 DEF NoRush
      <4> QED BY ONLY <4>1 DEF HalfPaid
    <3> QED BY <3>1, <3>2, <3>3
  <2> QED BY <2>1, <2>2, <2>3 DEF SquadsAct
<1> QED BY <1>6, <1>8, <1>9, <1>10, TypePartsNext DEF OInv, SquadsOK

LEMMA SwitchStrategyOK ==
  ASSUME OInv, SwitchStrategy
  PROVE  OInv'
<1>1. StratType /\ squad \in Squads /\ IdType /\ OrderType /\ CommandType /\ SquadsOK /\ HalfPaid
  BY TypeParts DEF OInv, SquadsOK
<1>2. /\ UNCHANGED <<target, noted, squad, main, sub, scout>>
      /\ UNCHANGED <<needed, unbuilt, scheduled, cannonDue, allocated, command, refused>>
  BY DEF SwitchStrategy, ids, rush, order
<1>3. StratType'
  BY <1>1, <1>2 DEF SwitchStrategy, StratType
<1>4. squad' \in Squads /\ IdType' /\ OrderType' /\ CommandType'
  BY <1>1, <1>2 DEF IdType, OrderType, CommandType
<1>5. SquadsOK'
  BY <1>1, <1>2, SquadsRest
<1>6. HalfPaid'
  BY <1>1, <1>2, PaidRests DEF Rush
<1> QED BY <1>3, <1>4, <1>5, <1>6, TypePartsNext DEF OInv, SquadsOK

(* The id of a squad that is gone is forgotten; one that has a probe, or   *)
(* is told to rush, is not gone.                                           *)
LEMMA ValidIds ==
  ASSUME IdType
  PROVE  /\ Valid(main) \in {0, main} /\ Valid(sub) \in {0, sub}
         /\ Valid(main) # 0 => main \in SquadId /\ Valid(main) = main
         /\ Valid(sub) # 0 => sub \in SquadId /\ Valid(sub) = sub
         /\ \A s \in SquadId : squad[s].order # "none" =>
              (s = main => Valid(main) = s) /\ (s = sub => Valid(sub) = s)
BY DEF IdType, Valid, Exists

(* The ids are validated, and no squad's order or probe has changed.       *)
LEMMA IdsValidated ==
  ASSUME SquadsOK, IdType, HalfPaid,
         main' = Valid(main), sub' = Valid(sub), scout' = scout, UNCHANGED rush,
         \A s \in SquadId : /\ squad'[s].order = squad[s].order
                            /\ squad'[s].manned => squad[s].manned
                            /\ squad[s].ended => squad'[s].ended
  PROVE  SquadsOK' /\ IdType' /\ HalfPaid'
<1>1. IdType'
  BY ValidIds DEF IdType
<1>2. Dissolved'
  BY DEF SquadsOK, Dissolved
<1>3. OnlyMain'
  BY ValidIds DEF SquadsOK, OnlyMain
<1>4. NothingLeftBehind'
  BY ValidIds DEF SquadsOK, Dissolved, NothingLeftBehind
<1>5. Rush' => Rush
  BY ValidIds DEF Rush
<1>6. HalfPaid'
  BY <1>5, PaidRests DEF rush, order
<1> QED BY <1>1, <1>2, <1>3, <1>4, <1>6 DEF SquadsOK

LEMMA FormedSquad ==
  ASSUME squad \in Squads, NEW s \in SquadId, NEW o \in {"scout", "bases"}, Formed(s, o)
  PROVE  /\ squad' \in Squads
         /\ squad'[s].order = o /\ squad'[s].manned
         /\ \A r \in SquadId \ {s} : squad'[r] = squad[r]
BY DEF Squads, Formed

(* A new scout is the main squad, or the sub squad of a main squad; a sub  *)
(* squad without a main squad becomes it.                                  *)
LEMMA ScoutAgainOK ==
  ASSUME SquadsOK, IdType, HalfPaid, squad \in Squads, scout' = scout,
         ScoutAgain(Valid(main), Valid(sub))
  PROVE  squad' \in Squads /\ SquadsOK' /\ IdType' /\ HalfPaid' /\ UNCHANGED rush
<1> DEFINE m == Valid(main)
           u == Valid(sub)
<1>1. UNCHANGED rush /\ (m = 0 \/ u = 0)
  BY DEF ScoutAgain
<1>2. CASE m = 0 /\ u # 0 /\ main' = u /\ sub' = 0 /\ UNCHANGED squad
  <2>1. IdType'
    BY <1>2, ValidIds DEF IdType
  <2>2. \A s \in SquadId : squad[s].order # "none" => s # main
    BY <1>2, ValidIds
  <2>3. \A s \in SquadId : squad[s].order # "pylons"
    BY <2>2 DEF SquadsOK, OnlyMain
  <2>4. SquadsOK'
    BY <1>2, <2>2, <2>3, ValidIds DEF SquadsOK, Dissolved, OnlyMain, NothingLeftBehind
  <2>5. ~Rush'
    BY <1>2, <2>3, ValidIds DEF Rush
  <2> QED BY <1>1, <1>2, <2>1, <2>4, <2>5 DEF HalfPaid
<1>3. ASSUME NEW s \in Fresh, Formed(s, "scout"), ~(m = 0 /\ u # 0),
             main' = (IF m = 0 THEN s ELSE m), sub' = (IF m = 0 THEN u ELSE s)
      PROVE  squad' \in Squads /\ SquadsOK' /\ IdType' /\ HalfPaid'
  <2>1. s \in SquadId /\ s # main
    BY DEF Fresh, Free
  <2>2. /\ squad' \in Squads /\ squad'[s].order = "scout" /\ squad'[s].manned
        /\ \A r \in SquadId \ {s} : squad'[r] = squad[r]
    BY <1>3, <2>1, FormedSquad
  <2>3. IdType'
    BY <1>1, <1>3, <2>1, ValidIds DEF IdType
  <2>4. \A r \in SquadId : squad[r].order # "none" /\ r = main => main' = r
    BY <1>3, ValidIds
  <2>5. \A r \in SquadId : squad[r].order # "none" /\ r = sub => sub' = r \/ r = main'
    BY <1>1, <1>3, ValidIds
  <2>6. s \in {main', sub'}
    BY <1>3
  <2>7. Dissolved' /\ OnlyMain'
    BY <2>2, <2>4 DEF SquadsOK, Dissolved, OnlyMain
  <2>8. NothingLeftBehind'
    BY <2>2, <2>4, <2>5, <2>6 DEF SquadsOK, Dissolved, NothingLeftBehind
  <2>9. Rush' => Rush
    BY <1>3, <2>1, <2>2, ValidIds DEF Rush
  <2>10. HalfPaid'
    BY <1>1, <2>9, PaidRests DEF rush, order
  <2> QED BY <2>2, <2>3, <2>7, <2>8, <2>10 DEF SquadsOK
<1>4. CASE main' = m /\ sub' = u /\ UNCHANGED squad
  BY <1>1, <1>4, IdsValidated
<1> QED BY <1>1, <1>2, <1>3, <1>4 DEF ScoutAgain

LEMMA BeginRushOK ==
  ASSUME SquadsOK, IdType, squad \in Squads, scout' = scout,
         BeginRush(Valid(main), Valid(sub))
  PROVE  squad' \in Squads /\ SquadsOK' /\ IdType' /\ HalfPaid' /\ OrderType' /\ CommandType'
<1>1. main \in SquadId /\ Valid(main) = main /\ main' = main /\ sub' = Valid(sub)
  BY ValidIds DEF BeginRush
<1>2. squad' = [squad EXCEPT ![main].order = "pylons", ![main].ended = FALSE]
  BY <1>1 DEF BeginRush
<1>3. /\ squad' \in Squads /\ squad'[main].order = "pylons"
      /\ \A r \in SquadId \ {main} : squad'[r] = squad[r]
  BY <1>1, <1>2 DEF Squads
<1>4. IdType'
  BY <1>1, ValidIds DEF IdType
<1>5. Dissolved' /\ OnlyMain'
  BY <1>1, <1>3 DEF SquadsOK, Dissolved, OnlyMain
<1>6. NothingLeftBehind'
  BY <1>1, <1>3, ValidIds DEF SquadsOK, Dissolved, NothingLeftBehind
<1>7. OrderType'
  <2>1. /\ needed' \in 0..MaxPylon /\ unbuilt' = needed' /\ scheduled' = 0 /\ allocated' = 0
        /\ cannonDue' = FALSE
    BY DEF BeginRush
  <2>2. unbuilt' \in 0..needed' /\ scheduled' \in 0..1 /\ allocated' \in Nat
    BY <2>1
  <2> QED BY ONLY <2>1, <2>2 DEF OrderType
<1>8. CommandType'
  BY DEF BeginRush, CommandType
<1>9. ~(unbuilt' < needed' \/ scheduled' # 0 \/ cannonDue')
  BY <1>7 DEF BeginRush, OrderType
<1>10. HalfPaid'
  BY ONLY <1>9 DEF HalfPaid
<1> QED BY <1>3, <1>4, <1>5, <1>6, <1>7, <1>8, <1>10 DEF SquadsOK

LEMMA OpeningFrameOK ==
  ASSUME OInv, OpeningFrame
  PROVE  OInv'
<1>1. StratType /\ squad \in Squads /\ IdType /\ OrderType /\ CommandType /\ SquadsOK /\ HalfPaid
  BY TypeParts DEF OInv, SquadsOK
<1>2. StratType' /\ scout' = scout
  BY <1>1 DEF OpeningFrame, StratType
<1>3. UNCHANGED rush => OrderType' /\ CommandType'
  BY <1>1 DEF rush, order, OrderType, CommandType
<1>4. squad' \in Squads /\ SquadsOK' /\ IdType' /\ HalfPaid' /\ OrderType' /\ CommandType'
  <2>1. CASE OtherStrategy
    <3>1. squad' = UpdateStrategy(squad) /\ main' = Valid(main) /\ sub' = Valid(sub)
      BY <2>1 DEF OtherStrategy
    <3>2. CASE squad' = squad
      <4>1. squad' \in Squads
        BY <1>1, <3>2
      <4>2. SquadsOK' /\ IdType' /\ HalfPaid'
        BY <1>1, <1>2, <2>1, <3>1, <3>2, IdsValidated DEF OtherStrategy
      <4> QED BY <1>3, <2>1, <4>1, <4>2 DEF OtherStrategy
    <3>3. CASE squad' = [s \in SquadId |-> [squad[s] EXCEPT !.ended = @ \/ s \in {main, sub}]]
      <4>1. \A s \in SquadId : /\ squad[s].ended \in BOOLEAN
                               /\ squad'[s] \in [order : {"none", "scout", "pylons", "bases"},
                                                 ended : BOOLEAN, manned : BOOLEAN]
                               /\ squad'[s].order = squad[s].order
                               /\ squad'[s].manned = squad[s].manned
                               /\ squad[s].ended => squad'[s].ended
        <5> TAKE s \in SquadId
        <5> DEFINE over == squad[s].ended \/ s \in {main, sub}
        <5>1. squad'[s] = [squad[s] EXCEPT !.ended = over]
          BY <3>3
        <5>2. over \in BOOLEAN /\ (squad[s].ended => over)
          OBVIOUS
        <5>3. squad[s] \in [order : {"none", "scout", "pylons", "bases"},
                            ended : BOOLEAN, manned : BOOLEAN]
          BY <1>1 DEF Squads
        <5> HIDE DEF over
        <5> QED BY <5>1, <5>2, <5>3
      <4>2. squad' \in Squads
        BY <3>3, <4>1 DEF Squads
      <4>3. SquadsOK' /\ IdType' /\ HalfPaid'
        BY <1>1, <1>2, <2>1, <3>1, <4>1, IdsValidated DEF OtherStrategy
      <4> QED BY <1>3, <2>1, <4>2, <4>3 DEF OtherStrategy
    <3> QED BY <3>1, <3>2, <3>3 DEF UpdateStrategy
  <2>2. CASE ScoutAgain(Valid(main), Valid(sub))
    BY <1>1, <1>2, <1>3, <2>2, ScoutAgainOK
  <2>3. CASE BeginRush(Valid(main), Valid(sub))
    BY <1>1, <1>2, <2>3, BeginRushOK
  <2>4. CASE main' = Valid(main) /\ sub' = Valid(sub) /\ UNCHANGED <<squad, rush>>
    BY <1>1, <1>2, <1>3, <2>4, IdsValidated
  <2> QED BY <2>1, <2>2, <2>3, <2>4 DEF OpeningFrame, CannonsFrame
<1> QED BY <1>2, <1>4, TypePartsNext DEF OInv, SquadsOK

(* The scout module forgets a squad only when its probe is dead.           *)
LEMMA ScoutFrameOK ==
  ASSUME OInv, ScoutFrame
  PROVE  OInv'
<1>1. StratType /\ squad \in Squads /\ IdType /\ OrderType /\ CommandType /\ SquadsOK /\ HalfPaid
  BY TypeParts DEF OInv, SquadsOK
<1>2. /\ UNCHANGED <<current, target, noted, main, sub>>
      /\ UNCHANGED <<needed, unbuilt, scheduled, cannonDue, allocated, command, refused>>
  BY DEF ScoutFrame, rush, order
<1>3. StratType' /\ OrderType' /\ CommandType'
  BY <1>1, <1>2 DEF StratType, OrderType, CommandType
<1>4. Exists(scout) /\ squad[scout].manned => scout \in SquadId
  BY <1>1 DEF Exists, IdType
<1>5. CASE scout' \in {scout, IF Exists(scout) /\ squad[scout].manned THEN scout ELSE 0}
           /\ UNCHANGED squad
  <2>1. IdType'
    BY <1>1, <1>2, <1>5 DEF IdType
  <2>2. \A s \in SquadId : s = scout /\ squad[s].manned => Exists(scout)
    BY <1>1 DEF SquadsOK, Dissolved, Exists
  <2>3. SquadsOK'
    BY <1>1, <1>2, <1>5, <2>2 DEF SquadsOK, Dissolved, OnlyMain, NothingLeftBehind
  <2>4. HalfPaid'
    BY <1>1, <1>2, <1>5, PaidRests DEF Rush
  <2> QED BY <1>1, <1>3, <1>5, <2>1, <2>3, <2>4, TypePartsNext DEF OInv, SquadsOK
<1>6. ASSUME NEW s \in Fresh, Formed(s, "bases"), scout' = s,
             ~(Exists(scout) /\ squad[scout].manned)
      PROVE  OInv'
  <2>1. s \in SquadId /\ s # main
    BY DEF Fresh, Free
  <2>2. /\ squad' \in Squads /\ squad'[s].order = "bases" /\ squad'[s].manned
        /\ \A r \in SquadId \ {s} : squad'[r] = squad[r]
    BY <1>1, <1>6, <2>1, FormedSquad
  <2>3. IdType'
    BY <1>1, <1>2, <1>6, <2>1 DEF IdType
  <2>4. \A r \in SquadId : squad[r].manned => r # scout
    BY <1>1, <1>6 DEF SquadsOK, Dissolved, Exists
  <2>5. SquadsOK'
    BY <1>1, <1>2, <1>6, <2>2, <2>4 DEF SquadsOK, Dissolved, OnlyMain, NothingLeftBehind
  <2>6. Rush' => Rush
    BY <1>1, <1>2, <2>1, <2>2 DEF Rush, IdType
  <2>7. HalfPaid'
    BY <1>1, <1>2, <2>6, PaidRests
  <2> QED BY <1>3, <2>2, <2>3, <2>5, <2>7, TypePartsNext DEF OInv, SquadsOK
<1> QED BY <1>5, <1>6 DEF ScoutFrame

-----------------------------------------------------------------------------
(* The fighters.                                                           *)
LEMMA AInitOK == EnemyInit /\ ArmyInit => ArmyTypeOK
<1> SUFFICES ASSUME EnemyInit, ArmyInit PROVE ArmyTypeOK
  OBVIOUS
<1>1. newcomers \in Nat /\ army \in Nat /\ left \in Nat /\ lost \in Nat
  BY DEF ArmyInit
<1>2. defended \subseteq ready /\ attack \in {"none", "attack", "reached"} /\ drafted \in BOOLEAN
  BY DEF EnemyInit, ArmyInit
<1> QED BY ONLY <1>1, <1>2 DEF ArmyTypeOK

LEMMA ArmyRestsOK ==
  ASSUME ArmyTypeOK, UNCHANGED armyVars, ready \subseteq ready'
  PROVE  ArmyTypeOK'
BY DEF ArmyTypeOK, armyVars

LEMMA TrainedOK == ASSUME ArmyTypeOK, Trained, UNCHANGED ready PROVE ArmyTypeOK'
BY DEF ArmyTypeOK, Trained

LEMMA FighterDiesOK == ASSUME ArmyTypeOK, FighterDies, UNCHANGED ready PROVE ArmyTypeOK'
BY DEF ArmyTypeOK, FighterDies

LEMMA DefenderStaysOK ==
  ASSUME ArmyTypeOK, NEW l, NexusGone(l), DefenderStays(l)
  PROVE  ArmyTypeOK'
<1>1. lost' \in Nat
  BY DEF ArmyTypeOK, DefenderStays
<1>2. defended' \subseteq ready'
  BY DEF ArmyTypeOK, DefenderStays, NexusGone
<1> QED BY <1>1, <1>2 DEF ArmyTypeOK, DefenderStays

LEMMA ArmyActsOK == ASSUME ArmyTypeOK, ArmyActs, UNCHANGED ready PROVE ArmyTypeOK'
BY DEF ArmyTypeOK, ArmyActs

LEMMA FiniteBases ==
  ASSUME EnemyTypeOK, NEW d \in SUBSET ready
  PROVE  IsFiniteSet(d) /\ Cardinality(d) \in Nat
BY FS_Subset, FS_CardinalityType DEF EnemyTypeOK

(* Those who are sent to defend are no more than there are, and no base    *)
(* gets a second one; either all bases have one then, or all are sent.     *)
LEMMA ChosenOK ==
  ASSUME EnemyTypeOK, defended \subseteq ready, NEW pool \in Nat, NEW g \in Chosen(pool, defended)
  PROVE  /\ defended \cup g \subseteq ready
         /\ Cardinality(g) \in 0..pool
         /\ Cardinality(defended \cup g) = Cardinality(defended) + Cardinality(g)
         /\ defended \cup g = ready \/ Cardinality(g) = pool
<1>1. /\ g \subseteq ready \ defended /\ Cardinality(g) <= pool
      /\ g = ready \ defended \/ Cardinality(g) = pool
  BY DEF Chosen
<1>2. IsFiniteSet(g) /\ IsFiniteSet(defended) /\ Cardinality(g) \in Nat
  BY <1>1, FiniteBases
<1>3. Cardinality(defended \cup g) = Cardinality(defended) + Cardinality(g)
  <2>1. defended \cap g = {}
    BY <1>1
  <2>2. Cardinality(defended) \in Nat /\ Cardinality({}) = 0
    BY <1>2, FS_CardinalityType, FS_EmptySet
  <2>3. Cardinality(defended \cup g)
          = Cardinality(defended) + Cardinality(g) - Cardinality(defended \cap g)
    BY <1>2, FS_Union
  <2>4. Cardinality(defended \cap g) = 0
    BY <2>1, <2>2
  <2>5. Cardinality(defended) + Cardinality(g) - 0 = Cardinality(defended) + Cardinality(g)
    BY <1>2, <2>2
  <2> QED BY ONLY <2>3, <2>4, <2>5
<1> QED BY <1>1, <1>2, <1>3

(* What becomes of the squads that reformSquads has filled: the defenders  *)
(* are taken along, or all stay where they are.                            *)
LEMMA MainOK ==
  ASSUME EnemyTypeOK, ArmyTypeOK, newcomers' = 0, lost' = lost, ready' = ready,
         NEW a \in Nat, NEW w \in Nat, NEW d \in SUBSET ready, NEW t \in BOOLEAN,
         Main(a, w, d, t)
  PROVE  /\ ArmyTypeOK'
         /\ Fighters' = a + w + Cardinality(d)
         /\ drafted' \/ (~t /\ army' = a /\ left' = w /\ defended' = d)
         /\ attack # "none" => attack' # "none"
         /\ drafted' \/ (attack = "none" => attack' = "none")
<1> DEFINE begins == a >= AttackSize /\ attack # "attack"
<1>1. Cardinality(d) \in Nat /\ Cardinality({}) = 0
  BY FiniteBases, FS_EmptySet
<1>2. drafted' = (t \/ begins) /\ left' = w
  BY DEF Main
<1>3. attack' \in {"attack", attack} /\ (attack = "none" /\ ~begins => attack' = "none")
  BY DEF Main
<1>4. CASE begins
  <2>1. army' = a + Cardinality(d) /\ defended' = {}
    BY <1>4 DEF Main
  <2>2. army' \in Nat /\ Fighters' = a + w + Cardinality(d)
    BY <1>1, <1>2, <2>1 DEF Fighters
  <2>3. drafted'
    BY <1>2, <1>4
  <2>4. ArmyTypeOK'
    <3>1. newcomers' \in Nat /\ army' \in Nat /\ left' \in Nat /\ lost' \in Nat
      BY <1>2, <2>2 DEF ArmyTypeOK
    <3>2. drafted' \in BOOLEAN
      BY <1>2
    <3>3. defended' \subseteq ready' /\ attack' \in {"none", "attack", "reached"}
      BY <2>1, <1>3 DEF ArmyTypeOK
    <3> QED BY ONLY <3>1, <3>2, <3>3 DEF ArmyTypeOK
  <2> QED BY <1>3, <2>2, <2>3, <2>4
<1>5. CASE ~begins
  <2>1. army' = a /\ defended' = d
    BY <1>5 DEF Main
  <2>2. Fighters' = a + w + Cardinality(d)
    BY <1>1, <1>2, <2>1 DEF Fighters
  <2>3. drafted' = t
    BY <1>2, <1>5
  <2>4. ArmyTypeOK'
    <3>1. newcomers' \in Nat /\ army' \in Nat /\ left' \in Nat /\ lost' \in Nat
      BY <1>2, <2>1 DEF ArmyTypeOK
    <3>2. drafted' \in BOOLEAN
      BY <2>3
    <3>3. defended' \subseteq ready' /\ attack' \in {"none", "attack", "reached"}
      BY <2>1, <1>3 DEF ArmyTypeOK
    <3> QED BY ONLY <3>1, <3>2, <3>3 DEF ArmyTypeOK
  <2> QED BY <1>2, <1>3, <1>5, <2>1, <2>2, <2>3, <2>4
<1> QED BY <1>4, <1>5

Covered == defended = ready \/ (IF attack = "none" THEN army = 0 ELSE left = 0)

LEMMA ArmyFrameOK ==
  ASSUME EnemyTypeOK, ArmyTypeOK, ArmyFrame, UNCHANGED ready
  PROVE  /\ ArmyTypeOK'
         /\ Fighters' + lost' = Fighters + lost
         /\ ~drafted' => Covered'
<1>1. /\ newcomers \in Nat /\ army \in Nat /\ left \in Nat /\ lost \in Nat
      /\ defended \subseteq ready /\ Cardinality(defended) \in Nat
  BY FiniteBases DEF ArmyTypeOK
<1>2. newcomers' = 0 /\ lost' = lost
  BY DEF ArmyFrame
<1>3. Fighters = newcomers + army + left + Cardinality(defended)
  BY DEF Fighters
<1>4. CASE attack = "none"
  <2>1. PICK g \in Chosen(army + newcomers, defended) :
          Main(army + newcomers - Cardinality(g), left, defended \cup g, FALSE)
    BY <1>4 DEF ArmyFrame, Reform
  <2>2. army + newcomers \in Nat
    BY <1>1
  <2>3. /\ defended \cup g \subseteq ready
        /\ Cardinality(g) \in 0..(army + newcomers)
        /\ Cardinality(defended \cup g) = Cardinality(defended) + Cardinality(g)
        /\ defended \cup g = ready \/ Cardinality(g) = army + newcomers
    BY <1>1, <2>2, ChosenOK
  <2> DEFINE a == army + newcomers - Cardinality(g)
  <2>4. a \in Nat
    BY <1>1, <2>3
  <2>5. /\ ArmyTypeOK'
        /\ Fighters' = a + left + Cardinality(defended \cup g)
        /\ drafted' \/ (army' = a /\ left' = left /\ defended' = defended \cup g)
        /\ drafted' \/ attack' = "none"
    <3>1. defended \cup g \in SUBSET ready /\ left \in Nat /\ FALSE \in BOOLEAN
      BY <1>1, <2>3
    <3>2. /\ ArmyTypeOK'
          /\ Fighters' = a + left + Cardinality(defended \cup g)
          /\ drafted' \/ (army' = a /\ left' = left /\ defended' = defended \cup g)
          /\ drafted' \/ (attack = "none" => attack' = "none")
      BY <1>2, <2>1, <2>4, <3>1, MainOK
    <3> QED BY ONLY <1>4, <3>2
  <2>6. Fighters' + lost' = Fighters + lost
    BY <1>1, <1>2, <1>3, <2>3, <2>5
  <2>7. ~drafted' => Covered'
    <3>1. CASE defended \cup g = ready
      BY ONLY <2>5, <3>1, ready' = ready DEF Covered
    <3>2. CASE Cardinality(g) = army + newcomers
      <4>1. a = 0
        BY <1>1, <3>2
      <4> HIDE DEF a
      <4> QED BY ONLY <2>5, <4>1 DEF Covered
    <3> QED BY <2>3, <3>1, <3>2
  <2> QED BY <2>5, <2>6, <2>7
<1>5. CASE attack # "none" /\ left + newcomers >= JoinSize
  <2> DEFINE a == army + Cardinality(defended) + left + newcomers
  <2>1. Main(a, 0, {}, TRUE)
    <3>1. ~(left + newcomers < JoinSize)
      BY <1>5, <1>1
    <3> QED BY ONLY <1>5, <3>1, ArmyFrame DEF ArmyFrame, Reform
  <2>2. a \in Nat /\ Cardinality({}) = 0
    BY <1>1, FS_EmptySet
  <2>3. ArmyTypeOK' /\ Fighters' = a + 0 + Cardinality({}) /\ drafted'
    <3>1. {} \in SUBSET ready /\ 0 \in Nat /\ TRUE \in BOOLEAN
      OBVIOUS
    <3> HIDE DEF a
    <3> QED BY <1>2, <2>1, <2>2, <3>1, MainOK
  <2>4. Fighters' + lost' = Fighters + lost
    BY <1>1, <1>2, <1>3, <2>2, <2>3
  <2> QED BY <2>3, <2>4
<1>6. CASE attack # "none" /\ ~(left + newcomers >= JoinSize)
  <2>1. PICK g \in Chosen(left + newcomers, defended) :
          Main(army, left + newcomers - Cardinality(g), defended \cup g, FALSE)
    BY <1>6, <1>1 DEF ArmyFrame, Reform
  <2>2. left + newcomers \in Nat
    BY <1>1
  <2>3. /\ defended \cup g \subseteq ready
        /\ Cardinality(g) \in 0..(left + newcomers)
        /\ Cardinality(defended \cup g) = Cardinality(defended) + Cardinality(g)
        /\ defended \cup g = ready \/ Cardinality(g) = left + newcomers
    BY <1>1, <2>2, ChosenOK
  <2> DEFINE w == left + newcomers - Cardinality(g)
  <2>4. w \in Nat
    BY <1>1, <2>3
  <2>5. /\ ArmyTypeOK'
        /\ Fighters' = army + w + Cardinality(defended \cup g)
        /\ drafted' \/ (army' = army /\ left' = w /\ defended' = defended \cup g)
        /\ attack' # "none"
    BY <1>1, <1>2, <1>6, <2>1, <2>3, <2>4, MainOK
  <2>6. Fighters' + lost' = Fighters + lost
    BY <1>1, <1>2, <1>3, <2>3, <2>5
  <2>7. ~drafted' => Covered'
    <3>1. CASE defended \cup g = ready
      BY ONLY <2>5, <3>1, ready' = ready DEF Covered
    <3>2. CASE Cardinality(g) = left + newcomers
      <4>1. w = 0
        BY <1>1, <3>2
      <4> HIDE DEF w
      <4> QED BY ONLY <2>5, <4>1 DEF Covered
    <3> QED BY <2>3, <3>1, <3>2
  <2> QED BY <2>5, <2>6, <2>7
<1> QED BY <1>4, <1>5, <1>6

-----------------------------------------------------------------------------
(* The composition.                                                        *)
LEMMA InitIInv == Init => IInv
<1> SUFFICES ASSUME Init PROVE IInv
  OBVIOUS
<1>1. EInv /\ OInv /\ ArmyTypeOK
  BY EInitOK, OInitOK, AInitOK DEF Init
<1>2. Defended /\ phase \in {"events", "strategy", "combat", "scout"}
  BY DEF Init, Defended
<1> QED BY <1>1, <1>2 DEF IInv

LEMMA EventOK ==
  ASSUME IInv, Event
  PROVE  IInv'
<1>1. EInv /\ OInv /\ ArmyTypeOK
  BY DEF IInv
<1>2. phase = "events" /\ phase' = "events"
  BY DEF Event
<1>3. CASE EnemyEvent /\ UNCHANGED <<openingVars, armyVars>>
  <2>1. ready' = ready
    BY <1>3 DEF EnemyEvent, bases
  <2> QED BY <1>1, <1>2, <1>3, <2>1, EnemyEventOK, OpeningRests, ArmyRestsOK DEF IInv, Defended
<1>4. ASSUME NEW l \in Location, BaseEvent(l) PROVE IInv'
  <2>1. EInv'
    BY <1>1, <1>4, BasesOK DEF BaseEvent
  <2>2. OInv'
    BY <1>1, <1>4, OpeningRests DEF BaseEvent
  <2>3. ArmyTypeOK'
    <3>1. CASE NexusGone(l) /\ DefenderStays(l)
      BY <1>1, <3>1, DefenderStaysOK
    <3>2. CASE (NexusPlaced(l) \/ NexusCompletes(l)) /\ UNCHANGED armyVars
      <4>1. ready \subseteq ready'
        BY <3>2 DEF NexusPlaced, NexusCompletes
      <4> QED BY <1>1, <3>2, <4>1, ArmyRestsOK
    <3> QED BY <1>4, <3>1, <3>2 DEF BaseEvent
  <2> QED BY <1>2, <2>1, <2>2, <2>3 DEF IInv, Defended
<1>5. CASE ProbeEvent
  <2>1. UNCHANGED <<enemyVars, armyVars>> /\ ready' = ready
    BY <1>5 DEF ProbeEvent, enemyVars, bases
  <2>2. OInv'
    BY <1>1, <1>5, ProbeEventOK DEF ProbeEvent
  <2> QED BY <1>1, <1>2, <2>1, <2>2, EnemyRests, ArmyRestsOK DEF IInv, Defended
<1>6. CASE ArmyEvent
  <2>1. UNCHANGED <<enemyVars, openingVars>> /\ ready' = ready
    BY <1>6 DEF ArmyEvent, enemyVars, bases
  <2>2. ArmyTypeOK'
    BY <1>1, <1>6, <2>1, TrainedOK, FighterDiesOK DEF ArmyEvent
  <2> QED BY <1>1, <1>2, <2>1, <2>2, EnemyRests, OpeningRests DEF IInv, Defended
<1> QED BY <1>3, <1>4, <1>5, <1>6 DEF Event

(* Only the combat managers' part of a frame comes to where bases must be  *)
(* defended.                                                               *)
LEMMA FrameOK ==
  ASSUME IInv, Frame
  PROVE  IInv' /\ (phase # "events" => Fighters' + lost' = Fighters + lost)
<1>1. EInv /\ OInv /\ ArmyTypeOK /\ EnemyTypeOK
  BY DEF IInv, EInv
<1>2. ASSUME NEW more \in 0..Missing, SquadsFrame(more)
      PROVE  IInv' /\ phase = "events"
  <2>1. UNCHANGED enemyVars /\ ready' = ready
    BY <1>2 DEF SquadsFrame, enemyVars, bases
  <2>2. OInv'
    BY <1>1, <1>2, SquadsActOK DEF SquadsFrame
  <2>3. ArmyTypeOK'
    BY <1>1, <1>2, <2>1, ArmyActsOK DEF SquadsFrame
  <2>4. phase = "events" /\ phase' = "strategy"
    BY <1>2 DEF SquadsFrame
  <2> QED BY <1>1, <2>1, <2>2, <2>3, <2>4, EnemyRests DEF IInv, Defended
<1>3. ASSUME NEW due \in BOOLEAN, StrategyFrame(due)
      PROVE  IInv' /\ Fighters' + lost' = Fighters + lost
  <2>1. UNCHANGED armyVars /\ ready' = ready
    BY <1>3 DEF StrategyFrame, EnemyFrame, bases
  <2>2. EInv'
    BY <1>1, <1>3, EnemyFrameOK DEF StrategyFrame
  <2>3. OInv'
    BY <1>1, <1>3, SwitchStrategyOK DEF StrategyFrame
  <2>4. ArmyTypeOK'
    BY <1>1, <2>1, ArmyRestsOK
  <2>5. phase' = "combat"
    BY <1>3 DEF StrategyFrame
  <2>6. Fighters' + lost' = Fighters + lost
    BY <2>1 DEF armyVars, Fighters
  <2> QED BY <2>2, <2>3, <2>4, <2>5, <2>6 DEF IInv, Defended
<1>4. CASE CombatFrame
  <2>1. UNCHANGED enemyVars /\ ready' = ready
    BY <1>4 DEF CombatFrame, enemyVars, bases
  <2>2. EInv'
    BY <1>1, <2>1, EnemyRests
  <2>3. OInv'
    BY <1>1, <1>4, OpeningFrameOK DEF CombatFrame
  <2>4. /\ ArmyTypeOK'
        /\ Fighters' + lost' = Fighters + lost
        /\ ~drafted' => Covered'
    BY <1>1, <1>4, <2>1, ArmyFrameOK DEF CombatFrame
  <2>5. phase' \in {"events", "scout"}
    BY <1>4 DEF CombatFrame
  <2> QED BY <2>2, <2>3, <2>4, <2>5 DEF IInv, Defended, Covered
<1>5. CASE LastFrame
  <2>1. UNCHANGED enemyVars /\ ready' = ready /\ ArmyRests
    BY <1>5 DEF LastFrame, enemyVars, bases
  <2>2. OInv'
    BY <1>1, <1>5, ScoutFrameOK DEF LastFrame
  <2>3. ArmyTypeOK'
    BY <1>1, <2>1 DEF ArmyRests, ArmyTypeOK
  <2>4. phase' = "events"
    BY <1>5 DEF LastFrame
  <2>5. Fighters' + lost' = Fighters + lost
    BY <2>1 DEF ArmyRests, Fighters
  <2> QED BY <1>1, <2>1, <2>2, <2>3, <2>4, <2>5, EnemyRests DEF IInv, Defended
<1> QED BY <1>2, <1>3, <1>4, <1>5 DEF Frame

LEMMA StutterOK ==
  ASSUME IInv, UNCHANGED vars
  PROVE  IInv'
<1>1. UNCHANGED <<enemyVars, openingVars, armyVars, phase>> /\ ready' = ready
  BY DEF vars, enemyVars, bases
<1>2. EInv' /\ OInv' /\ ArmyTypeOK'
  BY <1>1, EnemyRests, OpeningRests, ArmyRestsOK DEF IInv
<1>3. Defended'
  BY <1>1 DEF IInv, Defended, armyVars
<1> QED BY <1>1, <1>2, <1>3 DEF IInv

LEMMA Inductive == IInv /\ [Next]_vars => IInv'
BY EventOK, FrameOK, StutterOK DEF Next

LEMMA Invariance == Spec => []IInv
BY InitIInv, Inductive, PTL DEF Spec

-----------------------------------------------------------------------------
(* The types.                                                              *)
THEOREM TypeCorrect == Spec => []TypeOK
<1>1. IInv => TypeOK
  BY DEF IInv, EInv, OInv, TypeOK
<1> QED BY Invariance, <1>1, PTL

(* What is believed of a location is believed once, whatever is seen, lost *)
(* and cleared, and whenever the timer expects the whole map again.        *)
THEOREM BeliefConsistent == Spec => []KnownOnce
<1>1. IInv => KnownOnce
  BY DEF IInv, EInv
<1> QED BY Invariance, <1>1, PTL

(* Every probe of an unended order is in a squad that a module remembers.  *)
THEOREM NobodyForgotten == Spec => []NothingLeftBehind
<1>1. IInv => NothingLeftBehind
  BY DEF IInv, OInv
<1> QED BY Invariance, <1>1, PTL

(* Half of the rush's price is allocated before it asks for anything, for  *)
(* placements of any size.                                                 *)
THEOREM RushHalfPaid == Spec => []HalfPaid
<1>1. IInv => HalfPaid
  BY DEF IInv, OInv
<1> QED BY Invariance, <1>1, PTL

(* No base that could have a defender is without one after a frame that    *)
(* has not drafted them, for any number of bases and fighters.             *)
THEOREM BasesDefended == Spec => []Defended
<1>1. IInv => Defended
  BY DEF IInv
<1> QED BY Invariance, <1>1, PTL

(* The managers neither lose a fighter nor make one.                       *)
THEOREM FightersConserved == Spec => FightersKept
<1>1. IInv /\ [Next]_vars => [phase # "events" => Fighters' + lost' = Fighters + lost]_vars
  <2> SUFFICES ASSUME IInv, Next
               PROVE  phase # "events" => Fighters' + lost' = Fighters + lost
    OBVIOUS
  <2>1. CASE Event
    BY <2>1 DEF Event
  <2>2. CASE Frame
    BY <2>2, FrameOK
  <2> QED BY <2>1, <2>2 DEF Next
<1> QED BY Invariance, <1>1, PTL DEF Spec, FightersKept
=============================================================================
