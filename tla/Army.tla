-------------------------------- MODULE Army --------------------------------
(***************************************************************************)
(* CombatManager's fighters: the main squad, the squad of those who wait   *)
(* behind an attack, and the defensive squads of the bases, each of at     *)
(* most one fighter. Fighters are counted, not named; a defensive squad is *)
(* named by the location of its base.                                      *)
(*                                                                         *)
(* AttackWithKiting is kept with whether it is completed; GroupAroundOrder *)
(* and no order at all are the same, as only the attack is asked about.    *)
(***************************************************************************)
EXTENDS EnemyBases

CONSTANTS AttackSize, \* fighters of an attack: 8
          JoinSize,   \* fighters that follow an attack: 6
          MaxFighters \* bound; at most one is trained in a frame

ASSUME ArmyAssumption ==
  AttackSize \in Nat \ {0} /\ JoinSize \in Nat \ {0} /\ MaxFighters \in Nat

VARIABLES
  newcomers, \* fighters of the unassigned squad
  army,      \* fighters of mainSquad
  left,      \* fighters of leftOverSquad
  defended,  \* locations of bases whose defensive squad has its fighter
  lost,      \* fighters in the defensive squads of bases that are gone
  attack,    \* mainSquad's order: "none", "attack", or "reached": a completed attack
  drafted    \* whether this frame has taken the defenders along

armyVars == <<newcomers, army, left, defended, lost, attack, drafted>>

Fighters == newcomers + army + left + Cardinality(defended)

ArmyTypeOK ==
  /\ newcomers \in Nat /\ army \in Nat /\ left \in Nat /\ lost \in Nat
  /\ defended \subseteq ready
  /\ attack \in {"none", "attack", "reached"} /\ drafted \in BOOLEAN

ArmyInit ==
  /\ newcomers = 0 /\ army = 0 /\ left = 0 /\ defended = {} /\ lost = 0
  /\ attack = "none" /\ drafted = FALSE

-----------------------------------------------------------------------------
(* Callbacks of SquadManager.                                              *)
Trained ==
  /\ newcomers = 0 /\ Fighters + lost < MaxFighters
  /\ newcomers' = newcomers + 1
  /\ UNCHANGED <<army, left, defended, lost, attack, drafted>>

FighterDies ==
  /\ \/ newcomers > 0 /\ newcomers' = newcomers - 1 /\ UNCHANGED <<army, left, defended, lost>>
     \/ army > 0 /\ army' = army - 1 /\ UNCHANGED <<newcomers, left, defended, lost>>
     \/ left > 0 /\ left' = left - 1 /\ UNCHANGED <<newcomers, army, defended, lost>>
     \/ \E b \in defended : defended' = defended \ {b} /\ UNCHANGED <<newcomers, army, left, lost>>
     \/ lost > 0 /\ lost' = lost - 1 /\ UNCHANGED <<newcomers, army, left, defended>>
  /\ UNCHANGED <<attack, drafted>>

DefenderStays_Mutant(l) == UNCHANGED armyVars

\* Base::onDestroyed dissolves the squads of the workers only.
DefenderStays(l) ==
  /\ defended' = defended \ {l}
  /\ lost' = lost + (IF l \in defended THEN 1 ELSE 0)
  /\ UNCHANGED <<newcomers, army, left, attack, drafted>>

\* AttackWithKiting::onStep: a fighter is at the target.
ArmyActs ==
  /\ \/ UNCHANGED attack
     \/ attack = "attack" /\ army > 0 /\ attack' = "reached"
  /\ UNCHANGED <<newcomers, army, left, defended, lost, drafted>>

-----------------------------------------------------------------------------
(* CombatManager::onFrame. The squads that reformSquads has filled are a   *)
(* and w, the defensive squads d; t says whether it has drafted them.      *)
Chosen_Mutant(pool, d) ==
  {g \in SUBSET (ready \ d) : /\ g = {} \/ Cardinality(g) < pool
                              /\ pool = 0 \/ g = ready \ d \/ Cardinality(g) = pool - 1}

\* One fighter of the pool to each ready base without one, as long as there are fighters.
Chosen(pool, d) ==
  {g \in SUBSET (ready \ d) : /\ Cardinality(g) <= pool
                              /\ g = ready \ d \/ Cardinality(g) = pool}

Main_Mutant(a, w, d, t) ==
  LET begins == a >= AttackSize /\ attack # "attack"
  IN  /\ army'     = a
      /\ defended' = IF begins THEN {} ELSE d
      /\ drafted'  = (t \/ begins)
      /\ attack'   = IF TargetKnown /\ (begins \/ attack = "reached") THEN "attack" ELSE attack
      /\ left'     = w

\* A large enough main squad without an attack under way takes the defenders along and, if
\* there is a target, attacks; an attack that has reached its target goes on to the next.
Main(a, w, d, t) ==
  LET begins == a >= AttackSize /\ attack # "attack"
  IN  /\ army'     = IF begins THEN a + Cardinality(d) ELSE a
      /\ defended' = IF begins THEN {} ELSE d
      /\ drafted'  = (t \/ begins)
      /\ attack'   = IF TargetKnown /\ (begins \/ attack = "reached") THEN "attack" ELSE attack
      /\ left'     = w

\* reformSquads: new fighters join the main squad, or wait for enough others behind an
\* attack; then one of those they have joined goes to each base that nobody defends.
Reform ==
  \/ /\ attack = "none"
     /\ \E g \in Chosen(army + newcomers, defended) :
          Main(army + newcomers - Cardinality(g), left, defended \cup g, FALSE)
  \/ /\ attack # "none" /\ left + newcomers >= JoinSize
     /\ Main(army + Cardinality(defended) + left + newcomers, 0, {}, TRUE)
  \/ /\ attack # "none" /\ left + newcomers < JoinSize
     /\ \E g \in Chosen(left + newcomers, defended) :
          Main(army, left + newcomers - Cardinality(g), defended \cup g, FALSE)

ArmyFrame == Reform /\ newcomers' = 0 /\ UNCHANGED lost

\* Whether defenders were taken along is remembered up to the end of the frame.
ArmyRests == drafted' = FALSE /\ UNCHANGED <<newcomers, army, left, defended, lost, attack>>
=============================================================================
