----------------------------- MODULE WorkerLines -----------------------------
(***************************************************************************)
(* How probes are shared out: WorkerManager moves them between the mineral *)
(* and vespene squads of the completed bases, and the orders of those      *)
(* squads, CollectMineralsOrder and CollectVespeneOrder, keep lists of who *)
(* gathers where. A probe's squad (Squad::m_units, SquadManager::m_units)  *)
(* and the lists of the squad's order are kept by different classes and    *)
(* have to agree.                                                          *)
(*                                                                         *)
(* A frame is stage "events" (UnitInfoManager's callbacks, and the probes  *)
(* lent to tasks by the frame before), then WorkerManager::onFrame ("fix", *)
(* "assign"), then SquadManager::onFrame ("lines", "mining"). The loops    *)
(* that move one probe at a time are one step per probe. Bases, patches    *)
(* and geysers are numbers, in the order the code's vectors and maps keep  *)
(* them; a base whose nexus is not completed has empty lines and is left   *)
(* out.                                                                    *)
(***************************************************************************)
EXTENDS Naturals, FiniteSets, FiniteSetsExt, SequencesExt, Functions

CONSTANTS Probe, Base, Patch, Geyser,
          PatchBase, GeyserBase, \* the base a patch or a geyser belongs to
          FirstProbes,           \* how many probes the game starts with
          MaxEvents              \* bound: events in a behaviour

ASSUME WorkerLinesAssumption ==
  /\ Base \subseteq Nat \ {0} /\ Patch \subseteq Nat /\ Geyser \subseteq Nat
  /\ IsFiniteSet(Probe) /\ IsFiniteSet(Base) /\ IsFiniteSet(Patch) /\ IsFiniteSet(Geyser)
  /\ PatchBase \in [Patch -> Base] /\ GeyserBase \in [Geyser -> Base]
  /\ MaxEvents \in Nat /\ FirstProbes \in 0..Cardinality(Probe)

VARIABLES
  squad,      \* the squad of each probe: <<"mineral" or "vespene", base>> or one below
  line,       \* the order of each resource squad
  nexus, minerals, geyser, \* the bases, their live patches, their assimilators
  stage, pass, room,       \* the place in the frame; room is availableWorkerPositions
  todo,       \* bases whose lines have not stepped in this frame
  events      \* how many events there have been

world == <<nexus, minerals, geyser>>
loop  == <<stage, pass, room, todo>>
vars  == <<squad, line, world, loop, events>>

Unborn     == <<"unborn", 0>>
Dead       == <<"dead", 0>>
Unassigned == <<"unassigned", 0>> \* SquadManager's unassigned squad
Lent       == <<"task", 0>>       \* a squad of m_additionalSquads
Squads     == {"mineral", "vespene"} \X Base

Completed       == {b \in Base : nexus[b] = "completed"}
Members(s)      == {u \in Probe : squad[u] = s}
Assimilators(b) == {g \in Geyser : GeyserBase[g] = b /\ geyser[g] = "active"}
Sources(s)      == IF s[1] = "mineral" THEN minerals[s[2]] ELSE Assimilators(s[2])

-----------------------------------------------------------------------------
(* The orders. Both keep a list per source and a list of the unassigned.   *)
\* The mineral order starts with a list for every patch that is left.
NewLine(ps) == [listed |-> [p \in ps |-> <<>>], unassigned |-> <<>>, over |-> FALSE]

Added(l, u) == [l EXCEPT !.unassigned = Append(@, u)]

Unlisted(lists, u) ==
  LET holding == {k \in DOMAIN lists : Contains(lists[k], u)}
  IN  IF holding = {} THEN lists ELSE [lists EXCEPT ![Min(holding)] = RemoveFirst(@, u)]

Removed_Mutant(s, l, u) == [l EXCEPT !.listed = Unlisted(@, u)]

\* onUnitRemoved: the vespene order looks among its unassigned probes too.
Removed(s, l, u) ==
  IF s[1] = "mineral" THEN [l EXCEPT !.listed = Unlisted(@, u)]
  ELSE [l EXCEPT !.listed = Unlisted(@, u), !.unassigned = RemoveFirst(@, u)]

Shortest(lists) ==
  {k \in DOMAIN lists : \A j \in DOMAIN lists : Len(lists[k]) <= Len(lists[j])}

\* The probes of the lists of ks, in the order of the map.
Flat(lists, ks) == MapThenFoldSet(LAMBDA list, s : s \o list, <<>>, LAMBDA k : lists[k], Max, ks)

\* addActiveAssimilators: new ones are looked for only when there are more than lists.
WithNew(lists, active) ==
  IF Cardinality(active) <= Cardinality(DOMAIN lists) THEN lists
  ELSE [g \in DOMAIN lists \cup active |-> IF g \in DOMAIN lists THEN lists[g] ELSE <<>>]

Free(n) == IF n < 3 THEN 3 - n ELSE 0

\* The excess of an overfull assimilator is taken one probe per frame.
TakeExcess(positions, l, g) ==
  IF Len(l.listed[g]) > 3 /\ positions > Len(l.unassigned)
  THEN [l EXCEPT !.listed[g] = Tail(@), !.unassigned = Append(@, Head(l.listed[g]))]
  ELSE l

\* One assimilator after the other, in the order of the map.
ExcessTaken(positions, l) ==
  MapThenFoldSet(LAMBDA g, m : TakeExcess(positions, m, g), l, LAMBDA g : g, Max, DOMAIN l.listed)

\* The first of the shortest lists gets the probe.
Assigned(lists, u) == [lists EXCEPT ![Min(Shortest(lists))] = Append(@, u)]

\* Without any list assignWorkers stops at the first probe.
Served(l) ==
  IF DOMAIN l.listed = {} THEN l
  ELSE [l EXCEPT !.listed = FoldLeft(Assigned, @, l.unassigned), !.unassigned = <<>>]

VespeneStep_Mutant(l, active) ==
  LET lists == WithNew(l.listed, active)
      gone  == DOMAIN lists \ active
  IN  Served([l EXCEPT !.listed = [g \in DOMAIN lists |->
                                     IF g \in gone THEN <<>> ELSE lists[g]],
                       !.unassigned = @ \o Flat(lists, gone)])

VespeneStep(l, active) ==
  LET lists     == WithNew(l.listed, active)
      gone      == DOMAIN lists \ active
      kept      == Restrict(lists, DOMAIN lists \ gone)
      positions == SumFunction([g \in DOMAIN kept |-> Free(Len(kept[g]))])
      cleared   == [l EXCEPT !.listed = kept, !.unassigned = @ \o Flat(lists, gone)]
  IN  Served(ExcessTaken(positions, cleared))

\* Who mined a dead patch is to be reassigned, but stays in its list.
MineralStep(l, live) == [l EXCEPT !.unassigned = @ \o Flat(l.listed, DOMAIN l.listed \ live)]

-----------------------------------------------------------------------------
(* SquadManager::transferUnits adds first and removes then.                *)
MoveTo(u, s) ==
  /\ squad' = [squad EXCEPT ![u] = s]
  /\ line' = [q \in Squads |-> IF q = s THEN Added(line[q], u)
                               ELSE IF q = squad[u] THEN Removed(q, line[q], u)
                               ELSE line[q]]

Saturation(per, s) == per * Cardinality(Sources(s))

\* The completed bases whose squad of this type is below, or above, per probes a source.
Roomy(type, per)   == {b \in Completed :
                        Saturation(per, <<type, b>>) > Cardinality(Members(<<type, b>>))}
Crowded_Mutant(type, per) == {b \in Completed :
                        /\ Members(<<type, b>>) # {}
                        /\ Saturation(per, <<type, b>>) <= Cardinality(Members(<<type, b>>))}
Crowded(type, per) == {b \in Completed :
                        Saturation(per, <<type, b>>) < Cardinality(Members(<<type, b>>))}

Preference == << <<"vespene", 2>>, <<"vespene", 3>>, <<"mineral", 2>>, <<"mineral", 3>> >>

\* assignUnit; some base is completed.
AssignUnit(u) ==
  LET open == {i \in DOMAIN Preference : Roomy(Preference[i][1], Preference[i][2]) # {}}
      best == Preference[Min(open)]
  IN  IF open = {} THEN MoveTo(u, <<"mineral", Min(Completed)>>)
      ELSE MoveTo(u, <<best[1], Min(Roomy(best[1], best[2]))>>)

\* The passes of fixResourceLines(MINERAL) and fixResourceLines(VESPENE).
Passes == << <<"mineral", 2>>, <<"mineral", 3>>, <<"vespene", 2>>, <<"vespene", 3>> >>

Positions_Mutant(p) ==
  Cardinality(Roomy(Passes[p][1], Passes[p][2]))

Positions(p) ==
  LET type == Passes[p][1]
      per  == Passes[p][2]
  IN  SumFunction([b \in Roomy(type, per) |->
                     Saturation(per, <<type, b>>) - Cardinality(Members(<<type, b>>))])

-----------------------------------------------------------------------------
Home == Min(Base)

\* The game starts at the first base.
Init ==
  \E first \in kSubset(FirstProbes, Probe) :
    /\ nexus = [b \in Base |-> IF b = Home THEN "completed" ELSE "ahead"]
    /\ squad = [u \in Probe |-> IF u \in first THEN Unassigned ELSE Unborn]
    /\ minerals = [b \in Base |-> {p \in Patch : PatchBase[p] = b}]
    /\ line = [s \in Squads |->
                NewLine(IF s = <<"mineral", Home>> THEN minerals[Home] ELSE {})]
    /\ geyser = [g \in Geyser |-> "bare"]
    /\ stage = "events" /\ pass = 1 /\ room = 0 /\ todo = {}
    /\ events = 0

(* What the game reports, and the probes taken by tasks.                   *)
Trained(u) ==
  /\ stage = "events" /\ squad[u] = Unborn
  /\ squad' = [squad EXCEPT ![u] = Unassigned]
  /\ UNCHANGED <<line, world, loop>>

Dies(u) ==
  /\ stage = "events" /\ squad[u] \notin {Unborn, Dead}
  /\ MoveTo(u, Dead)
  /\ UNCHANGED <<world, loop>>

MineralExpires(p) ==
  /\ stage = "events" /\ p \in minerals[PatchBase[p]]
  /\ minerals' = [minerals EXCEPT ![PatchBase[p]] = @ \ {p}]
  /\ UNCHANGED <<squad, line, nexus, geyser, loop>>

\* An assimilator is completed; it is exhausted or destroyed.
AssimilatorTurns(g, from, to) ==
  /\ stage = "events" /\ geyser[g] = from
  /\ geyser' = [geyser EXCEPT ![g] = to]
  /\ UNCHANGED <<squad, line, nexus, minerals, loop>>

\* A Base is made when its nexus is placed; here it is completed at once.
NexusCompleted(b) ==
  /\ stage = "events" /\ nexus[b] = "ahead"
  /\ nexus' = [nexus EXCEPT ![b] = "completed"]
  /\ line' = [line EXCEPT ![<<"mineral", b>>] = NewLine(minerals[b])]
  /\ UNCHANGED <<squad, minerals, geyser, loop>>

Deformed_Mutant(b) ==
  [u \in Probe |-> IF squad[u] = <<"mineral", b>> THEN Unassigned ELSE squad[u]]

\* BaseWorkers::deform: both squads go to the unassigned squad.
Deformed(b) == [u \in Probe |->
  IF squad[u] \in {<<"mineral", b>>, <<"vespene", b>>} THEN Unassigned ELSE squad[u]]

NexusDestroyed(b) ==
  /\ stage = "events" /\ nexus[b] = "completed"
  /\ nexus' = [nexus EXCEPT ![b] = "destroyed"]
  /\ squad' = Deformed(b)
  /\ line' = [s \in Squads |-> IF s[2] = b THEN NewLine({}) ELSE line[s]]
  /\ UNCHANGED <<minerals, geyser, loop>>

\* formSquad takes from the mineral squads.
Lend(u) ==
  /\ stage = "events" /\ squad[u] \in Squads /\ squad[u][1] = "mineral"
  /\ MoveTo(u, Lent)
  /\ UNCHANGED <<world, loop>>

\* The task's order is completed; WorkerManager deforms the squad.
TaskCompleted(u) ==
  /\ stage = "events" /\ squad[u] = Lent
  /\ MoveTo(u, Unassigned)
  /\ UNCHANGED <<world, loop>>

-----------------------------------------------------------------------------
CrowdedIn(p) == Crowded(Passes[p][1], Passes[p][2])

\* On to the first pass from p on with something to move.
GoToPass(p) ==
  LET work == {q \in p..4 : Positions(q) > 0 /\ CrowdedIn(q) # {}}
  IN  IF work = {} THEN stage' = "assign" /\ pass' = 1 /\ room' = 0
      ELSE stage' = "fix" /\ pass' = Min(work) /\ room' = Positions(Min(work))

BeginFrame ==
  /\ stage = "events" /\ GoToPass(1)
  /\ UNCHANGED <<squad, line, world, todo, events>>

Rebalance_Mutant(u) ==
  /\ stage = "fix" /\ room > 0 /\ CrowdedIn(pass) # {}
  /\ squad[u] = <<Passes[pass][1], Min(CrowdedIn(pass))>>
  /\ AssignUnit(u)
  /\ UNCHANGED <<world, stage, pass, room, todo, events>>

Rebalance(u) ==
  /\ stage = "fix" /\ room > 0 /\ CrowdedIn(pass) # {}
  /\ squad[u] = <<Passes[pass][1], Min(CrowdedIn(pass))>>
  /\ AssignUnit(u)
  /\ room' = room - 1
  /\ UNCHANGED <<world, stage, pass, todo, events>>

NextPass ==
  /\ stage = "fix" /\ (room = 0 \/ CrowdedIn(pass) = {}) /\ GoToPass(pass + 1)
  /\ UNCHANGED <<squad, line, world, todo, events>>

AssignFree(u) ==
  /\ stage = "assign" /\ squad[u] = Unassigned /\ Completed # {}
  /\ AssignUnit(u)
  /\ UNCHANGED <<world, loop, events>>

AllAssigned ==
  /\ stage = "assign" /\ (Members(Unassigned) = {} \/ Completed = {})
  /\ stage' = "lines" /\ todo' = Completed
  /\ UNCHANGED <<squad, line, world, pass, room, events>>

Mining(l) == ~l.over /\ l.unassigned # <<>>

\* On with base b, whose mineral line is now l, or to the next base.
GoOn(b, l) ==
  IF Mining(l) THEN stage' = "mining" /\ UNCHANGED todo
  ELSE stage' = "lines" /\ todo' = todo \ {b}

\* Squad::act does not step an order that is over.
StepLines(b) ==
  LET m    == <<"mineral", b>>
      v    == <<"vespene", b>>
      next == IF line[m].over THEN line[m] ELSE MineralStep(line[m], minerals[b])
  IN  /\ stage = "lines" /\ todo # {} /\ b = Min(todo)
      /\ line' = [line EXCEPT ![v] = VespeneStep(@, Assimilators(b)), ![m] = next]
      /\ GoOn(b, next)
      /\ UNCHANGED <<squad, world, pass, room, events>>

\* The probe is listed before the patch is found to be dead, which ends the order.
Mine_Mutant(l, p, live) ==
  LET listed == [l EXCEPT !.listed[p] = Append(@, Head(l.unassigned))]
  IN  IF p \in live THEN [listed EXCEPT !.unassigned = Tail(@)]
      ELSE [listed EXCEPT !.unassigned = <<>>]

Mine(l, p, live) ==
  LET listed == [l EXCEPT !.listed[p] = Append(@, Head(l.unassigned))]
  IN  IF p \in live THEN [listed EXCEPT !.unassigned = Tail(@)]
      ELSE [listed EXCEPT !.over = TRUE]

\* assignWorkers; among the shortest lists the nearest patch, so any of them.
AssignMineral(b, p) ==
  LET m    == <<"mineral", b>>
      next == Mine(line[m], p, minerals[b])
  IN  /\ stage = "mining" /\ b = Min(todo)
      /\ p \in Shortest(line[m].listed)
      /\ line' = [line EXCEPT ![m] = next]
      /\ GoOn(b, next)
      /\ UNCHANGED <<squad, world, pass, room, events>>

NoMinerals(b) ==
  LET m    == <<"mineral", b>>
      next == [line[m] EXCEPT !.over = TRUE]
  IN  /\ stage = "mining" /\ b = Min(todo) /\ DOMAIN line[m].listed = {}
      /\ line' = [line EXCEPT ![m] = next]
      /\ GoOn(b, next)
      /\ UNCHANGED <<squad, world, pass, room, events>>

EndFrame ==
  /\ stage = "lines" /\ todo = {} /\ stage' = "events"
  /\ UNCHANGED <<squad, line, world, pass, room, todo, events>>

Frame ==
  \/ BeginFrame \/ NextPass \/ AllAssigned \/ EndFrame
  \/ \E u \in Probe : Rebalance(u) \/ AssignFree(u)
  \/ \E b \in Base : StepLines(b) \/ NoMinerals(b) \/ \E p \in Patch : AssignMineral(b, p)

Event ==
  /\ events < MaxEvents /\ events' = events + 1
  /\ \/ \E u \in Probe : Trained(u) \/ Dies(u) \/ Lend(u) \/ TaskCompleted(u)
     \/ \E p \in Patch : MineralExpires(p)
     \/ \E g \in Geyser : AssimilatorTurns(g, "bare", "active")
                          \/ AssimilatorTurns(g, "active", "gone")
     \/ \E b \in Base : NexusCompleted(b) \/ NexusDestroyed(b)

Next == Frame \/ Event

Spec == Init /\ [][Next]_vars

\* The game calls OnStep again and again, and a frame runs to its end.
FairSpec == Spec /\ WF_vars(Frame)

-----------------------------------------------------------------------------
IsOrder(l) ==
  /\ l \in [listed : [DOMAIN l.listed -> Seq(Probe)], unassigned : Seq(Probe), over : BOOLEAN]
  /\ DOMAIN l.listed \subseteq Patch \cup Geyser

\* Every variable has its type, and only orders of completed bases name probes.
TypeOK ==
  /\ squad \in [Probe -> Squads \cup {Unborn, Dead, Unassigned, Lent}]
  /\ line = [s \in Squads |-> line[s]]
  /\ \A s \in Squads : IsOrder(line[s])
  /\ \A s \in Squads : s[2] \notin Completed => Members(s) = {} /\ line[s] = NewLine({})
  /\ nexus \in [Base -> {"ahead", "completed", "destroyed"}]
  /\ minerals \in [Base -> SUBSET Patch]
  /\ geyser \in [Geyser -> {"bare", "active", "gone"}]
  /\ stage \in {"events", "fix", "assign", "lines", "mining"}
  /\ pass \in 1..4 /\ room \in Nat /\ todo \subseteq Completed /\ events \in 0..MaxEvents

\* No list names a probe twice, and no two lists name the same one.
Apart(lists) ==
  /\ \A k \in DOMAIN lists : IsInjective(lists[k])
  /\ \A k, j \in DOMAIN lists : k # j => Range(lists[k]) \cap Range(lists[j]) = {}

AllNames(lists, ks) == UNION {Range(lists[k]) : k \in ks}

\* The order names each of the probes us once, and nobody else.
NamesOnce(l, us) ==
  /\ us = Range(l.unassigned) \cup AllNames(l.listed, DOMAIN l.listed)
  /\ IsInjective(l.unassigned) /\ Apart(l.listed)
  /\ Range(l.unassigned) \cap AllNames(l.listed, DOMAIN l.listed) = {}

\* CollectVespeneOrder names each probe of its squad exactly once, under an
\* assimilator or as unassigned, and names nobody else: whatever sequence of
\* transfers, deaths and closing assimilators it has seen.
VespenePlacement ==
  \A b \in Completed : NamesOnce(line[<<"vespene", b>>], Members(<<"vespene", b>>))

\* When WorkerManager is done, no base has a vespene line over a saturation
\* (two, then three a source) while another base's is under it: the positions
\* counted before the loop in fixResourceLines are neither too few nor stale.
VespeneBalanced ==
  stage = "lines" => \A per \in {2, 3} :
    Crowded("vespene", per) = {} \/ Roomy("vespene", per) = {}

\* u leaves its line for one below three probes a source, and below the saturation
\* of the pass when it is a line of the same type.
FindsRoom(u) ==
  LET s == squad'[u]
  IN  /\ s # squad[u] /\ s[2] \in Roomy(s[1], 3)
      /\ s[1] = Passes[pass][1] => s[2] \in Roomy(s[1], Passes[pass][2])

\* Each position that fixResourceLines counts off has been filled by a probe that moved
\* to a line with a place for it. assignUnit chooses the line without knowing of the pass
\* or its count, and would put a probe back, or into a full line, once the count is too high.
MovesFindRoom == [][\A u \in Probe : Rebalance(u) => FindsRoom(u)]_vars

\* While CollectMineralsOrder runs, its step leaves every probe of the squad
\* listed under a live patch, those that came from a dead patch included.
EveryProbeMines ==
  stage = "lines" => \A b \in Completed \ todo :
    ~line[<<"mineral", b>>].over => \A u \in Members(<<"mineral", b>>) :
      \E p \in minerals[b] : Contains(line[<<"mineral", b>>].listed[p], u)

\* Once the game stops interfering, probes stop changing squads: the moves of
\* fixResourceLines do not undo each other from frame to frame.
Settles == <>[][UNCHANGED squad]_vars

WaitsForGas(u) ==
  /\ squad[u][1] = "vespene" /\ Sources(squad[u]) # {}
  /\ \A g \in Sources(squad[u]) \cap DOMAIN line[squad[u]].listed :
       ~Contains(line[squad[u]].listed[g], u)

\* A probe of a vespene squad whose base has an active assimilator does not wait
\* for one for ever: also when one closes in the frame another opens, where
\* addActiveAssimilators sees no more assimilators than lists.
VespeneServed == \A u \in Probe : WaitsForGas(u) ~> ~WaitsForGas(u)

\* The comments of CollectMineralsOrder give one reason to end the order:
\* "cannot assign worker anywhere since no minerals exist".
LineEndsMinedOut ==
  \A b \in Completed : line[<<"mineral", b>>].over => minerals[b] = {}
=============================================================================
