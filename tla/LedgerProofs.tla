---------------------------- MODULE LedgerProofs ----------------------------
(***************************************************************************)
(* The ledger of EconomyManager, for every price list and every number of  *)
(* workers and tasks: what it sets aside against the prices of the tasks   *)
(* that have not been ordered yet.                                         *)
(***************************************************************************)
EXTENDS BuildTasksProofs, Sums

\* What the tasks in S cost, if p is what they are to build.
Worth(S, p) ==
  [minerals |-> SumFunctionOnSet([i \in S |-> Booked(p[i].type).minerals], S),
   vespene  |-> SumFunctionOnSet([i \in S |-> Booked(p[i].type).vespene], S)]

AtLeast(r, b) == r.minerals >= b.minerals /\ r.vespene >= b.vespene

-----------------------------------------------------------------------------
(* Sums of prices.                                                         *)
LEMMA IdFinite == \A S \in SUBSET Id : IsFiniteSet(S)
<1>1. 1 \in Int /\ MaxTask \in Int
  BY ConstantsAssumption
<1>2. IsFiniteSet(Id)
  BY <1>1, FS_Interval DEF Id
<1> QED BY <1>2, FS_Subset

LEMMA WorthNone ==
  ASSUME NEW p
  PROVE  Worth({}, p) = [minerals |-> 0, vespene |-> 0]
BY SumEmpty DEF Worth

\* One task's price can be taken out of the sum.
LEMMA WorthRemove ==
  ASSUME NEW S \in SUBSET Id, NEW p, \A j \in S : p[j] \in Plan, NEW i \in S
  PROVE  /\ Worth(S, p) \in Resources
         /\ Worth(S \ {i}, p) = Minus(Worth(S, p), Booked(p[i].type))
<1>1. IsFiniteSet(S) /\ IsFiniteSet(S \ {i})
  BY IdFinite
<1>2. \A j \in S : Booked(p[j].type).minerals \in Int /\ Booked(p[j].type).vespene \in Int
  BY BookedType DEF Resources
<1> DEFINE m == [j \in S |-> Booked(p[j].type).minerals]
           v == [j \in S |-> Booked(p[j].type).vespene]
           n == [j \in S \ {i} |-> Booked(p[j].type).minerals]
           u == [j \in S \ {i} |-> Booked(p[j].type).vespene]
<1>3. \A j \in S : m[j] \in Int /\ v[j] \in Int
  BY <1>2
<1>4. \A j \in S \ {i} : m[j] = n[j] /\ v[j] = u[j]
  OBVIOUS
<1>5. m[i] = Booked(p[i].type).minerals /\ v[i] = Booked(p[i].type).vespene
  OBVIOUS
<1>6. Worth(S, p) = [minerals |-> SumFunctionOnSet(m, S), vespene |-> SumFunctionOnSet(v, S)]
  BY DEF Worth
<1>7. Worth(S \ {i}, p) = [minerals |-> SumFunctionOnSet(n, S \ {i}),
                           vespene |-> SumFunctionOnSet(u, S \ {i})]
  BY DEF Worth
<1> HIDE DEF m, v, n, u
<1>8. SumFunctionOnSet(m, S) \in Int /\ SumFunctionOnSet(v, S) \in Int
  BY <1>1, <1>3, SumInt
<1>9. /\ SumFunctionOnSet(m, S) = m[i] + SumFunctionOnSet(m, S \ {i})
      /\ SumFunctionOnSet(v, S) = v[i] + SumFunctionOnSet(v, S \ {i})
  BY <1>1, <1>3, SumRemove
<1>10. /\ SumFunctionOnSet(m, S \ {i}) = SumFunctionOnSet(n, S \ {i})
       /\ SumFunctionOnSet(v, S \ {i}) = SumFunctionOnSet(u, S \ {i})
  BY <1>1, <1>4, SumSame
<1>11. SumFunctionOnSet(n, S \ {i}) \in Int /\ SumFunctionOnSet(u, S \ {i}) \in Int
  <2>1. \A j \in S \ {i} : n[j] \in Int /\ u[j] \in Int
    BY <1>3, <1>4
  <2> QED BY <1>1, <2>1, SumInt
<1>12. m[i] \in Int /\ v[i] \in Int
  BY <1>3
<1>13. Worth(S, p) \in Resources
  BY <1>6, <1>8 DEF Resources
<1>14. /\ SumFunctionOnSet(n, S \ {i}) = SumFunctionOnSet(m, S) - m[i]
       /\ SumFunctionOnSet(u, S \ {i}) = SumFunctionOnSet(v, S) - v[i]
  <2>1. \A a, b, c \in Int : a = b + c => c = a - b
    OBVIOUS
  <2>2. /\ SumFunctionOnSet(m, S) = m[i] + SumFunctionOnSet(n, S \ {i})
        /\ SumFunctionOnSet(v, S) = v[i] + SumFunctionOnSet(u, S \ {i})
    BY <1>9, <1>10, Zenon
  <2> QED BY <1>8, <1>11, <1>12, <2>1, <2>2, Zenon
<1>15. Worth(S \ {i}, p) = Minus(Worth(S, p), Booked(p[i].type))
  BY <1>5, <1>6, <1>7, <1>14 DEF Minus
<1> QED BY <1>13, <1>15

\* Only what the tasks in S are to build counts.
LEMMA WorthSame ==
  ASSUME NEW S \in SUBSET Id, NEW p, NEW q, \A i \in S : p[i] = q[i]
  PROVE  Worth(S, p) = Worth(S, q)
<1>1. /\ [i \in S |-> Booked(p[i].type).minerals] = [i \in S |-> Booked(q[i].type).minerals]
      /\ [i \in S |-> Booked(p[i].type).vespene] = [i \in S |-> Booked(q[i].type).vespene]
  OBVIOUS
<1> QED BY <1>1, Zenon DEF Worth

LEMMA WorthType ==
  ASSUME NEW S \in SUBSET Id, NEW p, \A j \in S : p[j] \in Plan
  PROVE  Worth(S, p) \in Resources
<1>1. CASE S = {}
  BY <1>1, WorthNone DEF Resources
<1>2. CASE S # {}
  BY <1>2, WorthRemove
<1> QED BY <1>1, <1>2

\* The two properties, stated with Worth.
LEMMA LedgerMeaning ==
  /\ LedgerCovers <=> AtLeast(reserved, Worth(PendingTasks, plan))
  /\ reserved \in Resources =>
       (LedgerExact <=> reserved = Worth(PendingTasks, plan))
<1> DEFINE m == [i \in PendingTasks |-> Booked(plan[i].type).minerals]
           v == [i \in PendingTasks |-> Booked(plan[i].type).vespene]
<1>1. /\ SumFunction(m) = SumFunctionOnSet(m, PendingTasks)
      /\ SumFunction(v) = SumFunctionOnSet(v, PendingTasks)
  <2>1. DOMAIN m = PendingTasks /\ DOMAIN v = PendingTasks
    OBVIOUS
  <2> QED BY <2>1, Zenon DEF SumFunction
<1>2. Worth(PendingTasks, plan) = [minerals |-> SumFunction(m), vespene |-> SumFunction(v)]
  BY <1>1 DEF Worth
<1>3. /\ LedgerCovers <=> reserved.minerals >= SumFunction(m) /\ reserved.vespene >= SumFunction(v)
      /\ LedgerExact <=> reserved.minerals = SumFunction(m) /\ reserved.vespene = SumFunction(v)
  BY DEF LedgerCovers, LedgerExact
<1> HIDE DEF m, v
<1> QED BY <1>2, <1>3 DEF AtLeast, Resources
-----------------------------------------------------------------------------
(* What a step of the frame does to the ledger.                            *)
SamePlans == \A i \in PendingTasks : plan'[i] = plan[i]

Untouched == reserved' = reserved /\ PendingTasks' = PendingTasks /\ SamePlans

Enters(i) == /\ i \in Id \ PendingTasks /\ PendingTasks' = PendingTasks \cup {i}
             /\ SamePlans /\ plan'[i] \in Plan
             /\ reserved' = Plus(reserved, Booked(plan'[i].type))

Leaves(i) == /\ i \in PendingTasks /\ PendingTasks' = PendingTasks \ {i}
             /\ SamePlans
             /\ reserved' = Minus(reserved, Booked(plan[i].type))

\* handleError fails a task that is not ordered yet, and keeps its price.
Forgotten(i) == /\ i \in PendingTasks /\ PendingTasks' = PendingTasks \ {i}
                /\ SamePlans /\ reserved' = reserved
                /\ \E w \in Worker : worker[i] = w /\ cmd[w] # None

\* The opening sets minerals aside on its own.
Extra == /\ PendingTasks' = PendingTasks /\ SamePlans
         /\ reserved'.minerals >= reserved.minerals
         /\ reserved'.vespene = reserved.vespene
         /\ lent # {}

LedgerStep == \/ Untouched \/ Extra
              \/ \E i \in Id : Enters(i) \/ Leaves(i) \/ Forgotten(i)

LEMMA PendingUntouched ==
  ASSUME UNCHANGED <<status, plan, reserved>>
  PROVE  Untouched
BY DEF Untouched, SamePlans, PendingTasks

\* A worker's task, if it has one, is the only one to leave when it is named.
LEMMA OneLeaves ==
  ASSUME IInv, NEW w \in Worker, NEW S \in SUBSET OpenTasksOf(w),
         status' = [i \in Id |-> IF i \in S THEN "FAILED" ELSE status[i]]
  PROVE  \/ PendingTasks' = PendingTasks
         \/ \E i \in PendingTasks : /\ S = {i} /\ worker[i] = w
                                    /\ PendingTasks' = PendingTasks \ {i}
<1>1. \A i, j \in S : i = j
  BY DEF OpenTasksOf, IInv, OpenTaskHasSquad, OneSquadPerUnit, Apart
<1>2. \A i \in S : worker[i] = w /\ i \in Id
  BY DEF OpenTasksOf
<1>3. PendingTasks' = PendingTasks \ S
  BY <1>2 DEF PendingTasks, Pending
<1>4. CASE S \cap PendingTasks = {}
  BY <1>3, <1>4
<1>5. CASE S \cap PendingTasks # {}
  <2>1. PICK i \in S : i \in PendingTasks
    BY <1>5
  <2>2. S = {i}
    BY <1>1, <2>1
  <2> QED BY <1>2, <1>3, <2>1, <2>2
<1> QED BY <1>4, <1>5

LEMMA LedgerSteps == IInv /\ [Next]_vars => LedgerStep
<1> SUFFICES ASSUME IInv, [Next]_vars
             PROVE  LedgerStep
  OBVIOUS
<1> USE DEF taskVars
<1>1. CASE UNCHANGED vars
  BY <1>1, PendingUntouched DEF vars, LedgerStep
<1>2. CASE Advance \/ Economy \/ Workers \/ SquadsDone \/ ProduceNothing
  BY <1>2, PendingUntouched DEF Advance, Economy, Workers, SquadsDone, ProduceNothing, LedgerStep
<1>3. CASE EraseTasks
  <2>1. PendingTasks' = PendingTasks /\ SamePlans
    BY <1>3 DEF EraseTasks, Finished, PendingTasks, Pending, SamePlans
  <2> QED BY <1>3, <2>1 DEF EraseTasks, Untouched, LedgerStep
<1>4. ASSUME NEW w \in Worker, HandleError(w)
      PROVE  LedgerStep
  <2>1. Failing(w) \in SUBSET OpenTasksOf(w)
    BY DEF Failing, OpenTasksOf
  <2>2. /\ status' = [i \in Id |-> IF i \in Failing(w) THEN "FAILED" ELSE status[i]]
        /\ cmd[w] # None /\ UNCHANGED <<plan, reserved>>
    BY <1>4 DEF HandleError
  <2>3. SamePlans
    BY <2>2 DEF SamePlans
  <2>4. CASE PendingTasks' = PendingTasks
    BY <2>2, <2>3, <2>4 DEF Untouched, LedgerStep
  <2>5. ASSUME NEW i \in PendingTasks, worker[i] = w, PendingTasks' = PendingTasks \ {i}
        PROVE  LedgerStep
    BY <2>2, <2>3, <2>5 DEF Forgotten, LedgerStep, PendingTasks
  <2> QED BY <2>1, <2>2, <2>4, <2>5, OneLeaves
<1>5. ASSUME NEW w \in Worker, NewStructure(w)
      PROVE  LedgerStep
  <2>1. PendingTasks' = PendingTasks /\ SamePlans
    BY <1>5 DEF NewStructure, Matching, PendingTasks, Pending, SamePlans
  <2> QED BY <1>5, <2>1 DEF NewStructure, Untouched, LedgerStep
<1>6. ASSUME NEW w \in Worker, WorkerGone(w)
      PROVE  LedgerStep
  <2> DEFINE S == OpenTasksOf(w)
             P == {i \in S : status[i] \in Pending}
  <2>1. /\ status' = [i \in Id |-> IF i \in S THEN "FAILED" ELSE status[i]]
        /\ reserved' = Refund(P) /\ plan' = plan
    BY <1>6 DEF WorkerGone
  <2>2. SamePlans
    BY <2>1 DEF SamePlans
  <2>3. CASE P = {}
    <3>1. PendingTasks' = PendingTasks
      BY <2>1, <2>3 DEF OpenTasksOf, PendingTasks, Pending, Open
    <3>2. reserved' = reserved
      BY <2>1, <2>3 DEF Refund
    <3> QED BY <2>2, <3>1, <3>2 DEF Untouched, LedgerStep
  <2>4. CASE P # {}
    <3>1. PICK i \in PendingTasks : i \in P
      BY <2>4 DEF PendingTasks, OpenTasksOf
    <3>2. S = {i} /\ P = {i}
      BY <3>1 DEF OpenTasksOf, IInv, OpenTaskHasSquad, OneSquadPerUnit, Apart
    <3>3. PendingTasks' = PendingTasks \ {i}
      BY <2>1, <3>2 DEF PendingTasks, Pending
    <3>4. reserved' = Minus(reserved, Booked(plan[i].type))
      BY <2>1, <3>2 DEF Refund
    <3> QED BY <2>2, <3>3, <3>4 DEF Leaves, LedgerStep, PendingTasks
  <2> QED BY <2>3, <2>4
<1>7. ASSUME NEW w \in Worker, NewWorker(w) \/ LendWorker(w)
      PROVE  LedgerStep
  BY <1>7, PendingUntouched DEF NewWorker, LendWorker, LedgerStep
<1>8. ASSUME NEW w \in Worker, OpeningActs(w)
      PROVE  LedgerStep
  <2>1. PendingTasks' = PendingTasks /\ SamePlans /\ lent # {}
    BY <1>8 DEF OpeningActs, PendingTasks, SamePlans
  <2>2. reserved'.minerals >= reserved.minerals /\ reserved'.vespene = reserved.vespene
    BY <1>8, ConstantsAssumption DEF OpeningActs, IInv, TypeOK, Resources
  <2> QED BY <2>1, <2>2 DEF Extra, LedgerStep
<1>9. ASSUME NEW p \in Site, StructureCompletes(p) \/ OtherBuildingGone(p)
      PROVE  LedgerStep
  BY <1>9, PendingUntouched DEF StructureCompletes, OtherBuildingGone, LedgerStep
<1>10. ASSUME NEW p \in Site, StructureGone(p)
       PROVE  LedgerStep
  <2>1. PendingTasks' = PendingTasks /\ SamePlans
    BY <1>10 DEF StructureGone, Dying, PendingTasks, Pending, SamePlans
  <2> QED BY <1>10, <2>1 DEF StructureGone, Untouched, LedgerStep
<1>11. ASSUME NEW S \in SUBSET Worker, BaseGone(S)
       PROVE  LedgerStep
  BY <1>11, PendingUntouched DEF BaseGone, LedgerStep
<1>12. ASSUME NEW s \in Id, Wait(s) \/ EndOrder(s)
       PROVE  LedgerStep
  BY <1>12, PendingUntouched DEF Wait, EndOrder, LedgerStep
<1>13. ASSUME NEW s \in Id, StartMoving(s)
       PROVE  LedgerStep
  <2>1. PendingTasks' = PendingTasks /\ SamePlans
    BY <1>13 DEF StartMoving, PendingTasks, Pending, SamePlans, IInv, TypeOK
  <2> QED BY <1>13, <2>1 DEF StartMoving, Untouched, LedgerStep
<1>14. ASSUME NEW s \in Id, OrderBuilding(s)
       PROVE  LedgerStep
  <2>1. s \in PendingTasks /\ PendingTasks' = PendingTasks \ {s} /\ SamePlans
    BY <1>14 DEF OrderBuilding, PendingTasks, Pending, SamePlans, IInv, TypeOK
  <2> QED BY <1>14, <2>1 DEF OrderBuilding, Leaves, LedgerStep
<1>15. ASSUME NEW p \in Plan, NEW w \in Worker, ProduceBuilding(p, w)
       PROVE  LedgerStep
  <2>1. nextId \in Id /\ nextId \notin PendingTasks
    BY <1>15 DEF ProduceBuilding, PendingTasks, Pending, IInv, KnownIds, Id
  <2>2. PendingTasks' = PendingTasks \cup {nextId} /\ plan'[nextId] = p /\ SamePlans
    BY <1>15, <2>1 DEF ProduceBuilding, PendingTasks, Pending, SamePlans, IInv, TypeOK
  <2>3. reserved' = Plus(reserved, Booked(p.type))
    BY <1>15 DEF ProduceBuilding
  <2> QED BY <2>1, <2>2, <2>3 DEF Enters, LedgerStep
<1> QED BY <1>1, <1>2, <1>3, <1>4, <1>5, <1>6, <1>7, <1>8, <1>9, <1>10, <1>11, <1>12,
           <1>13, <1>14, <1>15 DEF Next

-----------------------------------------------------------------------------
\* Sums and differences of amounts, compared.
LEMMA AmountFacts ==
  ASSUME NEW r \in Resources, NEW b \in Resources, NEW c \in Resources
  PROVE  /\ Plus(Minus(r, c), c) = r
         /\ AtLeast(r, b) => AtLeast(Plus(r, c), Plus(b, c)) /\ AtLeast(Minus(r, c), Minus(b, c))
         /\ AtLeast(r, b) /\ c.minerals >= 0 /\ c.vespene >= 0 => AtLeast(r, Minus(b, c))
BY DEF Resources, Plus, Minus, AtLeast

LEMMA WorthStep ==
  ASSUME NEW S \in SUBSET Id, NEW T \in SUBSET Id, NEW p, NEW q, NEW i \in Id,
         \A j \in S : p[j] \in Plan /\ p[j] = q[j]
  PROVE  /\ i \notin S /\ T = S \cup {i} /\ q[i] \in Plan
              => Worth(T, q) = Plus(Worth(S, p), Booked(q[i].type))
         /\ i \in S /\ T = S \ {i}
              => Worth(T, q) = Minus(Worth(S, p), Booked(p[i].type))
<1>1. Worth(S, p) = Worth(S, q)
  BY WorthSame
<1>2. ASSUME i \notin S, T = S \cup {i}, q[i] \in Plan
      PROVE  Worth(T, q) = Plus(Worth(S, p), Booked(q[i].type))
  <2>1. S = T \ {i} /\ i \in T /\ \A j \in T : q[j] \in Plan
    BY <1>2
  <2>2. Worth(T, q) \in Resources /\ Worth(S, q) = Minus(Worth(T, q), Booked(q[i].type))
    BY <2>1, WorthRemove
  <2>3. Booked(q[i].type) \in Resources
    BY <1>2, BookedType
  <2> QED BY <1>1, <2>2, <2>3, AmountFacts
<1>3. ASSUME i \in S, T = S \ {i}
      PROVE  Worth(T, q) = Minus(Worth(S, p), Booked(p[i].type))
  BY <1>1, <1>3, WorthRemove
<1> QED BY <1>2, <1>3

\* A step moves the sum as it moves the ledger, or leaves the ledger larger.
LEMMA LedgerMoves ==
  ASSUME IInv, IInv', LedgerStep
  PROVE  /\ AtLeast(reserved, Worth(PendingTasks, plan))
              => AtLeast(reserved', Worth(PendingTasks', plan'))
         /\ reserved = Worth(PendingTasks, plan) /\ ~Extra /\ (\A i \in Id : ~Forgotten(i))
              => reserved' = Worth(PendingTasks', plan')
<1> DEFINE S == PendingTasks
           T == PendingTasks'
           old == Worth(S, plan)
           new == Worth(T, plan')
<1>1. S \in SUBSET Id /\ T \in SUBSET Id
  BY DEF PendingTasks
<1>2. \A j \in S : plan[j] \in Plan
  BY DEF PendingTasks, Pending, IInv, KnownIds
<1>3. reserved \in Resources /\ reserved' \in Resources
  BY DEF IInv, TypeOK
<1>4. old \in Resources
  BY <1>1, <1>2, WorthType
<1>5. SamePlans => \A j \in S : plan[j] \in Plan /\ plan[j] = plan'[j]
  BY <1>2 DEF SamePlans
<1>6. \A p \in Plan : /\ Booked(p.type) \in Resources
                      /\ Booked(p.type).minerals >= 0 /\ Booked(p.type).vespene >= 0
  BY ConstantsAssumption DEF Booked, Resources
<1> HIDE DEF S, T
<1>7. ASSUME SamePlans, T = S
      PROVE  new = old
  BY <1>1, <1>5, <1>7, WorthSame
<1>8. CASE Untouched
  <2>1. reserved' = reserved /\ new = old
    BY <1>7, <1>8 DEF Untouched, S, T
  <2> QED BY <2>1 DEF S, T
<1>9. CASE Extra
  <2>1. reserved'.minerals >= reserved.minerals /\ reserved'.vespene = reserved.vespene
    BY <1>9 DEF Extra
  <2>2. new = old
    BY <1>7, <1>9 DEF Extra, S, T
  <2>3. AtLeast(reserved, old) => AtLeast(reserved', old)
    BY <1>3, <1>4, <2>1 DEF AtLeast, Resources
  <2> QED BY <1>9, <2>2, <2>3 DEF S, T
<1>10. ASSUME NEW i \in Id, Enters(i)
       PROVE  /\ AtLeast(reserved, old) => AtLeast(reserved', new)
              /\ reserved = old => reserved' = new
  <2> DEFINE c == Booked(plan'[i].type)
  <2>1. /\ i \notin S /\ T = S \cup {i} /\ SamePlans /\ plan'[i] \in Plan
        /\ reserved' = Plus(reserved, c)
    BY <1>10 DEF Enters, S, T
  <2>2. new = Plus(old, c)
    BY <1>1, <1>5, <2>1, WorthStep
  <2>3. c \in Resources
    BY <1>6, <2>1
  <2> HIDE DEF c, old, new
  <2> QED BY <1>3, <1>4, <2>1, <2>2, <2>3, AmountFacts
<1>11. ASSUME NEW i \in Id, Leaves(i)
       PROVE  /\ AtLeast(reserved, old) => AtLeast(reserved', new)
              /\ reserved = old => reserved' = new
  <2> DEFINE c == Booked(plan[i].type)
  <2>1. i \in S /\ T = S \ {i} /\ SamePlans /\ reserved' = Minus(reserved, c)
    BY <1>11 DEF Leaves, S, T
  <2>2. new = Minus(old, c)
    BY <1>1, <1>5, <2>1, WorthStep
  <2>3. c \in Resources
    BY <1>2, <1>6, <2>1 DEF S
  <2> HIDE DEF c, old, new
  <2> QED BY <1>3, <1>4, <2>1, <2>2, <2>3, AmountFacts
<1>12. ASSUME NEW i \in Id, Forgotten(i)
       PROVE  AtLeast(reserved, old) => AtLeast(reserved', new)
  <2> DEFINE c == Booked(plan[i].type)
  <2>1. i \in S /\ T = S \ {i} /\ SamePlans /\ reserved' = reserved
    BY <1>12 DEF Forgotten, S, T
  <2>2. new = Minus(old, c)
    BY <1>1, <1>5, <2>1, WorthStep
  <2>3. c \in Resources /\ c.minerals >= 0 /\ c.vespene >= 0
    BY <1>2, <1>6, <2>1 DEF S
  <2> HIDE DEF c, old, new
  <2> QED BY <1>3, <1>4, <2>1, <2>2, <2>3, AmountFacts
<1> QED BY <1>8, <1>9, <1>10, <1>11, <1>12 DEF LedgerStep, S, T

-----------------------------------------------------------------------------
\* Where no probe keeps a command it was given for a task, and the opening that
\* builds on its own is not played, only the builder of an ordered task has one.
NoStrayCommand ==
  /\ lent = {}
  /\ \A w \in mining \cup gas : cmd[w] = None
  /\ \A i \in PendingTasks : cmd[worker[i]] = None

LEMMA NoStrayNext ==
  ASSUME ~Opening, ~StaleCommands, IInv, NoStrayCommand, [Next]_vars
  PROVE  NoStrayCommand'
<1> USE DEF taskVars, lineVars, gameVars, squadVars, NoStrayCommand
<1>1. CASE UNCHANGED vars
  BY <1>1 DEF vars, PendingTasks
<1>2. CASE Advance \/ Economy \/ SquadsDone \/ ProduceNothing
  BY <1>2 DEF Advance, Economy, SquadsDone, ProduceNothing, PendingTasks
<1>3. CASE Workers
  <2>1. PICK back \in SUBSET lent : lent' = lent \ back /\ AssignFreeUnits(FreeUnits(back))
    BY <1>3 DEF Workers
  <2> DEFINE free == FreeUnits(back)
  <2>2. \A w \in mining' \cup gas' : cmd'[w] = None
    <3>1. CASE /\ mining' \in SUBSET (mining \cup gas \cup free)
               /\ gas' = (mining \cup gas \cup free) \ mining'
               /\ cmd' = [w \in Worker |-> IF w \in free THEN None ELSE cmd[w]]
      <4>1. free \subseteq Worker /\ mining \subseteq Worker /\ gas \subseteq Worker
        BY DEF FreeUnits, Completed, IInv, TypeOK
      <4> HIDE DEF free
      <4> QED BY <3>1, <4>1
    <3>2. CASE UNCHANGED <<mining, gas, cmd>>
      BY <3>2
    <3> QED BY <2>1, <3>1, <3>2 DEF AssignFreeUnits
  <2>3. \A i \in PendingTasks : cmd'[worker[i]] = None
    BY <2>1 DEF AssignFreeUnits, IInv, TypeOK, OpenTaskHasSquad, PendingTasks, Open
  <2>4. lent' = {} /\ PendingTasks' = PendingTasks /\ worker' = worker
    BY <1>3, <2>1 DEF Workers, PendingTasks
  <2> QED BY <2>2, <2>3, <2>4
<1>4. CASE EraseTasks
  BY <1>4 DEF EraseTasks, Finished, PendingTasks, Pending
<1>5. ASSUME NEW w \in Worker, HandleError(w)
      PROVE  NoStrayCommand'
  <2>1. PendingTasks' \subseteq PendingTasks /\ UNCHANGED <<worker, lineVars>>
    BY <1>5 DEF HandleError, PendingTasks, Pending
  <2>2. \A u : cmd[u] = None => cmd'[u] = None
    BY <1>5 DEF HandleError, IInv, TypeOK
  <2> QED BY <2>1, <2>2
<1>6. ASSUME NEW w \in Worker, NewStructure(w)
      PROVE  NoStrayCommand'
  <2>1. PendingTasks' = PendingTasks /\ \A i \in PendingTasks : worker'[i] = worker[i]
    BY <1>6 DEF NewStructure, Matching, PendingTasks, Pending
  <2>2. \A u : cmd[u] = None => cmd'[u] = None
    BY <1>6 DEF NewStructure, IInv, TypeOK
  <2> QED BY <1>6, <2>1, <2>2 DEF NewStructure
<1>7. ASSUME NEW w \in Worker, WorkerGone(w)
      PROVE  NoStrayCommand'
  <2>1. /\ PendingTasks' \subseteq PendingTasks
        /\ \A i \in PendingTasks' : worker'[i] = worker[i]
    BY <1>7 DEF WorkerGone, OpenTasksOf, PendingTasks, Pending, Open
  <2>2. \A u : cmd[u] = None => cmd'[u] = None
    BY <1>7 DEF WorkerGone, IInv, TypeOK
  <2> QED BY <1>7, <2>1, <2>2 DEF WorkerGone
<1>8. ASSUME NEW w \in Worker, NewWorker(w)
      PROVE  NoStrayCommand'
  BY <1>8 DEF NewWorker, PendingTasks
<1>9. ASSUME NEW w \in Worker, LendWorker(w) \/ OpeningActs(w)
      PROVE  FALSE
  BY <1>9 DEF LendWorker, OpeningActs
<1>10. ASSUME NEW p \in Site, StructureCompletes(p) \/ OtherBuildingGone(p)
       PROVE  NoStrayCommand'
  BY <1>10 DEF StructureCompletes, OtherBuildingGone, PendingTasks
<1>11. ASSUME NEW p \in Site, StructureGone(p)
       PROVE  NoStrayCommand'
  BY <1>11 DEF StructureGone, Dying, PendingTasks, Pending
<1>12. ASSUME NEW S \in SUBSET Worker, BaseGone(S)
       PROVE  NoStrayCommand'
  BY <1>12 DEF BaseGone, PendingTasks
<1>13. ASSUME NEW s \in Id, Wait(s) \/ EndOrder(s)
       PROVE  NoStrayCommand'
  BY <1>13 DEF Wait, EndOrder, PendingTasks
<1>14. ASSUME NEW s \in Id, StartMoving(s)
       PROVE  NoStrayCommand'
  <2>1. PendingTasks' = PendingTasks
    BY <1>14 DEF StartMoving, PendingTasks, Pending, IInv, TypeOK
  <2>2. \A u : cmd[u] = None => cmd'[u] = None
    BY <1>14 DEF StartMoving, IInv, TypeOK
  <2> QED BY <1>14, <2>1, <2>2 DEF StartMoving
<1>15. ASSUME NEW s \in Id, OrderBuilding(s)
       PROVE  NoStrayCommand'
  <2>1. s \in PendingTasks /\ PendingTasks' = PendingTasks \ {s}
    BY <1>15 DEF OrderBuilding, PendingTasks, Pending, IInv, TypeOK
  <2>2. PICK w \in member[s] : cmd' = [cmd EXCEPT ![w] = plan[s]]
    BY <1>15 DEF OrderBuilding
  <2>3. w = worker[s] /\ member[s] = {w}
    BY <2>1, <2>2 DEF PendingTasks, Open, IInv, OpenTaskHasSquad
  <2>4. w \notin mining \cup gas
    BY <2>2, <2>1 DEF PendingTasks, IInv, OneSquadPerUnit, Apart
  <2>5. \A i \in PendingTasks' : worker[i] # w
    BY <2>1, <2>3 DEF PendingTasks, Open, IInv, OpenTaskHasSquad, OneSquadPerUnit, Apart
  <2>6. \A u : u # w /\ cmd[u] = None => cmd'[u] = None
    BY <2>2 DEF IInv, TypeOK
  <2>7. UNCHANGED <<lent, mining, gas, worker>>
    BY <1>15 DEF OrderBuilding
  <2> QED BY <2>1, <2>4, <2>5, <2>6, <2>7
<1>16. ASSUME NEW p \in Plan, NEW w \in Worker, ProduceBuilding(p, w)
       PROVE  NoStrayCommand'
  <2>1. PendingTasks' \subseteq PendingTasks \cup {nextId}
    BY <1>16 DEF ProduceBuilding, PendingTasks, IInv, TypeOK
  <2>2. nextId \in Id /\ worker'[nextId] = w /\ cmd[w] = None /\ cmd' = cmd
    BY <1>16 DEF ProduceBuilding, IInv, TypeOK
  <2>3. \A i \in PendingTasks \ {nextId} : worker'[i] = worker[i]
    BY <1>16 DEF ProduceBuilding, PendingTasks, IInv, TypeOK
  <2> QED BY <1>16, <2>1, <2>2, <2>3 DEF ProduceBuilding
<1> QED BY <1>1, <1>2, <1>3, <1>4, <1>5, <1>6, <1>7, <1>8, <1>9, <1>10, <1>11, <1>12,
           <1>13, <1>14, <1>15, <1>16 DEF Next

LEMMA LedgerInit ==
  Init => /\ reserved = Worth(PendingTasks, plan) /\ reserved \in Resources
          /\ AtLeast(reserved, Worth(PendingTasks, plan))
          /\ NoStrayCommand
<1> SUFFICES ASSUME Init
             PROVE  /\ reserved = Worth(PendingTasks, plan) /\ reserved \in Resources
                    /\ AtLeast(reserved, Worth(PendingTasks, plan))
                    /\ NoStrayCommand
  OBVIOUS
<1>1. PendingTasks = {}
  BY DEF Init, PendingTasks, Pending
<1>2. reserved = [minerals |-> 0, vespene |-> 0]
  BY DEF Init
<1>3. reserved = Worth(PendingTasks, plan)
  BY <1>1, <1>2, WorthNone
<1>4. reserved \in Resources /\ AtLeast(reserved, reserved)
  BY <1>2 DEF Resources, AtLeast
<1>5. NoStrayCommand
  BY <1>1 DEF Init, NoStrayCommand
<1> QED BY <1>3, <1>4, <1>5

(* EconomyManager never sets aside less than the tasks that are not        *)
(* ordered yet cost: whatever dies, fails or is refused, and with the      *)
(* opening and its stray commands, no price is given back twice.           *)
THEOREM LedgerIsEnough == Spec => []LedgerCovers
<1> DEFINE Enough == AtLeast(reserved, Worth(PendingTasks, plan))
<1>1. Init => Enough
  BY LedgerInit
<1>2. IInv /\ IInv' /\ Enough /\ [Next]_vars => Enough'
  BY LedgerSteps, LedgerMoves
<1>3. Enough => LedgerCovers
  BY LedgerMeaning
<1> HIDE DEF Enough
<1> QED BY <1>1, <1>2, <1>3, Invariance, PTL DEF Spec

(* Without stray commands what is set aside is the price of these tasks,   *)
(* however each of them ends.                                              *)
THEOREM LedgerIsExact == ASSUME ~Opening, ~StaleCommands PROVE Spec => []LedgerExact
<1> DEFINE Exact == reserved = Worth(PendingTasks, plan) /\ NoStrayCommand
<1>1. Init => Exact
  BY LedgerInit
<1>2. IInv /\ NoStrayCommand => ~Extra /\ \A i \in Id : ~Forgotten(i)
  BY DEF NoStrayCommand, Extra, Forgotten
<1>3. IInv /\ IInv' /\ Exact /\ [Next]_vars => Exact'
  BY <1>2, LedgerSteps, LedgerMoves, NoStrayNext
<1>4. IInv /\ Exact => LedgerExact
  BY LedgerMeaning DEF IInv, TypeOK
<1> HIDE DEF Exact
<1> QED BY <1>1, <1>3, <1>4, Invariance, PTL DEF Spec
=============================================================================
