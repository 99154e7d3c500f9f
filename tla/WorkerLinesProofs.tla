-------------------------- MODULE WorkerLinesProofs --------------------------
(***************************************************************************)
(* Proofs about WorkerLines, for every value of its constants.             *)
(*                                                                         *)
(* First what the lists of an order name: after an append, a removal, a    *)
(* concatenation, and the folds of the two orders' steps (Flat,            *)
(* ExcessTaken, Served). Then that the transfers and the steps keep the    *)
(* lists and the squads together (Lines), that the frame leaves no base    *)
(* behind (FrameMines), and that the passes balance the vespene lines      *)
(* (RoomLeft, BalanceKept), where the sums of Positions come in.           *)
(***************************************************************************)
EXTENDS WorkerLines, Sums

Mineral(b) == <<"mineral", b>>
Vespene(b) == <<"vespene", b>>

\* The conjuncts of TypeOK about the squads, the orders and the world.
Typed ==
  /\ squad \in [Probe -> Squads \cup {Unborn, Dead, Unassigned, Lent}]
  /\ line = [s \in Squads |-> line[s]]
  /\ \A s \in Squads : IsOrder(line[s])
  /\ \A s \in Squads : s[2] \notin Completed => Members(s) = {} /\ line[s] = NewLine({})
  /\ nexus \in [Base -> {"ahead", "completed", "destroyed"}]
  /\ minerals \in [Base -> SUBSET Patch]
  /\ geyser \in [Geyser -> {"bare", "active", "gone"}]

\* The order has the probe among its unassigned ones, or under a source of ks.
Known(l, u, ks) == u \in Range(l.unassigned) \/ \E k \in ks \cap DOMAIN l.listed : u \in Range(l.listed[k])

KnowsAll(l, us) == ~l.over => \A u \in us : Known(l, u, DOMAIN l.listed)

\* While the mineral order runs it has not lost sight of a probe of its squad.
MineralKnown == \A b \in Completed : KnowsAll(line[Mineral(b)], Members(Mineral(b)))

Lines == Typed /\ VespenePlacement /\ MineralKnown

\* The probes of the base are under live patches.
Mines(b) ==
  LET l == line[Mineral(b)]
  IN  ~l.over => \A u \in Members(Mineral(b)) :
        \E p \in minerals[b] \cap DOMAIN l.listed : u \in Range(l.listed[p])

\* The probes of dead patches are among the unassigned of the base, which runs.
Stepping(b) ==
  /\ Mining(line[Mineral(b)])
  /\ \A u \in Members(Mineral(b)) : Known(line[Mineral(b)], u, minerals[b])

\* The bases that have stepped in this frame are done, the next one may be under way.
FrameMines ==
  /\ todo \subseteq Completed
  /\ stage \in {"lines", "mining"} => \A b \in Completed \ todo : Mines(b)
  /\ stage = "mining" => todo # {} /\ Stepping(Min(todo))
  /\ stage \in {"events", "fix", "assign"} => todo = {}

\* No vespene line is over per probes a source while another is under it.
Balanced(per) == Crowded("vespene", per) = {} \/ Roomy("vespene", per) = {}

\* What is left of availableWorkerPositions is what would be counted now, or less in
\* a mineral pass, which may have sent probes to the vespene lines.
RoomLeft ==
  stage = "fix" => room <= Positions(pass) /\ (pass \in {3, 4} => room = Positions(pass))

\* The fourth pass does not undo the third, and assigning probes undoes neither.
BalanceKept ==
  /\ stage = "fix" /\ pass = 4 => Balanced(2)
  /\ stage \in {"assign", "lines", "mining"} => Balanced(2) /\ Balanced(3)

\* The conjuncts of TypeOK about the place in the frame.
LoopTyped ==
  /\ stage \in {"events", "fix", "assign", "lines", "mining"}
  /\ pass \in 1..4 /\ room \in Nat /\ events \in 0..MaxEvents

IInv == Lines /\ FrameMines /\ LoopTyped /\ RoomLeft /\ BalanceKept

-----------------------------------------------------------------------------
(* The least and the greatest number of a set.                             *)
LEMMA MinIn ==
  ASSUME NEW S, S # {}, S \subseteq Nat
  PROVE  Min(S) \in S /\ \A y \in S : Min(S) <= y
<1>1. \E x \in S : \A y \in S : ~ (<<y, x>> \in OpToRel(<, Nat))
  BY NatLessThanWellFounded, WFMin, Zenon
<1>2. PICK x \in S : \A y \in S : ~ (<<y, x>> \in OpToRel(<, Nat))
  BY <1>1
<1>3. \A y \in S : x <= y
  <2>1. OpToRel(<, Nat) = {ss \in Nat \X Nat : ss[1] < ss[2]}
    BY Zenon DEF OpToRel
  <2>2. ASSUME NEW y \in S PROVE x <= y
    <3>1. ~ (<<y, x>> \in {ss \in Nat \X Nat : ss[1] < ss[2]})
      BY <1>2, <2>1
    <3>2. <<y, x>> \in Nat \X Nat /\ x \in Nat /\ y \in Nat
      OBVIOUS
    <3> QED BY <3>1, <3>2
  <2> QED BY <2>2
<1> QED BY <1>3, Zenon DEF Min

LEMMA MaxIn ==
  ASSUME NEW S, IsFiniteSet(S), S # {}, S \subseteq Nat
  PROVE  Max(S) \in S /\ \A y \in S : Max(S) >= y
<1> DEFINE Tops(T) == {x \in T : \A y \in T : x >= y}
           W == {T \in SUBSET S : T # {} /\ Tops(T) = {}}
<1>1. ASSUME NEW T \in W, \A U \in W : U \subseteq T => U = T
      PROVE  FALSE
  <2>1. PICK x \in T : TRUE
    OBVIOUS
  <2>2. CASE T \ {x} = {}
    <3>1. x \in Tops(T)
      BY <2>1, <2>2
    <3> QED BY <3>1
  <2>3. CASE T \ {x} # {}
    <3>1. T \ {x} \notin W
      BY <1>1, <2>1
    <3>2. PICK m \in T \ {x} : \A y \in T \ {x} : m >= y
      BY <3>1, <2>3
    <3>3. m \in Nat /\ x \in Nat
      OBVIOUS
    <3>4. m \in Tops(T) \/ x \in Tops(T)
      BY <3>2, <3>3
    <3> QED BY <3>4
  <2> QED BY <2>2, <2>3
<1>2. W \in SUBSET (SUBSET S)
  OBVIOUS
<1> HIDE DEF W
<1>3. ASSUME W # {} PROVE FALSE
  <2>1. \E T \in W : \A U \in W : U \subseteq T => U = T
    BY ONLY IsFiniteSet(S), <1>2, <1>3, Smallest
  <2> QED BY <1>1, <2>1
<1>4. \E x \in S : \A y \in S : x >= y
  BY <1>3 DEF W
<1> QED BY <1>4, Zenon DEF Max

-----------------------------------------------------------------------------
(* What a sequence names.                                                  *)
LEMMA ContainsNames ==
  ASSUME NEW E, NEW s \in Seq(E), NEW u
  PROVE  Contains(s, u) <=> u \in Range(s)
<1>1. DOMAIN s = 1..Len(s)
  OBVIOUS
<1> QED BY <1>1, Zenon DEF Contains, Range

LEMMA NamesEmpty == Range(<<>>) = {} /\ IsInjective(<<>>)
BY DEF Range, IsInjective

LEMMA NamesAppend ==
  ASSUME NEW E, NEW s \in Seq(E), NEW u \in E
  PROVE  /\ Append(s, u) \in Seq(E)
         /\ Range(Append(s, u)) = Range(s) \cup {u}
         /\ u \notin Range(s) /\ IsInjective(s) => IsInjective(Append(s, u))
<1>1. Append(s, u) \in Seq(E)
  OBVIOUS
<1>2. Range(Append(s, u)) = Range(s) \cup {u}
  <2>1. ASSUME NEW i \in DOMAIN s PROVE s[i] \in Range(Append(s, u))
    <3>1. i \in DOMAIN Append(s, u) /\ Append(s, u)[i] = s[i]
      OBVIOUS
    <3> QED BY <3>1 DEF Range
  <2>2. u \in Range(Append(s, u))
    <3>1. Len(s) + 1 \in DOMAIN Append(s, u) /\ Append(s, u)[Len(s) + 1] = u
      OBVIOUS
    <3> QED BY <3>1 DEF Range
  <2>3. ASSUME NEW i \in DOMAIN Append(s, u) PROVE Append(s, u)[i] \in Range(s) \cup {u}
    BY DEF Range
  <2> QED BY <2>1, <2>2, <2>3 DEF Range
<1>3. u \notin Range(s) /\ IsInjective(s) => IsInjective(Append(s, u))
  BY DEF Range, IsInjective
<1> QED BY <1>1, <1>2, <1>3

LEMMA NamesConcat ==
  ASSUME NEW E, NEW s \in Seq(E), NEW t \in Seq(E)
  PROVE  /\ s \o t \in Seq(E)
         /\ Range(s \o t) = Range(s) \cup Range(t)
         /\ IsInjective(s) /\ IsInjective(t) /\ Range(s) \cap Range(t) = {} => IsInjective(s \o t)
<1>1. s \o t \in Seq(E)
  OBVIOUS
<1>2. Range(s \o t) = Range(s) \cup Range(t)
  <2>1. ASSUME NEW i \in DOMAIN s PROVE s[i] \in Range(s \o t)
    BY DEF Range
  <2>2. ASSUME NEW i \in DOMAIN t PROVE t[i] \in Range(s \o t)
    <3>1. (s \o t)[Len(s) + i] = t[i] /\ Len(s) + i \in DOMAIN (s \o t)
      OBVIOUS
    <3> QED BY <3>1 DEF Range
  <2>3. ASSUME NEW i \in DOMAIN (s \o t) PROVE (s \o t)[i] \in Range(s) \cup Range(t)
    BY DEF Range
  <2> QED BY <2>1, <2>2, <2>3 DEF Range
<1>3. ASSUME IsInjective(s), IsInjective(t), Range(s) \cap Range(t) = {}
      PROVE  IsInjective(s \o t)
  <2>1. ASSUME NEW i \in DOMAIN (s \o t), i \notin DOMAIN s
        PROVE  i - Len(s) \in DOMAIN t /\ (s \o t)[i] = t[i - Len(s)]
    BY <2>1
  <2>2. \A i \in DOMAIN s : (s \o t)[i] = s[i]
    OBVIOUS
  <2>3. ASSUME NEW i \in DOMAIN (s \o t), NEW j \in DOMAIN (s \o t), (s \o t)[i] = (s \o t)[j]
        PROVE  i = j
    <3>1. CASE i \in DOMAIN s /\ j \in DOMAIN s
      BY <1>3, <2>2, <2>3, <3>1 DEF IsInjective
    <3>2. CASE i \in DOMAIN s /\ j \notin DOMAIN s
      <4>1. s[i] = t[j - Len(s)] /\ j - Len(s) \in DOMAIN t
        BY <2>1, <2>2, <2>3, <3>2
      <4>2. s[i] \in Range(s) /\ t[j - Len(s)] \in Range(t)
        BY <3>2, <4>1, Zenon DEF Range
      <4> QED BY <1>3, <4>1, <4>2
    <3>3. CASE i \notin DOMAIN s /\ j \in DOMAIN s
      <4>1. s[j] = t[i - Len(s)] /\ i - Len(s) \in DOMAIN t
        BY <2>1, <2>2, <2>3, <3>3
      <4>2. s[j] \in Range(s) /\ t[i - Len(s)] \in Range(t)
        BY <3>3, <4>1, Zenon DEF Range
      <4> QED BY <1>3, <4>1, <4>2
    <3>4. CASE i \notin DOMAIN s /\ j \notin DOMAIN s
      <4>1. i - Len(s) = j - Len(s)
        BY <1>3, <2>1, <2>3, <3>4 DEF IsInjective
      <4>2. i \in Nat /\ j \in Nat /\ Len(s) \in Nat
        OBVIOUS
      <4> QED BY <4>1, <4>2
    <3> QED BY <3>1, <3>2, <3>3, <3>4
  <2> QED BY <2>3 DEF IsInjective
<1> QED BY <1>1, <1>2, <1>3

LEMMA NamesTail ==
  ASSUME NEW E, NEW s \in Seq(E), s # <<>>
  PROVE  /\ Tail(s) \in Seq(E) /\ Head(s) \in E
         /\ Range(s) = {Head(s)} \cup Range(Tail(s))
         /\ IsInjective(s) => IsInjective(Tail(s)) /\ Head(s) \notin Range(Tail(s))
<1>1. Tail(s) \in Seq(E) /\ Head(s) \in E
  OBVIOUS
<1>2. Range(s) = {Head(s)} \cup Range(Tail(s))
  <2>1. ASSUME NEW i \in DOMAIN s PROVE s[i] \in {Head(s)} \cup Range(Tail(s))
    <3>1. i = 1 \/ (i - 1 \in DOMAIN Tail(s) /\ Tail(s)[i - 1] = s[i])
      OBVIOUS
    <3> QED BY <3>1 DEF Range
  <2>2. Head(s) \in Range(s)
    BY DEF Range
  <2>3. ASSUME NEW i \in DOMAIN Tail(s) PROVE Tail(s)[i] \in Range(s)
    BY DEF Range
  <2> QED BY <2>1, <2>2, <2>3 DEF Range
<1>3. IsInjective(s) => IsInjective(Tail(s)) /\ Head(s) \notin Range(Tail(s))
  BY DEF Range, IsInjective
<1> QED BY <1>1, <1>2, <1>3

LEMMA NamesSub ==
  ASSUME NEW E, NEW s \in Seq(E), NEW a \in Nat \ {0}, NEW b \in 0..Len(s)
  PROVE  /\ SubSeq(s, a, b) \in Seq(E)
         /\ \A u : u \in Range(SubSeq(s, a, b)) <=> \E i \in a..b : s[i] = u
         /\ IsInjective(s) => IsInjective(SubSeq(s, a, b))
<1>1. SubSeq(s, a, b) \in Seq(E)
  OBVIOUS
<1>2. ASSUME NEW i \in a..b PROVE s[i] \in Range(SubSeq(s, a, b))
  <2>1. i - a + 1 \in DOMAIN SubSeq(s, a, b) /\ SubSeq(s, a, b)[i - a + 1] = s[i]
    OBVIOUS
  <2> QED BY <2>1 DEF Range
<1>3. ASSUME NEW j \in DOMAIN SubSeq(s, a, b) PROVE \E i \in a..b : s[i] = SubSeq(s, a, b)[j]
  <2>1. j + a - 1 \in a..b /\ SubSeq(s, a, b)[j] = s[j + a - 1]
    OBVIOUS
  <2> QED BY <2>1
<1>4. IsInjective(s) => IsInjective(SubSeq(s, a, b))
  BY DEF IsInjective
<1> QED BY <1>1, <1>2, <1>3, <1>4 DEF Range

LEMMA NamesRemoved ==
  ASSUME NEW E, NEW s \in Seq(E), NEW u
  PROVE  /\ RemoveFirst(s, u) \in Seq(E)
         /\ Range(s) \ {u} \subseteq Range(RemoveFirst(s, u))
         /\ Range(RemoveFirst(s, u)) \subseteq Range(s)
         /\ u \notin Range(s) => RemoveFirst(s, u) = s
         /\ IsInjective(s) => /\ IsInjective(RemoveFirst(s, u))
                              /\ Range(RemoveFirst(s, u)) = Range(s) \ {u}
<1> DEFINE at == {i \in 1..Len(s) : s[i] = u}
           m  == Min(at)
           a  == SubSeq(s, 1, m - 1)
           z  == SubSeq(s, m + 1, Len(s))
<1>1. CASE at = {}
  <2>1. RemoveFirst(s, u) = s
    BY <1>1 DEF RemoveFirst
  <2>2. u \notin Range(s)
    BY <1>1 DEF Range
  <2> QED BY <2>1, <2>2
<1>2. CASE at # {}
  <2>1. SelectInSeq(s, LAMBDA v : v = u) = m
    BY <1>2 DEF SelectInSeq
  <2>2. RemoveFirst(s, u) = a \o z
    BY <1>2, <2>1 DEF RemoveFirst, RemoveAt
  <2>3. m \in at
    <3>1. at \subseteq Nat
      OBVIOUS
    <3> QED BY <1>2, <3>1, MinIn
  <2>4. m \in 1..Len(s) /\ s[m] = u
    BY <2>3
  <2> HIDE DEF m
  <2>5. m - 1 \in 0..Len(s) /\ 1 \in Nat \ {0} /\ m + 1 \in Nat \ {0} /\ Len(s) \in 0..Len(s)
    BY <2>4
  <2>6. /\ a \in Seq(E)
        /\ \A v : v \in Range(a) <=> \E i \in 1..(m - 1) : s[i] = v
        /\ IsInjective(s) => IsInjective(a)
    BY <2>5, NamesSub
  <2>7. /\ z \in Seq(E)
        /\ \A v : v \in Range(z) <=> \E i \in (m + 1)..Len(s) : s[i] = v
        /\ IsInjective(s) => IsInjective(z)
    BY <2>5, NamesSub
  <2> HIDE DEF a, z
  <2>8. /\ a \o z \in Seq(E) /\ Range(a \o z) = Range(a) \cup Range(z)
        /\ IsInjective(a) /\ IsInjective(z) /\ Range(a) \cap Range(z) = {} => IsInjective(a \o z)
    BY <2>6, <2>7, NamesConcat
  <2>9. u \in Range(s)
    BY <2>4 DEF Range
  <2>10. Range(a) \subseteq Range(s) /\ Range(z) \subseteq Range(s)
    <3>1. \A i \in 1..Len(s) : s[i] \in Range(s)
      BY DEF Range
    <3>2. 1..(m - 1) \subseteq 1..Len(s) /\ (m + 1)..Len(s) \subseteq 1..Len(s)
      BY <2>4
    <3> QED BY <2>6, <2>7, <3>1, <3>2
  <2>11. ASSUME NEW v \in Range(s), v # u PROVE v \in Range(a) \cup Range(z)
    <3>1. PICK i \in 1..Len(s) : s[i] = v
      BY DEF Range
    <3>2. i \in 1..(m - 1) \/ i \in (m + 1)..Len(s)
      BY <2>4, <2>11, <3>1
    <3> QED BY <2>6, <2>7, <3>1, <3>2
  <2>12. ASSUME IsInjective(s)
         PROVE  u \notin Range(a) /\ u \notin Range(z) /\ Range(a) \cap Range(z) = {}
    <3>1. \A i, j \in 1..Len(s) : s[i] = s[j] => i = j
      BY <2>12 DEF IsInjective
    <3>2. u \notin Range(a)
      BY <2>4, <2>6, <3>1
    <3>3. u \notin Range(z)
      BY <2>4, <2>7, <3>1
    <3>4. ASSUME NEW v \in Range(a), v \in Range(z) PROVE FALSE
      BY <2>4, <2>6, <2>7, <3>1, <3>4
    <3> QED BY <3>2, <3>3, <3>4
  <2> QED BY <2>2, <2>6, <2>7, <2>8, <2>9, <2>10, <2>11, <2>12
<1> QED BY <1>1, <1>2

-----------------------------------------------------------------------------
(* The lists of an order.                                                  *)
\* What onUnitRemoved leaves in the lists.
Without(next, lists, ks, u) ==
  /\ next \in [ks -> Seq(Probe)]
  /\ \A k \in ks : Range(lists[k]) \ {u} \subseteq Range(next[k])
  /\ Apart(lists) => /\ Apart(next)
                     /\ \A k \in ks : Range(next[k]) = Range(lists[k]) \ {u}

LEMMA UnlistedKeeps ==
  ASSUME NEW ks, ks \subseteq Nat, NEW lists \in [ks -> Seq(Probe)], NEW u
  PROVE  Without(Unlisted(lists, u), lists, ks, u)
<1> DEFINE holding == {k \in DOMAIN lists : Contains(lists[k], u)}
           m == Min(holding)
           next == Unlisted(lists, u)
<1>1. ASSUME NEW k \in ks PROVE k \in holding <=> u \in Range(lists[k])
  <2>1. Contains(lists[k], u) <=> u \in Range(lists[k])
    BY ContainsNames
  <2>2. k \in DOMAIN lists
    OBVIOUS
  <2> QED BY <2>1, <2>2
<1>2. CASE holding = {}
  <2>1. next = lists
    BY <1>2 DEF Unlisted
  <2>2. \A k \in ks : u \notin Range(lists[k])
    BY <1>1, <1>2
  <2> QED BY <2>1, <2>2 DEF Without
<1>3. CASE holding # {}
  <2>1. m \in holding
    <3>1. holding \subseteq Nat
      OBVIOUS
    <3> QED BY <1>3, <3>1, MinIn
  <2>2. next = [lists EXCEPT ![m] = RemoveFirst(lists[m], u)]
    BY <1>3 DEF Unlisted
  <2>3. m \in ks /\ u \in Range(lists[m])
    BY <1>1, <2>1
  <2> HIDE DEF next, holding, m
  <2> DEFINE r == RemoveFirst(lists[m], u)
  <2>4. /\ r \in Seq(Probe)
        /\ Range(lists[m]) \ {u} \subseteq Range(r)
        /\ IsInjective(lists[m]) => IsInjective(r) /\ Range(r) = Range(lists[m]) \ {u}
    BY <2>3, NamesRemoved
  <2> HIDE DEF r
  <2>5. next \in [ks -> Seq(Probe)] /\ next[m] = r /\ \A k \in ks : k # m => next[k] = lists[k]
    BY <2>2, <2>3, <2>4 DEF r
  <2>6. ASSUME NEW k \in ks PROVE Range(lists[k]) \ {u} \subseteq Range(next[k])
    BY <2>4, <2>5
  <2>7. ASSUME Apart(lists)
        PROVE  /\ \A k \in ks : Range(next[k]) = Range(lists[k]) \ {u}
               /\ \A k \in ks : IsInjective(next[k])
    <3>1. ASSUME NEW k \in ks, k # m PROVE u \notin Range(lists[k])
      BY <2>3, <2>7, <3>1 DEF Apart
    <3> QED BY <2>3, <2>4, <2>5, <2>7, <3>1 DEF Apart
  <2>8. ASSUME Apart(lists) PROVE Apart(next)
    BY <2>5, <2>7, <2>8 DEF Apart
  <2> QED BY <2>5, <2>6, <2>7, <2>8 DEF next, Without
<1> QED BY <1>2, <1>3

(* The folds of the vespene order, as functions over the sets of keys.     *)
LEMMA MaxPicks ==
  ASSUME NEW S, IsFiniteSet(S), S \subseteq Nat
  PROVE  /\ Picks([T \in SUBSET S |-> Max(T)], S)
         /\ \A T \in SUBSET S : T # {} => Max(T) \in T
<1>1. ASSUME NEW T \in SUBSET S, T # {} PROVE Max(T) \in T
  <2>1. IsFiniteSet(T) /\ T \subseteq Nat
    BY FS_Subset
  <2> QED BY <1>1, <2>1, MaxIn
<1> QED BY <1>1 DEF Picks

FlatBy(h, lists, ks) ==
  /\ h \in [SUBSET ks -> Seq(Probe)]
  /\ \A T \in SUBSET ks : h[T] = IF T = {} THEN <<>> ELSE h[T \ {Max(T)}] \o lists[Max(T)]

LEMMA FlatMade ==
  ASSUME NEW ks, IsFiniteSet(ks), ks \subseteq Nat, NEW lists,
         \A k \in ks : lists[k] \in Seq(Probe)
  PROVE  \E h : FlatBy(h, lists, ks) /\ Flat(lists, ks) = h[ks]
<1> DEFINE c == [T \in SUBSET ks |-> Max(T)]
           F == [z \in ks \X Seq(Probe) |-> z[2] \o lists[z[1]]]
           Made(h) == h = [T \in SUBSET ks |->
                             IF T = {} THEN <<>> ELSE h[T \ {Max(T)}] \o lists[Max(T)]]
<1>1. \A T \in SUBSET ks : T # {} => Max(T) \in T
  BY MaxPicks
<1>2. Picks(c, ks)
  BY MaxPicks
<1>3. Steps(F, ks, Seq(Probe))
  <2>1. ASSUME NEW k \in ks, NEW s \in Seq(Probe) PROVE s \o lists[k] \in Seq(Probe)
    OBVIOUS
  <2> QED BY <2>1 DEF Steps
<1>4. <<>> \in Seq(Probe)
  OBVIOUS
<1> HIDE DEF c, F
<1>5. PICK g : IsFold(g, F, c, <<>>, ks) /\ g \in [SUBSET ks -> Seq(Probe)]
  BY <1>2, <1>3, <1>4, FoldMade
<1>6. ASSUME NEW T \in SUBSET ks
      PROVE  g[T] = IF T = {} THEN <<>> ELSE g[T \ {Max(T)}] \o lists[Max(T)]
  <2>1. CASE T = {}
    BY <1>5, <2>1 DEF IsFold
  <2>2. CASE T # {}
    <3>1. c[T] = Max(T) /\ Max(T) \in ks /\ T \ {Max(T)} \in SUBSET ks
      BY <1>1, <2>2 DEF c
    <3>2. F[<<Max(T), g[T \ {Max(T)}]>>] = g[T \ {Max(T)}] \o lists[Max(T)]
      BY <1>5, <3>1 DEF F
    <3> QED BY <1>5, <2>2, <3>1, <3>2 DEF IsFold
  <2> QED BY <2>1, <2>2
<1>7. Made(g)
  BY <1>5, <1>6
<1> DEFINE h == CHOOSE h : Made(h)
<1>8. Flat(lists, ks) = h[ks]
  BY Zenon DEF Flat, MapThenFoldSet
<1>9. Made(h)
  BY <1>7, Zenon
<1> HIDE DEF h
<1>10. MadeAlike(h, g, c, ks)
  BY <1>6, <1>9 DEF c, MadeAlike
<1>11. OnSubsets(h, ks) /\ OnSubsets(g, ks)
  BY <1>5, <1>9 DEF OnSubsets
<1> HIDE DEF Made
<1>12. h = g
  BY <1>2, <1>10, <1>11, FoldSame
<1> QED BY <1>5, <1>6, <1>8, <1>12 DEF FlatBy

LEMMA FlatNames ==
  ASSUME NEW ks, IsFiniteSet(ks), ks \subseteq Nat, NEW lists, ks \subseteq DOMAIN lists,
         \A k \in ks : lists[k] \in Seq(Probe)
  PROVE  /\ Flat(lists, ks) \in Seq(Probe)
         /\ Range(Flat(lists, ks)) = AllNames(lists, ks)
         /\ Apart(lists) => IsInjective(Flat(lists, ks))
<1>1. PICK h : FlatBy(h, lists, ks) /\ Flat(lists, ks) = h[ks]
  BY FlatMade
<1> DEFINE Right(T) == /\ Range(h[T]) = AllNames(lists, T)
                       /\ Apart(lists) => IsInjective(h[T])
           W == {T \in SUBSET ks : ~Right(T)}
<1>2. ASSUME NEW T \in W, \A U \in W : U \subseteq T => U = T
      PROVE  FALSE
  <2>1. CASE T = {}
    <3>1. h[T] = <<>>
      BY <1>1, <2>1 DEF FlatBy
    <3> QED BY <2>1, <3>1, NamesEmpty DEF AllNames
  <2>2. CASE T # {}
    <3> DEFINE m == Max(T)
               V == T \ {m}
    <3>1. IsFiniteSet(T) /\ T \subseteq Nat
      BY FS_Subset
    <3>2. m \in T
      BY <2>2, <3>1, MaxIn
    <3>3. h[T] = h[V] \o lists[m] /\ h[V] \in Seq(Probe) /\ lists[m] \in Seq(Probe)
      BY <1>1, <2>2, <3>2 DEF FlatBy
    <3>4. V \in SUBSET ks /\ V \notin W
      BY <1>2, <3>2
    <3> HIDE DEF m
    <3>5. Range(h[V]) = AllNames(lists, V) /\ (Apart(lists) => IsInjective(h[V]))
      BY <3>4
    <3>6. AllNames(lists, T) = AllNames(lists, V) \cup Range(lists[m])
      BY <3>2 DEF AllNames
    <3>7. ASSUME Apart(lists)
          PROVE  IsInjective(lists[m]) /\ Range(h[V]) \cap Range(lists[m]) = {}
      <4>1. m \in DOMAIN lists /\ V \subseteq DOMAIN lists /\ m \notin V
        BY <3>2
      <4>2. AllNames(lists, V) \cap Range(lists[m]) = {}
        BY <3>7, <4>1 DEF Apart, AllNames
      <4> QED BY <3>5, <3>7, <4>1, <4>2 DEF Apart
    <3> HIDE DEF V
    <3>8. Range(h[T]) = Range(h[V]) \cup Range(lists[m])
      BY <3>3, NamesConcat
    <3>9. Apart(lists) => IsInjective(h[T])
      BY <3>3, <3>5, <3>7, NamesConcat
    <3> QED BY <3>5, <3>6, <3>8, <3>9
  <2> QED BY <2>1, <2>2
<1>3. W \in SUBSET (SUBSET ks)
  OBVIOUS
<1> HIDE DEF W
<1>4. ASSUME W # {} PROVE FALSE
  <2>1. \E T \in W : \A U \in W : U \subseteq T => U = T
    BY ONLY IsFiniteSet(ks), <1>3, <1>4, Smallest
  <2> QED BY <1>2, <2>1
<1>5. Right(ks)
  BY <1>4 DEF W
<1> QED BY <1>1, <1>5 DEF FlatBy

-----------------------------------------------------------------------------
(* One operation on an order: it stays one, and names whom it should.      *)
LEMMA SourcesFinite ==
  ASSUME NEW ks, ks \subseteq Patch \cup Geyser
  PROVE  IsFiniteSet(ks) /\ ks \subseteq Nat
<1>1. IsFiniteSet(Patch \cup Geyser) /\ Patch \cup Geyser \subseteq Nat
  BY WorkerLinesAssumption, FS_Union
<1> QED BY <1>1, FS_Subset

LEMMA NewLineOrder ==
  ASSUME NEW ps, ps \subseteq Patch
  PROVE  IsOrder(NewLine(ps)) /\ NamesOnce(NewLine(ps), {})
<1>1. \A p \in ps : NewLine(ps).listed[p] = <<>>
  BY DEF NewLine
<1>2. NewLine(ps).unassigned = <<>> /\ DOMAIN NewLine(ps).listed = ps
  BY DEF NewLine
<1>3. IsOrder(NewLine(ps))
  BY DEF IsOrder, NewLine
<1> QED BY <1>1, <1>2, <1>3, NamesEmpty DEF NamesOnce, Apart, AllNames

LEMMA AddedOrder ==
  ASSUME NEW l, IsOrder(l), NEW u \in Probe
  PROVE  /\ IsOrder(Added(l, u)) /\ Added(l, u).listed = l.listed /\ Added(l, u).over = l.over
         /\ Range(Added(l, u).unassigned) = Range(l.unassigned) \cup {u}
         /\ \A us : u \notin us /\ NamesOnce(l, us) => NamesOnce(Added(l, u), us \cup {u})
<1> DEFINE s == Append(l.unassigned, u)
<1>1. /\ Added(l, u).listed = l.listed /\ Added(l, u).over = l.over
      /\ Added(l, u).unassigned = s
  BY DEF Added, IsOrder
<1>2. l.unassigned \in Seq(Probe)
  BY DEF IsOrder
<1>3. /\ s \in Seq(Probe) /\ Range(s) = Range(l.unassigned) \cup {u}
      /\ u \notin Range(l.unassigned) /\ IsInjective(l.unassigned) => IsInjective(s)
  BY <1>2, NamesAppend
<1> HIDE DEF s
<1>4. IsOrder(Added(l, u))
  BY <1>3 DEF Added, IsOrder, s
<1>5. ASSUME NEW us, u \notin us, NamesOnce(l, us)
      PROVE  NamesOnce(Added(l, u), us \cup {u})
  BY <1>1, <1>3, <1>5 DEF NamesOnce
<1> QED BY <1>1, <1>3, <1>4, <1>5

LEMMA RemovedOrder ==
  ASSUME NEW l, IsOrder(l), NEW u, NEW s
  PROVE  /\ IsOrder(Removed(s, l, u)) /\ Removed(s, l, u).over = l.over
         /\ DOMAIN Removed(s, l, u).listed = DOMAIN l.listed
         /\ Range(l.unassigned) \ {u} \subseteq Range(Removed(s, l, u).unassigned)
         /\ \A k \in DOMAIN l.listed :
              Range(l.listed[k]) \ {u} \subseteq Range(Removed(s, l, u).listed[k])
         /\ s[1] = "mineral" => Removed(s, l, u).unassigned = l.unassigned
         /\ \A us : s[1] # "mineral" /\ NamesOnce(l, us) => NamesOnce(Removed(s, l, u), us \ {u})
<1> DEFINE lists == l.listed
           ks == DOMAIN lists
           next == Unlisted(lists, u)
           r == RemoveFirst(l.unassigned, u)
           o == Removed(s, l, u)
<1>1. lists \in [ks -> Seq(Probe)] /\ ks \subseteq Patch \cup Geyser /\ l.unassigned \in Seq(Probe)
  BY DEF IsOrder
<1>2. ks \subseteq Nat
  BY <1>1, SourcesFinite
<1>3. /\ next \in [ks -> Seq(Probe)]
      /\ \A k \in ks : Range(lists[k]) \ {u} \subseteq Range(next[k])
      /\ Apart(lists) => /\ Apart(next)
                         /\ \A k \in ks : Range(next[k]) = Range(lists[k]) \ {u}
  <2>1. Without(next, lists, ks, u)
    <3> HIDE DEF lists, ks
    <3> QED BY <1>1, <1>2, UnlistedKeeps
  <2> HIDE DEF next, lists, ks
  <2> QED BY <2>1 DEF Without
<1>4. /\ r \in Seq(Probe) /\ Range(l.unassigned) \ {u} \subseteq Range(r)
      /\ IsInjective(l.unassigned) => IsInjective(r) /\ Range(r) = Range(l.unassigned) \ {u}
  BY <1>1, NamesRemoved
<1>5. /\ o.listed = next /\ o.over = l.over
      /\ o.unassigned = IF s[1] = "mineral" THEN l.unassigned ELSE r
      /\ o = [listed |-> next, unassigned |-> o.unassigned, over |-> l.over]
  BY DEF Removed, IsOrder
<1> HIDE DEF next, r, o
<1>6. IsOrder(o)
  <2>1. o.unassigned \in Seq(Probe) /\ l.over \in BOOLEAN
    BY <1>1, <1>4, <1>5 DEF IsOrder
  <2>2. DOMAIN next = ks
    BY <1>3
  <2> QED BY <1>1, <1>3, <1>5, <2>1, <2>2 DEF IsOrder
<1>7. ASSUME NEW us, s[1] # "mineral", NamesOnce(l, us)
      PROVE  NamesOnce(o, us \ {u})
  <2>1. Apart(lists) /\ IsInjective(l.unassigned)
    BY <1>7 DEF NamesOnce
  <2>2. AllNames(next, DOMAIN next) = AllNames(lists, ks) \ {u}
    <3>1. \A k \in ks : Range(next[k]) = Range(lists[k]) \ {u}
      BY <1>3, <2>1
    <3>2. DOMAIN next = ks
      BY <1>3
    <3> HIDE DEF lists, ks
    <3>3. \A v : v \in AllNames(next, ks) <=> v \in AllNames(lists, ks) \ {u}
      BY <3>1 DEF AllNames
    <3> QED BY <3>2, <3>3
  <2>3. o.unassigned = r /\ Range(r) = Range(l.unassigned) \ {u} /\ IsInjective(r)
    BY <1>4, <1>5, <1>7, <2>1
  <2>4. us = Range(l.unassigned) \cup AllNames(lists, ks)
        /\ Range(l.unassigned) \cap AllNames(lists, ks) = {}
    BY <1>7 DEF NamesOnce
  <2> QED BY <1>3, <1>5, <2>1, <2>2, <2>3, <2>4 DEF NamesOnce
<1>8. DOMAIN o.listed = DOMAIN l.listed
  BY <1>3, <1>5
<1>9. /\ Range(l.unassigned) \ {u} \subseteq Range(o.unassigned)
      /\ s[1] = "mineral" => o.unassigned = l.unassigned
  BY <1>4, <1>5
<1>10. \A k \in DOMAIN l.listed : Range(l.listed[k]) \ {u} \subseteq Range(o.listed[k])
  BY <1>3, <1>5
<1> QED BY <1>5, <1>6, <1>7, <1>8, <1>9, <1>10 DEF o

LEMMA TakeExcessNames ==
  ASSUME NEW l, IsOrder(l), NEW g \in DOMAIN l.listed, NEW positions
  PROVE  /\ IsOrder(TakeExcess(positions, l, g))
         /\ DOMAIN TakeExcess(positions, l, g).listed = DOMAIN l.listed
         /\ \A us : NamesOnce(l, us) => NamesOnce(TakeExcess(positions, l, g), us)
<1> DEFINE o == TakeExcess(positions, l, g)
           ks == DOMAIN l.listed
           from == l.listed[g]
           t == Tail(from)
           h == Head(from)
           next == [l.listed EXCEPT ![g] = t]
           s == Append(l.unassigned, h)
<1>1. l.listed \in [ks -> Seq(Probe)] /\ from \in Seq(Probe) /\ l.unassigned \in Seq(Probe)
  BY DEF IsOrder
<1>2. CASE ~(Len(from) > 3 /\ positions > Len(l.unassigned))
  BY <1>2 DEF TakeExcess
<1>3. CASE Len(from) > 3 /\ positions > Len(l.unassigned)
  <2>1. from # <<>>
    BY <1>3
  <2>2. /\ t \in Seq(Probe) /\ h \in Probe
        /\ Range(from) = {h} \cup Range(t)
        /\ IsInjective(from) => IsInjective(t) /\ h \notin Range(t)
    BY <1>1, <2>1, NamesTail
  <2>3. o = [l EXCEPT !.listed[g] = t, !.unassigned = s]
    BY <1>3 DEF TakeExcess
  <2> HIDE DEF t, h
  <2>4. /\ s \in Seq(Probe) /\ Range(s) = Range(l.unassigned) \cup {h}
        /\ h \notin Range(l.unassigned) /\ IsInjective(l.unassigned) => IsInjective(s)
    BY <1>1, <2>2, NamesAppend
  <2> HIDE DEF s
  <2>5. o = [listed |-> next, unassigned |-> s, over |-> l.over]
    BY <2>3 DEF IsOrder
  <2>6. next \in [ks -> Seq(Probe)] /\ next[g] = t /\ \A k \in ks : k # g => next[k] = l.listed[k]
    BY <1>1, <2>2
  <2> HIDE DEF next, o
  <2>7. IsOrder(o) /\ DOMAIN o.listed = ks
    BY <2>4, <2>5, <2>6 DEF IsOrder
  <2>8. ASSUME NEW us, NamesOnce(l, us)
        PROVE  NamesOnce(o, us)
    <3>1. /\ us = Range(l.unassigned) \cup AllNames(l.listed, ks)
          /\ IsInjective(l.unassigned) /\ Apart(l.listed)
          /\ Range(l.unassigned) \cap AllNames(l.listed, ks) = {}
      BY <2>8 DEF NamesOnce
    <3>2. IsInjective(t) /\ h \notin Range(t)
      BY <2>2, <3>1 DEF Apart
    <3>3. \A k \in ks : k # g => h \notin Range(l.listed[k])
      BY <2>2, <3>1 DEF Apart
    <3>4. \A k \in ks : Range(next[k]) = Range(l.listed[k]) \ {h}
      BY <2>2, <2>6, <3>2, <3>3
    <3>5. Apart(next)
      BY <2>6, <3>1, <3>2, <3>4 DEF Apart
    <3>6. h \in AllNames(l.listed, ks) /\ AllNames(next, ks) = AllNames(l.listed, ks) \ {h}
      <4>1. h \in AllNames(l.listed, ks)
        BY <2>2 DEF AllNames
      <4>2. \A v : v \in AllNames(next, ks) <=> v \in AllNames(l.listed, ks) \ {h}
        BY <3>4 DEF AllNames
      <4> QED BY <4>1, <4>2
    <3>7. IsInjective(s)
      BY <2>4, <3>1, <3>6
    <3>8. o.listed = next /\ o.unassigned = s /\ DOMAIN next = ks
      BY <2>5, <2>6
    <3> QED BY <2>4, <3>1, <3>5, <3>6, <3>7, <3>8 DEF NamesOnce
  <2> QED BY <2>7, <2>8 DEF o
<1> QED BY <1>2, <1>3

\* The orders with lists for ks that name each of us once.
Placed(ks, us) ==
  {l \in [listed : [ks -> Seq(Probe)], unassigned : Seq(Probe), over : BOOLEAN] : NamesOnce(l, us)}

LEMMA PlacedOrder ==
  ASSUME NEW ks, ks \subseteq Patch \cup Geyser, NEW us, NEW l
  PROVE  l \in Placed(ks, us) <=> IsOrder(l) /\ DOMAIN l.listed = ks /\ NamesOnce(l, us)
<1>1. l \in Placed(ks, us) => IsOrder(l) /\ DOMAIN l.listed = ks /\ NamesOnce(l, us)
  BY DEF Placed, IsOrder
<1>2. IsOrder(l) /\ DOMAIN l.listed = ks /\ NamesOnce(l, us) => l \in Placed(ks, us)
  BY DEF Placed, IsOrder
<1> QED BY <1>1, <1>2

\* A greatest element can be taken from every part of the lists.
LEMMA ExcessNames ==
  ASSUME NEW l, IsOrder(l), NEW us, NamesOnce(l, us), NEW positions
  PROVE  /\ IsOrder(ExcessTaken(positions, l)) /\ NamesOnce(ExcessTaken(positions, l), us)
         /\ DOMAIN ExcessTaken(positions, l).listed = DOMAIN l.listed
<1> DEFINE ks == DOMAIN l.listed
           D == Placed(ks, us)
           c == [T \in SUBSET ks |-> Max(T)]
           F == [z \in ks \X D |-> TakeExcess(positions, z[2], z[1])]
           Made(h) == h = [T \in SUBSET ks |->
                             IF T = {} THEN l ELSE TakeExcess(positions, h[T \ {Max(T)}], Max(T))]
<1>1. ks \subseteq Patch \cup Geyser /\ IsFiniteSet(ks) /\ ks \subseteq Nat
  BY SourcesFinite DEF IsOrder
<1> HIDE DEF ks
<1>2. Picks(c, ks) /\ \A T \in SUBSET ks : T # {} => Max(T) \in T
  BY <1>1, MaxPicks
<1>3. ASSUME NEW g \in ks, NEW m \in D PROVE TakeExcess(positions, m, g) \in D
  <2>1. IsOrder(m) /\ g \in DOMAIN m.listed /\ DOMAIN m.listed = ks /\ NamesOnce(m, us)
    BY <1>1, PlacedOrder
  <2>2. /\ IsOrder(TakeExcess(positions, m, g))
        /\ DOMAIN TakeExcess(positions, m, g).listed = DOMAIN m.listed
        /\ NamesOnce(TakeExcess(positions, m, g), us)
    BY <2>1, TakeExcessNames
  <2> QED BY <1>1, <2>1, <2>2, PlacedOrder
<1>4. l \in D
  BY <1>1, PlacedOrder DEF ks
<1> HIDE DEF D
<1>5. Steps(F, ks, D)
  BY <1>3 DEF Steps
<1> HIDE DEF c, F
<1>6. PICK g : IsFold(g, F, c, l, ks) /\ g \in [SUBSET ks -> D]
  BY <1>1, <1>2, <1>4, <1>5, FoldMade
<1>7. ASSUME NEW T \in SUBSET ks
      PROVE  g[T] = IF T = {} THEN l ELSE TakeExcess(positions, g[T \ {Max(T)}], Max(T))
  <2>1. CASE T = {}
    BY <1>6, <2>1 DEF IsFold
  <2>2. CASE T # {}
    <3>1. c[T] = Max(T) /\ Max(T) \in ks /\ T \ {Max(T)} \in SUBSET ks
      BY <1>2, <2>2 DEF c
    <3>2. F[<<Max(T), g[T \ {Max(T)}]>>] = TakeExcess(positions, g[T \ {Max(T)}], Max(T))
      BY <1>6, <3>1 DEF F
    <3> QED BY <1>6, <2>2, <3>1, <3>2 DEF IsFold
  <2> QED BY <2>1, <2>2
<1>8. Made(g)
  BY <1>6, <1>7
<1> DEFINE h == CHOOSE h : Made(h)
<1>9. ExcessTaken(positions, l) = h[ks]
  BY Zenon DEF ExcessTaken, MapThenFoldSet, ks
<1>10. Made(h)
  BY <1>8, Zenon
<1> HIDE DEF h
<1>11. MadeAlike(h, g, c, ks)
  BY <1>7, <1>10 DEF c, MadeAlike
<1>12. OnSubsets(h, ks) /\ OnSubsets(g, ks)
  BY <1>6, <1>10 DEF OnSubsets
<1> HIDE DEF Made
<1>13. h = g
  BY <1>1, <1>2, <1>11, <1>12, FoldSame
<1>14. ExcessTaken(positions, l) \in D
  BY <1>6, <1>9, <1>13
<1> QED BY <1>1, <1>14, PlacedOrder DEF D, ks

LEMMA ShortestIn ==
  ASSUME NEW ks, ks # {}, ks \subseteq Nat, NEW lists \in [ks -> Seq(Probe)]
  PROVE  Min(Shortest(lists)) \in ks
<1> DEFINE lens == {Len(lists[k]) : k \in ks}
<1>1. lens # {} /\ lens \subseteq Nat
  <2>1. \A k \in ks : Len(lists[k]) \in Nat
    OBVIOUS
  <2> QED BY <2>1
<1>2. Min(lens) \in lens /\ \A n \in lens : Min(lens) <= n
  BY <1>1, MinIn
<1>3. PICK k \in ks : Len(lists[k]) = Min(lens)
  BY <1>2
<1>4. k \in Shortest(lists)
  <2> HIDE DEF lens
  <2>1. \A j \in ks : Len(lists[j]) \in lens
    BY DEF lens
  <2> QED BY <1>2, <1>3, <2>1 DEF Shortest
<1>5. Shortest(lists) # {} /\ Shortest(lists) \subseteq Nat /\ Shortest(lists) \subseteq ks
  BY <1>4 DEF Shortest
<1> QED BY <1>5, MinIn

LEMMA AssignedNames ==
  ASSUME NEW ks, ks # {}, ks \subseteq Nat, NEW lists \in [ks -> Seq(Probe)], NEW u \in Probe
  PROVE  /\ Assigned(lists, u) \in [ks -> Seq(Probe)]
         /\ AllNames(Assigned(lists, u), ks) = AllNames(lists, ks) \cup {u}
         /\ Apart(lists) /\ u \notin AllNames(lists, ks) => Apart(Assigned(lists, u))
<1> DEFINE m == Min(Shortest(lists))
           s == Append(lists[m], u)
           o == Assigned(lists, u)
<1>1. m \in ks
  BY ShortestIn
<1>2. o = [lists EXCEPT ![m] = s]
  BY DEF Assigned
<1> HIDE DEF m, o
<1>3. /\ s \in Seq(Probe) /\ Range(s) = Range(lists[m]) \cup {u}
      /\ u \notin Range(lists[m]) /\ IsInjective(lists[m]) => IsInjective(s)
  BY <1>1, NamesAppend
<1> HIDE DEF s
<1>4. o \in [ks -> Seq(Probe)] /\ o[m] = s /\ \A k \in ks : k # m => o[k] = lists[k]
  BY <1>1, <1>2, <1>3
<1>5. \A v : v \in AllNames(o, ks) <=> v \in AllNames(lists, ks) \cup {u}
  BY <1>1, <1>3, <1>4 DEF AllNames
<1>6. ASSUME Apart(lists), u \notin AllNames(lists, ks)
      PROVE  Apart(o)
  <2>1. \A k \in ks : u \notin Range(lists[k])
    BY <1>6 DEF AllNames
  <2>2. /\ \A k \in ks : IsInjective(lists[k])
        /\ \A k, j \in ks : k # j => Range(lists[k]) \cap Range(lists[j]) = {}
    BY <1>6 DEF Apart
  <2>3. \A k \in ks : IsInjective(o[k])
    BY <1>1, <1>3, <1>4, <2>1, <2>2
  <2>4. ASSUME NEW k \in ks, NEW j \in ks, k # j PROVE Range(o[k]) \cap Range(o[j]) = {}
    <3>1. CASE k = m
      BY <1>3, <1>4, <2>1, <2>2, <2>4, <3>1
    <3>2. CASE j = m
      BY <1>3, <1>4, <2>1, <2>2, <2>4, <3>2
    <3>3. CASE k # m /\ j # m
      BY <1>4, <2>2, <2>4, <3>3
    <3> QED BY <3>1, <3>2, <3>3
  <2>5. DOMAIN o = ks
    BY <1>4
  <2> QED BY <2>3, <2>4, <2>5 DEF Apart
<1> QED BY <1>4, <1>5, <1>6 DEF o

\* The fold of assignWorkers over the unassigned probes.
AssignedBy(h, lists, ks, seq) ==
  /\ h \in [SUBSET (DOMAIN seq) -> [ks -> Seq(Probe)]]
  /\ \A T \in SUBSET (DOMAIN seq) :
       h[T] = IF T = {} THEN lists ELSE Assigned(h[T \ {Max(T)}], seq[Max(T)])

LEMMA AssignedMade ==
  ASSUME NEW ks, ks # {}, ks \subseteq Nat, NEW lists \in [ks -> Seq(Probe)], NEW seq \in Seq(Probe)
  PROVE  \E h : AssignedBy(h, lists, ks, seq) /\ FoldLeft(Assigned, lists, seq) = h[DOMAIN seq]
<1> DEFINE S == DOMAIN seq
           D == [ks -> Seq(Probe)]
           c == [T \in SUBSET S |-> Max(T)]
           F == [z \in S \X D |-> Assigned(z[2], seq[z[1]])]
           Made(h) == h = [T \in SUBSET S |->
                             IF T = {} THEN lists ELSE Assigned(h[T \ {Max(T)}], seq[Max(T)])]
<1>1. IsFiniteSet(S) /\ S \subseteq Nat
  <2>1. S = 1..Len(seq) /\ Len(seq) \in Nat
    OBVIOUS
  <2> QED BY <2>1, FS_Interval
<1>2. ASSUME NEW i \in S, NEW y \in D PROVE Assigned(y, seq[i]) \in D
  <2>1. seq[i] \in Probe
    OBVIOUS
  <2> QED BY <2>1, AssignedNames
<1> HIDE DEF S
<1>3. Picks(c, S) /\ \A T \in SUBSET S : T # {} => Max(T) \in T
  BY <1>1, MaxPicks
<1> HIDE DEF D
<1>4. Steps(F, S, D)
  BY <1>2 DEF Steps
<1> HIDE DEF c, F
<1>5. lists \in D
  BY DEF D
<1>6. PICK g : IsFold(g, F, c, lists, S) /\ g \in [SUBSET S -> D]
  BY ONLY <1>1, <1>3, <1>4, <1>5, FoldMade
<1>7. ASSUME NEW T \in SUBSET S
      PROVE  g[T] = IF T = {} THEN lists ELSE Assigned(g[T \ {Max(T)}], seq[Max(T)])
  <2>1. CASE T = {}
    BY <1>6, <2>1 DEF IsFold
  <2>2. CASE T # {}
    <3>1. c[T] = Max(T) /\ Max(T) \in S /\ T \ {Max(T)} \in SUBSET S
      BY <1>3, <2>2 DEF c
    <3>2. F[<<Max(T), g[T \ {Max(T)}]>>] = Assigned(g[T \ {Max(T)}], seq[Max(T)])
      BY <1>6, <3>1 DEF F
    <3> QED BY <1>6, <2>2, <3>1, <3>2 DEF IsFold
  <2> QED BY <2>1, <2>2
<1>8. Made(g)
  BY <1>6, <1>7
<1> DEFINE h == CHOOSE h : Made(h)
<1>9. FoldLeft(Assigned, lists, seq) = h[S]
  BY Zenon DEF FoldLeft, MapThenFoldSet, S
<1>10. Made(h)
  BY <1>8, Zenon
<1> HIDE DEF h
<1>11. MadeAlike(h, g, c, S)
  BY <1>7, <1>10 DEF c, MadeAlike
<1>12. OnSubsets(h, S) /\ OnSubsets(g, S)
  BY <1>6, <1>10 DEF OnSubsets
<1> HIDE DEF Made
<1>13. h = g
  BY ONLY <1>1, <1>3, <1>11, <1>12, FoldSame
<1> QED BY <1>6, <1>7, <1>9, <1>13 DEF AssignedBy, S, D

LEMMA ServedNames ==
  ASSUME NEW l, IsOrder(l), NEW us, NamesOnce(l, us)
  PROVE  IsOrder(Served(l)) /\ NamesOnce(Served(l), us)
<1> DEFINE ks == DOMAIN l.listed
           seq == l.unassigned
           S == DOMAIN seq
<1>1. ks \subseteq Patch \cup Geyser /\ ks \subseteq Nat /\ l.listed \in [ks -> Seq(Probe)]
      /\ seq \in Seq(Probe)
  BY SourcesFinite DEF IsOrder
<1>2. CASE ks = {}
  BY <1>2 DEF Served
<1>3. CASE ks # {}
  <2> DEFINE next == FoldLeft(Assigned, l.listed, seq)
  <2>1. Served(l) = [listed |-> next, unassigned |-> <<>>, over |-> l.over]
    BY <1>3 DEF Served, IsOrder
  <2>2. /\ us = Range(seq) \cup AllNames(l.listed, ks)
        /\ IsInjective(seq) /\ Apart(l.listed)
        /\ Range(seq) \cap AllNames(l.listed, ks) = {}
    BY DEF NamesOnce
  <2>3. IsFiniteSet(S) /\ S \subseteq Nat /\ \A i \in S : seq[i] \in Probe
    <3>1. S = 1..Len(seq) /\ Len(seq) \in Nat
      BY <1>1
    <3>2. IsFiniteSet(1..Len(seq))
      BY <3>1, FS_Interval
    <3>3. \A i \in S : seq[i] \in Probe
      BY <1>1
    <3> QED BY <3>1, <3>2, <3>3
  <2>fin. IsFiniteSet(S)
    BY <2>3
  <2> HIDE DEF ks
  <2>4. PICK h : AssignedBy(h, l.listed, ks, seq) /\ next = h[S]
    BY <1>1, <1>3, AssignedMade
  <2> DEFINE Given(T) == {seq[i] : i \in T}
             Right(T) == /\ AllNames(h[T], ks) = AllNames(l.listed, ks) \cup Given(T)
                         /\ Apart(h[T])
             W == {T \in SUBSET S : ~Right(T)}
  <2>5. ASSUME NEW T \in W, \A U \in W : U \subseteq T => U = T
        PROVE  FALSE
    <3>1. CASE T = {}
      BY <2>2, <2>4, <3>1 DEF AssignedBy
    <3>2. CASE T # {}
      <4> DEFINE m == Max(T)
                 V == T \ {m}
                 u == seq[m]
      <4>1. m \in T
        BY <2>3, <3>2, MaxPicks
      <4>2. h[T] = Assigned(h[V], u) /\ h[V] \in [ks -> Seq(Probe)]
        BY <2>4, <3>2 DEF AssignedBy
      <4> HIDE DEF m
      <4>3. V \in SUBSET S /\ V \notin W
        BY <2>5, <4>1
      <4>4. AllNames(h[V], ks) = AllNames(l.listed, ks) \cup Given(V) /\ Apart(h[V])
        BY <4>3
      <4>5. u \in Probe /\ u \in Range(seq)
        BY <2>3, <4>1 DEF Range
      <4>6. u \notin Given(V)
        BY <2>2, <4>1 DEF IsInjective
      <4>7. u \notin AllNames(h[V], ks)
        BY <2>2, <4>4, <4>5, <4>6
      <4>8. Given(T) = Given(V) \cup {u}
        BY <4>1
      <4> HIDE DEF V, u, Given
      <4>9. AllNames(h[T], ks) = AllNames(h[V], ks) \cup {u} /\ Apart(h[T])
        <5>1. AllNames(Assigned(h[V], u), ks) = AllNames(h[V], ks) \cup {u}
          BY <1>1, <1>3, <4>2, <4>5, AssignedNames
        <5>2. Apart(Assigned(h[V], u))
          BY <1>1, <1>3, <4>2, <4>4, <4>5, <4>7, AssignedNames
        <5> QED BY <4>2, <5>1, <5>2
      <4> QED BY <4>4, <4>8, <4>9
    <3> QED BY <3>1, <3>2
  <2>6. W \in SUBSET (SUBSET S)
    OBVIOUS
  <2> HIDE DEF W, S
  <2>7. ASSUME W # {} PROVE FALSE
    <3>1. \E T \in W : \A U \in W : U \subseteq T => U = T
      BY ONLY <2>fin, <2>6, <2>7, Smallest
    <3> QED BY <2>5, <3>1
  <2>8. Right(S)
    BY <2>7 DEF W
  <2>9. Given(S) = Range(seq)
    BY DEF S, Range
  <2> HIDE DEF Given
  <2>10. AllNames(next, ks) = us /\ Apart(next)
    BY <2>2, <2>4, <2>8, <2>9
  <2>11. next \in [ks -> Seq(Probe)]
    BY <2>4 DEF AssignedBy, S
  <2> HIDE DEF next
  <2>12. DOMAIN next = ks
    BY <2>11
  <2>13. IsOrder(Served(l))
    <3>1. l.over \in BOOLEAN
      BY DEF IsOrder
    <3> QED BY <1>1, <2>1, <2>11, <2>12, <3>1 DEF IsOrder
  <2>14. NamesOnce(Served(l), us)
    BY <2>1, <2>10, <2>12, NamesEmpty DEF NamesOnce
  <2> QED BY <2>13, <2>14
<1> QED BY <1>2, <1>3

LEMMA WithNewNames ==
  ASSUME NEW ks, ks \subseteq Patch \cup Geyser, NEW lists \in [ks -> Seq(Probe)],
         NEW active, active \subseteq Geyser
  PROVE  LET next == WithNew(lists, active)
         IN  /\ DOMAIN next \subseteq Patch \cup Geyser /\ next \in [DOMAIN next -> Seq(Probe)]
             /\ AllNames(next, DOMAIN next) = AllNames(lists, ks)
             /\ Apart(lists) => Apart(next)
<1> DEFINE all == ks \cup active
           more == [g \in all |-> IF g \in ks THEN lists[g] ELSE <<>>]
<1>1. CASE Cardinality(active) <= Cardinality(ks)
  BY <1>1 DEF WithNew
<1>2. CASE ~(Cardinality(active) <= Cardinality(ks))
  <2>1. WithNew(lists, active) = more
    BY <1>2 DEF WithNew
  <2>2. \A g \in all : more[g] = IF g \in ks THEN lists[g] ELSE <<>>
    OBVIOUS
  <2>3. more \in [all -> Seq(Probe)] /\ DOMAIN more = all
    OBVIOUS
  <2> HIDE DEF more
  <2>4. \A v : v \in AllNames(more, all) <=> v \in AllNames(lists, ks)
    BY <2>2, NamesEmpty DEF AllNames
  <2>5. Apart(lists) => Apart(more)
    BY <2>2, <2>3, NamesEmpty DEF Apart
  <2> QED BY <2>1, <2>3, <2>4, <2>5
<1> QED BY <1>1, <1>2

LEMMA VespeneStepNames ==
  ASSUME NEW l, IsOrder(l), NEW us, NamesOnce(l, us), NEW active, active \subseteq Geyser
  PROVE  IsOrder(VespeneStep(l, active)) /\ NamesOnce(VespeneStep(l, active), us)
<1> DEFINE lists == WithNew(l.listed, active)
           ks    == DOMAIN lists
           gone  == ks \ active
           live  == ks \ gone
           kept  == Restrict(lists, live)
           flat  == Flat(lists, gone)
           s     == l.unassigned \o flat
           cleared == [l EXCEPT !.listed = kept, !.unassigned = s]
           positions == SumFunction([g \in DOMAIN kept |-> Free(Len(kept[g]))])
<1>1. VespeneStep(l, active) = Served(ExcessTaken(positions, cleared))
  BY DEF VespeneStep
<1> HIDE DEF positions
<1>2. /\ l.listed \in [DOMAIN l.listed -> Seq(Probe)] /\ DOMAIN l.listed \subseteq Patch \cup Geyser
      /\ l.unassigned \in Seq(Probe) /\ l.over \in BOOLEAN
  BY DEF IsOrder
<1>3. /\ us = Range(l.unassigned) \cup AllNames(l.listed, DOMAIN l.listed)
      /\ IsInjective(l.unassigned) /\ Apart(l.listed)
      /\ Range(l.unassigned) \cap AllNames(l.listed, DOMAIN l.listed) = {}
  BY DEF NamesOnce
<1>4. /\ ks \subseteq Patch \cup Geyser /\ lists \in [ks -> Seq(Probe)]
      /\ AllNames(lists, ks) = AllNames(l.listed, DOMAIN l.listed) /\ Apart(lists)
  BY <1>2, <1>3, WithNewNames
<1> HIDE DEF lists
<1>5. kept \in [live -> Seq(Probe)] /\ \A g \in live : kept[g] = lists[g]
  BY <1>4 DEF Restrict
<1> HIDE DEF kept
<1>7. DOMAIN kept = live
  BY <1>5
<1>8. IsFiniteSet(gone) /\ gone \subseteq Nat /\ gone \subseteq ks
  BY <1>4, SourcesFinite
<1>9. flat \in Seq(Probe) /\ Range(flat) = AllNames(lists, gone) /\ IsInjective(flat)
  <2> HIDE DEF gone
  <2> QED BY <1>4, <1>8, FlatNames
<1> HIDE DEF flat
<1>10. Range(l.unassigned) \cap Range(flat) = {}
  <2>1. AllNames(lists, gone) \subseteq AllNames(lists, ks)
    BY DEF AllNames
  <2> QED BY <1>3, <1>4, <1>9, <2>1
<1>11. /\ s \in Seq(Probe) /\ Range(s) = Range(l.unassigned) \cup Range(flat)
       /\ IsInjective(s)
  <2>1. /\ s \in Seq(Probe) /\ Range(s) = Range(l.unassigned) \cup Range(flat)
        /\ IsInjective(l.unassigned) /\ IsInjective(flat) /\ Range(l.unassigned) \cap Range(flat) = {}
             => IsInjective(s)
    <3>1. l.unassigned \in Seq(Probe) /\ flat \in Seq(Probe)
      BY <1>2, <1>9
    <3> QED BY ONLY <3>1, NamesConcat
  <2> QED BY <1>3, <1>9, <1>10, <2>1
<1> HIDE DEF s
<1>6. cleared = [listed |-> kept, unassigned |-> s, over |-> l.over]
  <2>1. cleared = [l EXCEPT !.listed = kept, !.unassigned = s]
    OBVIOUS
  <2> HIDE DEF cleared
  <2> QED BY <2>1 DEF IsOrder
<1> HIDE DEF cleared
<1>12. IsOrder(cleared)
  BY <1>2, <1>4, <1>5, <1>6, <1>7, <1>11 DEF IsOrder
<1>13. Apart(kept)
  BY <1>4, <1>5, <1>7 DEF Apart
<1>14. AllNames(kept, live) = AllNames(lists, live)
  BY <1>5 DEF AllNames
<1>15. /\ AllNames(lists, ks) = AllNames(lists, live) \cup AllNames(lists, gone)
       /\ AllNames(lists, live) \cap AllNames(lists, gone) = {}
  BY <1>4 DEF AllNames, Apart
<1>16. NamesOnce(cleared, us)
  <2>1. cleared.listed = kept /\ cleared.unassigned = s
    BY <1>6
  <2>2. us = Range(s) \cup AllNames(kept, live)
    <3>1. us = Range(l.unassigned) \cup (AllNames(lists, live) \cup AllNames(lists, gone))
      BY <1>3, <1>4, <1>15
    <3>2. Range(s) = Range(l.unassigned) \cup AllNames(lists, gone)
      BY <1>9, <1>11
    <3> QED BY ONLY <1>14, <3>1, <3>2
  <2>3. Range(s) \cap AllNames(kept, live) = {}
    BY <1>3, <1>4, <1>9, <1>11, <1>14, <1>15
  <2> QED BY <1>7, <1>11, <1>13, <2>1, <2>2, <2>3 DEF NamesOnce
<1> DEFINE taken == ExcessTaken(positions, cleared)
<1>17. IsOrder(taken) /\ NamesOnce(taken, us)
  BY <1>12, <1>16, ExcessNames
<1> HIDE DEF taken
<1>18. IsOrder(Served(taken)) /\ NamesOnce(Served(taken), us)
  BY <1>17, ServedNames
<1> QED BY <1>1, <1>18 DEF taken

LEMMA MineralStepKnown ==
  ASSUME NEW l, IsOrder(l), NEW live
  PROVE  /\ IsOrder(MineralStep(l, live)) /\ MineralStep(l, live).over = l.over
         /\ \A u : Known(l, u, DOMAIN l.listed) => Known(MineralStep(l, live), u, live)
<1> DEFINE dead == DOMAIN l.listed \ live
           flat == Flat(l.listed, dead)
           s    == l.unassigned \o flat
           o    == MineralStep(l, live)
<1>1. l.listed \in [DOMAIN l.listed -> Seq(Probe)] /\ l.unassigned \in Seq(Probe)
  BY DEF IsOrder
<1>2. dead \subseteq DOMAIN l.listed /\ IsFiniteSet(dead) /\ dead \subseteq Nat
  BY SourcesFinite DEF IsOrder
<1>3. flat \in Seq(Probe) /\ Range(flat) = AllNames(l.listed, dead)
  <2> HIDE DEF dead
  <2> QED BY <1>1, <1>2, FlatNames
<1> HIDE DEF flat
<1>4. s \in Seq(Probe) /\ Range(s) = Range(l.unassigned) \cup Range(flat)
  <2>1. l.unassigned \in Seq(Probe) /\ flat \in Seq(Probe)
    BY <1>1, <1>3
  <2> QED BY ONLY <2>1, NamesConcat
<1>5. o = [l EXCEPT !.unassigned = s]
  BY DEF MineralStep, flat
<1> HIDE DEF s, o
<1>6. IsOrder(o) /\ o.listed = l.listed /\ o.unassigned = s /\ o.over = l.over
  BY <1>4, <1>5 DEF IsOrder
<1>7. ASSUME NEW u, Known(l, u, DOMAIN l.listed)
      PROVE  Known(o, u, live)
  <2>1. CASE u \in Range(l.unassigned)
    BY <1>4, <1>6, <2>1 DEF Known
  <2>2. CASE \E k \in DOMAIN l.listed : u \in Range(l.listed[k])
    <3>1. PICK k \in DOMAIN l.listed : u \in Range(l.listed[k])
      BY <2>2
    <3>2. CASE k \in live
      BY <1>6, <3>1, <3>2 DEF Known
    <3>3. CASE k \in dead
      <4>1. u \in Range(flat)
        BY <1>3, <3>1, <3>3 DEF AllNames
      <4> QED BY <1>4, <1>6, <4>1 DEF Known
    <3> QED BY <3>2, <3>3
  <2> QED BY <1>7, <2>1, <2>2 DEF Known
<1> QED BY <1>6, <1>7 DEF o

LEMMA MineKnown ==
  ASSUME NEW l, IsOrder(l), Mining(l), NEW p \in DOMAIN l.listed, NEW live
  PROVE  /\ IsOrder(Mine(l, p, live))
         /\ p \in live => /\ Mine(l, p, live).over = l.over
                          /\ \A u : Known(l, u, live) => Known(Mine(l, p, live), u, live)
         /\ p \notin live => Mine(l, p, live).over
<1> DEFINE h == Head(l.unassigned)
           t == Tail(l.unassigned)
           s == Append(l.listed[p], h)
           next == [l.listed EXCEPT ![p] = s]
           o == Mine(l, p, live)
           listed == [l EXCEPT !.listed[p] = s]
<1>1. /\ l.listed \in [DOMAIN l.listed -> Seq(Probe)] /\ l.unassigned \in Seq(Probe)
      /\ l.unassigned # <<>>
  BY DEF IsOrder, Mining
<1>2. t \in Seq(Probe) /\ h \in Probe /\ Range(l.unassigned) = {h} \cup Range(t)
  BY <1>1, NamesTail
<1>3. o = IF p \in live THEN [listed EXCEPT !.unassigned = t] ELSE [listed EXCEPT !.over = TRUE]
  <2>1. listed.unassigned = l.unassigned
    BY DEF IsOrder
  <2> QED BY <2>1 DEF Mine
<1> HIDE DEF h, t, o
<1>4. l.listed[p] \in Seq(Probe)
  BY <1>1
<1>5. s \in Seq(Probe) /\ Range(s) = Range(l.listed[p]) \cup {h}
  BY <1>2, <1>4, NamesAppend
<1> HIDE DEF s
<1>6. /\ next \in [DOMAIN l.listed -> Seq(Probe)] /\ next[p] = s
      /\ \A k \in DOMAIN l.listed : k # p => next[k] = l.listed[k]
  BY <1>1, <1>5
<1>7. listed = [listed |-> next, unassigned |-> l.unassigned, over |-> l.over]
  <2>1. listed = [l EXCEPT !.listed = next]
    OBVIOUS
  <2> HIDE DEF listed, next
  <2> QED BY <2>1 DEF IsOrder
<1> HIDE DEF listed
<1> HIDE DEF next
<1>8. o = IF p \in live THEN [listed |-> next, unassigned |-> t, over |-> l.over]
          ELSE [listed |-> next, unassigned |-> l.unassigned, over |-> TRUE]
  <2>1. CASE p \in live
    <3>1. o = [listed EXCEPT !.unassigned = t]
      BY <1>3, <2>1
    <3> QED BY <1>7, <2>1, <3>1
  <2>2. CASE p \notin live
    <3>1. o = [listed EXCEPT !.over = TRUE]
      BY <1>3, <2>2
    <3>2. [listed EXCEPT !.over = TRUE] = [listed |-> next, unassigned |-> l.unassigned, over |-> TRUE]
      <4> DEFINE x == TRUE
      <4> HIDE DEF x
      <4>1. [listed EXCEPT !.over = x] = [listed |-> next, unassigned |-> l.unassigned, over |-> x]
        BY <1>7
      <4> QED BY <4>1, Zenon DEF x
    <3> QED BY <2>2, <3>1, <3>2, Zenon
  <2> QED BY <2>1, <2>2
<1>9. DOMAIN next = DOMAIN l.listed
  BY <1>6
<1>10. IsOrder(o)
  BY <1>1, <1>2, <1>6, <1>8, <1>9 DEF IsOrder
<1>11. ASSUME p \in live, NEW u, Known(l, u, live)
       PROVE  Known(o, u, live)
  <2>1. o.listed = next /\ o.unassigned = t
    BY <1>8, <1>11
  <2>2. CASE u \in Range(t)
    BY <2>1, <2>2 DEF Known
  <2>3. CASE u = h
    BY <1>5, <1>6, <1>9, <1>11, <2>1, <2>3 DEF Known
  <2>4. CASE \E k \in live \cap DOMAIN l.listed : u \in Range(l.listed[k])
    BY <1>5, <1>6, <1>9, <2>1, <2>4 DEF Known
  <2> QED BY <1>2, <1>11, <2>2, <2>3, <2>4 DEF Known
<1>12. /\ p \in live => o.over = l.over
       /\ p \notin live => o.over
  BY <1>8
<1> QED BY <1>10, <1>11, <1>12 DEF o

-----------------------------------------------------------------------------
(* The squads and their orders stay together.                              *)
LEMMA SquadNames ==
  ASSUME NEW b \in Base
  PROVE  /\ Mineral(b) \in Squads /\ Vespene(b) \in Squads
         /\ Mineral(b)[1] = "mineral" /\ Vespene(b)[1] # "mineral"
         /\ Mineral(b)[2] = b /\ Vespene(b)[2] = b
BY DEF Mineral, Vespene, Squads

LEMMA PlacementAt ==
  VespenePlacement <=> \A b \in Completed : NamesOnce(line[Vespene(b)], Members(Vespene(b)))
BY DEF VespenePlacement, Vespene

LEMMA KnowsAdded ==
  ASSUME NEW l, IsOrder(l), NEW u \in Probe, NEW us, KnowsAll(l, us)
  PROVE  KnowsAll(Added(l, u), us \cup {u})
<1>1. /\ Added(l, u).listed = l.listed /\ Added(l, u).over = l.over
      /\ Range(Added(l, u).unassigned) = Range(l.unassigned) \cup {u}
  BY AddedOrder
<1> QED BY <1>1 DEF KnowsAll, Known

LEMMA KnowsRemoved ==
  ASSUME NEW l, IsOrder(l), NEW u, NEW us, KnowsAll(l, us), NEW s
  PROVE  KnowsAll(Removed(s, l, u), us \ {u})
<1>1. /\ Removed(s, l, u).over = l.over
      /\ DOMAIN Removed(s, l, u).listed = DOMAIN l.listed
      /\ Range(l.unassigned) \ {u} \subseteq Range(Removed(s, l, u).unassigned)
      /\ \A k \in DOMAIN l.listed :
           Range(l.listed[k]) \ {u} \subseteq Range(Removed(s, l, u).listed[k])
  BY RemovedOrder
<1> QED BY <1>1 DEF KnowsAll, Known

\* Who is in a squad after a transfer, and what its order has been told.
LEMMA Moved ==
  ASSUME NEW u \in Probe, NEW s, MoveTo(u, s), Typed, NEW q \in Squads
  PROVE  /\ q = s => Members(q)' = Members(q) \cup {u} /\ line'[q] = Added(line[q], u)
         /\ q # s /\ q = squad[u] =>
              Members(q)' = Members(q) \ {u} /\ line'[q] = Removed(q, line[q], u)
         /\ q # s /\ q # squad[u] => Members(q)' = Members(q) /\ line'[q] = line[q]
<1>1. \A v \in Probe : squad'[v] = IF v = u THEN s ELSE squad[v]
  BY DEF MoveTo, Typed
<1>2. line'[q] = IF q = s THEN Added(line[q], u)
                 ELSE IF q = squad[u] THEN Removed(q, line[q], u) ELSE line[q]
  BY DEF MoveTo
<1>3. Members(q) = {v \in Probe : squad[v] = q} /\ Members(q)' = {v \in Probe : squad'[v] = q}
  BY DEF Members
<1> QED BY <1>1, <1>2, <1>3

LEMMA MoveToLines ==
  ASSUME NEW u \in Probe, NEW s \in Squads \cup {Dead, Unassigned, Lent}, MoveTo(u, s), Lines,
         UNCHANGED world,
         s \in Squads => s[2] \in Completed /\ (s[1] # "mineral" => s # squad[u])
  PROVE  Lines'
<1> USE DEF Lines
<1>1. Completed' = Completed
  BY DEF Completed, world
<1>2. ASSUME NEW q \in Squads
      PROVE  IsOrder(line'[q])
  <2>1. IsOrder(line[q])
    BY DEF Typed
  <2>2. CASE q = s
    BY <2>1, <2>2, Moved, AddedOrder
  <2>3. CASE q # s /\ q = squad[u]
    BY <2>1, <2>3, Moved, RemovedOrder
  <2>4. CASE q # s /\ q # squad[u]
    BY <2>1, <2>4, Moved
  <2> QED BY <2>2, <2>3, <2>4
<1>3. ASSUME NEW q \in Squads, q[2] \notin Completed
      PROVE  Members(q)' = {} /\ line'[q] = NewLine({})
  <2>1. q # s /\ Members(q) = {} /\ line[q] = NewLine({})
    BY <1>3 DEF Typed
  <2>2. q # squad[u]
    BY <2>1 DEF Members
  <2> QED BY <2>1, <2>2, Moved
<1>4. squad' \in [Probe -> Squads \cup {Unborn, Dead, Unassigned, Lent}]
  BY DEF MoveTo, Typed
<1>5. line' = [q \in Squads |-> line'[q]]
  BY DEF MoveTo
<1>6. Typed'
  BY <1>1, <1>2, <1>3, <1>4, <1>5 DEF Typed, world
<1>7. ASSUME NEW b \in Completed
      PROVE  NamesOnce(line'[Vespene(b)], Members(Vespene(b))')
  <2> DEFINE q == Vespene(b)
  <2>1. q \in Squads /\ q[1] # "mineral"
    BY SquadNames DEF Completed
  <2>2. NamesOnce(line[q], Members(q)) /\ IsOrder(line[q])
    BY <2>1, PlacementAt DEF Typed
  <2> HIDE DEF q
  <2>3. CASE q = s
    <3>1. u \notin Members(q)
      BY <2>1, <2>3 DEF Members
    <3>2. Members(q)' = Members(q) \cup {u} /\ line'[q] = Added(line[q], u)
      BY <2>1, <2>3, Moved
    <3> QED BY <2>2, <3>1, <3>2, AddedOrder DEF q
  <2>4. CASE q # s /\ q = squad[u]
    <3>1. Members(q)' = Members(q) \ {u} /\ line'[q] = Removed(q, line[q], u)
      BY <2>1, <2>4, Moved
    <3> QED BY <2>1, <2>2, <3>1, RemovedOrder DEF q
  <2>5. CASE q # s /\ q # squad[u]
    BY <2>1, <2>2, <2>5, Moved DEF q
  <2> QED BY <2>3, <2>4, <2>5
<1>8. VespenePlacement'
  BY <1>1, <1>7 DEF VespenePlacement, Vespene
<1>9. ASSUME NEW b \in Completed
      PROVE  KnowsAll(line'[Mineral(b)], Members(Mineral(b))')
  <2> DEFINE q == Mineral(b)
  <2>1. q \in Squads
    BY SquadNames DEF Completed
  <2>2. KnowsAll(line[q], Members(q)) /\ IsOrder(line[q])
    BY <2>1 DEF Typed, MineralKnown
  <2> HIDE DEF q
  <2>3. CASE q = s
    BY <2>1, <2>2, <2>3, Moved, KnowsAdded DEF q
  <2>4. CASE q # s /\ q = squad[u]
    BY <2>1, <2>2, <2>4, Moved, KnowsRemoved DEF q
  <2>5. CASE q # s /\ q # squad[u]
    BY <2>1, <2>2, <2>5, Moved DEF q
  <2> QED BY <2>3, <2>4, <2>5
<1>10. MineralKnown'
  BY <1>1, <1>9 DEF MineralKnown, Mineral
<1> QED BY <1>6, <1>8, <1>10

LEMMA LinesSame ==
  ASSUME Lines, UNCHANGED <<squad, line, nexus>>, (minerals \in [Base -> SUBSET Patch])',
         (geyser \in [Geyser -> {"bare", "active", "gone"}])'
  PROVE  Lines'
<1>1. Completed' = Completed /\ \A s : Members(s)' = Members(s)
  BY DEF Completed, Members
<1>2. Typed'
  BY <1>1 DEF Lines, Typed
<1>3. VespenePlacement'
  BY <1>1 DEF Lines, VespenePlacement
<1>4. MineralKnown'
  BY <1>1 DEF Lines, MineralKnown, Mineral
<1> QED BY <1>2, <1>3, <1>4 DEF Lines

LEMMA TrainedLines ==
  ASSUME NEW u \in Probe, Trained(u), Lines
  PROVE  Lines'
<1>1. Completed' = Completed
  BY DEF Completed, Trained, world
<1>2. ASSUME NEW s \in Squads PROVE Members(s)' = Members(s)
  <2>1. s # Unborn /\ s # Unassigned
    BY DEF Squads, Unborn, Unassigned
  <2>2. squad[u] = Unborn /\ squad'[u] = Unassigned /\ \A v \in Probe : v # u => squad'[v] = squad[v]
    BY DEF Trained, Lines, Typed
  <2> QED BY <2>1, <2>2 DEF Members
<1>3. squad' \in [Probe -> Squads \cup {Unborn, Dead, Unassigned, Lent}]
  BY DEF Trained, Lines, Typed
<1>4. UNCHANGED <<line, nexus, minerals, geyser>>
  BY DEF Trained, world
<1>5. Typed'
  BY <1>1, <1>2, <1>3, <1>4 DEF Lines, Typed
<1>6. \A b \in Completed : Mineral(b) \in Squads /\ Vespene(b) \in Squads
  BY SquadNames DEF Completed
<1>7. VespenePlacement'
  BY <1>1, <1>2, <1>4, <1>6 DEF Lines, VespenePlacement, Vespene
<1>8. MineralKnown'
  BY <1>1, <1>2, <1>4, <1>6 DEF Lines, MineralKnown, Mineral
<1> QED BY <1>5, <1>7, <1>8 DEF Lines

LEMMA NewLineKnows ==
  ASSUME NEW ps, ps \subseteq Patch
  PROVE  KnowsAll(NewLine(ps), {})
BY DEF KnowsAll

LEMMA NexusCompletedLines ==
  ASSUME NEW b \in Base, NexusCompleted(b), Lines
  PROVE  Lines'
<1> DEFINE m == Mineral(b)
           v == Vespene(b)
<1>1. nexus[b] = "ahead" /\ nexus' = [nexus EXCEPT ![b] = "completed"]
      /\ line' = [line EXCEPT ![m] = NewLine(minerals[b])] /\ UNCHANGED <<squad, minerals, geyser>>
  BY DEF NexusCompleted, Mineral
<1>2. b \notin Completed /\ Completed' = Completed \cup {b}
  BY <1>1 DEF Completed, Lines, Typed
<1>3. \A s : Members(s)' = Members(s)
  BY <1>1 DEF Members
<1>4. /\ m \in Squads /\ v \in Squads /\ m # v /\ m[2] = b /\ v[2] = b
  BY SquadNames DEF m, v
<1>5. minerals[b] \subseteq Patch
  BY DEF Lines, Typed
<1>6. IsOrder(NewLine(minerals[b])) /\ NamesOnce(NewLine({}), {}) /\ KnowsAll(NewLine(minerals[b]), {})
  BY <1>5, NewLineOrder, NewLineKnows
<1>7. /\ Members(m) = {} /\ Members(v) = {} /\ line[v] = NewLine({})
  BY <1>2, <1>4 DEF Lines, Typed
<1> HIDE DEF m, v
<1>8. /\ line'[m] = NewLine(minerals[b]) /\ \A s \in Squads : s # m => line'[s] = line[s]
      /\ line' = [s \in Squads |-> line'[s]]
  BY <1>1, <1>4 DEF Lines, Typed
<1>9. \A s \in Squads : IsOrder(line'[s])
  BY <1>6, <1>8 DEF Lines, Typed
<1>10. ASSUME NEW s \in Squads, s[2] \notin Completed'
       PROVE  Members(s)' = {} /\ line'[s] = NewLine({})
  <2>1. s # m /\ s[2] \notin Completed
    BY <1>2, <1>4, <1>10
  <2> QED BY <1>3, <1>8, <2>1 DEF Lines, Typed
<1>11. nexus' \in [Base -> {"ahead", "completed", "destroyed"}]
  BY <1>1 DEF Lines, Typed
<1>12. Typed'
  <2>1. squad' = squad /\ minerals' = minerals /\ geyser' = geyser
    BY <1>1
  <2> QED BY <1>8, <1>9, <1>10, <1>11, <2>1 DEF Lines, Typed
<1>13. ASSUME NEW a \in Completed' PROVE NamesOnce(line'[Vespene(a)], Members(Vespene(a))')
  <2>1. Vespene(a) \in Squads /\ Vespene(a) # m /\ (a = b => Vespene(a) = v)
    BY SquadNames DEF Completed, m, v
  <2>2. CASE a = b
    BY <1>3, <1>6, <1>7, <1>8, <2>1, <2>2
  <2>3. CASE a # b
    <3>1. NamesOnce(line[Vespene(a)], Members(Vespene(a)))
      BY <1>2, <2>3, PlacementAt DEF Lines
    <3> QED BY <1>3, <1>8, <2>1, <3>1
  <2> QED BY <2>2, <2>3
<1>14. ASSUME NEW a \in Completed' PROVE KnowsAll(line'[Mineral(a)], Members(Mineral(a))')
  <2>1. Mineral(a) \in Squads /\ (a = b <=> Mineral(a) = m)
    BY SquadNames DEF Completed, m, Mineral
  <2>2. CASE a = b
    BY <1>3, <1>6, <1>7, <1>8, <2>1, <2>2
  <2>3. CASE a # b
    <3>1. KnowsAll(line[Mineral(a)], Members(Mineral(a)))
      BY <1>2, <2>3 DEF Lines, MineralKnown
    <3> QED BY <1>3, <1>8, <2>1, <2>3, <3>1
  <2> QED BY <2>2, <2>3
<1> QED BY <1>12, <1>13, <1>14 DEF Lines, VespenePlacement, MineralKnown, Vespene, Mineral

LEMMA NexusDestroyedLines ==
  ASSUME NEW b \in Base, NexusDestroyed(b), Lines
  PROVE  Lines'
<1>1. nexus' = [nexus EXCEPT ![b] = "destroyed"] /\ UNCHANGED <<minerals, geyser>>
      /\ line' = [s \in Squads |-> IF s[2] = b THEN NewLine({}) ELSE line[s]]
      /\ squad' = Deformed(b)
  BY DEF NexusDestroyed
<1>2. Completed' = Completed \ {b}
  BY <1>1 DEF Completed, Lines, Typed
<1>3. ASSUME NEW s \in Squads PROVE Members(s)' = IF s[2] = b THEN {} ELSE Members(s)
  <2>1. s # Unassigned
    BY DEF Squads, Unassigned
  <2>2. s[2] = b <=> s \in {<<"mineral", b>>, <<"vespene", b>>}
    BY DEF Squads
  <2>3. \A u \in Probe : squad'[u] = IF squad[u] \in {<<"mineral", b>>, <<"vespene", b>>}
                                     THEN Unassigned ELSE squad[u]
    BY <1>1 DEF Deformed
  <2> QED BY <2>1, <2>2, <2>3 DEF Members
<1>4. squad' \in [Probe -> Squads \cup {Unborn, Dead, Unassigned, Lent}]
  BY <1>1 DEF Deformed, Lines, Typed
<1>5. \A s \in Squads : line'[s] = IF s[2] = b THEN NewLine({}) ELSE line[s]
  BY <1>1
<1>6. line' = [s \in Squads |-> line'[s]]
  BY <1>1
<1>7. \A s \in Squads : IsOrder(line'[s])
  BY <1>5, NewLineOrder DEF Lines, Typed
<1>8. nexus' \in [Base -> {"ahead", "completed", "destroyed"}]
  BY <1>1 DEF Lines, Typed
<1>9. \A s \in Squads : s[2] \notin Completed' => Members(s)' = {} /\ line'[s] = NewLine({})
  BY <1>2, <1>3, <1>5 DEF Lines, Typed
<1>10. Typed'
  BY <1>1, <1>4, <1>6, <1>7, <1>8, <1>9 DEF Lines, Typed
<1>11. ASSUME NEW a \in Completed' PROVE NamesOnce(line'[Vespene(a)], Members(Vespene(a))')
  <2>1. Vespene(a) \in Squads /\ Vespene(a)[2] = a /\ a \in Completed /\ a # b
    BY <1>2, SquadNames DEF Completed
  <2>2. NamesOnce(line[Vespene(a)], Members(Vespene(a)))
    BY <2>1, PlacementAt DEF Lines
  <2> QED BY <1>3, <1>5, <2>1, <2>2
<1>12. ASSUME NEW a \in Completed' PROVE KnowsAll(line'[Mineral(a)], Members(Mineral(a))')
  <2>1. Mineral(a) \in Squads /\ Mineral(a)[2] = a /\ a \in Completed /\ a # b
    BY <1>2, SquadNames DEF Completed
  <2>2. KnowsAll(line[Mineral(a)], Members(Mineral(a)))
    BY <2>1 DEF Lines, MineralKnown
  <2> QED BY <1>3, <1>5, <2>1, <2>2
<1> QED BY <1>10, <1>11, <1>12 DEF Lines, VespenePlacement, MineralKnown, Vespene, Mineral

\* The lines of one base change, and keep naming the same squads.
LEMMA StepKeepsLines ==
  ASSUME NEW b \in Completed, Lines, UNCHANGED <<squad, world>>,
         line' = [s \in Squads |-> line'[s]],
         \A s \in Squads : s # Mineral(b) /\ s # Vespene(b) => line'[s] = line[s],
         IsOrder(line'[Mineral(b)]), KnowsAll(line'[Mineral(b)], Members(Mineral(b))),
         IsOrder(line'[Vespene(b)]), NamesOnce(line'[Vespene(b)], Members(Vespene(b)))
  PROVE  Lines'
<1>1. Completed' = Completed /\ \A s : Members(s)' = Members(s)
  BY DEF Completed, Members, world
<1>2. b \in Base
  BY DEF Completed
<1>3. \A s \in Squads : IsOrder(line'[s])
  BY DEF Lines, Typed
<1>4. ASSUME NEW s \in Squads, s[2] \notin Completed'
      PROVE  Members(s)' = {} /\ line'[s] = NewLine({})
  <2>1. s # Mineral(b) /\ s # Vespene(b)
    BY <1>1, <1>2, <1>4, SquadNames
  <2> QED BY <1>1, <1>4, <2>1 DEF Lines, Typed
<1>5. Typed'
  BY <1>3, <1>4 DEF Lines, Typed, world
<1>6. ASSUME NEW a \in Completed PROVE NamesOnce(line'[Vespene(a)], Members(Vespene(a))')
  <2>1. Vespene(a) \in Squads /\ Vespene(a) # Mineral(b) /\ (Vespene(a) = Vespene(b) => a = b)
    BY SquadNames DEF Completed, Vespene, Mineral
  <2>2. NamesOnce(line[Vespene(a)], Members(Vespene(a)))
    BY PlacementAt DEF Lines
  <2> QED BY <1>1, <2>1, <2>2
<1>7. ASSUME NEW a \in Completed PROVE KnowsAll(line'[Mineral(a)], Members(Mineral(a))')
  <2>1. Mineral(a) \in Squads /\ Mineral(a) # Vespene(b) /\ (Mineral(a) = Mineral(b) => a = b)
    BY SquadNames DEF Completed, Vespene, Mineral
  <2>2. KnowsAll(line[Mineral(a)], Members(Mineral(a)))
    BY DEF Lines, MineralKnown
  <2> QED BY <1>1, <2>1, <2>2
<1> QED BY <1>1, <1>5, <1>6, <1>7 DEF Lines, VespenePlacement, MineralKnown, Vespene, Mineral

\* What Lines says of the two orders of a base.
LEMMA LinesAt ==
  ASSUME Lines, NEW b \in Completed
  PROVE  /\ b \in Base /\ Mineral(b) \in Squads /\ Vespene(b) \in Squads /\ Mineral(b) # Vespene(b)
         /\ IsOrder(line[Mineral(b)]) /\ KnowsAll(line[Mineral(b)], Members(Mineral(b)))
         /\ IsOrder(line[Vespene(b)]) /\ NamesOnce(line[Vespene(b)], Members(Vespene(b)))
<1>1. b \in Base
  BY DEF Completed
<1>2. Mineral(b) \in Squads /\ Vespene(b) \in Squads /\ Mineral(b) # Vespene(b)
  BY <1>1, SquadNames
<1> QED BY <1>1, <1>2, PlacementAt DEF Lines, Typed, MineralKnown

LEMMA TodoFirst ==
  ASSUME Typed, todo \subseteq Completed, todo # {}
  PROVE  Min(todo) \in todo /\ Min(todo) \in Completed
<1>1. todo \subseteq Nat
  BY WorkerLinesAssumption DEF Completed
<1> QED BY <1>1, MinIn

LEMMA KnownKnows ==
  ASSUME NEW l, NEW us, NEW ks, ~l.over => \A u \in us : Known(l, u, ks)
  PROVE  KnowsAll(l, us)
BY DEF KnowsAll, Known

\* The mineral line after its step has the probes of dead patches among the unassigned.
SteppedLine(b) ==
  IF line[Mineral(b)].over THEN line[Mineral(b)] ELSE MineralStep(line[Mineral(b)], minerals[b])

LEMMA SteppedLineKnows ==
  ASSUME Lines, NEW b \in Completed
  PROVE  /\ IsOrder(SteppedLine(b))
         /\ ~SteppedLine(b).over => \A u \in Members(Mineral(b)) : Known(SteppedLine(b), u, minerals[b])
<1> DEFINE l == line[Mineral(b)]
<1>1. IsOrder(l) /\ KnowsAll(l, Members(Mineral(b)))
  BY LinesAt
<1> HIDE DEF l
<1>2. CASE l.over
  BY <1>1, <1>2 DEF SteppedLine, l
<1>3. CASE ~l.over
  <2>1. SteppedLine(b) = MineralStep(l, minerals[b])
    BY <1>3 DEF SteppedLine, l
  <2>2. \A u \in Members(Mineral(b)) : Known(l, u, DOMAIN l.listed)
    BY <1>1, <1>3 DEF KnowsAll
  <2> QED BY <1>1, <2>1, <2>2, MineralStepKnown
<1> QED BY <1>2, <1>3

LEMMA StepLinesLines ==
  ASSUME NEW b \in Base, StepLines(b), Lines, todo \subseteq Completed
  PROVE  /\ Lines' /\ b \in Completed /\ b = Min(todo) /\ line'[Mineral(b)] = SteppedLine(b)
         /\ GoOn(b, line'[Mineral(b)])
         /\ \A a \in Completed : a # b => line'[Mineral(a)] = line[Mineral(a)]
<1> DEFINE m == Mineral(b)
           v == Vespene(b)
           next == SteppedLine(b)
           gas == VespeneStep(line[v], Assimilators(b))
<1>1. /\ stage = "lines" /\ todo # {} /\ b = Min(todo)
      /\ line' = [line EXCEPT ![v] = gas, ![m] = next]
      /\ GoOn(b, next) /\ UNCHANGED <<squad, world>>
  BY DEF StepLines, SteppedLine, Mineral, Vespene
<1>2. b \in Completed
  BY <1>1, TodoFirst DEF Lines
<1>3. /\ m \in Squads /\ v \in Squads /\ m # v
      /\ IsOrder(line[v]) /\ NamesOnce(line[v], Members(v))
  BY <1>2, LinesAt
<1>4. IsOrder(next) /\ (~next.over => \A u \in Members(m) : Known(next, u, minerals[b]))
  BY <1>2, SteppedLineKnows
<1>5. IsOrder(gas) /\ NamesOnce(gas, Members(v))
  <2>1. Assimilators(b) \subseteq Geyser
    BY DEF Assimilators
  <2> QED BY <1>3, <2>1, VespeneStepNames
<1> HIDE DEF next, gas
<1>6. KnowsAll(next, Members(m))
  BY <1>4, KnownKnows
<1>7. /\ line'[m] = next /\ line'[v] = gas /\ line' = [s \in Squads |-> line'[s]]
      /\ \A s \in Squads : s # m /\ s # v => line'[s] = line[s]
  BY <1>1, <1>3 DEF Lines, Typed
<1> HIDE DEF m, v
<1>8. Lines'
  BY <1>1, <1>2, <1>4, <1>5, <1>6, <1>7, StepKeepsLines DEF m, v
<1>9. ASSUME NEW a \in Completed, a # b PROVE line'[Mineral(a)] = line[Mineral(a)]
  <2>1. Mineral(a) \in Squads /\ Mineral(a) # m /\ Mineral(a) # v
    BY <1>9, LinesAt DEF m, v, Mineral, Vespene
  <2> QED BY <1>7, <2>1
<1> QED BY <1>1, <1>2, <1>7, <1>8, <1>9 DEF m, next

LEMMA MineralLines ==
  ASSUME NEW b \in Completed, Lines, UNCHANGED <<squad, world>>, NEW next, IsOrder(next),
         KnowsAll(next, Members(Mineral(b))), line' = [line EXCEPT ![Mineral(b)] = next]
  PROVE  /\ Lines' /\ line'[Mineral(b)] = next
         /\ \A a \in Completed : a # b => line'[Mineral(a)] = line[Mineral(a)]
<1> DEFINE m == Mineral(b)
           v == Vespene(b)
<1>1. /\ m \in Squads /\ v \in Squads /\ m # v
      /\ IsOrder(line[v]) /\ NamesOnce(line[v], Members(v))
  BY LinesAt
<1>2. /\ line'[m] = next /\ line'[v] = line[v] /\ line' = [s \in Squads |-> line'[s]]
      /\ \A s \in Squads : s # m /\ s # v => line'[s] = line[s]
  BY <1>1 DEF Lines, Typed
<1> HIDE DEF m, v
<1>3. Lines'
  BY <1>1, <1>2, StepKeepsLines DEF m, v
<1>4. ASSUME NEW a \in Completed, a # b PROVE line'[Mineral(a)] = line[Mineral(a)]
  <2>1. Mineral(a) \in Squads /\ Mineral(a) # m /\ Mineral(a) # v
    BY <1>4, LinesAt DEF m, v, Mineral, Vespene
  <2> QED BY <1>2, <2>1
<1> QED BY <1>2, <1>3, <1>4 DEF m

-----------------------------------------------------------------------------
(* The frame goes from base to base.                                       *)
LEMMA GoOnMines ==
  ASSUME Lines, FrameMines, stage \in {"lines", "mining"}, NEW b, todo # {}, b = Min(todo),
         UNCHANGED <<squad, world>>,
         ~line'[Mineral(b)].over => \A u \in Members(Mineral(b)) : Known(line'[Mineral(b)], u, minerals[b]),
         \A a \in Completed : a # b => line'[Mineral(a)] = line[Mineral(a)],
         GoOn(b, line'[Mineral(b)])
  PROVE  FrameMines' /\ stage' \in {"lines", "mining"}
<1> DEFINE l == line'[Mineral(b)]
<1>1. /\ Completed' = Completed /\ minerals' = minerals
      /\ \A a : Members(Mineral(a))' = Members(Mineral(a))
  BY DEF Completed, Members, Mineral, world
<1>2. b \in todo /\ b \in Completed
  BY TodoFirst DEF Lines, FrameMines
<1>3. ASSUME NEW a \in Completed \ todo PROVE Mines(a)'
  <2>1. Mines(a)
    BY DEF FrameMines
  <2>2. a # b
    BY <1>2
  <2>3. line'[Mineral(a)] = line[Mineral(a)]
    BY <2>2
  <2>4. Mineral(a)' = Mineral(a)
    BY DEF Mineral
  <2> QED BY <1>1, <2>1, <2>3, <2>4 DEF Mines
<1>4. CASE Mining(l)
  <2>1. stage' = "mining" /\ todo' = todo
    BY <1>4 DEF GoOn
  <2>2. ~l.over
    BY <1>4 DEF Mining
  <2>3. Mineral(b)' = Mineral(b)
    BY DEF Mineral
  <2>4. Mining(line'[Mineral(b)])
    BY <1>4
  <2>5. \A u \in Members(Mineral(b))' : Known(l, u, minerals'[b])
    BY <1>1, <2>2
  <2>6. Stepping(Min(todo))'
    BY <2>1, <2>3, <2>4, <2>5 DEF Stepping, Mining, Known, Mineral
  <2> QED BY <1>1, <1>3, <2>1, <2>6 DEF FrameMines
<1>5. CASE ~Mining(l)
  <2>1. stage' = "lines" /\ todo' = todo \ {b}
    BY <1>5 DEF GoOn
  <2>2. ASSUME ~l.over, NEW u \in Members(Mineral(b))
        PROVE  \E p \in minerals[b] \cap DOMAIN l.listed : u \in Range(l.listed[p])
    <3>1. l.unassigned = <<>>
      BY <1>5, <2>2 DEF Mining
    <3>2. Known(l, u, minerals[b])
      BY <2>2
    <3> QED BY <3>1, <3>2, NamesEmpty DEF Known
  <2>3. Mineral(b)' = Mineral(b)
    BY DEF Mineral
  <2>4. Mines(b)'
    BY <1>1, <2>2, <2>3 DEF Mines
  <2>5. \A a \in Completed \ todo' : Mines(a)'
    BY <1>3, <2>1, <2>4
  <2> QED BY <1>1, <2>1, <2>5 DEF FrameMines
<1> QED BY <1>4, <1>5

LEMMA StepLinesMines ==
  ASSUME NEW b \in Base, StepLines(b), Lines, FrameMines
  PROVE  Lines' /\ FrameMines' /\ stage' \in {"lines", "mining"}
<1>1. stage = "lines" /\ todo # {} /\ todo \subseteq Completed /\ UNCHANGED <<squad, world>>
  BY DEF StepLines, FrameMines
<1>2. /\ Lines' /\ b \in Completed /\ b = Min(todo) /\ line'[Mineral(b)] = SteppedLine(b)
      /\ GoOn(b, line'[Mineral(b)])
      /\ \A a \in Completed : a # b => line'[Mineral(a)] = line[Mineral(a)]
  BY <1>1, StepLinesLines
<1>3. ~line'[Mineral(b)].over =>
        \A u \in Members(Mineral(b)) : Known(line'[Mineral(b)], u, minerals[b])
  BY <1>2, SteppedLineKnows
<1> QED BY <1>1, <1>2, <1>3, GoOnMines

LEMMA MiningMines ==
  ASSUME NEW b, stage = "mining", b = Min(todo), Lines, FrameMines, UNCHANGED <<squad, world>>,
         NEW next, IsOrder(next), line' = [line EXCEPT ![Mineral(b)] = next], GoOn(b, next),
         ~next.over => \A u \in Members(Mineral(b)) : Known(next, u, minerals[b])
  PROVE  Lines' /\ FrameMines' /\ stage' \in {"lines", "mining"}
<1>1. todo # {} /\ todo \subseteq Completed
  BY DEF FrameMines
<1>2. b \in Completed
  BY <1>1, TodoFirst DEF Lines
<1>3. KnowsAll(next, Members(Mineral(b)))
  BY KnownKnows
<1>4. /\ Lines' /\ line'[Mineral(b)] = next
      /\ \A a \in Completed : a # b => line'[Mineral(a)] = line[Mineral(a)]
  BY <1>2, <1>3, MineralLines
<1> QED BY <1>1, <1>4, GoOnMines

LEMMA AssignMineralMines ==
  ASSUME NEW b \in Base, NEW p \in Patch, AssignMineral(b, p), Lines, FrameMines
  PROVE  Lines' /\ FrameMines' /\ stage' \in {"lines", "mining"}
<1> DEFINE l == line[Mineral(b)]
           next == Mine(l, p, minerals[b])
<1>1. /\ stage = "mining" /\ b = Min(todo) /\ p \in Shortest(l.listed)
      /\ line' = [line EXCEPT ![Mineral(b)] = next] /\ GoOn(b, next) /\ UNCHANGED <<squad, world>>
  BY DEF AssignMineral, Mineral
<1>2. p \in DOMAIN l.listed
  BY <1>1 DEF Shortest
<1>3. b \in Completed
  BY <1>1, TodoFirst DEF Lines, FrameMines
<1>4. IsOrder(l)
  BY <1>3, LinesAt
<1>5. Mining(l) /\ \A u \in Members(Mineral(b)) : Known(l, u, minerals[b])
  BY <1>1 DEF FrameMines, Stepping
<1> HIDE DEF l
<1>6. /\ IsOrder(next)
      /\ p \in minerals[b] => \A u : Known(l, u, minerals[b]) => Known(next, u, minerals[b])
      /\ p \notin minerals[b] => next.over
  BY <1>2, <1>4, <1>5, MineKnown
<1> HIDE DEF next
<1>7. ~next.over => \A u \in Members(Mineral(b)) : Known(next, u, minerals[b])
  BY <1>5, <1>6
<1> QED BY <1>1, <1>6, <1>7, MiningMines

LEMMA NoMineralsMines ==
  ASSUME NEW b \in Base, NoMinerals(b), Lines, FrameMines
  PROVE  Lines' /\ FrameMines' /\ stage' \in {"lines", "mining"}
<1> DEFINE l == line[Mineral(b)]
           next == [l EXCEPT !.over = TRUE]
<1>1. /\ stage = "mining" /\ b = Min(todo)
      /\ line' = [line EXCEPT ![Mineral(b)] = next] /\ GoOn(b, next) /\ UNCHANGED <<squad, world>>
  BY DEF NoMinerals, Mineral
<1>2. b \in Completed
  BY <1>1, TodoFirst DEF Lines, FrameMines
<1>3. IsOrder(l)
  BY <1>2, LinesAt
<1> HIDE DEF l
<1>4. IsOrder(next) /\ next.over
  BY <1>3 DEF IsOrder
<1> HIDE DEF next
<1> QED BY <1>1, <1>4, MiningMines

-----------------------------------------------------------------------------
(* How many probes a squad has, and how many its sources are to have.      *)
Size(s) == Cardinality(Members(s))

LEMMA BasesFinite ==
  /\ Completed \subseteq Nat /\ IsFiniteSet(Completed)
  /\ \A type, per : /\ Roomy(type, per) \subseteq Completed /\ IsFiniteSet(Roomy(type, per))
                    /\ Crowded(type, per) \subseteq Completed /\ IsFiniteSet(Crowded(type, per))
<1>1. Completed \subseteq Nat /\ IsFiniteSet(Completed)
  <2>1. Completed \subseteq Base
    BY DEF Completed
  <2> QED BY <2>1, WorkerLinesAssumption, FS_Subset
<1>2. ASSUME NEW type, NEW per
      PROVE  /\ Roomy(type, per) \subseteq Completed /\ IsFiniteSet(Roomy(type, per))
             /\ Crowded(type, per) \subseteq Completed /\ IsFiniteSet(Crowded(type, per))
  <2>1. Roomy(type, per) \subseteq Completed /\ Crowded(type, per) \subseteq Completed
    BY DEF Roomy, Crowded
  <2> QED BY <1>1, <2>1, FS_Subset
<1> QED BY <1>1, <1>2

LEMMA SizesNat ==
  ASSUME Typed, NEW s
  PROVE  /\ IsFiniteSet(Members(s)) /\ Size(s) \in Nat
         /\ s \in Squads => \A per \in Nat : Saturation(per, s) \in Nat
<1>1. IsFiniteSet(Members(s))
  <2>1. Members(s) \subseteq Probe
    BY DEF Members
  <2> QED BY <2>1, WorkerLinesAssumption, FS_Subset
<1>2. Size(s) \in Nat
  BY <1>1, FS_CardinalityType DEF Size
<1>3. ASSUME s \in Squads, NEW per \in Nat PROVE Saturation(per, s) \in Nat
  <2>1. s[2] \in Base
    BY <1>3 DEF Squads
  <2>2. Sources(s) \subseteq Patch \/ Sources(s) \subseteq Geyser
    BY <2>1 DEF Sources, Assimilators, Typed
  <2>3. IsFiniteSet(Sources(s))
    BY <2>2, WorkerLinesAssumption, FS_Subset
  <2>4. Cardinality(Sources(s)) \in Nat
    BY <2>3, FS_CardinalityType
  <2> QED BY <2>4 DEF Saturation
<1> QED BY <1>1, <1>2, <1>3

LEMMA SizeMoves ==
  ASSUME NEW u \in Probe, NEW s, MoveTo(u, s), Typed, s # squad[u], NEW q \in Squads
  PROVE  Size(q)' = IF q = s THEN Size(q) + 1 ELSE IF q = squad[u] THEN Size(q) - 1 ELSE Size(q)
<1>1. IsFiniteSet(Members(q))
  BY SizesNat
<1>2. CASE q = s
  <2>1. Members(q)' = Members(q) \cup {u}
    BY <1>2, Moved
  <2>2. u \notin Members(q)
    BY <1>2 DEF Members
  <2> QED BY <1>1, <1>2, <2>1, <2>2, FS_AddElement DEF Size
<1>3. CASE q # s /\ q = squad[u]
  <2>1. Members(q)' = Members(q) \ {u}
    BY <1>3, Moved
  <2>2. u \in Members(q)
    BY <1>3 DEF Members
  <2> QED BY <1>1, <1>3, <2>1, <2>2, FS_RemoveElement DEF Size
<1>4. CASE q # s /\ q # squad[u]
  BY <1>4, Moved DEF Size
<1> QED BY <1>2, <1>3, <1>4

LEMMA WorldSame ==
  ASSUME UNCHANGED world
  PROVE  /\ Completed' = Completed
         /\ \A per, s : Saturation(per, s)' = Saturation(per, s)
BY DEF world, Completed, Saturation, Sources, Assimilators

LEMMA SizesSame ==
  ASSUME UNCHANGED <<squad, world>>
  PROVE  /\ \A type, per : Roomy(type, per)' = Roomy(type, per)
                           /\ Crowded(type, per)' = Crowded(type, per)
         /\ \A p : Positions(p)' = Positions(p)
<1>1. Completed' = Completed /\ \A per, s : Saturation(per, s)' = Saturation(per, s)
  BY WorldSame
<1>2. \A s : Cardinality(Members(s))' = Cardinality(Members(s))
  BY DEF Members
<1>3. \A type, per : Roomy(type, per)' = Roomy(type, per)
                     /\ Crowded(type, per)' = Crowded(type, per)
  BY <1>1, <1>2 DEF Roomy, Crowded
<1> QED BY <1>1, <1>2, <1>3 DEF Positions

LEMMA RoomyIs ==
  ASSUME NEW type, NEW per
  PROVE  Roomy(type, per) = {b \in Completed : Saturation(per, <<type, b>>) > Size(<<type, b>>)}
BY DEF Roomy, Size

LEMMA CrowdedIs ==
  ASSUME NEW type, NEW per
  PROVE  Crowded(type, per) = {b \in Completed : Saturation(per, <<type, b>>) < Size(<<type, b>>)}
BY DEF Crowded, Size

\* The places that are open at a base.
Open(type, per) == [b \in Roomy(type, per) |-> Saturation(per, <<type, b>>) - Size(<<type, b>>)]

LEMMA PositionsAre ==
  ASSUME Typed, NEW p \in 1..4
  PROVE  /\ Positions(p) = SumFunctionOnSet(Open(Passes[p][1], Passes[p][2]),
                                            Roomy(Passes[p][1], Passes[p][2]))
         /\ Positions(p) \in Nat
         /\ Positions(p) = 0 <=> Roomy(Passes[p][1], Passes[p][2]) = {}
<1> DEFINE type == Passes[p][1]
           per  == Passes[p][2]
<1>1. type \in {"mineral", "vespene"} /\ per \in Nat
  BY DEF Passes
<1> HIDE DEF type, per
<1>2. Positions(p) = SumFunctionOnSet(Open(type, per), Roomy(type, per))
  BY DEF Positions, SumFunction, Open, Size, type, per
<1>3. ASSUME NEW b \in Roomy(type, per)
      PROVE  Open(type, per)[b] \in Nat \ {0}
  <2>1. b \in Completed /\ Saturation(per, <<type, b>>) > Size(<<type, b>>)
    BY RoomyIs
  <2>2. <<type, b>> \in Squads
    BY <1>1, <2>1 DEF Squads, Completed
  <2>3. Saturation(per, <<type, b>>) \in Nat /\ Size(<<type, b>>) \in Nat
    BY <1>1, <2>2, SizesNat
  <2>4. Open(type, per)[b] = Saturation(per, <<type, b>>) - Size(<<type, b>>)
    BY DEF Open
  <2> QED BY <2>1, <2>3, <2>4
<1>4. IsFiniteSet(Roomy(type, per))
  BY BasesFinite
<1>5. /\ SumFunctionOnSet(Open(type, per), Roomy(type, per)) \in Nat
      /\ SumFunctionOnSet(Open(type, per), Roomy(type, per)) = 0 <=> Roomy(type, per) = {}
  BY <1>3, <1>4, SumPositive
<1> QED BY <1>2, <1>5 DEF type, per

-----------------------------------------------------------------------------
(* Where a probe is put, and what that leaves open.                        *)
\* The base gets the probe for a reason assignUnit has.
Preferred(s) ==
  /\ s[1] = "vespene" => \/ s[2] \in Roomy("vespene", 2)
                         \/ Roomy("vespene", 2) = {} /\ s[2] \in Roomy("vespene", 3)
  /\ Roomy("vespene", 2) # {} \/ Roomy("vespene", 3) # {} => s[1] = "vespene"
  /\ s[1] = "mineral" => \/ s[2] \in Roomy("mineral", 2)
                         \/ Roomy("mineral", 2) = {} /\ s[2] \in Roomy("mineral", 3)
                         \/ Roomy("mineral", 2) = {} /\ Roomy("mineral", 3) = {}

LEMMA AssignedTo ==
  ASSUME NEW u, AssignUnit(u), Completed # {}
  PROVE  \E s \in Squads : MoveTo(u, s) /\ s[2] \in Completed /\ Preferred(s)
<1> DEFINE R(i) == Roomy(Preference[i][1], Preference[i][2])
           open == {i \in DOMAIN Preference : R(i) # {}}
           best == Preference[Min(open)]
<1>1. DOMAIN Preference = 1..4
  BY DEF Preference
<1>2. /\ Preference[1] = <<"vespene", 2>> /\ Preference[2] = <<"vespene", 3>>
      /\ Preference[3] = <<"mineral", 2>> /\ Preference[4] = <<"mineral", 3>>
  BY DEF Preference
<1>3. open = {i \in 1..4 : R(i) # {}}
  BY <1>1
<1>4. IF open = {} THEN MoveTo(u, <<"mineral", Min(Completed)>>)
      ELSE MoveTo(u, <<best[1], Min(R(Min(open)))>>)
  BY DEF AssignUnit
<1>5. /\ R(1) = Roomy("vespene", 2) /\ R(2) = Roomy("vespene", 3)
      /\ R(3) = Roomy("mineral", 2) /\ R(4) = Roomy("mineral", 3)
  BY <1>2
<1>6. \A i \in 1..4 : R(i) \subseteq Completed /\ R(i) \subseteq Nat
  BY BasesFinite
<1> HIDE DEF R
<1>7. CASE open = {}
  <2> DEFINE s == <<"mineral", Min(Completed)>>
  <2>1. Min(Completed) \in Completed
    BY BasesFinite, MinIn
  <2>2. s \in Squads /\ s[2] \in Completed
    BY <2>1 DEF Squads, Completed
  <2>3. R(1) = {} /\ R(2) = {} /\ R(3) = {} /\ R(4) = {}
    BY <1>3, <1>7
  <2>4. Preferred(s)
    BY <1>5, <2>3 DEF Preferred
  <2> QED BY <1>4, <1>7, <2>2, <2>4
<1>8. CASE open # {}
  <2>1. open \subseteq Nat
    BY <1>3
  <2> DEFINE i == Min(open)
             s == <<Preference[i][1], Min(R(i))>>
  <2>2. i \in open /\ \A j \in open : i <= j
    BY <1>8, <2>1, MinIn
  <2>3. MoveTo(u, s)
    BY <1>4, <1>8
  <2> HIDE DEF i
  <2>4. i \in 1..4 /\ R(i) # {} /\ \A j \in 1..4 : R(j) # {} => i <= j
    BY <1>3, <2>2
  <2>5. Min(R(i)) \in R(i)
    BY <1>6, <2>4, MinIn
  <2>6. s[2] \in R(i) /\ s[1] = Preference[i][1]
    BY <2>5
  <2>7. s[2] \in Completed
    BY <1>6, <2>4, <2>6
  <2>8. s[1] \in {"mineral", "vespene"}
    BY <1>2, <2>4
  <2>9. s \in Squads
    BY <2>7, <2>8 DEF Squads, Completed
  <2>10. i = 1 => s[1] = "vespene" /\ s[2] \in R(1)
    BY <1>2, <2>6
  <2>11. i = 2 => s[1] = "vespene" /\ s[2] \in R(2) /\ R(1) = {}
    BY <1>2, <2>4, <2>6
  <2>12. i = 3 => s[1] = "mineral" /\ s[2] \in R(3) /\ R(1) = {} /\ R(2) = {}
    BY <1>2, <2>4, <2>6
  <2>13. i = 4 => s[1] = "mineral" /\ s[2] \in R(4) /\ R(1) = {} /\ R(2) = {} /\ R(3) = {}
    BY <1>2, <2>4, <2>6
  <2> HIDE DEF s
  <2>14. Preferred(s)
    BY <1>5, <2>4, <2>10, <2>11, <2>12, <2>13 DEF Preferred
  <2> QED BY <2>3, <2>7, <2>9, <2>14
<1> QED BY <1>7, <1>8

\* A probe goes from a crowded base to a line of the other type: the same places are open.
LEMMA PlacesKept ==
  ASSUME Typed, UNCHANGED world, NEW p \in 1..4, NEW u \in Probe,
         NEW c \in CrowdedIn(p), squad[u] = <<Passes[p][1], c>>,
         NEW s \in Squads, s[1] # Passes[p][1], MoveTo(u, s)
  PROVE  Positions(p)' = Positions(p)
<1> DEFINE type == Passes[p][1]
           per  == Passes[p][2]
<1>1. type \in {"mineral", "vespene"} /\ per \in Nat
  BY DEF Passes
<1>2. c \in Crowded(type, per) /\ squad[u] = <<type, c>> /\ s[1] # type
  BY DEF CrowdedIn
<1> HIDE DEF type, per
<1> DEFINE sat(b) == Saturation(per, <<type, b>>)
           size(b) == Size(<<type, b>>)
<1>3. c \in Completed /\ sat(c) < size(c)
  BY <1>2, CrowdedIs
<1>4. \A b \in Completed : <<type, b>> \in Squads
  BY <1>1 DEF Squads, Completed
<1>5. \A b \in Completed : sat(b) \in Nat /\ size(b) \in Nat
  BY <1>1, <1>4, SizesNat
<1>6. Completed' = Completed /\ \A b : sat(b)' = sat(b)
  BY WorldSame
<1>7. ASSUME NEW b \in Completed PROVE size(b)' = IF b = c THEN size(b) - 1 ELSE size(b)
  <2>1. <<type, b>>[1] = type
    OBVIOUS
  <2>2. <<type, b>> # s /\ s # squad[u]
    BY <1>2, <2>1
  <2> QED BY <1>2, <1>4, <2>2, SizeMoves
<1> DEFINE next(b) == size(b)'
           S == Roomy(type, per)
           T == Roomy(type, per)'
           f == Open(type, per)
           e == Open(type, per)'
<1>8. S = {b \in Completed : sat(b) > size(b)} /\ \A b \in S : f[b] = sat(b) - size(b)
  BY RoomyIs DEF Open
<1>9. T = {b \in Completed : sat(b) > next(b)}
  <2>1. T = {b \in Completed' : sat(b)' > size(b)'}
    BY DEF Roomy, Size
  <2> QED BY <1>6, <2>1
<1>10. \A b \in T : e[b] = sat(b) - next(b)
  BY <1>6 DEF Open
<1>11. \A b \in Completed : next(b) = IF b = c THEN size(b) - 1 ELSE size(b)
  BY <1>7
<1> HIDE DEF S, T, f, e, sat, size, next
<1>12. T = S
  <2>1. ASSUME NEW b \in Completed PROVE sat(b) > next(b) <=> sat(b) > size(b)
    <3>1. sat(b) \in Nat /\ size(b) \in Nat
      BY <1>5
    <3> QED BY <1>3, <1>11, <3>1
  <2> QED BY <1>8, <1>9, <2>1
<1>13. \A b \in S : e[b] = f[b]
  <2>1. ASSUME NEW b \in S PROVE e[b] = f[b]
    <3>1. b \in Completed /\ sat(b) > size(b) /\ b \in T
      BY <1>8, <1>12
    <3>2. b # c
      BY <1>3, <1>5, <3>1
    <3> QED BY <1>8, <1>10, <1>11, <3>1, <3>2
  <2> QED BY <2>1
<1>14. IsFiniteSet(S)
  BY BasesFinite DEF S
<1>15. SumFunctionOnSet(e, S) = SumFunctionOnSet(f, S)
  BY <1>13, <1>14, SumSame
<1>16. Positions(p) = SumFunctionOnSet(f, S)
  BY PositionsAre DEF f, S, type, per
<1>17. Positions(p)' = SumFunctionOnSet(e, T)
  BY DEF Positions, SumFunction, Open, Size, e, T, type, per
<1> QED BY <1>12, <1>15, <1>16, <1>17

\* A probe goes from a crowded base to one with a place: one place less is open.
LEMMA PlaceTaken ==
  ASSUME Typed, UNCHANGED world, NEW p \in 1..4, NEW u \in Probe,
         NEW c \in CrowdedIn(p), squad[u] = <<Passes[p][1], c>>,
         NEW d \in Roomy(Passes[p][1], Passes[p][2]), MoveTo(u, <<Passes[p][1], d>>)
  PROVE  Positions(p)' = Positions(p) - 1
<1> DEFINE type == Passes[p][1]
           per  == Passes[p][2]
<1>1. type \in {"mineral", "vespene"} /\ per \in Nat
  BY DEF Passes
<1> HIDE DEF type, per
<1>2. c \in Crowded(type, per) /\ squad[u] = <<type, c>> /\ d \in Roomy(type, per)
      /\ MoveTo(u, <<type, d>>)
  BY DEF CrowdedIn, type, per
<1> DEFINE sat(b) == Saturation(per, <<type, b>>)
           size(b) == Size(<<type, b>>)
<1>3. /\ c \in Completed /\ sat(c) < size(c) /\ d \in Completed /\ sat(d) > size(d)
  BY <1>2, RoomyIs, CrowdedIs
<1>4. \A b \in Completed : <<type, b>> \in Squads
  BY <1>1 DEF Squads, Completed
<1>5. \A b \in Completed : sat(b) \in Nat /\ size(b) \in Nat
  BY <1>1, <1>4, SizesNat
<1>6. c # d
  BY <1>3, <1>5
<1>7. Completed' = Completed /\ \A b : sat(b)' = sat(b)
  BY WorldSame
<1>8. \A b \in Completed : size(b)' = IF b = d THEN size(b) + 1 ELSE IF b = c THEN size(b) - 1 ELSE size(b)
  BY <1>2, <1>4, <1>6, SizeMoves
<1> DEFINE f == Open(type, per)
           S == Roomy(type, per)
           T == Roomy(type, per)'
           e == Open(type, per)'
<1>9. S = {b \in Completed : sat(b) > size(b)} /\ \A b \in S : f[b] = sat(b) - size(b)
  BY RoomyIs DEF Open
<1>10. T = {b \in Completed : sat(b) > size(b)'}
  <2>1. T = {b \in Completed' : sat(b)' > size(b)'}
    BY DEF Roomy, Size
  <2> QED BY <1>7, <2>1
<1>11. \A b \in T : e[b] = sat(b) - size(b)'
  BY <1>7 DEF Open
<1> DEFINE next(b) == size(b)'
<1>12. \A b \in Completed : next(b) = IF b = d THEN size(b) + 1 ELSE IF b = c THEN size(b) - 1 ELSE size(b)
  BY <1>8
<1>13. T = {b \in Completed : sat(b) > next(b)} /\ \A b \in T : e[b] = sat(b) - next(b)
  BY <1>10, <1>11
<1> HIDE DEF f, S, T, e, sat, size, next
<1>14. T = IF f[d] = 1 THEN S \ {d} ELSE S
  <2>1. ASSUME NEW b \in Completed PROVE b \in T <=> b \in S /\ (f[d] = 1 => b # d)
    <3>1. sat(b) \in Nat /\ size(b) \in Nat /\ (b \in S <=> sat(b) > size(b)) /\ (b \in T <=> sat(b) > next(b))
      BY <1>5, <1>9, <1>13
    <3>2. CASE b = d
      <4>1. next(b) = size(b) + 1 /\ b \in S /\ f[d] = sat(b) - size(b) /\ sat(b) > size(b)
        BY <1>2, <1>3, <1>9, <1>12, <3>2 DEF S
      <4> QED BY <3>1, <3>2, <4>1
    <3>3. CASE b = c
      <4>1. next(b) = size(b) - 1 /\ sat(b) < size(b)
        BY <1>3, <1>6, <1>12, <3>3
      <4> QED BY <1>6, <3>1, <3>3, <4>1
    <3>4. CASE b # c /\ b # d
      BY <1>12, <3>1, <3>4
    <3> QED BY <3>2, <3>3, <3>4
  <2>2. T \subseteq Completed /\ S \subseteq Completed
    BY <1>9, <1>13
  <2> QED BY <2>1, <2>2
<1>15. \A b \in S : f[b] \in Int
  BY <1>5, <1>9
<1>16. \A b \in T : e[b] = IF b = d THEN f[b] - 1 ELSE f[b]
  <2>1. ASSUME NEW b \in T PROVE e[b] = IF b = d THEN f[b] - 1 ELSE f[b]
    <3>1. b \in Completed /\ e[b] = sat(b) - next(b) /\ b \in S /\ f[b] = sat(b) - size(b)
      BY <1>9, <1>13, <1>14
    <3>2. sat(b) \in Nat /\ size(b) \in Nat /\ sat(b) > size(b)
      BY <1>5, <1>9, <3>1
    <3>3. b # c
      BY <1>3, <1>5, <3>2
    <3> QED BY <1>12, <3>1, <3>2, <3>3
  <2> QED BY <2>1
<1>17. IsFiniteSet(S) /\ d \in S
  BY <1>2, BasesFinite DEF S
<1>18. SumFunctionOnSet(e, T) = SumFunctionOnSet(f, S) - 1
  BY <1>14, <1>15, <1>16, <1>17, SumOneLess
<1>19. Positions(p) = SumFunctionOnSet(f, S)
  BY PositionsAre DEF f, S, type, per
<1>20. Positions(p)' = SumFunctionOnSet(e, T)
  BY DEF Positions, SumFunction, Open, Size, e, T, type, per
<1> QED BY <1>18, <1>19, <1>20

-----------------------------------------------------------------------------
(* The vespene lines are balanced for two probes a source, then for three. *)
LEMMA VespeneSizes ==
  ASSUME Typed, NEW b \in Completed
  PROVE  /\ Vespene(b) \in Squads /\ Size(Vespene(b)) \in Nat
         /\ Saturation(2, Vespene(b)) \in Nat /\ Saturation(3, Vespene(b)) \in Nat
         /\ Saturation(2, Vespene(b)) <= Saturation(3, Vespene(b))
<1>1. Vespene(b) \in Squads
  BY SquadNames DEF Completed
<1>2. /\ Size(Vespene(b)) \in Nat
      /\ Saturation(2, Vespene(b)) \in Nat /\ Saturation(3, Vespene(b)) \in Nat
      /\ Saturation(1, Vespene(b)) \in Nat
  BY <1>1, SizesNat
<1>3. Cardinality(Sources(Vespene(b))) \in Nat
  <2>1. Sources(Vespene(b)) \subseteq Geyser
    BY DEF Sources, Assimilators, Vespene
  <2>2. IsFiniteSet(Sources(Vespene(b)))
    BY <2>1, WorkerLinesAssumption, FS_Subset
  <2> QED BY <2>2, FS_CardinalityType
<1> QED BY <1>1, <1>2, <1>3 DEF Saturation

LEMMA VespeneRoomy ==
  ASSUME NEW per, NEW b \in Completed
  PROVE  /\ b \in Roomy("vespene", per) <=> Saturation(per, Vespene(b)) > Size(Vespene(b))
         /\ b \in Crowded("vespene", per) <=> Saturation(per, Vespene(b)) < Size(Vespene(b))
BY RoomyIs, CrowdedIs DEF Vespene

LEMMA VespeneRoomyNext ==
  ASSUME NEW per, NEW b \in Completed, UNCHANGED world
  PROVE  /\ b \in Roomy("vespene", per)' <=> Saturation(per, Vespene(b)) > Size(Vespene(b))'
         /\ b \in Crowded("vespene", per)' <=> Saturation(per, Vespene(b)) < Size(Vespene(b))'
<1>1. /\ Roomy("vespene", per)' = {a \in Completed' : Saturation(per, Vespene(a))' > Size(Vespene(a))'}
      /\ Crowded("vespene", per)' = {a \in Completed' : Saturation(per, Vespene(a))' < Size(Vespene(a))'}
  BY DEF Roomy, Crowded, Size, Vespene
<1>2. Saturation(per, Vespene(b))' = Saturation(per, Vespene(b)) /\ Completed' = Completed
  BY WorldSame DEF Vespene
<1> QED BY <1>1, <1>2

\* A free probe: nothing becomes unbalanced.
LEMMA FreeKeepsBalance ==
  ASSUME Typed, UNCHANGED world, NEW u \in Probe, squad[u] = Unassigned,
         NEW s \in Squads, MoveTo(u, s), s[2] \in Completed, Preferred(s), Balanced(2), Balanced(3)
  PROVE  Balanced(2)' /\ Balanced(3)'
<1>1. \A q \in Squads : q # squad[u]
  BY DEF Squads, Unassigned
<1>2. \A q \in Squads : Size(q)' = IF q = s THEN Size(q) + 1 ELSE Size(q)
  BY <1>1, SizeMoves
<1>3. \A per : Roomy("vespene", per)' \subseteq Completed /\ Crowded("vespene", per)' \subseteq Completed
  BY WorldSame DEF Roomy, Crowded
<1>4. CASE s[1] # "vespene"
  <2>1. ASSUME NEW b \in Completed PROVE Size(Vespene(b))' = Size(Vespene(b))
    <3>1. Vespene(b)[1] = "vespene"
      BY DEF Vespene
    <3>2. Vespene(b) # s /\ Vespene(b) \in Squads
      BY <1>4, <3>1, VespeneSizes
    <3> QED BY <1>2, <3>2
  <2>2. ASSUME NEW per
        PROVE  Roomy("vespene", per)' = Roomy("vespene", per)
               /\ Crowded("vespene", per)' = Crowded("vespene", per)
    <3>1. ASSUME NEW b \in Completed
          PROVE  /\ b \in Roomy("vespene", per)' <=> b \in Roomy("vespene", per)
                 /\ b \in Crowded("vespene", per)' <=> b \in Crowded("vespene", per)
      BY <2>1, VespeneRoomy, VespeneRoomyNext
    <3> QED BY <1>3, <3>1, BasesFinite
  <2> QED BY <2>2 DEF Balanced
<1>5. CASE s[1] = "vespene"
  <2> DEFINE d == s[2]
  <2>1. s = Vespene(d) /\ d \in Completed
    BY <1>5 DEF Squads, Vespene
  <2> HIDE DEF d
  <2>2. \A b \in Completed : Size(Vespene(b))' = IF b = d THEN Size(Vespene(b)) + 1 ELSE Size(Vespene(b))
    BY <1>2, <2>1, VespeneSizes DEF Vespene
  <2>3. CASE d \in Roomy("vespene", 2)
    <3>1. Crowded("vespene", 2) = {}
      BY <2>3 DEF Balanced
    <3>2. ASSUME NEW b \in Completed PROVE b \notin Crowded("vespene", 2)' /\ b \notin Crowded("vespene", 3)'
      <4>1. Size(Vespene(b)) <= Saturation(2, Vespene(b))
        BY <3>1, VespeneRoomy, VespeneSizes
      <4>2. b = d => Size(Vespene(b)) < Saturation(2, Vespene(b))
        BY <2>3, VespeneRoomy, VespeneSizes
      <4>3. Size(Vespene(b))' <= Saturation(2, Vespene(b)) /\ Size(Vespene(b))' \in Nat
        BY <2>2, <4>1, <4>2, VespeneSizes
      <4> QED BY <4>3, VespeneSizes, VespeneRoomyNext
    <3>3. Crowded("vespene", 2)' = {} /\ Crowded("vespene", 3)' = {}
      BY <1>3, <3>2
    <3> QED BY <3>3 DEF Balanced
  <2>4. CASE Roomy("vespene", 2) = {} /\ d \in Roomy("vespene", 3)
    <3>1. Crowded("vespene", 3) = {}
      BY <2>4 DEF Balanced
    <3>2. ASSUME NEW b \in Completed PROVE b \notin Roomy("vespene", 2)' /\ b \notin Crowded("vespene", 3)'
      <4>1. Size(Vespene(b)) <= Saturation(3, Vespene(b)) /\ Size(Vespene(b)) >= Saturation(2, Vespene(b))
        BY <2>4, <3>1, VespeneRoomy, VespeneSizes
      <4>2. b = d => Size(Vespene(b)) < Saturation(3, Vespene(b))
        BY <2>4, VespeneRoomy, VespeneSizes
      <4>3. /\ Size(Vespene(b))' <= Saturation(3, Vespene(b)) /\ Size(Vespene(b))' \in Nat
            /\ Size(Vespene(b))' >= Saturation(2, Vespene(b))
        BY <2>2, <4>1, <4>2, VespeneSizes
      <4> QED BY <4>3, VespeneSizes, VespeneRoomyNext
    <3>3. Roomy("vespene", 2)' = {} /\ Crowded("vespene", 3)' = {}
      BY <1>3, <3>2
    <3> QED BY <3>3 DEF Balanced
  <2> QED BY <1>5, <2>3, <2>4 DEF Preferred, d
<1> QED BY <1>4, <1>5

\* The last pass moves probes from a base with over three a source to one with
\* under three: none of them falls under two.
LEMMA LastPassKeepsBalance ==
  ASSUME Typed, UNCHANGED world, NEW u \in Probe, NEW c \in Crowded("vespene", 3),
         squad[u] = Vespene(c), NEW d \in Completed, d # c, MoveTo(u, Vespene(d)),
         Roomy("vespene", 2) = {}
  PROVE  Roomy("vespene", 2)' = {}
<1>1. c \in Completed
  BY BasesFinite
<1>2. Roomy("vespene", 2)' \subseteq Completed
  BY WorldSame DEF Roomy
<1>3. ASSUME NEW b \in Completed PROVE b \notin Roomy("vespene", 2)'
  <2>1. Size(Vespene(b)) >= Saturation(2, Vespene(b))
    BY VespeneRoomy, VespeneSizes
  <2>2. b = c => Size(Vespene(b)) > Saturation(3, Vespene(b))
    BY VespeneRoomy, VespeneSizes
  <2>3. Vespene(d) # squad[u] /\ (Vespene(b) = Vespene(d) <=> b = d) /\ (Vespene(b) = squad[u] <=> b = c)
    BY DEF Vespene
  <2>4. Size(Vespene(b))' = IF b = d THEN Size(Vespene(b)) + 1
                            ELSE IF b = c THEN Size(Vespene(b)) - 1 ELSE Size(Vespene(b))
    BY <2>3, SizeMoves, VespeneSizes
  <2>5. Size(Vespene(b))' >= Saturation(2, Vespene(b))
    BY <2>1, <2>2, <2>4, VespeneSizes
  <2>6. Size(Vespene(b))' \in Nat
    BY <2>1, <2>2, <2>4, VespeneSizes
  <2> QED BY <2>5, <2>6, VespeneSizes, VespeneRoomyNext
<1> QED BY <1>2, <1>3

-----------------------------------------------------------------------------
(* The actions keep the invariant.                                         *)
LEMMA BalancedSame ==
  ASSUME UNCHANGED <<squad, world>>, NEW per
  PROVE  Balanced(per)' <=> Balanced(per)
BY SizesSame DEF Balanced

\* The passes that are skipped or over have nothing left to move.
LEMMA GoToPassKeeps ==
  ASSUME Typed, NEW p \in 1..5, GoToPass(p), UNCHANGED <<squad, world>>,
         p > 3 => Balanced(2), p > 4 => Balanced(3)
  PROVE  /\ RoomLeft' /\ BalanceKept' /\ stage' \in {"fix", "assign"}
         /\ pass' \in 1..4 /\ room' \in Nat
<1> DEFINE work == {q \in p..4 : Positions(q) > 0 /\ CrowdedIn(q) # {}}
<1>1. IF work = {} THEN stage' = "assign" /\ pass' = 1 /\ room' = 0
      ELSE stage' = "fix" /\ pass' = Min(work) /\ room' = Positions(Min(work))
  BY DEF GoToPass
<1>2. \A q \in 1..4 : Positions(q) \in Nat /\ (Positions(q) = 0 <=> Roomy(Passes[q][1], Passes[q][2]) = {})
  BY PositionsAre
<1>3. Passes[3] = <<"vespene", 2>> /\ Passes[4] = <<"vespene", 3>>
  BY DEF Passes
<1>4. 3 \notin work => Balanced(2)
  BY <1>2, <1>3 DEF Balanced, CrowdedIn
<1>5. 4 \notin work => Balanced(3)
  BY <1>2, <1>3 DEF Balanced, CrowdedIn
<1>6. work \subseteq 1..4
  OBVIOUS
<1> HIDE DEF work
<1>7. CASE work = {}
  <2>1. stage' = "assign" /\ pass' = 1 /\ room' = 0
    BY <1>1, <1>7
  <2>2. Balanced(2)' /\ Balanced(3)'
    BY <1>4, <1>5, <1>7, BalancedSame
  <2> QED BY <2>1, <2>2 DEF RoomLeft, BalanceKept
<1>8. CASE work # {}
  <2>1. work \subseteq Nat
    BY <1>6
  <2>2. Min(work) \in work /\ \A r \in work : Min(work) <= r
    BY <1>8, <2>1, MinIn
  <2>3. PICK q \in 1..4 : q = Min(work) /\ q \in work /\ \A r \in work : q <= r
    BY <1>6, <2>2
  <2>4. stage' = "fix" /\ pass' = q /\ room' = Positions(q)
    BY <1>1, <1>8, <2>3
  <2>5. Positions(pass)' = Positions(q)
    <3>1. Positions(q)' = Positions(q)
      BY SizesSame
    <3>2. Positions(pass)' = Positions(q)'
      BY <2>4 DEF Positions, Roomy, Saturation, Sources, Assimilators, Members, Completed
    <3> QED BY <3>1, <3>2
  <2>6. RoomLeft'
    <3>1. Positions(q) \in Nat
      BY <1>2
    <3> QED BY <2>4, <2>5, <3>1 DEF RoomLeft
  <2>7. q = 4 => Balanced(2)
    BY <1>4, <2>3
  <2>8. BalanceKept'
    BY <2>4, <2>7, BalancedSame DEF BalanceKept
  <2> QED BY <1>2, <2>4, <2>6, <2>8
<1> QED BY <1>7, <1>8

LEMMA IdleMines ==
  ASSUME todo = {}, UNCHANGED todo, stage' \in {"events", "fix", "assign"}
  PROVE  FrameMines'
BY DEF FrameMines

\* Nothing is claimed of the balance between the frames.
LEMMA EventsKeep ==
  ASSUME stage = "events", UNCHANGED loop, FrameMines, LoopTyped, (events \in 0..MaxEvents)'
  PROVE  FrameMines' /\ LoopTyped' /\ RoomLeft' /\ BalanceKept'
<1>1. stage' = "events" /\ pass' = pass /\ room' = room /\ todo' = todo
  BY DEF loop
<1>2. FrameMines'
  BY <1>1, IdleMines DEF FrameMines
<1> QED BY <1>1, <1>2 DEF LoopTyped, RoomLeft, BalanceKept

LEMMA BeginFrameKeeps ==
  ASSUME BeginFrame, IInv
  PROVE  IInv'
<1>1. stage = "events" /\ GoToPass(1) /\ UNCHANGED <<squad, line, world, todo, events>>
  BY DEF BeginFrame
<1>2. Typed
  BY DEF IInv, Lines
<1>3. /\ RoomLeft' /\ BalanceKept' /\ stage' \in {"fix", "assign"}
      /\ pass' \in 1..4 /\ room' \in Nat
  BY <1>1, <1>2, GoToPassKeeps
<1>4. FrameMines'
  BY <1>1, <1>3, IdleMines DEF IInv, FrameMines
<1>5. Lines'
  BY <1>1, LinesSame DEF IInv, Lines, Typed, world
<1> QED BY <1>1, <1>3, <1>4, <1>5 DEF IInv, LoopTyped

LEMMA NextPassKeeps ==
  ASSUME NextPass, IInv
  PROVE  IInv'
<1>1. /\ stage = "fix" /\ (room = 0 \/ CrowdedIn(pass) = {}) /\ GoToPass(pass + 1)
      /\ UNCHANGED <<squad, line, world, todo, events>>
  BY DEF NextPass
<1>2. Typed /\ pass \in 1..4
  BY DEF IInv, Lines, LoopTyped
<1>3. pass \in {3, 4} => room = Positions(pass)
  BY <1>1 DEF IInv, RoomLeft
<1>4. /\ Passes[3] = <<"vespene", 2>> /\ Passes[4] = <<"vespene", 3>>
      /\ \A q \in 1..4 : Positions(q) = 0 => Roomy(Passes[q][1], Passes[q][2]) = {}
  BY <1>2, PositionsAre DEF Passes
<1>5. pass = 3 => Balanced(2)
  BY <1>1, <1>3, <1>4 DEF Balanced, CrowdedIn
<1>6. pass = 4 => Balanced(2) /\ Balanced(3)
  BY <1>1, <1>3, <1>4 DEF Balanced, CrowdedIn, IInv, BalanceKept
<1>7. pass + 1 \in 1..5 /\ (pass + 1 > 3 => Balanced(2)) /\ (pass + 1 > 4 => Balanced(3))
  BY <1>2, <1>5, <1>6
<1>8. /\ RoomLeft' /\ BalanceKept' /\ stage' \in {"fix", "assign"}
      /\ pass' \in 1..4 /\ room' \in Nat
  BY <1>1, <1>2, <1>7, GoToPassKeeps
<1>9. FrameMines'
  BY <1>1, <1>8, IdleMines DEF IInv, FrameMines
<1>10. Lines'
  BY <1>1, LinesSame DEF IInv, Lines, Typed, world
<1> QED BY <1>1, <1>8, <1>9, <1>10 DEF IInv, LoopTyped

LEMMA RoomyGrows ==
  ASSUME Typed, NEW type \in {"mineral", "vespene"}
  PROVE  Roomy(type, 2) \subseteq Roomy(type, 3) /\ Crowded(type, 3) \subseteq Crowded(type, 2)
<1>1. ASSUME NEW b \in Completed
      PROVE  /\ Saturation(2, <<type, b>>) <= Saturation(3, <<type, b>>)
             /\ Saturation(2, <<type, b>>) \in Nat /\ Saturation(3, <<type, b>>) \in Nat
             /\ Size(<<type, b>>) \in Nat
  <2>1. <<type, b>> \in Squads
    BY DEF Squads, Completed
  <2>2. \A per \in Nat : Saturation(per, <<type, b>>) \in Nat
    BY <2>1, SizesNat
  <2>3. Saturation(1, <<type, b>>) \in Nat
    BY <2>2
  <2>4. 1 * Cardinality(Sources(<<type, b>>)) \in Nat
    BY <2>3 DEF Saturation
  <2>5. Cardinality(Sources(<<type, b>>)) \in Nat
    <3>1. Sources(<<type, b>>) \subseteq Patch \/ Sources(<<type, b>>) \subseteq Geyser
      BY <2>1 DEF Sources, Assimilators, Typed, Completed
    <3>2. IsFiniteSet(Sources(<<type, b>>))
      BY <3>1, WorkerLinesAssumption, FS_Subset
    <3> QED BY <3>2, FS_CardinalityType
  <2>6. Saturation(2, <<type, b>>) <= Saturation(3, <<type, b>>)
    BY <2>5 DEF Saturation
  <2> QED BY <2>1, <2>2, <2>6, SizesNat
<1>2. \A per : Roomy(type, per) = {b \in Completed : Saturation(per, <<type, b>>) > Size(<<type, b>>)}
  BY RoomyIs
<1>3. \A per : Crowded(type, per) = {b \in Completed : Saturation(per, <<type, b>>) < Size(<<type, b>>)}
  BY CrowdedIs
<1>4. Roomy(type, 2) \subseteq Roomy(type, 3)
  <2>1. ASSUME NEW b \in Roomy(type, 2) PROVE b \in Roomy(type, 3)
    <3>1. b \in Completed /\ Saturation(2, <<type, b>>) > Size(<<type, b>>)
      BY <1>2
    <3>2. Saturation(3, <<type, b>>) > Size(<<type, b>>)
      BY <1>1, <3>1
    <3> QED BY <1>2, <3>1, <3>2
  <2> QED BY <2>1
<1>5. Crowded(type, 3) \subseteq Crowded(type, 2)
  <2>1. ASSUME NEW b \in Crowded(type, 3) PROVE b \in Crowded(type, 2)
    <3>1. b \in Completed /\ Saturation(3, <<type, b>>) < Size(<<type, b>>)
      BY <1>3
    <3>2. Saturation(2, <<type, b>>) < Size(<<type, b>>)
      BY <1>1, <3>1
    <3> QED BY <1>3, <3>1, <3>2
  <2> QED BY <2>1
<1> QED BY <1>4, <1>5

\* The probe u of the crowded base c goes to the squad s, which has a place for it.
Rehomed(u, c, s) ==
  /\ c \in CrowdedIn(pass) /\ squad[u] = <<Passes[pass][1], c>>
  /\ MoveTo(u, s) /\ s[2] \in Roomy(s[1], 3)
  /\ s[1] = Passes[pass][1] => s[2] \in Roomy(s[1], Passes[pass][2])
  /\ pass \in {3, 4} => s[1] = "vespene"

\* While there is room in the pass, assignUnit finds it or a better place.
LEMMA RebalanceFindsRoom ==
  ASSUME NEW u \in Probe, Rebalance(u), Typed, LoopTyped, RoomLeft, BalanceKept
  PROVE  /\ \E c \in Completed, s \in Squads : Rehomed(u, c, s)
         /\ pass = 4 => Roomy("vespene", 2) = {}
<1> DEFINE type == Passes[pass][1]
           per  == Passes[pass][2]
           c    == Min(CrowdedIn(pass))
<1>1. /\ stage = "fix" /\ room > 0 /\ CrowdedIn(pass) # {} /\ squad[u] = <<type, c>>
      /\ AssignUnit(u)
  BY DEF Rebalance
<1>2. pass \in 1..4 /\ room \in Nat
  BY DEF LoopTyped
<1>3. CrowdedIn(pass) \subseteq Completed /\ Completed \subseteq Nat
  BY BasesFinite DEF CrowdedIn
<1>4. c \in CrowdedIn(pass) /\ c \in Completed
  BY <1>1, <1>3, MinIn
<1>5. PICK s \in Squads : MoveTo(u, s) /\ s[2] \in Completed /\ Preferred(s)
  BY <1>1, <1>4, AssignedTo
<1> HIDE DEF c
<1>6. /\ Passes[1] = <<"mineral", 2>> /\ Passes[2] = <<"mineral", 3>>
      /\ Passes[3] = <<"vespene", 2>> /\ Passes[4] = <<"vespene", 3>>
  BY DEF Passes
<1>7. Roomy(type, per) # {}
  <2>1. Positions(pass) \in Nat /\ (Positions(pass) = 0 <=> Roomy(type, per) = {})
    BY <1>2, PositionsAre
  <2>2. room <= Positions(pass)
    BY <1>1 DEF RoomLeft
  <2> QED BY <1>1, <1>2, <2>1, <2>2
<1>8. pass = 4 => Roomy("vespene", 2) = {}
  <2>1. CASE pass = 4
    <3>1. Balanced(2)
      BY <1>1, <2>1 DEF BalanceKept
    <3>2. c \in Crowded("vespene", 2)
      BY <1>4, <1>6, <2>1, RoomyGrows DEF CrowdedIn
    <3> QED BY <3>1, <3>2 DEF Balanced
  <2> QED BY <2>1
<1>9. s[1] \in {"mineral", "vespene"}
  BY DEF Squads
<1>10. Roomy("mineral", 2) \subseteq Roomy("mineral", 3) /\ Roomy("vespene", 2) \subseteq Roomy("vespene", 3)
  BY RoomyGrows
<1>11. pass \in {3, 4} => s[1] = "vespene" /\ s[2] \in Roomy("vespene", per)
  <2>1. CASE pass = 3
    BY <1>5, <1>6, <1>7, <2>1 DEF Preferred
  <2>2. CASE pass = 4
    BY <1>5, <1>6, <1>7, <1>8, <2>2 DEF Preferred
  <2> QED BY <2>1, <2>2
<1>12. pass \in {1, 2} /\ s[1] = "mineral" => s[2] \in Roomy("mineral", per)
  <2>1. CASE pass = 1
    BY <1>5, <1>6, <1>7, <2>1 DEF Preferred
  <2>2. CASE pass = 2
    BY <1>5, <1>6, <1>7, <1>10, <2>2 DEF Preferred
  <2> QED BY <2>1, <2>2
<1>13. s[1] = type => s[2] \in Roomy(s[1], per)
  BY <1>2, <1>6, <1>11, <1>12
<1>14. s[2] \in Roomy(s[1], 3)
  <2>1. CASE s[1] = "vespene"
    BY <1>5, <1>10, <2>1 DEF Preferred
  <2>2. CASE s[1] = "mineral"
    <3>1. pass \in {1, 2}
      BY <1>2, <1>11, <2>2
    <3> QED BY <1>6, <1>10, <1>12, <2>2, <3>1
  <2> QED BY <1>9, <2>1, <2>2
<1>15. Rehomed(u, c, s)
  BY <1>1, <1>4, <1>5, <1>11, <1>13, <1>14 DEF Rehomed
<1> QED BY <1>4, <1>8, <1>15

LEMMA RehomedMoves ==
  ASSUME Typed, NEW u \in Probe, pass \in 1..4, NEW c \in Completed, NEW s \in Squads, Rehomed(u, c, s)
  PROVE  /\ s # squad[u] /\ s[2] \in Completed
         /\ s[1] = Passes[pass][1] => s[2] # c
<1> DEFINE type == Passes[pass][1]
           per  == Passes[pass][2]
<1>1. type \in {"mineral", "vespene"} /\ per \in Nat
  BY DEF Passes
<1>2. /\ c \in Crowded(type, per) /\ squad[u] = <<type, c>> /\ s[2] \in Roomy(s[1], 3)
      /\ s[1] = type => s[2] \in Roomy(type, per)
  BY DEF Rehomed, CrowdedIn
<1> HIDE DEF type, per
<1>3. s[1] = type => s[2] # c
  <2>1. <<type, c>> \in Squads
    BY <1>1 DEF Squads, Completed
  <2>2. Saturation(per, <<type, c>>) \in Nat /\ Size(<<type, c>>) \in Nat
    BY <1>1, <2>1, SizesNat
  <2>3. Saturation(per, <<type, c>>) < Size(<<type, c>>)
    BY <1>2, CrowdedIs
  <2>4. c \notin Roomy(type, per)
    BY <2>2, <2>3, RoomyIs
  <2> QED BY <1>2, <2>4
<1>4. s # squad[u]
  BY <1>2, <1>3
<1>5. s[2] \in Completed
  BY <1>2, BasesFinite
<1> QED BY <1>3, <1>4, <1>5 DEF type

LEMMA RehomedCounts ==
  ASSUME Typed, UNCHANGED world, NEW u \in Probe, NEW p \in 1..4, pass = p,
         NEW c \in Completed, NEW s \in Squads, Rehomed(u, c, s)
  PROVE  Positions(p)' = IF s[1] = Passes[p][1] THEN Positions(p) - 1 ELSE Positions(p)
<1>1. /\ c \in CrowdedIn(p) /\ squad[u] = <<Passes[p][1], c>> /\ MoveTo(u, s)
      /\ s[1] = Passes[p][1] => s[2] \in Roomy(s[1], Passes[p][2])
  BY DEF Rehomed
<1>2. CASE s[1] = Passes[p][1]
  <2> DEFINE d == s[2]
  <2>1. d \in Roomy(Passes[p][1], Passes[p][2])
    BY <1>1, <1>2
  <2>2. s = <<Passes[p][1], d>>
    BY <1>2 DEF Squads
  <2> HIDE DEF d
  <2>3. MoveTo(u, <<Passes[p][1], d>>)
    BY <1>1, <2>2
  <2>4. Positions(p)' = Positions(p) - 1
    BY <1>1, <2>1, <2>3, PlaceTaken
  <2> QED BY <1>2, <2>4
<1>3. CASE s[1] # Passes[p][1]
  <2>1. Positions(p)' = Positions(p)
    BY <1>1, <1>3, PlacesKept
  <2> QED BY <1>3, <2>1
<1> QED BY <1>2, <1>3

LEMMA RebalanceKeeps ==
  ASSUME NEW u \in Probe, Rebalance(u), IInv
  PROVE  IInv'
<1>1. stage = "fix" /\ room > 0 /\ room' = room - 1 /\ UNCHANGED <<world, stage, pass, todo, events>>
  BY DEF Rebalance
<1>2. Typed /\ pass \in 1..4 /\ room \in Nat /\ Lines
  BY DEF IInv, Lines, LoopTyped
<1>3. /\ \E c \in Completed, s \in Squads : Rehomed(u, c, s)
      /\ pass = 4 => Roomy("vespene", 2) = {}
  BY RebalanceFindsRoom DEF IInv, Lines
<1>4. PICK c \in Completed, s \in Squads : Rehomed(u, c, s)
  BY <1>3
<1>5. s # squad[u] /\ s[2] \in Completed /\ (s[1] = Passes[pass][1] => s[2] # c)
  BY <1>2, <1>4, RehomedMoves
<1>6. LoopTyped' /\ FrameMines'
  <2>1. room' \in Nat
    BY <1>1, <1>2
  <2>2. FrameMines'
    BY <1>1, IdleMines DEF IInv, FrameMines
  <2> QED BY <1>1, <2>1, <2>2 DEF IInv, LoopTyped
<1>7. Lines'
  <2>1. MoveTo(u, s)
    BY <1>4 DEF Rehomed
  <2> QED BY <1>1, <1>2, <1>5, <2>1, MoveToLines
<1>8. RoomLeft'
  <2>1. PICK p \in 1..4 : p = pass
    BY <1>2
  <2>2. Positions(p)' = IF s[1] = Passes[p][1] THEN Positions(p) - 1 ELSE Positions(p)
    BY <1>1, <1>2, <1>4, <2>1, RehomedCounts
  <2>3. Positions(pass)' = Positions(p)'
    BY <1>1, <2>1 DEF Positions, Roomy, Saturation, Sources, Assimilators, Members, Completed
  <2>4. Positions(p) \in Nat
    BY <1>2, PositionsAre
  <2>5. room <= Positions(p) /\ (p \in {3, 4} => room = Positions(p))
    BY <1>1, <2>1 DEF IInv, RoomLeft
  <2>6. p \in {3, 4} => s[1] = Passes[p][1]
    BY <1>4, <2>1 DEF Rehomed, Passes
  <2> QED BY <1>1, <1>2, <2>1, <2>2, <2>3, <2>4, <2>5, <2>6 DEF RoomLeft
<1>9. BalanceKept'
  <2>1. CASE pass = 4
    <3> DEFINE d == s[2]
    <3>1. s[1] = "vespene" /\ Passes[4] = <<"vespene", 3>>
      BY <1>4, <2>1 DEF Rehomed, Passes
    <3>2. s = Vespene(d) /\ d \in Completed /\ d # c
      BY <1>5, <2>1, <3>1 DEF Squads, Vespene
    <3> HIDE DEF d
    <3>3. c \in Crowded("vespene", 3) /\ squad[u] = Vespene(c) /\ MoveTo(u, Vespene(d))
      BY <1>4, <2>1, <3>1, <3>2 DEF Rehomed, CrowdedIn, Vespene
    <3>4. Roomy("vespene", 2)' = {}
      BY <1>1, <1>2, <1>3, <2>1, <3>2, <3>3, LastPassKeepsBalance
    <3> QED BY <1>1, <3>4 DEF BalanceKept, Balanced
  <2>2. CASE pass # 4
    BY <1>1, <2>2 DEF BalanceKept
  <2> QED BY <2>1, <2>2
<1> QED BY <1>6, <1>7, <1>8, <1>9 DEF IInv

LEMMA AssignFreeKeeps ==
  ASSUME NEW u \in Probe, AssignFree(u), IInv
  PROVE  IInv'
<1>1. /\ stage = "assign" /\ squad[u] = Unassigned /\ Completed # {} /\ AssignUnit(u)
      /\ UNCHANGED <<world, loop, events>>
  BY DEF AssignFree
<1>2. stage' = stage /\ pass' = pass /\ room' = room /\ todo' = todo
  BY <1>1 DEF loop
<1>3. Typed /\ Lines
  BY DEF IInv, Lines
<1>4. PICK s \in Squads : MoveTo(u, s) /\ s[2] \in Completed /\ Preferred(s)
  BY <1>1, AssignedTo
<1>5. s # squad[u]
  BY <1>1 DEF Squads, Unassigned
<1>6. Lines'
  BY <1>1, <1>3, <1>4, <1>5, MoveToLines
<1>7. Balanced(2) /\ Balanced(3)
  BY <1>1 DEF IInv, BalanceKept
<1>8. Balanced(2)' /\ Balanced(3)'
  BY <1>1, <1>3, <1>4, <1>7, FreeKeepsBalance
<1>9. RoomLeft' /\ BalanceKept'
  BY <1>1, <1>2, <1>8 DEF RoomLeft, BalanceKept
<1>10. FrameMines'
  BY <1>1, <1>2, IdleMines DEF IInv, FrameMines
<1>11. LoopTyped'
  BY <1>1, <1>2 DEF IInv, LoopTyped
<1> QED BY <1>6, <1>9, <1>10, <1>11 DEF IInv

\* The steps after the probes are assigned move none.
LEMMA LaterKeeps ==
  ASSUME IInv, stage \in {"assign", "lines", "mining"}, stage' \in {"events", "lines", "mining"},
         UNCHANGED <<squad, world, pass, room, events>>
  PROVE  LoopTyped' /\ RoomLeft' /\ BalanceKept'
<1>1. Balanced(2) /\ Balanced(3)
  BY DEF IInv, BalanceKept
<1>2. Balanced(2)' /\ Balanced(3)'
  BY <1>1, BalancedSame
<1> QED BY <1>2 DEF IInv, LoopTyped, RoomLeft, BalanceKept

LEMMA AllAssignedKeeps ==
  ASSUME AllAssigned, IInv
  PROVE  IInv'
<1>1. /\ stage = "assign" /\ stage' = "lines" /\ todo' = Completed
      /\ UNCHANGED <<squad, line, world, pass, room, events>>
  BY DEF AllAssigned
<1>2. Completed' = Completed
  BY <1>1, WorldSame
<1>3. FrameMines'
  BY <1>1, <1>2 DEF FrameMines
<1>4. Lines'
  BY <1>1, LinesSame DEF IInv, Lines, Typed, world
<1> QED BY <1>1, <1>3, <1>4, LaterKeeps DEF IInv

LEMMA EndFrameKeeps ==
  ASSUME EndFrame, IInv
  PROVE  IInv'
<1>1. /\ stage = "lines" /\ todo = {} /\ stage' = "events"
      /\ UNCHANGED <<squad, line, world, pass, room, todo, events>>
  BY DEF EndFrame
<1>2. FrameMines'
  BY <1>1, IdleMines
<1>3. Lines'
  BY <1>1, LinesSame DEF IInv, Lines, Typed, world
<1> QED BY <1>1, <1>2, <1>3, LaterKeeps DEF IInv

LEMMA StepLinesKeeps ==
  ASSUME NEW b \in Base, StepLines(b), IInv
  PROVE  IInv'
<1>1. stage = "lines" /\ UNCHANGED <<squad, world, pass, room, events>>
  BY DEF StepLines
<1>2. Lines' /\ FrameMines' /\ stage' \in {"lines", "mining"}
  BY StepLinesMines DEF IInv
<1> QED BY <1>1, <1>2, LaterKeeps DEF IInv

LEMMA AssignMineralKeeps ==
  ASSUME NEW b \in Base, NEW p \in Patch, AssignMineral(b, p), IInv
  PROVE  IInv'
<1>1. stage = "mining" /\ UNCHANGED <<squad, world, pass, room, events>>
  BY DEF AssignMineral
<1>2. Lines' /\ FrameMines' /\ stage' \in {"lines", "mining"}
  BY AssignMineralMines DEF IInv
<1> QED BY <1>1, <1>2, LaterKeeps DEF IInv

LEMMA NoMineralsKeeps ==
  ASSUME NEW b \in Base, NoMinerals(b), IInv
  PROVE  IInv'
<1>1. stage = "mining" /\ UNCHANGED <<squad, world, pass, room, events>>
  BY DEF NoMinerals
<1>2. Lines' /\ FrameMines' /\ stage' \in {"lines", "mining"}
  BY NoMineralsMines DEF IInv
<1> QED BY <1>1, <1>2, LaterKeeps DEF IInv

LEMMA FrameKeeps ==
  ASSUME Frame, IInv
  PROVE  IInv'
<1>1. CASE BeginFrame
  BY <1>1, BeginFrameKeeps
<1>2. CASE NextPass
  BY <1>2, NextPassKeeps
<1>3. CASE AllAssigned
  BY <1>3, AllAssignedKeeps
<1>4. CASE EndFrame
  BY <1>4, EndFrameKeeps
<1>5. ASSUME NEW u \in Probe, Rebalance(u) PROVE IInv'
  BY <1>5, RebalanceKeeps
<1>6. ASSUME NEW u \in Probe, AssignFree(u) PROVE IInv'
  BY <1>6, AssignFreeKeeps
<1>7. ASSUME NEW b \in Base, StepLines(b) PROVE IInv'
  BY <1>7, StepLinesKeeps
<1>8. ASSUME NEW b \in Base, NoMinerals(b) PROVE IInv'
  BY <1>8, NoMineralsKeeps
<1>9. ASSUME NEW b \in Base, NEW p \in Patch, AssignMineral(b, p) PROVE IInv'
  BY <1>9, AssignMineralKeeps
<1> QED BY <1>1, <1>2, <1>3, <1>4, <1>5, <1>6, <1>7, <1>8, <1>9 DEF Frame

\* What the game reports leaves stage "events" as it was.
LEMMA EventLines ==
  ASSUME Event, IInv
  PROVE  Lines' /\ stage = "events" /\ UNCHANGED loop
<1>1. Lines /\ Typed
  BY DEF IInv, Lines
<1>2. ASSUME NEW u \in Probe, Trained(u) PROVE Lines' /\ stage = "events" /\ UNCHANGED loop
  BY <1>1, <1>2, TrainedLines DEF Trained
<1>3. ASSUME NEW u \in Probe, Dies(u) PROVE Lines' /\ stage = "events" /\ UNCHANGED loop
  <2>1. stage = "events" /\ MoveTo(u, Dead) /\ UNCHANGED <<world, loop>>
    BY <1>3 DEF Dies
  <2>2. Dead \notin Squads
    BY DEF Squads, Dead
  <2> QED BY <1>1, <2>1, <2>2, MoveToLines
<1>4. ASSUME NEW u \in Probe, Lend(u) PROVE Lines' /\ stage = "events" /\ UNCHANGED loop
  <2>1. stage = "events" /\ MoveTo(u, Lent) /\ UNCHANGED <<world, loop>>
    BY <1>4 DEF Lend
  <2>2. Lent \notin Squads
    BY DEF Squads, Lent
  <2> QED BY <1>1, <2>1, <2>2, MoveToLines
<1>5. ASSUME NEW u \in Probe, TaskCompleted(u) PROVE Lines' /\ stage = "events" /\ UNCHANGED loop
  <2>1. stage = "events" /\ MoveTo(u, Unassigned) /\ UNCHANGED <<world, loop>>
    BY <1>5 DEF TaskCompleted
  <2>2. Unassigned \notin Squads
    BY DEF Squads, Unassigned
  <2> QED BY <1>1, <2>1, <2>2, MoveToLines
<1>6. ASSUME NEW p \in Patch, MineralExpires(p) PROVE Lines' /\ stage = "events" /\ UNCHANGED loop
  <2>1. /\ stage = "events" /\ minerals' = [minerals EXCEPT ![PatchBase[p]] = @ \ {p}]
        /\ UNCHANGED <<squad, line, nexus, geyser, loop>>
    BY <1>6 DEF MineralExpires
  <2>2. PatchBase[p] \in Base
    BY WorkerLinesAssumption
  <2>3. minerals' \in [Base -> SUBSET Patch]
    BY <1>1, <2>1, <2>2 DEF Typed
  <2>4. geyser' \in [Geyser -> {"bare", "active", "gone"}]
    BY <1>1, <2>1 DEF Typed
  <2> QED BY <1>1, <2>1, <2>3, <2>4, LinesSame
<1>7. ASSUME NEW g \in Geyser, NEW from, NEW to \in {"active", "gone"}, AssimilatorTurns(g, from, to)
      PROVE  Lines' /\ stage = "events" /\ UNCHANGED loop
  <2>1. /\ stage = "events" /\ geyser' = [geyser EXCEPT ![g] = to]
        /\ UNCHANGED <<squad, line, nexus, minerals, loop>>
    BY <1>7 DEF AssimilatorTurns
  <2>2. geyser' \in [Geyser -> {"bare", "active", "gone"}]
    BY <1>1, <2>1 DEF Typed
  <2>3. minerals' \in [Base -> SUBSET Patch]
    BY <1>1, <2>1 DEF Typed
  <2> QED BY <1>1, <2>1, <2>2, <2>3, LinesSame
<1>8. ASSUME NEW b \in Base, NexusCompleted(b) PROVE Lines' /\ stage = "events" /\ UNCHANGED loop
  BY <1>1, <1>8, NexusCompletedLines DEF NexusCompleted
<1>9. ASSUME NEW b \in Base, NexusDestroyed(b) PROVE Lines' /\ stage = "events" /\ UNCHANGED loop
  BY <1>1, <1>9, NexusDestroyedLines DEF NexusDestroyed
<1> QED BY <1>2, <1>3, <1>4, <1>5, <1>6, <1>7, <1>8, <1>9 DEF Event

LEMMA EventKeeps ==
  ASSUME Event, IInv
  PROVE  IInv'
<1>1. Lines' /\ stage = "events" /\ UNCHANGED loop
  BY EventLines
<1>2. events' \in 0..MaxEvents
  BY WorkerLinesAssumption DEF Event, IInv, LoopTyped
<1> QED BY <1>1, <1>2, EventsKeep DEF IInv

LEMMA StutterKeeps ==
  ASSUME UNCHANGED vars, IInv
  PROVE  IInv'
<1>1. UNCHANGED <<squad, line, world, stage, pass, room, todo, events>>
  BY DEF vars, loop
<1>2. Lines'
  BY <1>1, LinesSame DEF IInv, Lines, Typed, world
<1>3. FrameMines'
  BY <1>1 DEF IInv, FrameMines, Mines, Stepping, Mining, Known, Completed, Members, Mineral, world
<1>4. LoopTyped'
  BY <1>1 DEF IInv, LoopTyped
<1>5. RoomLeft'
  <2>1. Positions(pass)' = Positions(pass)
    BY <1>1 DEF Positions, Roomy, Saturation, Sources, Assimilators, Members, Completed, world
  <2> QED BY <1>1, <2>1 DEF IInv, RoomLeft
<1>6. BalanceKept'
  BY <1>1, BalancedSame DEF IInv, BalanceKept
<1> QED BY <1>2, <1>3, <1>4, <1>5, <1>6 DEF IInv

LEMMA InitLines ==
  ASSUME Init
  PROVE  Lines
<1>1. PICK first \in kSubset(FirstProbes, Probe) :
        /\ nexus = [b \in Base |-> IF b = Home THEN "completed" ELSE "ahead"]
        /\ squad = [u \in Probe |-> IF u \in first THEN Unassigned ELSE Unborn]
        /\ minerals = [b \in Base |-> {p \in Patch : PatchBase[p] = b}]
        /\ line = [s \in Squads |-> NewLine(IF s = <<"mineral", Home>> THEN minerals[Home] ELSE {})]
        /\ geyser = [g \in Geyser |-> "bare"]
  BY DEF Init
<1>2. ASSUME NEW s \in Squads PROVE Members(s) = {}
  <2>1. s # Unassigned /\ s # Unborn
    BY DEF Squads, Unassigned, Unborn
  <2> QED BY <1>1, <2>1 DEF Members
<1>3. \A b \in Base : b \in Completed <=> b = Home
  BY <1>1 DEF Completed
<1>4. ASSUME NEW s \in Squads
      PROVE  /\ IsOrder(line[s])
             /\ s # <<"mineral", Home>> => line[s] = NewLine({})
  <2>1. CASE s = <<"mineral", Home>>
    <3>1. Home \in Base
      BY <2>1 DEF Squads
    <3>2. minerals[Home] \subseteq Patch
      BY <1>1, <3>1
    <3>3. line[s] = NewLine(minerals[Home])
      BY <1>1, <2>1
    <3> QED BY <2>1, <3>2, <3>3, NewLineOrder
  <2>2. CASE s # <<"mineral", Home>>
    <3>1. line[s] = NewLine({})
      BY <1>1, <2>2
    <3> QED BY <3>1, NewLineOrder
  <2> QED BY <2>1, <2>2
<1>5. ASSUME NEW s \in Squads, s[2] \notin Completed PROVE line[s] = NewLine({})
  <2>1. s[2] \in Base
    BY DEF Squads
  <2>2. s # <<"mineral", Home>>
    BY <1>3, <1>5, <2>1
  <2> QED BY <1>4, <2>2
<1>6. Typed
  <2>1. line = [s \in Squads |-> line[s]]
    BY <1>1
  <2>2. squad \in [Probe -> Squads \cup {Unborn, Dead, Unassigned, Lent}]
    BY <1>1
  <2>3. nexus \in [Base -> {"ahead", "completed", "destroyed"}]
    BY <1>1
  <2>4. minerals \in [Base -> SUBSET Patch] /\ geyser \in [Geyser -> {"bare", "active", "gone"}]
    BY <1>1
  <2> QED BY <1>2, <1>4, <1>5, <2>1, <2>2, <2>3, <2>4 DEF Typed
<1>7. ASSUME NEW b \in Completed PROVE NamesOnce(line[Vespene(b)], Members(Vespene(b)))
  <2>1. Vespene(b) \in Squads /\ Vespene(b) # <<"mineral", Home>>
    BY SquadNames DEF Completed, Vespene
  <2> QED BY <1>2, <1>4, <2>1, NewLineOrder
<1>8. MineralKnown
  <2>1. ASSUME NEW b \in Completed PROVE Members(Mineral(b)) = {}
    BY <1>2, SquadNames DEF Completed
  <2> QED BY <2>1 DEF MineralKnown, KnowsAll
<1> QED BY <1>6, <1>7, <1>8, PlacementAt DEF Lines

LEMMA InitIInv == Init => IInv
<1> SUFFICES ASSUME Init PROVE IInv
  OBVIOUS
<1>1. stage = "events" /\ pass = 1 /\ room = 0 /\ todo = {} /\ events = 0
  BY DEF Init
<1>2. FrameMines /\ LoopTyped /\ RoomLeft /\ BalanceKept
  BY <1>1, WorkerLinesAssumption DEF FrameMines, LoopTyped, RoomLeft, BalanceKept
<1> QED BY <1>2, InitLines DEF IInv

-----------------------------------------------------------------------------
(* What holds in every state.                                              *)
LEMMA NextKeeps == IInv /\ [Next]_vars => IInv'
<1> SUFFICES ASSUME IInv, [Next]_vars PROVE IInv'
  OBVIOUS
<1> QED BY FrameKeeps, EventKeeps, StutterKeeps DEF Next

LEMMA IInvHolds == Spec => []IInv
BY InitIInv, NextKeeps, PTL DEF Spec

\* Every variable has its type, the orders their shape, and only the squads and
\* orders of completed bases have probes, for any number of bases, sources and probes.
THEOREM WorkerLinesTypes == Spec => []TypeOK
<1>1. IInv => TypeOK
  BY DEF IInv, Lines, Typed, FrameMines, LoopTyped, TypeOK
<1> QED BY <1>1, IInvHolds, PTL

\* CollectVespeneOrder names each probe of its squad once and nobody else, whatever
\* transfers, deaths, closing assimilators and rounds of its step it has gone through.
THEOREM VespenePlacementHolds == Spec => []VespenePlacement
<1>1. IInv => VespenePlacement
  BY DEF IInv, Lines
<1> QED BY <1>1, IInvHolds, PTL

\* After WorkerManager's passes and the assignment of the free probes, no vespene line
\* is over a saturation while another is under it, although fixResourceLines counts the
\* open places only once and assignUnit chooses the base by itself.
THEOREM VespeneBalancedHolds == Spec => []VespeneBalanced
<1>1. IInv => VespeneBalanced
  <2> SUFFICES ASSUME IInv, stage = "lines"
               PROVE  \A per \in {2, 3} : Crowded("vespene", per) = {} \/ Roomy("vespene", per) = {}
    BY DEF VespeneBalanced
  <2>1. Balanced(2) /\ Balanced(3)
    BY DEF IInv, BalanceKept
  <2> QED BY <2>1 DEF Balanced
<1> QED BY <1>1, IInvHolds, PTL

\* When CollectMineralsOrder has stepped and runs on, each probe of its squad is under a
\* live patch, for any number of probes whose patches are mined out in the same frame.
THEOREM EveryProbeMinesHolds == Spec => []EveryProbeMines
<1>1. IInv => EveryProbeMines
  <2> SUFFICES ASSUME IInv, stage = "lines", NEW b \in Completed \ todo,
                      ~line[<<"mineral", b>>].over, NEW u \in Members(<<"mineral", b>>)
               PROVE  \E p \in minerals[b] : Contains(line[<<"mineral", b>>].listed[p], u)
    BY DEF EveryProbeMines
  <2> DEFINE l == line[Mineral(b)]
  <2>1. Mines(b)
    BY DEF IInv, FrameMines
  <2>2. PICK p \in minerals[b] \cap DOMAIN l.listed : u \in Range(l.listed[p])
    BY <2>1 DEF Mines, Mineral
  <2>3. IsOrder(l)
    BY LinesAt DEF IInv
  <2>4. l.listed[p] \in Seq(Probe)
    BY <2>2, <2>3 DEF IsOrder
  <2>5. Contains(l.listed[p], u)
    BY <2>2, <2>4, ContainsNames
  <2> QED BY <2>2, <2>5 DEF Mineral
<1> QED BY <1>1, IInvHolds, PTL

\* CollectMineralsOrder looks for a probe that leaves only in its lists, not among the
\* unassigned; still, while it runs, it knows where each probe of its squad is.
THEOREM MineralOrderKnows == Spec => []MineralKnown
<1>1. IInv => MineralKnown
  BY DEF IInv, Lines
<1> QED BY <1>1, IInvHolds, PTL

\* fixResourceLines counts the open places before its loop, and assignUnit chooses the
\* base anew for each probe: the count is never above what a new count would find, and
\* exact for vespene.
THEOREM CountNotStale == Spec => []RoomLeft
<1>1. IInv => RoomLeft
  BY DEF IInv
<1> QED BY <1>1, IInvHolds, PTL

\* Each probe that fixResourceLines takes from a crowded squad leaves it for a line under
\* three a source, and under the saturation of the pass when it is of the pass's type.
THEOREM MovesFindRoomHolds == Spec => MovesFindRoom
<1>1. ASSUME IInv, NEW u \in Probe, Rebalance(u) PROVE FindsRoom(u)
  <2>1. Typed /\ pass \in 1..4
    BY <1>1 DEF IInv, Lines, LoopTyped
  <2>2. PICK c \in Completed, s \in Squads : Rehomed(u, c, s)
    BY <1>1, RebalanceFindsRoom DEF IInv, Lines
  <2>3. s # squad[u]
    BY <2>1, <2>2, RehomedMoves
  <2>4. squad'[u] = s
    BY <2>1, <2>2 DEF Rehomed, MoveTo, Typed
  <2>5. s[2] \in Roomy(s[1], 3) /\ (s[1] = Passes[pass][1] => s[2] \in Roomy(s[1], Passes[pass][2]))
    BY <2>2 DEF Rehomed
  <2> QED BY <2>3, <2>4, <2>5 DEF FindsRoom
<1>2. IInv => [\A u \in Probe : Rebalance(u) => FindsRoom(u)]_vars
  BY <1>1
<1> QED BY <1>2, IInvHolds, PTL DEF MovesFindRoom
=============================================================================
