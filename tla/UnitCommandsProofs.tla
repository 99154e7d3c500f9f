-------------------------- MODULE UnitCommandsProofs --------------------------
(* Theorems about UnitCommands, for any set of units and keys and any      *)
(* threshold, and their proofs.                                            *)
EXTENDS UnitCommands, TLAPS

-----------------------------------------------------------------------------
(* The inductive invariant.                                                *)

Between == ~issuing => keys = {} /\ next = 1

\* A unit that was not given different commands in this frame was given one.
OneNote(u) == single[u] > 0 => \A k, l \in Noted(u) : k = l

\* What is to be sent is what is remembered, as of this frame.
WaitingIsLast(u) ==
  \A k \in Waiting(u) : age[u] = 0 /\ k \in Noted(u) /\ (single[u] > 0 => last[u] = k)

\* After its turn in the first loop a command is remembered, as of no longer
\* than the threshold ago.
Handled(u) ==
  \A i \in DOMAIN commands : i < next /\ commands[i].unit = u =>
    age[u] < Threshold /\ (single[u] > 0 => last[u] = commands[i].key)

\* With nothing to be sent, the game has been told for as long as is
\* remembered, and told something else only by an older mixed frame.
Settled(u) ==
  Waiting(u) = {} =>
    /\ silent[u] = age[u]
    /\ told[u] # last[u] => age[u] >= single[u]

\* What is to be sent again was sent long ago.
Overdue(u) ==
  told[u] \in Waiting(u) /\ single[u] >= Threshold => silent[u] >= Threshold

UnitInv(u) ==
  /\ OneNote(u) /\ WaitingIsLast(u) /\ Handled(u) /\ Settled(u) /\ Overdue(u)

IInv == TypeOK /\ Between /\ \A u \in Unit : UnitInv(u)

-----------------------------------------------------------------------------
(* What the loops do to the commands that are to be sent.                  *)

LEMMA NextCommand ==
  ASSUME TypeOK, Filter
  PROVE  next \in DOMAIN commands /\ commands[next] \in Command
<1>1. next \in 1..Len(commands) /\ commands \in Seq(Command)
  BY DEF TypeOK, Filter
<1> QED BY <1>1

LEMMA IsASeq ==
  ASSUME NEW S, NEW n \in Nat, NEW e(_), \A i \in 1..n : e(i) \in S
  PROVE  [i \in 1..n |-> e(i)] \in Seq(S)
OBVIOUS

LEMMA FilterWaiting ==
  ASSUME TypeOK, Filter, NEW u \in Unit
  PROVE  LET c == commands[next] IN
           /\ c \in Command
           /\ Waiting(u)' = IF u = c.unit /\ ~Repeats(c) THEN Waiting(u) \cup {c.key}
                                                        ELSE Waiting(u)
<1> DEFINE c == commands[next]
<1>1. c \in Command /\ c.unit \in Unit /\ c.key \in Key
  BY NextCommand DEF Command
<1>2. /\ keys' = keys \cup {c.key}
      /\ group' = IF Repeats(c) THEN group ELSE [group EXCEPT ![c.key] = Append(@, c.unit)]
      /\ \A k \in Key : group[k] \in Seq(Unit)
      /\ \A k \in Key \ keys : group[k] = <<>>
      /\ keys \subseteq Key
  BY DEF TypeOK, Filter
<1> HIDE DEF c
<1>3. CASE Repeats(c)
  <2>1. \A k \in keys' \ keys : DOMAIN group[k] = {}
    BY <1>1, <1>2
  <2>2. group' = group /\ keys \subseteq keys'
    BY <1>2, <1>3
  <2>3. Waiting(u)' = Waiting(u)
    BY <2>1, <2>2 DEF Waiting
  <2> QED BY <1>1, <1>3, <2>3 DEF c
<1>4. CASE ~Repeats(c)
  <2>1. /\ DOMAIN group'[c.key] = 1..Len(group[c.key]) + 1
        /\ DOMAIN group[c.key] = 1..Len(group[c.key])
        /\ Len(group[c.key]) \in Nat
        /\ \A i \in 1..Len(group[c.key]) : group'[c.key][i] = group[c.key][i]
        /\ group'[c.key][Len(group[c.key]) + 1] = c.unit
    BY <1>1, <1>2, <1>4 DEF TypeOK
  <2>2. \A k \in Key : k # c.key => group'[k] = group[k]
    BY <1>1, <1>2, <1>4 DEF TypeOK
  <2>3. (\E i \in DOMAIN group'[c.key] : group'[c.key][i] = u)
          <=> u = c.unit \/ \E i \in DOMAIN group[c.key] : group[c.key][i] = u
    BY <2>1
  <2>4. c.key \notin keys => DOMAIN group[c.key] = {}
    BY <1>1, <1>2
  <2>5. \A k \in Key : k # c.key => (k \in Waiting(u)' <=> k \in Waiting(u))
    BY <1>2, <2>2 DEF Waiting
  <2>6. c.key \in Waiting(u)' <=> u = c.unit \/ c.key \in Waiting(u)
    BY <1>1, <1>2, <2>3, <2>4 DEF Waiting
  <2>7. Waiting(u) \subseteq Key /\ Waiting(u)' \subseteq Key
    BY <1>1, <1>2 DEF Waiting
  <2> QED BY <1>1, <1>4, <2>5, <2>6, <2>7 DEF c
<1> QED BY <1>3, <1>4

LEMMA ExecuteWaiting ==
  ASSUME TypeOK, NEW k \in Key, Execute(k), NEW u \in Unit
  PROVE  Waiting(u)' = Waiting(u) \ {k}
BY DEF TypeOK, Execute, Waiting

-----------------------------------------------------------------------------
(* Every step keeps the invariant.                                         *)

LEMMA UnitCommandStep ==
  ASSUME IInv, NEW v \in Unit, NEW k \in Key, UnitCommand(v, k)
  PROVE  IInv'
<1> USE UnitCommandsAssumption DEF UnitCommand, issued, map, game
<1>1. /\ commands' \in Seq(Command)
      /\ DOMAIN commands = 1..Len(commands) /\ Len(commands) \in Nat
      /\ DOMAIN commands' = 1..Len(commands) + 1
      /\ \A i \in DOMAIN commands : commands'[i] = commands[i]
      /\ commands'[Len(commands) + 1] = [unit |-> v, key |-> k]
  BY DEF IInv, TypeOK, Command
<1>2. TypeOK' /\ Between'
  BY <1>1 DEF IInv, TypeOK, Between, Ages
<1>3. ASSUME NEW u \in Unit PROVE UnitInv(u)'
  <2>1. Waiting(u)' = {} /\ Waiting(u) = {}
    BY DEF IInv, Between, Waiting
  <2>2. u = v => Noted(u)' = Noted(u) \cup {k}
    BY <1>1 DEF Noted
  <2>3. u # v => Noted(u)' = Noted(u)
    BY <1>1 DEF Noted
  <2>4. single'[u] = IF u = v /\ ~(Noted(v) \subseteq {k}) THEN 0 ELSE single[u]
    BY DEF IInv, TypeOK
  <2>5. OneNote(u)'
    BY <2>2, <2>3, <2>4 DEF IInv, UnitInv, OneNote
  <2>6. Handled(u)'
    BY <1>1 DEF IInv, Between, Handled
  <2>7. Settled(u)'
    BY <2>1, <2>4 DEF IInv, UnitInv, Settled, TypeOK, Ages
  <2> QED BY <2>1, <2>5, <2>6, <2>7 DEF UnitInv, WaitingIsLast, Overdue
<1> QED BY <1>2, <1>3 DEF IInv

LEMMA IssueStep ==
  ASSUME IInv, IssueAllCommands
  PROVE  IInv'
<1> USE DEF IssueAllCommands, issued, map, game
<1>1. TypeOK' /\ Between'
  BY DEF IInv, TypeOK, Between
<1>2. ASSUME NEW u \in Unit PROVE UnitInv(u)'
  BY DEF IInv, UnitInv, OneNote, WaitingIsLast, Handled, Settled, Overdue, Noted, Waiting
<1> QED BY <1>1, <1>2 DEF IInv

LEMMA FilterStep ==
  ASSUME IInv, Filter
  PROVE  IInv'
<1> DEFINE c == commands[next]
<1>1. /\ c \in Command /\ c.unit \in Unit /\ c.key \in Key
      /\ next \in DOMAIN commands /\ next \in Nat /\ Threshold \in Nat \ {0}
      /\ DOMAIN commands \subseteq Nat
  <2>1. next \in DOMAIN commands /\ c \in Command
    BY NextCommand DEF IInv
  <2>2. next \in Nat /\ DOMAIN commands \subseteq Nat
    BY DEF IInv, TypeOK
  <2> QED BY <2>1, <2>2, UnitCommandsAssumption DEF Command
<1>2. UNCHANGED <<commands, issuing, calls, told, silent, single>> /\ issuing /\ next' = next + 1
  BY DEF Filter, game
<1>3. /\ last' = IF Repeats(c) THEN last ELSE [last EXCEPT ![c.unit] = c.key]
      /\ age'  = IF Repeats(c) THEN age ELSE [age EXCEPT ![c.unit] = 0]
  BY DEF Filter, Remember, issued
<1>4. TypeOK' /\ Between'
  <2>1. keys' \subseteq Key /\ group' \in [Key -> Seq(Unit)]
    BY <1>1 DEF IInv, TypeOK, Filter
  <2>2. \A k \in Key \ keys' : group'[k] = <<>>
    BY <1>1 DEF IInv, TypeOK, Filter
  <2>3. last' \in [Unit -> Key \cup {NoKey}] /\ age' \in [Unit -> Ages]
    BY <1>1, <1>3 DEF IInv, TypeOK, Ages
  <2> QED BY <1>1, <1>2, <2>1, <2>2, <2>3 DEF IInv, TypeOK, Between
<1>5. ASSUME NEW u \in Unit PROVE UnitInv(u)'
  <2> DEFINE sends == u = c.unit /\ ~Repeats(c)
  <2>1. Waiting(u)' = IF sends THEN Waiting(u) \cup {c.key} ELSE Waiting(u)
    BY FilterWaiting DEF IInv
  <2>2. Noted(u)' = Noted(u)
    BY <1>2 DEF Noted
  <2>3. /\ last'[u] = IF sends THEN c.key ELSE last[u]
        /\ age'[u]  = IF sends THEN 0 ELSE age[u]
    BY <1>1, <1>3 DEF IInv, TypeOK
  <2>4. u = c.unit => c.key \in Noted(u)
    BY <1>1 DEF Noted
  <2>5. u = c.unit => last'[u] = c.key /\ age'[u] < Threshold
    BY <1>1, <2>3 DEF Repeats
  <2>6. /\ age[u] \in Nat /\ single[u] \in Nat /\ silent[u] \in Nat
        /\ age[u] <= Threshold
    BY <1>1 DEF IInv, TypeOK, Ages
  <2>7. UnitInv(u)
    BY DEF IInv
  <2>8. c.unit = u /\ ~Repeats(c) => last[u] # c.key \/ age[u] >= Threshold
    BY <1>1, <2>6 DEF Repeats
  <2> HIDE DEF c
  <2>9. OneNote(u)'
    BY <1>2, <2>2, <2>7 DEF UnitInv, OneNote
  <2>10. WaitingIsLast(u)'
    BY <1>2, <2>1, <2>2, <2>3, <2>4, <2>7 DEF UnitInv, OneNote, WaitingIsLast
  <2>11. Handled(u)'
    <3> SUFFICES ASSUME NEW i \in DOMAIN commands, i < next + 1, commands[i].unit = u
                 PROVE  age'[u] < Threshold /\ (single[u] > 0 => last'[u] = commands[i].key)
      BY <1>2 DEF Handled
    <3>1. CASE i = next
      BY <2>5, <3>1 DEF c
    <3>2. CASE i < next
      <4>1. commands[i].key \in Noted(u)
        BY DEF Noted
      <4> QED BY <1>1, <2>3, <2>4, <2>7, <3>2, <4>1 DEF UnitInv, OneNote, Handled
    <3> QED BY <1>1, <3>1, <3>2
  <2>12. Settled(u)'
    BY <1>2, <2>1, <2>3, <2>7 DEF UnitInv, Settled
  <2>13. Overdue(u)'
    <3> SUFFICES ASSUME told[u] \in Waiting(u)', single[u] >= Threshold
                 PROVE  silent[u] >= Threshold
      BY <1>2 DEF Overdue
    <3>1. CASE told[u] \in Waiting(u)
      BY <2>7, <3>1 DEF UnitInv, Overdue
    <3>2. CASE told[u] \notin Waiting(u)
      <4>1. sends /\ told[u] = c.key
        BY <2>1, <3>2
      <4>2. Waiting(u) = {}
        <5> SUFFICES ASSUME NEW k \in Waiting(u) PROVE FALSE
          OBVIOUS
        <5>1. k = c.key
          BY <1>1, <2>4, <2>6, <2>7, <4>1 DEF UnitInv, OneNote, WaitingIsLast
        <5> QED BY <3>2, <4>1, <5>1
      <4> QED BY <1>1, <2>6, <2>7, <2>8, <4>1, <4>2 DEF UnitInv, Settled
    <3> QED BY <3>1, <3>2
  <2> QED BY <2>9, <2>10, <2>11, <2>12, <2>13 DEF UnitInv
<1> QED BY <1>4, <1>5 DEF IInv

LEMMA ExecuteStep ==
  ASSUME IInv, NEW k \in Key, Execute(k)
  PROVE  IInv'
<1>1. TypeOK' /\ Between'
  <2>1. calls' \in Seq(Seq(Unit))
    <3>1. group[k] \in Seq(Unit)
      BY DEF IInv, TypeOK
    <3>2. <<group[k]>> \in Seq(Seq(Unit))
      BY <3>1
    <3>3. [i \in DOMAIN group[k] |-> <<group[k][i]>>] \in Seq(Seq(Unit))
      <4>1. DOMAIN group[k] = 1..Len(group[k]) /\ Len(group[k]) \in Nat
        BY <3>1
      <4>2. \A i \in 1..Len(group[k]) : <<group[k][i]>> \in Seq(Unit)
        BY <3>1
      <4> QED BY <4>1, <4>2, IsASeq
    <3>4. CallsOf(k) \in Seq(Seq(Unit))
      BY <3>2, <3>3 DEF CallsOf
    <3> QED BY <3>4 DEF Execute
  <2>2. told' \in [Unit -> Key \cup {NoKey}] /\ silent' \in [Unit -> Ages]
    BY UnitCommandsAssumption DEF IInv, TypeOK, Execute, Told, Ages
  <2>3. keys' \subseteq Key /\ group' \in [Key -> Seq(Unit)]
    BY DEF IInv, TypeOK, Execute
  <2>4. \A l \in Key \ keys' : group'[l] = <<>>
    BY DEF IInv, TypeOK, Execute
  <2> QED BY <2>1, <2>2, <2>3, <2>4 DEF IInv, TypeOK, Between, Execute, Filtered, issued
<1>2. ASSUME NEW u \in Unit PROVE UnitInv(u)'
  <2>1. Waiting(u)' = Waiting(u) \ {k}
    BY ExecuteWaiting DEF IInv
  <2>2. UNCHANGED <<commands, next, last, age, single>> /\ Noted(u)' = Noted(u)
    BY DEF Execute, issued, Noted
  <2>3. /\ told'[u] = IF k \in Waiting(u) THEN k ELSE told[u]
        /\ silent'[u] = IF k \in Waiting(u) THEN 0 ELSE silent[u]
    BY DEF Execute, Told
  <2>4. age[u] \in Nat /\ single[u] \in Nat /\ Threshold \in Nat \ {0}
    BY UnitCommandsAssumption DEF IInv, TypeOK, Ages
  <2>5. UnitInv(u)
    BY DEF IInv
  <2>6. OneNote(u)' /\ WaitingIsLast(u)' /\ Handled(u)'
    BY <2>1, <2>2, <2>5 DEF UnitInv, OneNote, WaitingIsLast, Handled
  <2>7. Settled(u)'
    BY <2>1, <2>2, <2>3, <2>4, <2>5 DEF UnitInv, WaitingIsLast, Settled
  <2>8. Overdue(u)'
    BY <2>1, <2>2, <2>3, <2>4, <2>5 DEF UnitInv, WaitingIsLast, Overdue
  <2> QED BY <2>6, <2>7, <2>8 DEF UnitInv
<1> QED BY <1>1, <1>2 DEF IInv

LEMMA EndFrameStep ==
  ASSUME IInv, NEW d \in 1..MaxStep, EndFrame(d)
  PROVE  IInv'
<1> USE UnitCommandsAssumption
<1>1. ASSUME NEW n \in Ages
      PROVE  Older(n, d) \in Ages /\ Older(n, d) > 0
  BY DEF Older, Ages
<1>2. TypeOK' /\ Between'
  <2>1. /\ age' \in [Unit -> Ages] /\ silent' \in [Unit -> Ages]
        /\ single' \in [Unit -> Ages]
    BY <1>1 DEF IInv, TypeOK, EndFrame
  <2>2. UNCHANGED <<last, keys, group, told>> /\ keys = {}
    BY DEF EndFrame, Executed, map
  <2>3. commands' \in Seq(Command) /\ calls' \in Seq(Seq(Unit)) /\ next' = 1
    BY DEF EndFrame
  <2>4. /\ last \in [Unit -> Key \cup {NoKey}] /\ told \in [Unit -> Key \cup {NoKey}]
        /\ group \in [Key -> Seq(Unit)] /\ \A k \in Key \ keys : group[k] = <<>>
    BY DEF IInv, TypeOK
  <2>5. next' \in Nat \ {0} /\ keys' \subseteq Key
    BY <2>2, <2>3
  <2>6. \A k \in Key \ keys' : group'[k] = <<>>
    BY <2>2, <2>4
  <2>7. Between'
    BY <2>2, <2>3 DEF Between
  <2>8. issuing' \in BOOLEAN
    BY DEF EndFrame
  <2> QED BY ONLY <2>1, <2>2, <2>3, <2>4, <2>5, <2>6, <2>7, <2>8 DEF TypeOK
<1>3. ASSUME NEW u \in Unit PROVE UnitInv(u)'
  <2>1. Waiting(u)' = {} /\ Waiting(u) = {} /\ Noted(u)' = {}
    BY DEF EndFrame, Executed, map, Waiting, Noted
  <2>2. /\ age'[u] = Older(age[u], d) /\ silent'[u] = Older(silent[u], d)
        /\ single'[u] = Older(single[u], d) /\ told' = told /\ last' = last
    BY DEF EndFrame
  <2>3. age[u] \in Ages /\ single[u] \in Ages
    BY DEF IInv, TypeOK
  <2>4. age[u] >= single[u] => Older(age[u], d) >= Older(single[u], d)
    BY <2>3 DEF Older, Ages
  <2>5. Settled(u)'
    BY <2>1, <2>2, <2>4 DEF IInv, UnitInv, Settled
  <2>6. Handled(u)'
    BY DEF EndFrame, Handled
  <2> QED BY <2>1, <2>5, <2>6 DEF UnitInv, OneNote, WaitingIsLast, Overdue
<1> QED BY <1>2, <1>3 DEF IInv

LEMMA Initially == Init => IInv
<1> SUFFICES ASSUME Init PROVE IInv
  OBVIOUS
<1> USE UnitCommandsAssumption DEF Init
<1>1. TypeOK /\ Between
  <2>1. commands \in Seq(Command) /\ calls \in Seq(Seq(Unit)) /\ group \in [Key -> Seq(Unit)]
    OBVIOUS
  <2>2. /\ last \in [Unit -> Key \cup {NoKey}] /\ told \in [Unit -> Key \cup {NoKey}]
        /\ age \in [Unit -> Ages] /\ silent \in [Unit -> Ages] /\ single \in [Unit -> Ages]
    BY DEF Ages
  <2>3. \A k \in Key \ keys : group[k] = <<>>
    OBVIOUS
  <2>4. keys \subseteq Key /\ next \in Nat \ {0}
    OBVIOUS
  <2>5. issuing \in BOOLEAN
    OBVIOUS
  <2>6. Between
    BY DEF Between
  <2> QED BY ONLY <2>1, <2>2, <2>3, <2>4, <2>5, <2>6 DEF TypeOK
<1>2. ASSUME NEW u \in Unit PROVE UnitInv(u)
  BY DEF UnitInv, OneNote, WaitingIsLast, Handled, Settled, Overdue, Noted, Waiting, Ages
<1> QED BY <1>1, <1>2 DEF IInv

LEMMA Step == IInv /\ [Next]_vars => IInv'
<1> SUFFICES ASSUME IInv, [Next]_vars PROVE IInv'
  OBVIOUS
<1>1. CASE UNCHANGED vars
  <2>1. TypeOK' /\ Between'
    BY <1>1 DEF IInv, TypeOK, Between, vars, issued, map, game
  <2>2. ASSUME NEW u \in Unit PROVE UnitInv(u)'
    <3>1. UNCHANGED <<commands, next, last, age, keys, group, told, silent, single>>
      BY <1>1 DEF vars, issued, map, game
    <3>2. Noted(u)' = Noted(u) /\ Waiting(u)' = Waiting(u)
      BY <3>1 DEF Noted, Waiting
    <3>3. OneNote(u)' /\ WaitingIsLast(u)' /\ Handled(u)'
      BY <3>1, <3>2 DEF IInv, UnitInv, OneNote, WaitingIsLast, Handled
    <3>4. Settled(u)' /\ Overdue(u)'
      BY <3>1, <3>2 DEF IInv, UnitInv, Settled, Overdue
    <3> QED BY <3>3, <3>4 DEF UnitInv
  <2> QED BY <2>1, <2>2 DEF IInv
<1>2. CASE \E u \in Unit, k \in Key : UnitCommand(u, k)
  BY <1>2, UnitCommandStep
<1>3. CASE IssueAllCommands
  BY <1>3, IssueStep
<1>4. CASE Filter
  BY <1>4, FilterStep
<1>5. CASE \E k \in Key : Execute(k)
  BY <1>5, ExecuteStep
<1>6. CASE \E d \in 1..MaxStep : EndFrame(d)
  BY <1>6, EndFrameStep
<1> QED BY <1>1, <1>2, <1>3, <1>4, <1>5, <1>6 DEF Next

-----------------------------------------------------------------------------
(* The theorems.                                                           *)

\* The invariant holds: a frame of UnitCommandManager keeps it in every step.
THEOREM Invariance == Spec => []IInv
<1> QED BY Initially, Step, PTL DEF Spec

\* The variables keep to their types, and what is not in the map is empty.
THEOREM TypeCorrect == Spec => []TypeOK
<1>1. IInv => TypeOK
  BY DEF IInv
<1> QED BY Invariance, <1>1, PTL

\* After a frame with different commands for a unit the remembered command and
\* the one carried out agree again, at the latest when the threshold is over
\* and the unit is given one (UnitCommandManager.cpp:117-146).
THEOREM InForce == Spec => []CommandInForce
<1>1. IInv => CommandInForce
  <2> SUFFICES ASSUME IInv, Executed, NEW u \in Unit, NEW k \in Key,
                      Noted(u) = {k}, single[u] >= Threshold
               PROVE  told[u] = k
    BY DEF CommandInForce
  <2>1. PICK i \in DOMAIN commands : commands[i].unit = u /\ commands[i].key = k
    BY DEF Noted
  <2>2. i < next
    BY DEF IInv, TypeOK, Executed, Filtered
  <2> age[u] \in Nat /\ single[u] \in Nat /\ Threshold \in Nat \ {0}
    BY UnitCommandsAssumption DEF IInv, TypeOK, Ages
  <2>3. last[u] = k /\ age[u] < Threshold
    BY <2>1, <2>2 DEF IInv, UnitInv, Handled
  <2>4. Waiting(u) = {}
    BY DEF Executed, Waiting
  <2> QED BY <2>3, <2>4 DEF IInv, UnitInv, Settled
<1> QED BY Invariance, <1>1, PTL

\* A command repeated in every frame is sent again when the threshold is over
\* (UnitCommandManager.cpp:121-128).
THEOREM GetsThrough == Spec => []RepetitionGetsThrough
<1>1. IInv => RepetitionGetsThrough
  <2> SUFFICES ASSUME IInv, Executed, NEW u \in Unit, Noted(u) # {}
               PROVE  silent[u] < Threshold
    BY DEF RepetitionGetsThrough
  <2>1. PICK i \in DOMAIN commands : commands[i].unit = u
    BY DEF Noted
  <2>2. i < next
    BY DEF IInv, TypeOK, Executed, Filtered
  <2>3. age[u] < Threshold
    BY <2>1, <2>2 DEF IInv, UnitInv, Handled
  <2>4. Waiting(u) = {}
    BY DEF Executed, Waiting
  <2> QED BY <2>3, <2>4 DEF IInv, UnitInv, Settled
<1> QED BY Invariance, <1>1, PTL

\* The game is told the same again only when the threshold is over, or after
\* different commands in one frame (UnitCommandManager.cpp:5).
THEOREM ToldOnce == Spec => NotToldAgain
<1>1. IInv => [\A u \in Unit, k \in Key :
                 Execute(k) /\ k \in Waiting(u) /\ told[u] = k /\ single[u] >= Threshold
                   => silent[u] >= Threshold]_vars
  BY DEF IInv, UnitInv, Overdue
<1> QED BY Invariance, <1>1, PTL DEF NotToldAgain

=============================================================================
