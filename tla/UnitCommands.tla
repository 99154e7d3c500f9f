----------------------------- MODULE UnitCommands -----------------------------
(***************************************************************************)
(* UnitCommandManager: Unit's methods only note their commands down; at    *)
(* the end of CCBot::OnStep issueAllCommands drops those that repeat the   *)
(* last command of their unit within FRAME_SKIP_THRESHOLD frames, regroups *)
(* the others in a map, and makes one call per group or per command.       *)
(*                                                                         *)
(* A key stands for a CommandAttribute (type, ability and target): the     *)
(* number of its place in the order of the map. `queued` is left out: it   *)
(* counts neither in the order nor in the comparison, and of the orders in *)
(* use only FirstPylonPlacementOrder sets it, one command a frame.         *)
(* A unit may be given several commands in a frame: CollectMineralsOrder   *)
(* lists a probe of an empty patch under other patches as well.            *)
(***************************************************************************)
EXTENDS Naturals, Sequences, FiniteSets

CONSTANTS Unit, Key,
          Groupable,   \* the keys for which isGroupable holds
          Threshold,   \* FRAME_SKIP_THRESHOLD
          MaxCommands, \* bound: commands in a frame
          MaxStep      \* bound: game frames between two observations

ASSUME UnitCommandsAssumption ==
  /\ Key \subseteq Nat \ {0} /\ Groupable \subseteq Key
  /\ Threshold \in Nat \ {0} /\ MaxCommands \in Nat /\ MaxStep \in Nat

(* Operators whose names end in _Mutant are variations of the definition   *)
(* that follows them; no specification uses them.                          *)
VARIABLES
  commands, next,   \* the commands of the frame, the one the first loop is at
  last, age,        \* lastIssuedCommand: the key, and the frames since its frameId
  keys, group,      \* groupedCommands: its keys, and the issuers under each
  issuing,          \* whether issueAllCommands is running
  calls,            \* the units of each call of the last round of the second loop
  told, silent,     \* what the game was last told of a unit, and frames since then
  single            \* frames since the unit was given different commands at once

issued == <<last, age>>
map    == <<keys, group>>
game   == <<calls, told, silent>>
vars   == <<commands, next, issued, map, issuing, game, single>>

\* An IssuedCommand nobody has assigned has the type NONE and equals no
\* command; its frameId, which is not initialised, is not read then.
NoKey == 0

Command == [unit : Unit, key : Key]

\* Frames are counted up to Threshold, and no comparison sees beyond it.
Ages        == 0..Threshold
Older(n, d) == IF n + d > Threshold THEN Threshold ELSE n + d

Noted(u)   == {commands[i].key : i \in {j \in DOMAIN commands : commands[j].unit = u}}
Waiting(u) == {k \in keys : \E i \in DOMAIN group[k] : group[k][i] = u}

TypeOK ==
  /\ commands \in Seq(Command) /\ next \in Nat \ {0}
  /\ last \in [Unit -> Key \cup {NoKey}] /\ age \in [Unit -> Ages]
  /\ keys \subseteq Key /\ group \in [Key -> Seq(Unit)]
  /\ \A k \in Key \ keys : group[k] = <<>>
  /\ issuing \in BOOLEAN /\ calls \in Seq(Seq(Unit))
  /\ told \in [Unit -> Key \cup {NoKey}] /\ silent \in [Unit -> Ages]
  /\ single \in [Unit -> Ages]

Init ==
  /\ commands = <<>> /\ next = 1
  /\ last = [u \in Unit |-> NoKey] /\ age = [u \in Unit |-> Threshold]
  /\ keys = {} /\ group = [k \in Key |-> <<>>]
  /\ issuing = FALSE /\ calls = <<>>
  /\ told = last /\ silent = age
  /\ single = [u \in Unit |-> Threshold]

-----------------------------------------------------------------------------
(* UnitCommand: an order, or a manager, commands a unit.                   *)
UnitCommand(u, k) ==
  /\ ~issuing /\ Len(commands) < MaxCommands
  /\ commands' = Append(commands, [unit |-> u, key |-> k])
  /\ single' = [single EXCEPT ![u] = IF Noted(u) \subseteq {k} THEN @ ELSE 0]
  /\ UNCHANGED <<next, issued, map, issuing, game>>

\* OnStep has come to issueAllCommands.
IssueAllCommands ==
  /\ ~issuing
  /\ issuing' = TRUE
  /\ UNCHANGED <<commands, next, issued, map, game, single>>

Repeats_Mutant(c) == last[c.unit] = c.key \* without the threshold

Repeats(c) == last[c.unit] = c.key /\ age[c.unit] < Threshold

Remember_Mutant(c) == \* a repetition is remembered as well
  /\ last' = [last EXCEPT ![c.unit] = c.key]
  /\ age'  = [age EXCEPT ![c.unit] = 0]

\* A repetition leaves the frame of the last command as it was.
Remember(c) ==
  IF Repeats(c)
    THEN UNCHANGED issued
    ELSE /\ last' = [last EXCEPT ![c.unit] = c.key]
         /\ age'  = [age EXCEPT ![c.unit] = 0]

Filter_Mutant == \* the frame of the last command is remembered, its key is not
  /\ issuing /\ next <= Len(commands)
  /\ LET c == commands[next] IN
       /\ keys' = keys \cup {c.key}
       /\ group' = IF Repeats(c) THEN group
                   ELSE [group EXCEPT ![c.key] = Append(@, c.unit)]
       /\ age' = IF Repeats(c) THEN age ELSE [age EXCEPT ![c.unit] = 0]
  /\ next' = next + 1
  /\ UNCHANGED <<commands, last, issuing, game, single>>

\* The first loop. The map gets the key also when the command is dropped.
Filter ==
  /\ issuing /\ next <= Len(commands)
  /\ LET c == commands[next] IN
       /\ keys' = keys \cup {c.key}
       /\ group' = IF Repeats(c) THEN group
                   ELSE [group EXCEPT ![c.key] = Append(@, c.unit)]
       /\ Remember(c)
  /\ next' = next + 1
  /\ UNCHANGED <<commands, issuing, game, single>>

Filtered == issuing /\ next > Len(commands)

\* One call for the whole group, or one for each of its commands.
CallsOf(k) ==
  IF k \in Groupable THEN <<group[k]>>
  ELSE [i \in DOMAIN group[k] |-> <<group[k][i]>>]

Turn(k) == \A other \in keys : k <= other

\* execute: the game does what it is told last.
Told(k) ==
  /\ told' = [u \in Unit |-> IF k \in Waiting(u) THEN k ELSE told[u]]
  /\ silent' = [u \in Unit |-> IF k \in Waiting(u) THEN 0 ELSE silent[u]]

Execute_Mutant(k) == \* the map outlives the call and its groups are not cleared
  /\ Filtered /\ k \in keys /\ Turn(k)
  /\ keys' = keys \ {k}
  /\ calls' = CallsOf(k)
  /\ Told(k)
  /\ UNCHANGED <<commands, next, issued, group, issuing, single>>

\* A round of the second loop.
Execute(k) ==
  /\ Filtered /\ k \in keys /\ Turn(k)
  /\ keys' = keys \ {k}
  /\ group' = [group EXCEPT ![k] = <<>>]
  /\ calls' = CallsOf(k)
  /\ Told(k)
  /\ UNCHANGED <<commands, next, issued, issuing, single>>

Executed == Filtered /\ keys = {}

\* The commands are cleared, and the game goes on for d frames.
EndFrame(d) ==
  /\ Executed
  /\ commands' = <<>> /\ next' = 1 /\ issuing' = FALSE /\ calls' = <<>>
  /\ age' = [u \in Unit |-> Older(age[u], d)]
  /\ silent' = [u \in Unit |-> Older(silent[u], d)]
  /\ single' = [u \in Unit |-> Older(single[u], d)]
  /\ UNCHANGED <<last, map, told>>

Next ==
  \/ \E u \in Unit, k \in Key : UnitCommand(u, k)
  \/ IssueAllCommands
  \/ Filter
  \/ \E k \in Key : Execute(k)
  \/ \E d \in 1..MaxStep : EndFrame(d)

Spec == Init /\ [][Next]_vars

-----------------------------------------------------------------------------
(* Properties.                                                             *)

\* When a unit is given two different commands in a frame, the one the map
\* puts last is carried out and the one given last is remembered
\* (UnitCommandManager.cpp:127, :132); from then on the remembered one is
\* dropped as a repetition although the game does something else. This does
\* not last: Threshold frames later a unit that is given one command does it.
CommandInForce ==
  Executed => \A u \in Unit : \A k \in Key :
    Noted(u) = {k} /\ single[u] >= Threshold => told[u] = k

\* A unit that is commanded has been sent a command in the last Threshold
\* frames: repetitions do not put off the next one that gets through
\* (UnitCommandManager.cpp:121-128). Retries rely on it when the game has
\* refused or interrupted a command.
RepetitionGetsThrough ==
  Executed => \A u \in Unit : Noted(u) # {} => silent[u] < Threshold

\* The game is not told the same thing again within Threshold frames
\* (UnitCommandManager.cpp:5), except about units that were lately given
\* different commands in one frame.
NotToldAgain ==
  [][\A u \in Unit, k \in Key :
       Execute(k) /\ k \in Waiting(u) /\ told[u] = k /\ single[u] >= Threshold
         => silent[u] >= Threshold]_vars

\* Every call commands some unit: the class is there "to remove redundant
\* calls to api" (UnitCommandManager.h:10).
NoEmptyCall == \A i \in DOMAIN calls : calls[i] # <<>>

===============================================================================
