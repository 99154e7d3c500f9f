# A TLA+ model of sc2_macro_machine

`src/bot` is a bot that plays StarCraft II as Protoss. The game calls `CCBot::OnStep` once per
observation; the bot keeps its own picture of the game in a dozen managers and sends commands
back. This directory models the managers whose state has to agree with each other and with a game
that answers late: building tasks, workers, squads, reserved resources and tiles; what is built next;
scouts, the cannon rush and the army with what is believed of the enemy; and the analysis of cannon
placements, which is the only part that runs on other threads.

- `*.tla` without prefix: the models. `MC*.tla`, `*.cfg`: instances for TLC. `*Proofs.tla`: theorems
  checked by TLAPS.
- `tlc -config BuildTasks.cfg MCBuildTasks` checks a run, `tlapm BuildTasksProofs.tla` a proof module.
- `PROJECT.json` lists components, runs, mutants (one broken variant of the code per property, which
  the property must detect), hazards, findings and, under `map`, the source lines behind every
  definition.

## 1. Inventory

### The frame

`CCBot::OnStep` (`general/CCBot.cpp:58`) is sequential:

| order | call | what it does |
|---|---|---|
| 1 | `handleErrors` | action errors of the last observation to `BuildingManager::handleError` |
| 2 | `UnitInfoManager::onFrame` | callbacks for units seen the first time, then for missing ones, then destruction of the missing `Unit`s |
| 3 | `MapTools`, `BaseLocationManager` | recalculation of maps |
| 4 | `EconomyManager::onFrame` | copies minerals and vespene from the observation |
| 5 | `WorkerManager::onFrame` | dissolves completed squads, rebalances lines, assigns free probes |
| 6 | `SquadManager::onFrame` | every squad's order makes one step, in id order |
| 7 | `BuildingManager::onFrame` | erases completed and failed tasks |
| 8 | `Strategy`, `GameCommander` | macro manager (every third frame), modules, fighting |
| 9 | `UnitCommandManager::issueAllCommands` | sends the commands of the frame |

So nothing in the frame is concurrent, but the game is: commands are answered frames later, units die
at any time, and each manager keeps raw pointers into what another manager owns. What makes the code
hard is the *order* of steps 1 to 8 and what can happen between two frames. The exception is
`BasicAnalyser`, which runs on a `std::async` thread beside the frame.

### Components

| component | state | operations | hard part | correct when |
|---|---|---|---|---|
| building tasks | tasks with status, worker, building; an order per builder squad with a pointer to its task | `newTask`, `scheduled`, `ordered`, `buildingPlaced`, `workerDied`, `buildingDied`, `placementFailure`, erasure | pointers across managers, late errors, several tasks on one site | no dangling task, a builder when one is used, a building when one is read, tasks only go forward |
| economy | observed and reserved minerals, vespene | `reserveResource`, `freeResource`, `useResource`, `allocateWithCap` | a task can end in six ways; switches without `break` | what is reserved is the price of the tasks still to be ordered |
| workers | the bases' mineral and vespene squads, additional squads | `fixResourceLines`, `assignUnit`, `assignFreeUnits`, `formSquad`, completed squads | positions counted before the loop, moves that may undo each other | balanced lines, probes settle, builders come back |
| gathering orders | a list of probes per patch / assimilator and of the unassigned | `onUnitAdded`, `onUnitRemoved`, `onStep`, `assignWorkers` | state duplicated from the squad | the lists name the squad's probes, each once |
| squads | squad of a unit, units of a squad, order of a squad | transfers, `deformSquad`, callbacks | adds before it removes, orders called back in the middle | the squads partition the units |
| bases, resources | bases, assimilators, patches | nexus / assimilator / patch appears, completes, disappears | lines are dissolved while orders run | no probe is lost with its base |
| building placer | reserve map | `reserveTiles`, `freeTiles`, location search | freed by any building's disappearance, never by a lost builder | a place is planned for one task at a time |
| unit bookkeeping | `Unit` per tag | callbacks, `getBuildingCount` | order of callbacks | requests are counted once |
| cannon analysis | maps, one atomic pointer, three atomic flags, a future | `recalculate`, `analyzeAsync`, `analyze`, exchange, `requestCancel`, `cleanup` | threads | no race on the maps, no leak or double deletion, no lost request |
| cannon opening order | unbuilt, scheduled pylons and cannons, allocated minerals | `onStep`, `processBuilding` | builds beside the building manager | the rush ends and hands over to macro |
| unit commands | commands of the frame, last command per unit | `UnitCommand`, `issueAllCommands` | suppression of repeats, regrouping | the last command given is the one in force |
| production, build managers | priorities | `getTopPriority`, `produceBuilding`, `produce` | decisions over counts that lag | no building asked for twice, goals kept, supply in time |
| fighting | main and waiting squad, a defensive squad per base | `reformSquads`, attacks, drafts | squads chosen by orders that the same frame replaces | no fighter lost, bases defended |
| scouts | squad ids in the modules | `assignScoutSquad`, promotion, `validateSquadId`, end of orders | ids are kept by one class, squads dissolved by another | every probe comes back |
| strategy, enemy bases | current, target strategy; expected and occupied bases | `onFrame`, callbacks | timers | scouting has somewhere to go |
| walls | chosen placement, parts alive | search, verification, callbacks | graph search | a chosen wall is a wall |
| maps, distances | grids | breadth-first searches | boundaries | distances are shortest |

`PROJECT.json` gives files and status for each, and, under `hazards`, the lines where they bite.

## 2. Modules

| module | models | instances | proofs |
|---|---|---|---|
| `BuildRequests` | what the building tasks promise those who only count them (abstract) | through `BuildTasks` | |
| `BuildTasks` | building tasks with economy, squads, placer and the part of `WorkerManager` they meet | `MCBuildTasks` | `BuildTasksProofs`, `LedgerProofs` |
| `WorkerLines` | `WorkerManager`, `BaseWorkers`, both gathering orders | `MCWorkerLines` | `WorkerLinesProofs` |
| `CannonAnalyser` | `CannonStartModule::onFrame` against `BasicAnalyser`'s threads | `MCCannonAnalyser` | `CannonAnalyserProofs` |
| `UnitCommands` | `UnitCommandManager`: suppression of repeated commands, grouping | `MCUnitCommands` | `UnitCommandsProofs` |
| `EnemyBases` | `EnemyBasesManager`, our bases, the timer of `Strategy` | through `Combat` | in `CombatProofs` |
| `Opening` | `CannonStartModule`'s squads, `FirstPylonPlacementOrder`, `ScoutModule`; extends `EnemyBases` | through `Combat` | in `CombatProofs` |
| `Army` | `CombatManager`'s squads and the defensive squads; extends `EnemyBases` | through `Combat` | in `CombatProofs` |
| `Combat` | the frame that composes the three | `MCCombat` | `CombatProofs` |
| `Macro` | the build managers and `MacroManager` | `MCMacro` | `MacroProofs` |
| `Sums` | no code: facts about the sums and folds `LedgerProofs` and `WorkerLinesProofs` need | | itself |

### BuildTasks

`phase` walks through the frame: `errors`, `new`, `gone`, `economy`, `workers`, `squads`,
`buildings`, `macro`. Any number of events of a kind can happen in the phase that learns of them.

| variable | code |
|---|---|
| `status`, `plan`, `worker`, `building`, `nextId` | `BuildingManager::m_tasks`, `BuildingTask::m_status, m_type, m_position, m_worker, m_building`, `currentBuildingTaskID` |
| `squads`, `member`, `ended`, `todo` | the builder squads in `SquadManager::m_squads` and `WorkerManager::m_additionalSquads` (task `i` has squad `i`), `Order::m_completed`, the squads that have not acted yet |
| `unassigned`, `mining`, `gas`, `lent` | the unassigned squad, the lines of all bases, squads formed for the opening and for scouts |
| `bank`, `reserved` | `m_minerals, m_vespene`, `m_reservedMinerals, m_reservedVespene` |
| `tiles` | `BuildingPlacer::m_reserveMap`, a site at a time |
| `built`, `cmd` | the game: what stands on a site; the build command a probe is carrying out |

| action | code |
|---|---|
| `HandleError` | `handleErrors`, `handleError`, `placementFailure`, `freeTiles` |
| `NewStructure`, `StructureCompletes`, `NewWorker` | `updateUnits`, first loop, and its callbacks |
| `WorkerGone`, `StructureGone`, `OtherBuildingGone`, `BaseGone` | `updateUnits`, missing units |
| `Economy`, `Workers` | `EconomyManager::onFrame`, `WorkerManager::onFrame` (any way of sharing out) |
| `StartMoving`, `OrderBuilding`, `Wait`, `EndOrder` | one `Squad::act` with `BuildingOrder::onStep` |
| `OpeningActs`, `LendWorker` | `FirstPylonPlacementOrder::onStep`, `formSquad` |
| `EraseTasks` | `BuildingManager::onFrame`: `completed()` and the erasure, so no state has status `COMPLETED` |
| `ProduceBuilding`, `ProduceNothing` | `MacroManager::onFrame`, `produceBuilding` |

Abstractions. A structure is identified with its site (two structures never share one). The income
expected during a walk is chosen from `Income`, the type and site of a request from `Plan`: whatever
the build managers and the search decide. A geyser or expansion may be planned again although a task
holds it (`Unreserved`), as their searches do not read the reserve map. What training and upgrades
spend is left out; the bank of the next frame is any value of `Bank` anyway. `StaleCommands` says
whether a probe that returned to mining may keep its build command (its line's order has ended, see
the finding below); `Opening` whether the cannon opening is played. In the ordinary game both are
off, and the ledger is exact; the second run has both on.

Properties.
- `NoDanglingTask`: an order that will be stepped has a live task. It depends on the squads acting
  between the failure of a task and its erasure.
- `BuilderPresent`: when the order uses `*units().begin()`, the task's worker is there, alone, and in
  no other squad.
- `BuildingPresent`: when `BuildingManager::onFrame` reads a building, it still exists.
- `LedgerExact`, `LedgerCovers`: what is set aside against the pending tasks, whatever ended the
  others. In the opening a late error for an old command of the same probe leaks the price
  (`placementFailure` returns nothing), so only `>=` holds.
- `OnePendingWithoutGas`: the fall-through of the switches serialises the build-up.
- `RequestsKept`: the refinement of `BuildRequests`; a late error or a second building never brings
  a request back.
- `BuilderReleased`, `OrderAnswered`: liveness. A task that is ordered has no timeout in the code.

### WorkerLines

`stage` is the place in the frame: `events` (what the game reports, and the probes tasks take or give
back), `fix` and `assign` (`WorkerManager::onFrame`, a step per moved probe), `lines` and `mining`
(the orders of a base; a step per assigned mineral probe).

| variable | code |
|---|---|
| `squad` | `SquadManager::m_units` and `Squad::m_units` |
| `line[<<"mineral", b>>]` | `CollectMineralsOrder::m_mineralToWorker`, `m_unassignedWorkers`, `Order::m_completed` |
| `line[<<"vespene", b>>]` | `CollectVespeneOrder::m_assimilatorToWorker`, `m_unassignedWorkers` |
| `nexus`, `minerals`, `geyser` | bases, `BaseLocation::m_minerals`, assimilators (active, exhausted or destroyed) |
| `pass`, `room` | the four loops of `fixResourceLines`, `availableWorkerPositions` |
| `todo` | bases whose orders have not stepped |

Abstractions. Bases, patches and assimilators are numbered as the code's vectors and maps order them;
an assimilator built again on a geyser is the next number. Which patch is nearest decides between
mineral lists of equal length, so any of them may be chosen. Which probe of a crowded squad is moved
first (pointer order) is any. A base is there from the completion of its nexus: before, its lines
have no members, since `getCompletedBases` leaves it out. `assignWorkers` of the vespene order without
any list reads the end of the map; no id matches, there is no active assimilator, and the loop stops.
The commands given to probes are left out.

Properties.
- `VespenePlacement`: the vespene order's lists name each probe of the squad exactly once and nobody
  else. (The mineral order does not keep this: see below.)
- `VespeneBalanced`: after `WorkerManager::onFrame` no base has too many vespene probes while another
  has too few, at two and at three per assimilator, although positions are counted before the loop.
- `MovesFindRoom`: each probe that `fixResourceLines` moves goes to a line that has a place for it: under
  three a source, and under the saturation of the pass if it is of the pass's type. `assignUnit` chooses
  without knowing of the pass; only the count keeps it from putting a probe back, or into a full line.
- `EveryProbeMines`: a running mineral order leaves no probe without a live patch.
- `Settles`: without further events the two passes and the assignment stop moving probes.
- `VespeneServed`: no probe waits for ever although an assimilator is active.

What the model shows of the mineral order beside the finding: a probe of a patch that is mined out is
listed under a live patch and stays in the dead one's list; `onUnitRemoved` forgets only the first of
the two, and none of the unassigned, so a list may name a probe that has left the squad or died
(`Unit.h:14` forbids keeping such pointers). No property forbids it, because it happens.

### CannonAnalyser

Each access to an atomic of `BasicAnalyser` is a step. `loop` is the place of the frame loop in
`CannonStartModule::onFrame` or in `cleanup`, `thread[r]` the place of the thread of analysis `r` in
`analyze`. A slot of `Run` is a thread and the `BaseAnalysis` it makes; it is reused when both are
gone. The recursion, the choice of a placement and the scouts are left out: `onFrame` may reach the
analysis in any frame, with or without a recalculation (the timer of 200 frames).

- `SingleOwner`: as long as the rush goes on every analysis has one owner or was deleted once.
- `OneBehindTheFuture`: never more than two analyses run, and apart from the assignment to
  `lastCalculationFuture`, which waits, never one that the future does not know.
- `FlagDownAtRest`: when no thread runs, `analysing` is down.
- `RecalculationServed`: a new building leads to a recalculation or the rush ends.

What the model shows beside the finding, where no doc or comment says otherwise: after
`requestCancel`, and at exit, `cleanup` deletes the published analysis and leaves the pointer, so a
thread that is still at work, or the destructor after a cancel, deletes it a second time
(`SingleOwner` is therefore stated for the time of the rush); `cancelRequested` is never taken back;
a result taken between the exchange (`BasicAnalyser.cpp:146`) and the increment of the revision
(`:151`) is overlooked until the next analysis; the assignment to the future makes the frame loop
wait for the old thread.

### UnitCommands

A frame is the commands noted down (`UnitCommand`), then `issueAllCommands`: its first loop (`Filter`,
a step per command), its second (`Execute`, a step per key of the map, lowest first), the end. `last`
and `age` are `lastIssuedCommand`, `keys` and `group` are `groupedCommands`. `told`, `silent` and
`single` are what the game has been told of a unit, how long ago, and how long ago the unit was given
different commands in one frame; they decide nothing and are there for the properties. Commands are
keys, numbered as `CommandAttribute::operator<` orders them, and ages are counted up to the threshold.
The flag `queued` is left out; it counts neither in the order nor in the comparison.

- `CommandInForce`: after a frame with different commands for a unit, what is remembered and what the
  game does may differ, and the right command is then dropped as a repetition; Threshold frames later
  a unit that is given one command does it. The probes `CollectMineralsOrder` lists under several
  patches (see WorkerLines) are given different commands in one frame, in every frame.
- `RepetitionGetsThrough`: suppression never lets a commanded unit go without for the threshold.
- `NotToldAgain`: otherwise the game is not told the same within the threshold.

### Combat: EnemyBases, Opening, Army

`Combat` walks through a frame: `events` (callbacks in any number and order; then `WorkerManager` and
`SquadManager`), `strategy` (`EnemyManager`, `Strategy`), `combat` (`CombatManager`, `CannonStartModule`)
and, outside the opening, `scout` (`ScoutModule`, which returns at once in the opening).

| variable | code |
|---|---|
| `expected`, `occupied`, `depots` | `EnemyBasesManager::m_expectedBaseLocations`, `m_occupiedBaseLocations`, `m_depots` |
| `ours`, `ready` | locations of `BasesManager::m_bases`, and of `getCompletedBases` |
| `current`, `target`, `noted` | `Strategy::currentStrategy`, `targetStrategy`, `CannonStartModule::strategy` |
| `squad` | the squads in `m_additionalSquads` that scout or rush: order, `m_completed`, a probe or none |
| `main`, `sub`, `scout` | `m_mainSquad`, `m_subSquad`, `m_basesScoutID` |
| `needed`, `unbuilt`, `scheduled`, `cannonDue`, `allocated` | the `FirstPylonPlacementOrder` of the main squad |
| `command`, `refused` | the game: what the placer does; whether a pylon has been refused |
| `newcomers`, `army`, `left`, `defended`, `lost` | fighters of the unassigned, main, left-over and defensive squads, and of those of lost bases |
| `attack`, `drafted` | the main squad's order; whether this frame called `addDefensiveUnitsToAttack` (for `Defended`) |

| action | code |
|---|---|
| `EnemyEvent`, `BaseEvent` | callbacks for enemy depots, for our nexuses |
| `ProbeEvent` | `processBuilding`, `onUnitRemoved` of the orders, refused commands |
| `ArmyEvent`, `DefenderStays` | `addUnitCallback`, `removeUnitCallback`; `Base::onDestroyed` |
| `SquadsFrame` | dissolved squads, one step of each order: `RushActs`, `ArmyActs`, scouts that have seen all |
| `StrategyFrame` | `EnemyBasesManager::onFrame`, the timer, the change of strategy |
| `CombatFrame` | `reformSquads` and the rest of `CombatManager::onFrame` (`Reform`, `Main`), then `updateStrategy` and the squads of the opening |
| `LastFrame` | `ScoutModule::onFrame` |

Abstractions. A squad of the opening has at most one probe, as `formSquad(1)` gives it. The id of a
squad that nobody remembers and that is empty is used again; an empty squad that `ScoutModule` has
forgotten stays in `m_additionalSquads` for ever in the code (its order never ends) and does nothing.
The ids that `CannonStartModule` still holds of squads that are gone are forgotten outside the opening,
where nobody asks for them. Fighters are counted; at most one is trained in a frame. Which locations are visible is any choice that
includes our own, and so is whether the timer is due. The placement has between
`MinPylon` and `MaxPylon` pylons, in the code 2 and 3 (`BasicAnalyser.cpp:143`); prices are in units of
50. Whether a placement, a pylon, a forge or enough minerals are there is a choice; what is left of the
minerals when the rush acts, a frame after they were found sufficient, is one too.

- `KnownOnce`: a location is never both expected and occupied, through depots that are seen, lost,
  or fly away.
- `NothingLeftBehind`: a probe whose order has not ended is in a squad some module remembers.
- `HalfPaid`: the rush asks for nothing before half of its price is set aside. Only half: what
  `allocateWithCap` returns is counted twice (`FirstPylonPlacementOrder.cpp:20`, `:21`).
- `Defended`: without a draft every ready base has a defender, or the squad that gives them is empty.
- `FightersKept`: no step of a frame changes the number of fighters.
- `ScoutsReturn`: after the opening every probe comes back.
- `RushEnds`: the rush ends, or it waits (`Waiting`) for a pylon that has left `unbuiltPylons`, stays in
  `scheduledPylons`, and that the placer has no command to build any more. There are two ways there.
  The game may refuse the pylon. Or it is asked for with half of the price, the other half is not there
  in the next frame, and the order's own move replaces the build command
  (`FirstPylonPlacementOrder.cpp:24`); so the second part of the property says that once all of
  the price is allocated nothing but a refusal, or the placer's death, stops the rush. TLC refutes
  either part without its exception.
- `Mustered`: enough fighters attack, also when every location has been found clear.

What the model shows beside the properties, where no doc or comment says otherwise: a defender of a
lost base is never asked for again (`lost`); as long as no target is known a large army drafts and
re-assigns the defenders in every frame; the army of an attack that was wiped out is refilled by waves
of `JoinSize`, six, not eight, since its order stays; a placement with pylons is paid without its cannon.

### Macro

A step is a choice of `MacroManager::onFrame` that can be produced, or something the game does. Items
are a type and a priority; `Tops` are the first of the highest items, in the managers' order.

| variable | code |
|---|---|
| `strategy` | `Strategy::currentStrategy`: managers and goals |
| `done`, `tasks`, `rising` | completed buildings and open tasks per type (`getBuildingCount`), nexuses under construction |
| `probes`, `fighters`, `training`, `arming` | `getUnitTypeCount`; nexuses and gateways that train |
| `losses` | bound |

| action | code |
|---|---|
| `Produce` | `getTopPriority` of all managers, `produceIfPossible`: `Order` (`produceBuilding`), `Train` (`produce`) |
| `SwitchStrategy` | `Strategy::onFrame` |
| `NexusPlaced`, `Completes`, `TaskFails` | `newBaseOccupied`, the end of a task, its failures |
| `RushPylon` | a pylon of `FirstPylonPlacementOrder`, which is no task |
| `Trained`, `Loss` | units and buildings that appear and disappear |

Abstractions. A task is open or not; what happens in between is in `BuildTasks`. The income enters as
the number of gates it is good for, up to `MaxGates`, chosen anew each time; whether the enemy is seen
to have fewer bases is a choice too. Warp gates are left out: the bot does not research them. Any probe
is a free worker. What the bases still have to mine is a choice too, made anew each time, between nothing
and what they had when they were fresh (`Required`, read by `ExpandBuildManager` only); in the code it
dwindles, so the model allows more than the code does. Pylons are counted up to `MaxPylons`, which give all the supply there is
(`MacroAssumption`).

- `WorkersWithinGoal`: probes exceed the goal only by those in production at other nexuses.
- `NothingTwice`: one forge, one core, no base beyond half of the locations, no gateway beyond the
  income, although counts and tasks lag.
- `SupplyServed`: a supply block ends, or the game's limit is used.
- `CoreComes`: the cybernetics core comes in the end, except near the game's limit, and except when the
  last pylon is lost while all probes are there and the nexuses carry them (`Unpowered`): then
  `SupplyBuildManager` asks for nothing, and `TechBuildManager` and `ProductionManager` wait for a pylon.
  At the game's numbers seven nexuses do (105 supply for 80 probes), so the instance's two do as well. TLC
  refutes the property without either exception.

What the model shows beside them: at 200 of 200 supply `availableSupply <= currentSupply` holds for
ever, so pylons are asked for with priority 1000 and everything else waits (hence the exceptions in
both liveness properties). `Strategy.h:26` speaks of a goal of bases; the test in
`ExpandBuildManager.cpp:15` forbids to expand up to the goal and allows it beyond, so in the opening
(goal 1) a lost nexus is not replaced. The branch of `getExpectedExtraSupply` for a nexus over 75 % never runs,
because `getUnits(player, type)` returns completed units only (`UnitInfoManager.cpp:132`).

## 3. Runs

| run | question | bounds | distinct states |
|---|---|---|---|
| `BuildTasks` | ordinary game, safety and refinement | 2 probes, 2 sites, 3 types, 3 tasks | 940 000 |
| `BuildTasksOpening` | cannon opening, stale commands | 2 probes, 2 sites, 2 tasks, at most 1 mineral lent | 2 800 000 |
| `BuildTasksLive` | builders come back, orders are answered | as above, 2 tasks | 140 000 |
| `WorkerLines` | placement and balance | 4 probes, 2 bases, 3 patches, 4 assimilators, 5 events | 1 600 000 |
| `WorkerLinesLive` | settling | 3 probes, 2 patches, 3 assimilators, 3 events | 31 000 |
| `WorkerLinesEnd` | finding | 3 probes, 4 events | |
| `CannonAnalyser` | ownership, waiting, liveness | 4 slots | 35 000 |
| `CannonAnalyserRace` | finding | 4 slots | |
| `UnitCommands` | suppression, grouping | 2 units, 3 keys (2 groupable), 3 commands a frame, steps of 1 or 2 frames, threshold 5 | 2 600 000 |
| `UnitCommandsCalls` | finding | as above | |
| `Combat` | belief, scouts, rush, army | 2 locations, 1 depot that can fly, 3 squads, 2 pylons, 3 fighters, attacks and waves of 2 | 300 000 |
| `Macro` | what is asked for next | supply up to 7 (nexus 4, pylon 3), 2 bases, goals of 3 probes, 1 gateway, 3 pylons, 1 loss | 86 000 |

Why the bounds are enough. *BuildTasks*: `MaxTask` caps the tasks of a behaviour, and three let two
be open while a third is created, or two share a geyser while a third replaces a failed one; two
probes let one die while the other builds, and a probe come back and build again. Three types tell
mineral and vespene prices apart, and reserved from unreserved sites. `MaxLent` caps what the opening
leaks, which would otherwise grow without bound. *WorkerLines*: four probes overfill one assimilator
while another is open (the limit is three) and `MaxEvents` caps events, of which five open two
assimilators, close one and train or kill a probe; the first base runs out of assimilators while the
second opens its own, so moves between bases happen. The first base has two patches, so that one is mined
out beside a live one; the second has one, so that mineral probes are moved between bases too. *UnitCommands*: units meet only in the
groups, so two of them, three keys of which one lies between the groupable ones, and three commands
let a unit be given A, B, A in a frame, in every order the map may reverse. *CannonAnalyser*: an
analysis is owned by its thread, by the pointer, by a thread that took it out, or by the module, and
needs a slot for each. *Combat*: three squads are the most the modules remember at once. A placement
has two pylons, the smaller size the analysis finds and the one the module prefers: one is asked for
while another is still to be paid, one is the last, and the cannon comes after both; with placements of
two or three (430 000 states) the run finds no error either. Three fighters attack with two while a
third waits or defends; two bases, one of them lost, expanded to or in the enemy's hands, let `Chosen`
have more bases than fighters and the reverse; one depot is seen, flies, is lost and seen again.
*Macro*: the numbers keep what the game's decide. One nexus does not carry the probes of a goal and
what it may train, all nexuses together do (105 of supply for 80 probes and twice seven); a nexus gives
more than a pylon, pylons reach the limit by themselves, and the slack is not below the number of
bases. So each manager's item occurs with every other one, and so do blocks and nexuses that need no
pylon. The two goals are equal; with goals of 3 and 4 and a limit of 8 (130 000 states) the run finds no
error either. One loss takes any unit or building, and with it a count back.
Symmetry is used in safety runs only, over probes, slots or units, and none of the models chooses among
them by `CHOOSE`, except `Refund`, whose set never has two tasks (theorem `OneTaskEach`).

Deadlock is checked in all runs but `Macro`: with no probe left, or with everything built and the
limit used, there is nothing to do, and choices that cannot be produced are no steps.

Fairness. `WF_vars(Next)` in BuildTasks, `WF_vars(Frame)` in WorkerLines: the game calls `OnStep`
again and again and no step of a frame blocks. In WorkerLines events are bounded, so they stop;
without that nothing could settle. `SF_vars(Answer(w))` in BuildTasks: the game answers a build command, in some
frame, with a structure or an error. The code has no timeout, so `OrderAnswered` is exactly as good
as that assumption. In CannonAnalyser the loop's and each thread's steps are weakly fair; leaving the
strategy, shutting down and new buildings are not. In Combat the frame is weakly fair; the timer is due
again and again (it is, every 120 s), now and then the economy has the minerals the rush lacks, and the
game carries out a command that is given again and again (`SF`, since deaths and refusals may come in
between; without it no rush could end). Events are not fair: nothing has to die, be seen or be lost. In
Macro `WF_vars(Produce)` says that resources are there in the end; training is weakly fair; a building
other than the forge, asked for again and again, stands in the end (`SF`), however many tasks fail.

## 4. Findings

1. `CannonAnalyserRace`. `recalculate` tests `analysing` before it rewrites the maps, and its log
   message says why: "UB will happen if you non-atomically modify vectors." (`BasicAnalyser.cpp:16`).
   The flag is raised by the analysis thread (`:79`), not before it is started (`:174`), so a new
   building in the next frame can have the maps rewritten under an analysis that begins late.
2. `WorkerLinesEnd`. `CollectMineralsOrder` ends, its comment says, when "no minerals exist"
   (`CollectMineralsOrder.cpp:98`), and it means to "clear empty patches" (`:26`). It never erases
   them, takes one as the shortest list and ends for good while other patches are live; probes that
   join the line later are given nothing to do, and those taken from it keep their old command.
3. `UnitCommandsCalls`. The class is there "to remove redundant calls to api"
   (`UnitCommandManager.h:10`). The map gets a command's key (`UnitCommandManager.cpp:118`) before the
   command is dropped (`:123`), so a groupable key is executed with no units (`:141`): a unit
   that attacks the same point in every frame makes an empty call in each of them.

## 5. Proofs

All theorems hold for every value of the constants that satisfies the named assumptions
(`ConstantsAssumption`, `RunAssumption`, `WorkerLinesAssumption`), which TLC evaluates in every run.

*BuildTasksProofs.* `Invariance` proves the inductive invariant `IInv`. None of the properties is
inductive alone. `BuilderPresent` needs `OpenTaskHasSquad` (the order of an open task has not ended
and its squad holds its worker), which survives a transfer only because the squads are disjoint
(`OneSquadPerUnit`). `NoDanglingTask` needs `ActedOrdersEnded`: in phases `squads` and `buildings`
the squads that have acted have ended if their task is over, hence an erased task has no running
order. `KnownIds` says that ids not given out yet are clean. From `IInv` follow `TypeCorrect`,
`OrdersHaveTasks`, `BuildersStay`, `OneTaskEach` (not a property of a run), `BuildingsStay` and
`Refinement`: each action is a `Request`, `Place`, `Abandon` or `Close` of `BuildRequests`, or
invisible. `OnePending` assumes in addition that neither the bank nor the income has vespene
(`NoVespene`): then a pending task keeps the reserved vespene above zero and no request passes
the test of `produceBuilding`.

*LedgerProofs*, resting on *Sums.* `LedgerIsEnough` proves `LedgerCovers` with no further assumption:
`LedgerSteps` sorts the steps by what they do to the ledger (a task enters, leaves with its price, or is
forgotten with it; the opening sets minerals aside; nothing), and `LedgerMoves` follows the sum. A death
or an error names one pending task at most, because open tasks have disjoint squads (`IInv`).
`LedgerIsExact` proves `LedgerExact` when the opening is not played (`~Opening`) and a probe that returns
to a line is commanded at once (`~StaleCommands`): then only builders of ordered tasks have a build
command (`NoStrayCommand`), so `placementFailure` never meets a task whose price is still set aside.
The sum is the recursive function of the library's fold. `Sums` shows that this function exists and is
unique (`SumExists`, `SumUnique`), and that any task may be taken out first (`SumRemove`), each time by a
smallest set for which the claim would fail (`Smallest`).

*CannonAnalyserProofs.* `IInv` splits ownership into `PointersValid` (what is pointed to is published
and not deleted), `PointersApart` (no two pointers agree) and `NothingLost` (what is published and
not deleted is pointed to), all under the condition that the rush goes on, together with
`OneBehindTheFuture` and `FlagHeld` (a raised flag has a thread that will lower it). `Ownership`,
`Threads` and `FlagLowered` follow.

*UnitCommandsProofs.* The properties speak of the end of a frame, the invariant of each step of both
loops. `WaitingIsLast` ties what is still to be sent to what is remembered, `Handled` says what the
first loop leaves behind, and `Settled` is the core: with nothing to be sent, `silent` and `age`
agree, and what the game was told differs from what is remembered only if a mixed frame is at least
as recent as the last command remembered. `InForce`, `GetsThrough` and `ToldOnce` (from `Overdue`)
follow, for every threshold and every set of groupable keys.

*WorkerLinesProofs*, resting on *Sums.* `IInv` has a part for each of the three ways to go wrong.

- Lists. `Lines` is `VespenePlacement` with the types and with `MineralKnown`: while the mineral order
  runs, each probe of its squad is unassigned or under a patch. The mineral order does not keep
  `NamesOnce` (it lists a probe twice when its patch is mined out), yet taking out the first mention of
  a probe that leaves never takes out another probe. `MoveToLines` covers every transfer; it needs that
  a vespene squad's probe is never moved to its own squad, where `onUnitAdded` alone would list it twice.
  The step of the vespene order is a sequence of four changes (`WithNew`, `Flat`, `ExcessTaken`,
  `Served`), each with a lemma that it names the same probes as before, once each (`FlatNames`,
  `ExcessNames`, `ServedNames`). Three of them are folds: `Sums` shows that a fold in a given order is a
  function over the subsets (`FoldMade`, `FoldSame`), and a smallest subset that is wrong gives the
  induction.
- Frame. `FrameMines` says that the bases that have stepped are done and, in `mining`, that the base under
  way has every probe unassigned or under a live patch (`Stepping`). `EveryProbeMines` follows when a line
  leaves `mining` with nobody unassigned.
- Balance. `RoomLeft` says that `room` is at most `Positions(pass)`, and equal to it in the vespene passes.
  While there is room in the pass, `assignUnit`, which does not know of the pass, finds a place that the
  pass counts or a better one (`RebalanceFindsRoom`, `Rehomed`); so the sum goes down by exactly one
  (`PlaceTaken`), or stays when a mineral pass has sent the probe to a vespene line (`PlacesKept`).
  `MovesFindRoom` follows, and with it that no probe is moved to the squad it is in. `BalanceKept` says
  that the fourth pass moves no base below two probes a source (`LastPassKeepsBalance`) and that
  `assignFreeUnits` fills the places in the order that keeps both balances (`FreeKeepsBalance`).

A mineral pass may stop too early, its count used up by probes that went to vespene lines. Nothing like
`VespeneBalanced` holds of the mineral lines at the end of a frame; the next frame counts again.
`MineralOrderKnows` and `CountNotStale` state `MineralKnown` and `RoomLeft`, which no run checks as
properties.

*MacroProofs.* `IInv` adds to the three invariants that in the opening there is one nexus at most
(`OneNexus`), which makes the goal exact there. The lemma `ChoiceJustified` carries the argument: an
item that reaches the top satisfies its manager's condition, so priorities need no further reasoning,
and each case of `Produce` follows from the condition alone.

*CombatProofs.* The invariant is split by module: `EInv` (`KnownOnce`), `OInv` and the army's. `OInv` adds
to `NothingLeftBehind` and `HalfPaid` that a manned squad has an order (`Dissolved`), so a squad that is
taken for free has nobody in it, and that only the main squad can rush (`OnlyMain`), so that what is known
of the one rush stays true when the other squad is promoted. Frame lemmas say what each part leaves
alone. `Defended` rests on the lemma `ChosenOK`: as many bases get a fighter as there are fighters or
open bases. `FightersConserved` is an action property from the types: the cardinality of the
defended bases moves with the counts.

Only model-checked: liveness (`BuilderReleased`, `OrderAnswered`, `Settles`, `VespeneServed`,
`RecalculationServed`, `ScoutsReturn`, `RushEnds`, `Mustered`, `SupplyServed`, `CoreComes`), which is
out of the prover's reach. Every safety property of a passing run is stated by a theorem.

## 6. Not modelled

Parts of the bot:

- the search of the cannon recursion and the choice of a placement (`BasicAnalyser::recursion`
  and what it calls): exhaustive search over tile geometry, whose result enters as a choice;
- tile geometry of `BuildingPlacer` (footprints, power, rounding): a site stands for its tiles;
- walls (`WallManager`, `GraphChecker`, placement search): the parts of a wall are sites the placer may
  choose; the search itself runs offline over map data;
- `MapTools`, `DistanceMap`: breadth-first searches that keep nothing beyond a call, and loading of files;
- kiting, prism juggling, grouping and chrono boost: commands computed from positions of live units,
  without state another part reads;
- upgrades (`MacroManager::produce` has a TODO), warp gates, `mergeSquads` (never called);
- `TechTree`, `UnitType`, drawing, logging, configuration, start-up and end of the game.

`BOT_ASSERT` only logs in a release build (`util/BotAssert.cpp`), so a failed assertion does not stop
the models.

Everything under `src/` outside `bot/` is third-party or generated: the sc2api client, protocol files,
contrib libraries, examples and the offline map tools. It is about a hundred times as long as the bot
and appears only through what an observation may report, so the share of mapped lines in all of `src/`
is small by nature.

A next step would be the reserve map per tile, then a proof that `WorkerManager::onFrame` of
`WorkerLines` implements the single step `BuildTasks` has for it.
