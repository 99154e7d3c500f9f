CONSTANTS
  Cap = 7
  NexusSupply = 4
  PylonSupply = 3
  Slack = 2
  OpeningGoal = 3
  MaxProbes = 3
  MostBases = 2
  Lines = 1
  Geysers = 1
  PerGeyser = 1
  Eager = 12
  MaxGates = 1
  MaxPylons = 3
  MaxLosses = 1
SPECIFICATION FairSpec
INVARIANTS TypeOK WorkersWithinGoal NothingTwice
PROPERTIES SupplyServed CoreComes
CHECK_DEADLOCK FALSE
