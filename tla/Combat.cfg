CONSTANTS
  Location <- Locations
  Start <- Starts
  Home = 1
  Depot = {d1}
  Flying = TRUE
  MinPylon = 2
  MaxPylon = 2
  SquadId <- Squads
  AttackSize = 2
  JoinSize = 2
  MaxFighters = 3
SPECIFICATION FairSpec
INVARIANTS TypeOK KnownOnce NothingLeftBehind HalfPaid Defended
PROPERTIES FightersKept ScoutsReturn RushEnds Mustered
