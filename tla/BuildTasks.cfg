SPECIFICATION Spec
CONSTANTS
  w1 = w1
  w2 = w2
  plot = plot
  geyser = geyser
  None = None
  Worker <- MCWorker
  Site <- MCSite
  Type <- MCType
  Plan <- MCPlan
  Refinery = {"assimilator"}
  Unreserved = {"assimilator"}
  Mineral <- MCMineral
  Gas <- MCGas
  Bank <- SmallBank
  Income <- MCIncome
  MaxTask = 3
  MaxLent = 0
  Opening = FALSE
  StaleCommands = FALSE
INVARIANTS TypeOK NoDanglingTask BuilderPresent BuildingPresent LedgerExact
PROPERTY RequestsKept
SYMMETRY Symmetry
