SPECIFICATION Spec
CONSTANTS
  w1 = w1
  w2 = w2
  plot = plot
  geyser = geyser
  None = None
  Worker <- MCWorker
  Site <- MCSite
  Type <- MCType
  Plan <- SmallPlan
  Refinery = {"assimilator"}
  Unreserved = {"assimilator"}
  Mineral <- MCMineral
  Gas <- MCGas
  Bank <- NoGasBank
  Income <- NoGasIncome
  MaxTask = 2
  MaxLent = 1
  Opening = TRUE
  StaleCommands = TRUE
INVARIANTS BuilderPresent LedgerCovers OnePendingWithoutGas
SYMMETRY Symmetry
