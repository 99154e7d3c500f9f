SPECIFICATION FairSpec
CONSTANTS
  w1 = w1
  w2 = w2
  plot = plot
  geyser = geyser
  None = None
  Worker <- MCWorker
  Site <- MCSite
  Type <- MCType
  Plan <- SmallPlan
  Refinery = {"assimilator"}
  Unreserved = {"assimilator"}
  Mineral <- MCMineral
  Gas <- MCGas
  Bank <- SmallBank
  Income <- MCIncome
  MaxTask = 2
  MaxLent = 0
  Opening = FALSE
  StaleCommands = FALSE
PROPERTIES BuilderReleased OrderAnswered
