SPECIFICATION FairSpec
CONSTANTS
  r1 = r1
  r2 = r2
  r3 = r3
  r4 = r4
  None = None
  Run <- MCRun
INVARIANTS SingleOwner OneBehindTheFuture FlagDownAtRest
PROPERTY RecalculationServed
