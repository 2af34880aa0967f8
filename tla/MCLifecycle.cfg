SPECIFICATION FairSpec
CONSTANTS
  FdLimit = 2
  Networks = {wifi, ethernet}
  MaxRuns = 2
  None = None
INVARIANTS TypeOK ProxyRestored CleanExitWasAsked
PROPERTY ShutdownCompletes
