SPECIFICATION Spec
CONSTANTS
  FdLimit = 2
  Networks = {wifi, ethernet}
  MaxRuns = 1
  None = None
INVARIANT TransientErrorsRetried
