SPECIFICATION Spec
CONSTANTS
  Candidates <- MCCandidates
  MaxLen = 3
  None = None
INVARIANTS TypeOK Aligned FullySorted Stability ReachableFirst
