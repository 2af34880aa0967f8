SPECIFICATION FairSpec
CONSTANTS
  QTypes = {A, AAAA}
  Zones <- MCZones
  Transports = {"plain", "doh"}
  None = None
INVARIANTS TypeOK NothingLost BestFirst CloseIsLast
PROPERTY ImplementsResolver
