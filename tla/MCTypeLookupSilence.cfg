SPECIFICATION Spec
CONSTANTS
  QTypes = {A}
  Zones <- MCZones
  Transports = {"plain"}
  None = None
INVARIANT SilenceIsAnError
