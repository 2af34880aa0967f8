\* A client that connects and says nothing, with -timeout.
SPECIFICATION FairSpec
CONSTANTS
  Modes = {"http", "connect"}
  ClientUnits = 3
  ServerUnits = 1
  HelloLens = {1}
  WindowSizes = {0}
  Timeouts = {TRUE}
  Hosts = {h1}
  SockBuf = 1
PROPERTY StaleConnectionsRecycle
