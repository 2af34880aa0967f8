\* Both handlers, hellos of one and three units, all kinds of windows.
SPECIFICATION FairSpec
CONSTANTS
  Modes = {"http", "connect"}
  ClientUnits = 4
  ServerUnits = 1
  HelloLens = {1, 3}
  WindowSizes = {0, 2, 3}
  Timeouts = {TRUE, FALSE}
  Hosts = {h1}
  SockBuf = 2
INVARIANTS TypeOK StreamIntact NoTruncation HelloFragmented SocketsReleased
PROPERTIES ConnectionEnds IdlePipeEnds
