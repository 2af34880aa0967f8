\* A plain-HTTP client that reuses its connection for requests to two hosts.
SPECIFICATION Spec
CONSTANTS
  Modes = {"http"}
  ClientUnits = 2
  ServerUnits = 0
  HelloLens = {1}
  WindowSizes = {0}
  Timeouts = {FALSE}
  Hosts = {h1, h2}
  SockBuf = 2
INVARIANT RequestsReachTheirHost
