\* Up to two header lines; a proxy on port 443, the default of CONNECT.
SPECIFICATION Spec
CONSTANTS
  Headers = {"Accept", "Proxy-Connection"}
  Requests <- MCRequests
  maxHeaderSize = 4
  Loopbacks = {"127.0.0.1", "::1"}
  LocalIps = {"192.168.1.2"}
  RemoteIps = {"104.16.0.1", "2a00::1"}
  V6Ips = {"::1", "2a00::1"}
  OwnPort = 443
  RecordLens = {0, 1, 16384, 16385, 65530, 65531, 65535}
  None = None
INVARIANTS TypeOK RequestFaithful RecordIntact
