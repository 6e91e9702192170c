SPECIFICATION Spec
CONSTANTS
  Requests <- SomeRequests
  Hosts <- SomeHosts
  None = None
  SshPort = 2222
CHECK_DEADLOCK FALSE
INVARIANT
  IgnitionOnDocumentedArchs
