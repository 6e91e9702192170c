\* The options of `ephemeral run`, on hosts and images of several kinds.
SPECIFICATION Spec
CONSTANTS
  Requests <- SomeRequests
  Hosts <- SomeHosts
  None = None
  MaxCid = 5
INVARIANTS MountsAsAsked DevicesServed BootsOneArtifact
CHECK_DEADLOCK FALSE
