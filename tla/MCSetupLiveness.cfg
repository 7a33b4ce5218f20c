CONSTANTS
  None = None
  Handles <- MCHandles
  Services = {1}
  Peers <- LivePeers
  Policy = "REPORT"
  MaxReads = 2
  MaxSubscriptions = 2
  PhaseTimeout = 2
  FallbackDelay = 1
  TimeModulus = 9
  MaxLoopGap = 1
  MaxForeign = 0
SPECIFICATION Spec
PROPERTIES
  SetupTerminates
  RediscoveryReconnects
  KeepsContract
