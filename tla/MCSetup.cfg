CONSTANTS
  None = None
  Handles <- MCHandles
  Services = {1}
  Peers <- AllPeers
  Policy = "REPORT"
  MaxReads = 2
  MaxSubscriptions = 2
  PhaseTimeout = 2
  FallbackDelay = 1
  TimeModulus = 9
  MaxLoopGap = 1
  MaxForeign = 1
SPECIFICATION Spec
INVARIANTS
  TypeOK
  AttemptIsCoherent
  ReadIsOwed
  ReadyMeansSubscribed
  ReadyAccountsForOperations
  PhaseAgeBounded
PROPERTIES
  OutcomeIsFinal
  FallbackBeforeTimeout
