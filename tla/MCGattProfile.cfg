\* Small limits, so that a database can fall short of each, meet it and exceed it.
CONSTANTS
  Handles <- MCHandles
  Services <- MCServices
  Databases <- MCDatabases
  MaxServices = 3
  MaxIncludedServices = 2
  MaxCharacteristics = 6
  MaxDescriptors = 4
  MaxReads = 4
  MaxSubscriptions = 2
  MaxErrors = 2
SPECIFICATION Spec
INVARIANTS
  TypeOK
  InventoryIsAccountedFor
  NothingMissedSilently
PROPERTIES
  PlansFitSetup
\* Inventory and planning end.
CHECK_DEADLOCK FALSE
