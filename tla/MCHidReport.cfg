SPECIFICATION DecoderSpec
CONSTANTS
  Descriptors <- MCDescriptors
  Devices <- MCDevices
  Notifications <- MCNotifications
  PageRecords <- MCPageRecords
  UsageRecords <- MCUsageRecords
  MaxReceived = 3
  MaxDescriptorBytes = 96
  MaxReports = 2
  MaxFields = 6
  MaxCollections = 2
  MaxCollectionDepth = 2
  MaxGlobalStackDepth = 2
  MaxReportBits = 24
  MaxReportCount = 8
INVARIANTS
  ParserTypeOK
  ReportsAreTiled
  GlobalsAreScoped
  UsagesBelongToOneItem
  CollectionsNest
  DecoderTypeOK
  VariablesFollowReports
  HeldUsagesBalance
  FieldIdsNameElements
  BootStateFollowsReports
  UsagesAreNamed
PROPERTIES
  ReorderingIsSilent
CHECK_DEADLOCK FALSE
