SPECIFICATION DecoderSpec
CONSTANTS
  Descriptors <- MCDescriptors
  Devices <- MCDevices
  Notifications <- MCNotifications
  PageRecords <- MCPageRecords
  UsageRecords <- MCUsageRecords
  MaxReceived = 3
  MaxDescriptorBytes = 96
  MaxReports = 2
  MaxFields = 6
  MaxCollections = 2
  MaxCollectionDepth = 2
  MaxGlobalStackDepth = 2
  MaxReportBits = 24
  MaxReportCount = 8
PROPERTIES
  ArrayStateIsASet
CHECK_DEADLOCK FALSE
