CONSTANTS
  SumFields = {"dx", "wheel"}
  LatestFields = {"level"}
  MaxSum = 2
  Capacity = 2
  Raw = "raw"
  Absent = Absent
  FieldOrder <- Order
  Reports <- AllReports
  Intervals = {0, 2}
  MaxPendingReports = 2
  MaxPendingBytes = 3
  MaxPayload = 3
  MaxReportsPerLoop = 2
  ClockModulus = 4
  MaxGap = 1
  MaxNotifications = 4
SPECIFICATION Spec
INVARIANTS
  TypeOK
  QueueWithinLimits
  WindowCoversBuffer
  BufferedValuesAreFresh
  EmissionOrder
  SpansAccountForMovement
  BarriersAlternate
  ConsumerConverges
