\* Bytes 0 .. 2 are a terminator, an element without data, and one with a byte of it.
CONSTANTS
  MaxBytes = 3
  MaxByte = 2
  ScanResults <- MCScanResults
SPECIFICATION Spec
INVARIANTS
  LatestIsCaptured
  ElementsTile
