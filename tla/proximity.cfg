SPECIFICATION Spec
CONSTANTS
  Size = 2
  Buffers = 2
  MaxSamples = 5
  Empty = Empty
INVARIANTS
  TypeOK
  CompleteUnlessError
  OwnSamplesInOrder
  IdleLeavesNoActiveFile
  ScanIsReported
