SPECIFICATION Spec
CONSTANTS
  Args <- ArgsDef
  Bits = 12
  Short = 64
  PageMin = 16
  PageMax = 1024
  BuckMax = 256
  MaxVal = 256
  Mega = 256
  Head = 3
  Default = 5
INVARIANTS EveryQueueReached BucketsFit ChunksApart SliceMinimal InitSurvives MaxSizeNear
PROPERTIES InitReturns
CHECK_DEADLOCK FALSE
