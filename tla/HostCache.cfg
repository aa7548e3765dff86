SPECIFICATION Spec
CONSTANTS
  k1 = k1  k2 = k2
  v1 = v1  v2 = v2
  None = None
  HashHi <- HashHiDef
  HashLo <- HashLoDef
  Keys = {k1, k2}
  Vals = {v1, v2}
  Pieces <- PiecesDef
  Big = {}
  BucketCnt = 2
  SliceSz = 4
  SliceMax = 2
  MaxPieces = 3
  BufPieces = 3
  ChunkLen = 1
  MaxBytes = 19
  EliminateDiv = 100
  ExpireTime = 0
  MaxTime = 1
  Word = 20
  DiskMayFail = FALSE
INVARIANTS RightHost
CHECK_DEADLOCK FALSE
