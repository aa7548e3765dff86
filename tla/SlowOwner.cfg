SPECIFICATION SlowSpec
CONSTANTS
  k1 = k1  k2 = k2  k3 = k3  k4 = k4
  v1 = v1  v2 = v2  v3 = v3  v4 = v4
  None = None
  HashHi <- HashHiDef
  HashLo <- HashLoDef
  Keys = {k1, k2}
  Vals = {v1, v2}
  Pieces <- PiecesDef
  Big = {}
  BucketCnt = 2
  SliceSz = 2
  SliceMax = 2
  MaxPieces = 2
  BufPieces = 1
  ChunkLen = 2
  MaxBytes = 2
  EliminateDiv = 1
  ExpireTime = 2
  MaxTime = 4
  Word = 8
  DiskMayFail = FALSE
INVARIANTS TypeOK LinksMapped
PROPERTIES ServedFresh
