SPECIFICATION PagesSpec
CONSTANTS
  k1 = k1  k2 = k2  k3 = k3  k4 = k4
  v1 = v1  v2 = v2  v3 = v3  v4 = v4
  None = None
  HashHi <- HashHiDef
  HashLo <- HashLoDef
  Keys = {k1, k2, k3}
  Vals = {v1, v2, v3}
  Pieces <- PiecesDef
  Big = {v3}
  BucketCnt = 2
  SliceSz = 4
  SliceMax = 2
  MaxPieces = 3
  BufPieces = 3
  ChunkLen = 1
  MaxBytes = 19
  EliminateDiv = 100
  ExpireTime = 1
  MaxTime = 2
  Word = 20
  DiskMayFail = FALSE
INVARIANTS ChunksPartitioned CountsMatch QueuesAgree FlushOnlyExpired
PROPERTIES ImplementsUrlCache AccessOrderKept MissExplained
