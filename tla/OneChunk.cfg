SPECIFICATION Spec
CONSTANTS
  k1 = k1  k2 = k2  k3 = k3  k4 = k4
  v1 = v1  v2 = v2  v3 = v3  v4 = v4
  None = None
  HashHi <- HashHiDef
  HashLo <- HashLoDef
  Keys = {k1, k2}
  Vals = {v1, v2, v3, v4}
  Pieces <- OneChunkDef
  Big = {}
  BucketCnt = 2
  SliceSz = 2
  SliceMax = 2
  MaxPieces = 2
  BufPieces = 2
  ChunkLen = 1
  MaxBytes = 7
  EliminateDiv = 100
  ExpireTime = 0
  MaxTime = 1
  Word = 8
  DiskMayFail = TRUE
INVARIANTS ChunksPartitioned CountsMatch QueuesAgree
PROPERTIES ServedLatest
SYMMETRY SameLength
VIEW WithoutLog
