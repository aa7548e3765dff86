------------------------- MODULE CacheWorkerProofs -------------------------
(***************************************************************************)
(* What a get returns, for every set of keys and values and every          *)
(* geometry: first for any owner, as long as its steps are gentle (see     *)
(* CacheListProofs), then for the worker thread of the server, which is    *)
(* shown to have a url cache.                                              *)
(***************************************************************************)
EXTENDS CacheWorker, CacheListProofs

-----------------------------------------------------------------------------
(* What the chunks hold.                                                   *)

\* The chunks of all values.
InUse == UNION {Nodes(Ends0, h) : h \in Entries}

\* A bucket leads to the first chunk of what was stored last for a key.
ChainOK ==
  \A b \in Buckets : \A o \in Nodes(next, bucket[b]) :
    /\ piece[o][1] \in Vals /\ piece[o][2] = 1
    /\ \A k \in Keys : HashIs(o, k) => latest[k] = <<piece[o][1], expireAt[o]>>

\* An entry of the key looked for is not behind the walk.
WalkOK ==
  /\ pc = "find" =>
       \A o \in Chain(key) : HashIs(o, key) => off # 0 /\ o \in Nodes(next, off)
  /\ pc = "alloc" /\ cnt = 1 => \A o \in Chain(key) : ~HashIs(o, key)

\* Behind the n-th piece of a value comes the next one, to the last.
PiecesOK ==
  \A c \in InUse :
    /\ piece[c][1] \in Vals /\ piece[c][2] <= Pieces[piece[c][1]]
    /\ Pieces[piece[c][1]] <= MaxPieces
    /\ Ends0[c] # 0 => piece[Ends0[c]] = <<piece[c][1], piece[c][2] + 1>>
    /\ Ends0[c] = 0 => IF Storing /\ c = p THEN piece[c] = <<val, cnt - 1>>
                                           ELSE piece[c][2] = Pieces[piece[c][1]]

\* _get_val has copied what was stored last, up to the chunk it is at.
ReadOK ==
  pc = "read" => /\ p \in InUse /\ piece[p] = <<piece[off][1], cnt>> /\ good
                 /\ latest[key] = <<piece[off][1], expireAt[off]>>

StoreOK == op = "put" /\ pc \in {"find", "free", "alloc"} => Pieces[val] <= MaxPieces

CInv == ChainOK /\ WalkOK /\ PiecesOK /\ ReadOK /\ StoreOK

-----------------------------------------------------------------------------
\* The chunks of the values are those that are neither free nor being freed.
LEMMA InUseIs ==
  ASSUME LInv, LInv'
  PROVE  /\ InUse = ((1..(alloc_cnt - 1)) \ Free) \ Going
         /\ InUse' = ((1..(alloc_cnt' - 1)) \ Free') \ Going'
<1>1. InUse = ((1..(alloc_cnt - 1)) \ Free) \ Going
  <2>1. /\ \A h \in Entries : /\ Nodes(Ends0, h) \cap Free = {}
                              /\ Nodes(Ends0, h) \cap Going = {}
                              /\ Nodes(Ends0, h) \subseteq 1..(alloc_cnt - 1)
        /\ \A c \in 1..(alloc_cnt - 1) :
             c \in Free \/ c \in Going \/ \E h \in Entries : c \in Nodes(Ends0, h)
    BY DEF LInv, ValuesOK
  <2> QED BY <2>1 DEF InUse
<1>2. InUse' = ((1..(alloc_cnt' - 1)) \ Free') \ Going'
  <2>1. /\ \A h \in Entries' : /\ Nodes(Ends0', h) \cap Free' = {}
                               /\ Nodes(Ends0', h) \cap Going' = {}
                               /\ Nodes(Ends0', h) \subseteq 1..(alloc_cnt' - 1)
        /\ \A c \in 1..(alloc_cnt' - 1) :
             c \in Free' \/ c \in Going' \/ \E h \in Entries' : c \in Nodes(Ends0', h)
    BY DEF LInv, ValuesOK
  <2> QED BY <2>1 DEF InUse
<1> QED BY <1>1, <1>2

\* Entries are in use, and what is in use leads to what is in use.
LEMMA InUseShape ==
  ASSUME IInv, LInv
  PROVE  /\ InUse \subseteq Chunk \ {0} /\ Entries \subseteq InUse
         /\ \A c \in InUse : Ends0[c] # 0 => Ends0[c] \in InUse
<1>1. Links(Ends0) /\ DOMAIN Ends0 = Chunk BY LinksAreLinks, Members DEF IInv
<1>2. ASSUME NEW h \in Entries
      PROVE  /\ Nodes(Ends0, h) \subseteq Chunk \ {0} /\ h \in Nodes(Ends0, h)
             /\ \A c \in Nodes(Ends0, h) : Ends0[c] = 0 \/ Ends0[c] \in Nodes(Ends0, h)
  BY <1>1, ListShape, Members DEF LInv, ValuesOK
<1> QED BY <1>2 DEF InUse

\* The chain of a key: a list of entries, all of its bucket.
LEMMA ChainShape ==
  ASSUME IInv, LInv, NEW k \in Keys
  PROVE  /\ BucketOf(HashLo[k]) \in Buckets /\ Links(next) /\ DOMAIN next = Chunk
         /\ Linked(next, FirstIn(k)) /\ Chain(k) = Nodes(next, bucket[BucketOf(HashLo[k])])
         /\ Chain(k) \subseteq Entries /\ Chain(k) \subseteq Chunk \ {0}
         /\ \A o \in Chain(k) : BucketOf(lo[o]) = BucketOf(HashLo[k])
         /\ FirstIn(k) = 0 => Chain(k) = {}
<1>1. BucketOf(HashLo[k]) \in Buckets BY BucketInRange, DataAssumption
<1>2. Links(next) /\ DOMAIN next = Chunk BY LinksAreLinks, Members DEF IInv
<1>3. /\ Linked(next, FirstIn(k))
      /\ \A o \in Chain(k) : o \in Entries /\ BucketOf(lo[o]) = BucketOf(HashLo[k])
  BY <1>1 DEF LInv, BucketsOK, Chain, FirstIn
<1>4. FirstIn(k) = 0 => Chain(k) = {} BY <1>2, <1>3, ListShape DEF Chain
<1>5. Chain(k) \subseteq Chunk \ {0} BY <1>3, Members
<1> QED BY <1>1, <1>2, <1>3, <1>4, <1>5 DEF Chain, FirstIn

\* A step that fills no chunk leaves what the chunks hold as it was.
LEMMA ContentsKept ==
  ASSUME IInv, LInv, ChainOK, PiecesOK, UNCHANGED <<hi, piece, expand, expireAt, latest>>,
         \A o \in Entries : lo'[o] = lo[o],
         \A b \in Buckets : Nodes(next', bucket'[b]) \subseteq Nodes(next, bucket[b]),
         ~Storing, ~Storing', InUse' \subseteq InUse
  PROVE  ChainOK' /\ PiecesOK'
<1>1. Ends0 = expand /\ Ends0' = expand BY DEF Ends0
<1>2. ASSUME NEW b \in Buckets, NEW o \in Nodes(next', bucket'[b])
      PROVE  /\ piece'[o][1] \in Vals /\ piece'[o][2] = 1
             /\ \A k \in Keys : HashIs(o, k)' => latest'[k] = <<piece'[o][1], expireAt'[o]>>
  <2>1. o \in Nodes(next, bucket[b]) /\ o \in Entries BY DEF LInv, BucketsOK
  <2>2. \A k \in Keys : HashIs(o, k)' = HashIs(o, k) BY <2>1 DEF HashIs
  <2> QED BY <2>1, <2>2 DEF ChainOK
<1>3. PiecesOK' BY <1>1 DEF PiecesOK
<1>4. ChainOK' BY <1>2 DEF ChainOK
<1> QED BY <1>3, <1>4

-----------------------------------------------------------------------------
\* An empty cache holds nothing, at start and after a restart.
LEMMA InitContents == Init => CInv
<1> SUFFICES ASSUME Init PROVE CInv OBVIOUS
<1>1. LInv /\ IInv BY InitLists, InitInv
<1>2. \A b \in Buckets : Nodes(next, bucket[b]) = {}
  <2>1. Links(next) BY <1>1, LinksAreLinks, Members DEF IInv
  <2> QED BY <2>1, EmptyList DEF Init
<1>3. InUse = {}
  <2>1. Links(aNext) BY <1>1, LinksAreLinks, Members DEF IInv
  <2>2. Entries = {} BY <2>1, EmptyList DEF Init, Entries
  <2> QED BY <2>2 DEF InUse
<1> QED BY <1>2, <1>3 DEF Init, CInv, ChainOK, WalkOK, PiecesOK, ReadOK, StoreOK

\* The same of a restart.
LEMMA RestartContents == ASSUME IInv', LInv', Restart PROVE CInv'
<1>1. /\ IsFiniteSet(Chunk) /\ 0 \in Chunk
      /\ DOMAIN next' = Chunk /\ DOMAIN aNext' = Chunk
  BY SizesAssumption, SmallFacts, FS_Interval DEF IInv, MemoryOK, Chunk
<1>2. \A b \in Buckets : Nodes(next', bucket'[b]) = {}
  BY <1>1, EmptyList DEF Restart, Links
<1>3. InUse' = {}
  <2>1. Entries' = {} BY <1>1, EmptyList DEF Restart, Entries, Links
  <2> QED BY <2>1 DEF InUse
<1> QED BY <1>2, <1>3 DEF Restart, CInv, ChainOK, WalkOK, PiecesOK, ReadOK, StoreOK

-----------------------------------------------------------------------------
\* A call begins: the walk has all of its chain before it.
LEMMA CallContents ==
  ASSUME IInv, LInv, LInv', CInv, (\E k \in Keys : GetCall(k) \/ DelCall(k))
           \/ (\E k \in Keys, v \in Vals : PutCall(k, v) \/ PutEmpty(k, v))
           \/ ViewCall
  PROVE  CInv'
<1>1. pc = "idle" /\ UNCHANGED <<memory, history>> /\ pc' \in {"idle", "find", "evict", "store", "view"}
  BY DEF GetCall, DelCall, PutCall, PutEmpty, ViewCall, Enter
<1>2. /\ UNCHANGED <<bucket, hi, lo, piece, expireAt, next, expand, aNext, alloc_cnt,
                     free_beg, access_beg, latest>>
      /\ ~Storing /\ ~Storing'
  BY <1>1 DEF memory, chunks, links, counts, queues, history, Storing
<1>3. InUse' \subseteq InUse
  <2>1. Ends0' = Ends0 /\ Entries' = Entries BY <1>2 DEF Ends0, Entries
  <2> QED BY <2>1 DEF InUse
<1>4. ChainOK' /\ PiecesOK' BY <1>2, <1>3, ContentsKept DEF CInv
<1>5. ReadOK' BY <1>1 DEF ReadOK
<1>6. pc' = "find" => op' # "put" /\ key' \in Keys /\ off' = FirstIn(key')
  BY DEF GetCall, DelCall, PutCall, PutEmpty, ViewCall, Enter
<1>7. WalkOK'
  <2> SUFFICES ASSUME pc' = "find", NEW o \in Chain(key)'
               PROVE  off' # 0 /\ o \in Nodes(next', off')
    BY <1>1 DEF WalkOK
  <2>1. Chain(key)' = Chain(key') /\ key' \in Keys /\ off' = FirstIn(key')
    BY <1>2, <1>6 DEF Chain, FirstIn
  <2>2. o \in Chain(key') /\ off' # 0 BY <2>1, ChainShape
  <2> QED BY <1>2, <2>1, <2>2 DEF Chain
<1>8. StoreOK' BY <1>1, <1>6 DEF StoreOK
<1> QED BY <1>4, <1>5, <1>7, <1>8 DEF CInv

\* A walk has seen the entries it leaves behind; a copy goes on to the next
\* piece of the value.
LEMMA LoopContents ==
  ASSUME IInv, LInv, LInv', CInv,
         \/ EvictEnd \/ FindNext \/ FindNone \/ FlushEnd \/ ReadExpand \/ ReadOverrun
         \/ ReadEnd \/ StoreBegin \/ StoreTooLong \/ ViewNext \/ ViewEnd \/ Tick
  PROVE  CInv'
<1>1. /\ UNCHANGED <<memory, history>> /\ pc \notin {"free", "alloc", "crashed"}
      /\ pc' = "alloc" => FindNone
  BY DEF EvictEnd, FindNext, FindNone, FlushEnd, ReadExpand, ReadOverrun, ReadEnd,
         StoreBegin, StoreTooLong, ViewNext, ViewEnd, Tick, Return, Crash
<1>2. /\ UNCHANGED <<bucket, hi, lo, piece, expireAt, next, expand, aNext, alloc_cnt,
                     free_beg, access_beg, latest>>
      /\ ~Storing
  BY <1>1 DEF memory, chunks, links, counts, queues, history, Storing
<1>3. FindNone /\ pc' = "alloc" => op = "put" /\ cnt = 1 /\ UNCHANGED <<call, cursors>>
  BY DEF FindNone, Return, LInv, CallOK
<1>4. ~Storing' BY <1>1, <1>3 DEF Storing, cursors
<1>5. Ends0 = expand /\ Ends0' = expand /\ InUse' = InUse
  <2>1. Ends0 = expand /\ Ends0' = expand /\ Entries' = Entries BY <1>2, <1>4 DEF Ends0, Entries
  <2> QED BY <2>1 DEF InUse
<1>6. ChainOK' /\ PiecesOK' BY <1>2, <1>4, <1>5, ContentsKept DEF CInv
<1>7. \A k \in Keys : Chain(k)' = Chain(k) /\ \A o : HashIs(o, k)' = HashIs(o, k)
  BY <1>2 DEF Chain, FirstIn, HashIs
<1>8. ASSUME pc' \notin {"find", "alloc", "read"} PROVE CInv'
  <2>1. pc' # "free"
    BY DEF EvictEnd, FindNext, FindNone, FlushEnd, ReadExpand, ReadOverrun, ReadEnd,
           StoreBegin, StoreTooLong, ViewNext, ViewEnd, Tick, Return, Crash, IInv, FrameOK, Loops
  <2> QED BY <1>6, <1>8, <2>1 DEF CInv, WalkOK, ReadOK, StoreOK
<1>9. CASE FindNext
  <2>1. /\ pc = "find" /\ pc' = "find" /\ off # 0 /\ ~HashIs(off, key) /\ off' = next[off]
        /\ UNCHANGED <<op, key, val>> /\ key \in Keys
    BY <1>9 DEF FindNext, call, IInv, FrameOK
  <2>2. off \in Nodes(next, FirstIn(key)) BY <2>1 DEF LInv, CallOK
  <2>3. Linked(next, off) /\ Links(next) BY <2>1, <2>2, ChainShape, ListRest
  <2>4. /\ Linked(next, next[off]) /\ Nodes(next, next[off]) = Nodes(next, off) \ {off}
        /\ next[off] = 0 => Nodes(next, next[off]) = {}
    BY <2>1, <2>3, ListPop, ListShape
  <2>5. ASSUME NEW o \in Chain(key), HashIs(o, key)
        PROVE  off' # 0 /\ o \in Nodes(next', off')
    <3>1. o \in Nodes(next, off) /\ o # off BY <2>1, <2>5 DEF CInv, WalkOK
    <3> QED BY <1>2, <2>1, <2>4, <3>1
  <2>6. WalkOK'
    <3>1. Chain(key)' = Chain(key) /\ \A o : HashIs(o, key)' = HashIs(o, key)
      BY <1>2, <2>1 DEF Chain, FirstIn, HashIs
    <3> QED BY <2>1, <2>5, <3>1 DEF WalkOK
  <2> QED BY <1>6, <2>1, <2>6, <1>9 DEF CInv, ReadOK, StoreOK, FindNext
<1>10. CASE FindNone
  <2>1. CASE pc' = "alloc"
    <3>1. /\ op = "put" /\ cnt' = 1 /\ pc = "find" /\ off = 0 /\ key \in Keys
          /\ UNCHANGED <<op, key, val>>
      BY <1>3, <1>10, <2>1 DEF FindNone, call, cursors, IInv, FrameOK
    <3>2. \A o \in Chain(key) : ~HashIs(o, key) BY <3>1 DEF CInv, WalkOK
    <3>3. Chain(key)' = Chain(key) /\ \A o : HashIs(o, key)' = HashIs(o, key)
      BY <1>2, <3>1 DEF Chain, FirstIn, HashIs
    <3>4. WalkOK' BY <2>1, <3>2, <3>3 DEF WalkOK
    <3> QED BY <1>6, <2>1, <3>1, <3>4 DEF CInv, ReadOK, StoreOK
  <2>2. CASE pc' # "alloc"
    <3>1. pc' = "idle" /\ pc = "find" BY <1>10, <2>2 DEF FindNone, Return
    <3> QED BY <1>8, <3>1
  <2> QED BY <2>1, <2>2
<1>11. CASE StoreBegin
  <2>1. /\ pc = "store" /\ pc' = "find" /\ off' = FirstIn(key) /\ Pieces[val] <= MaxPieces
        /\ UNCHANGED <<op, key, val>> /\ key \in Keys
    BY <1>11 DEF StoreBegin, call, IInv, FrameOK
  <2>2. Chain(key)' = Chain(key) BY <1>2, <2>1 DEF Chain, FirstIn
  <2>3. \A o \in Chain(key) : off' # 0 /\ o \in Nodes(next', off')
    BY <1>2, <2>1, ChainShape DEF Chain
  <2>4. WalkOK' BY <2>1, <2>2, <2>3 DEF WalkOK
  <2> QED BY <1>6, <2>1, <2>4 DEF CInv, ReadOK, StoreOK
<1>12. CASE ReadExpand
  <2>1. /\ pc = "read" /\ expand[p] # 0 /\ p \in InUse /\ good
        /\ piece[p] = <<piece[off][1], cnt>> /\ latest[key] = <<piece[off][1], expireAt[off]>>
        /\ UNCHANGED <<op, key, val>>
    BY <1>12 DEF ReadExpand, CInv, ReadOK, call
  <2> DEFINE v == piece[off][1]
  <2>2. expand[p] \in InUse /\ piece[expand[p]] = <<v, cnt + 1>>
    <3>1. Ends0[p] # 0 BY <1>5, <2>1
    <3>2. Ends0[p] \in InUse BY <2>1, <3>1, InUseShape
    <3>3. piece[Ends0[p]] = <<piece[p][1], piece[p][2] + 1>> BY <2>1, <3>1 DEF CInv, PiecesOK
    <3> QED BY <1>5, <2>1, <3>2, <3>3
  <2>6. /\ pc' = "read" /\ p' = expand[p] /\ cnt' = cnt + 1 /\ off' = off
        /\ good' = (good /\ \/ cnt' > Pieces[piece[off][1]]
                            \/ piece[p'] = <<piece[off][1], cnt'>>)
    BY <1>12 DEF ReadExpand
  <2>7. good'
    <3>1. piece[p'] = <<piece[off][1], cnt'>> BY <2>2, <2>6
    <3> QED BY <2>1, <2>6, <3>1
  <2>8. ReadOK' BY <1>2, <1>5, <2>1, <2>2, <2>6, <2>7 DEF ReadOK
  <2>9. StoreOK' /\ WalkOK' BY <2>6 DEF StoreOK, WalkOK
  <2> QED BY <1>6, <2>8, <2>9 DEF CInv
<1>13. CASE \/ EvictEnd \/ FlushEnd \/ ReadOverrun \/ ReadEnd \/ StoreTooLong
            \/ ViewNext \/ ViewEnd \/ Tick
  <2>1. pc' \notin {"find", "alloc", "read"}
    BY <1>13 DEF EvictEnd, FlushEnd, ReadOverrun, ReadEnd, StoreTooLong, ViewNext, ViewEnd,
                 Tick, Return, Crash
  <2> QED BY <1>8, <2>1
<1> QED BY <1>9, <1>10, <1>11, <1>12, <1>13

-----------------------------------------------------------------------------
\* What is deleted is in use no more, and nothing else changes hands.
LEMMA UnlinkContents ==
  ASSUME IInv, LInv, LInv', CInv, NEW o \in Entries, NEW caller, Unlink(o, caller),
         pc \notin {"free", "alloc"}, op = "put" => pc = "find"
  PROVE  CInv'
<1>1. /\ UNCHANGED <<hi, lo, piece, expand, expireAt, counts, free_beg, op, val, history>>
      /\ pc' = "free"
  BY DEF Unlink, call
<1>2. ~Storing /\ ~Storing' BY <1>1 DEF Storing
<1>3. InUse' \subseteq InUse
  <2>1. Free' = Free /\ Going = {} /\ alloc_cnt' = alloc_cnt BY <1>1 DEF Free, Going, counts
  <2> QED BY <2>1, InUseIs
<1>4. \A b \in Buckets : Nodes(next', bucket'[b]) \subseteq Nodes(next, bucket[b])
  BY UnlinkTakesOut
<1>5. ChainOK' /\ PiecesOK' BY <1>1, <1>2, <1>3, <1>4, ContentsKept DEF CInv, history
<1> QED BY <1>1, <1>5 DEF CInv, WalkOK, ReadOK, StoreOK

\* Freeing rewrites hash words of chunks that are in no bucket any more.
LEMMA FreeContents ==
  ASSUME IInv, LInv, LInv', CInv, FreeExpand \/ FreeLast PROVE CInv'
<1>1. /\ UNCHANGED <<bucket, hi, piece, expand, next, expireAt, aNext, access_beg, latest>>
      /\ UNCHANGED <<op, key, val>> /\ pc = "free"
      /\ \E w : lo' = [lo EXCEPT ![p] = w]
      /\ pc' \in {"idle", "free", "evict", "flush", "find"}
  BY DEF FreeExpand, FreeLast, TiedFree, Return, links, queues, history, call
<1>2. ~Storing /\ ~Storing' BY <1>1 DEF Storing
<1>3. p \notin Entries
  <2>1. p \in Going BY <1>1 DEF LInv, FreeingOK, Going
  <2> QED BY <2>1, Members
<1>4. InUse' = InUse
  <2>1. Ends0' = Ends0 /\ Entries' = Entries BY <1>1, <1>2 DEF Ends0, Entries
  <2> QED BY <2>1 DEF InUse
<1>5. \A c \in Entries : lo'[c] = lo[c] BY <1>1, <1>3
<1>6. ChainOK' /\ PiecesOK' BY <1>1, <1>2, <1>4, <1>5, ContentsKept DEF CInv
<1>7. pc' = "find" => op = "put" /\ key \in Keys /\ off' = FirstIn(key)
  <2> SUFFICES ASSUME pc' = "find" PROVE op = "put" /\ key \in Keys /\ off' = FirstIn(key)
    OBVIOUS
  <2>1. ret = "replace" /\ off' = FirstIn(key) BY <1>1 DEF FreeExpand, FreeLast, Return
  <2> QED BY <1>1, <2>1 DEF IInv, FrameOK
<1>8. WalkOK'
  <2> SUFFICES ASSUME pc' = "find", NEW o \in Chain(key)'
               PROVE  off' # 0 /\ o \in Nodes(next', off')
    BY <1>1 DEF WalkOK
  <2>1. Chain(key)' = Chain(key) BY <1>1 DEF Chain, FirstIn
  <2>2. key \in Keys /\ off' = FirstIn(key) BY <1>7
  <2>3. off' # 0 BY <2>1, <2>2, ChainShape
  <2> QED BY <1>1, <2>1, <2>2, <2>3 DEF Chain
<1> QED BY <1>1, <1>6, <1>8 DEF CInv, ReadOK, StoreOK

\* A hit reads from the entry found, which holds what was stored last.
LEMMA TouchContents == ASSUME IInv, LInv, LInv', CInv, Touch PROVE CInv'
<1>1. /\ pc = "find" /\ pc' = "read" /\ off # 0 /\ HashIs(off, key) /\ off' = off
      /\ p' = off /\ cnt' = 1 /\ good' = (piece[off][2] = 1)
      /\ UNCHANGED <<bucket, hi, lo, piece, expireAt, next, expand, alloc_cnt, free_beg>>
      /\ UNCHANGED <<op, key, val, latest>>
  BY DEF Touch, Found, counts, call, history
<1>2. ~Storing /\ ~Storing' BY <1>1 DEF Storing
<1>3. InUse' = InUse
  <2>1. Free' = Free /\ Going = {} /\ Going' = {} BY <1>1 DEF Free, Going
  <2> QED BY <1>1, <2>1, InUseIs
<1>4. ChainOK' /\ PiecesOK' BY <1>1, <1>2, <1>3, ContentsKept DEF CInv
<1>5. off \in Chain(key) /\ key \in Keys
  BY <1>1 DEF LInv, CallOK, Chain, IInv, FrameOK
<1>6. off \in InUse /\ off \in Chunk BY <1>5, ChainShape, InUseShape
<1>7. piece[off][2] = 1 /\ latest[key] = <<piece[off][1], expireAt[off]>>
  BY <1>1, <1>5, ChainShape DEF CInv, ChainOK
<1>8. piece[off] = <<piece[off][1], 1>>
  <2>1. piece[off] \in (Vals \cup {None}) \X Nat BY <1>6 DEF IInv, MemoryOK
  <2> QED BY <1>7, <2>1
<1>9. good' BY <1>1, <1>7
<1>10. ReadOK' BY <1>1, <1>3, <1>6, <1>7, <1>8, <1>9 DEF ReadOK
<1> QED BY <1>1, <1>4, <1>10 DEF CInv, WalkOK, StoreOK

-----------------------------------------------------------------------------
\* put_val makes its chunk one in use.
LEMMA TakenInUse ==
  ASSUME LInv, LInv', NEW o, Taken(o), pc' # "free"
  PROVE  InUse' = InUse \cup {o} /\ o \notin InUse
<1>1. Going = {} /\ Going' = {} BY DEF Going, Taken
<1>2. Free \subseteq 1..(alloc_cnt - 1) BY DEF LInv, ValuesOK
<1>3. /\ Free' = Free \ {o} /\ 1..(alloc_cnt' - 1) = (1..(alloc_cnt - 1)) \cup {o}
      /\ o \in Free \/ o \notin 1..(alloc_cnt - 1)
  BY DEF Taken
<1> QED BY <1>1, <1>2, <1>3, InUseIs

\* The first piece is the first entry of its key in its bucket, and what was
\* stored last.
LEMMA FirstContents ==
  ASSUME IInv, LInv, LInv', CInv, NEW o, Taken(o), cnt = 1 PROVE CInv'
<1> DEFINE got == IF ret = "replace" THEN 0 ELSE o
<1>1. /\ DOMAIN expand = Chunk /\ DOMAIN hi = Chunk /\ DOMAIN lo = Chunk /\ DOMAIN piece = Chunk
      /\ DOMAIN expireAt = Chunk /\ DOMAIN latest = Keys
  BY DEF IInv, MemoryOK, History
<1>2. /\ o \in Chunk \ {0} /\ pc = "alloc" /\ o \notin Entries
      /\ op = "put" /\ key \in Keys /\ val \in Vals /\ Fill(o) /\ Tie(got)
  BY DEF Taken, PutVal, IInv, FrameOK
<1>3. /\ hi' = [hi EXCEPT ![o] = HashHi[key]] /\ lo' = [lo EXCEPT ![o] = HashLo[key]]
      /\ piece' = [piece EXCEPT ![o] = <<val, 1>>]
      /\ expireAt' = [expireAt EXCEPT ![o] = now + ExpireTime]
      /\ latest' = [latest EXCEPT ![key] = <<val, now + ExpireTime>>]
  BY <1>2 DEF Fill
<1>4. /\ op' = op /\ val' = val
      /\ \/ /\ cnt = Pieces[val] /\ pc' = "idle" /\ expand' = [expand EXCEPT ![got] = 0]
         \/ /\ cnt # Pieces[val] /\ pc' = "alloc" /\ expand' = expand
            /\ p' = got /\ cnt' = 2
  BY <1>2 DEF Tie, Return, call
<1>5. ret = "replace" => cnt = Pieces[val] /\ expand[o] = 0
  BY DEF LInv, CallOK, Taken
<1>6. /\ Ends0 = expand /\ Ends0' = [expand EXCEPT ![got] = 0] /\ pc' # "free"
      /\ ~Storing /\ (Storing' => p' = o /\ cnt' = 2)
      /\ ~Storing' => cnt = Pieces[val]
  <2>1. pc' = "alloc" => got = o BY <1>4, <1>5
  <2> QED BY <1>2, <1>4, <2>1 DEF Ends0, Storing
<1>7. /\ Ends0'[o] = 0 /\ \A c \in Chunk : c # 0 /\ c # o => Ends0'[c] = expand[c]
  BY <1>1, <1>2, <1>5, <1>6
<1> HIDE DEF got
<1>8. InUse' = InUse \cup {o} /\ o \notin InUse BY <1>6, TakenInUse
<1>9. Pieces[val] \in Nat /\ 1 <= Pieces[val] /\ Pieces[val] <= MaxPieces
  BY <1>2, DataAssumption DEF LInv, CallOK, CInv, StoreOK
<1>10. ASSUME NEW c \in InUse
       PROVE  /\ piece'[c] = piece[c] /\ c # o /\ Ends0'[c] = expand[c]
              /\ expand[c] # 0 => piece'[expand[c]] = piece[expand[c]]
  <2>1. c \in Chunk /\ c # 0 /\ c # o BY <1>8, InUseShape
  <2>2. expand[c] # 0 => expand[c] \in InUse /\ expand[c] # o BY <1>6, <1>8, InUseShape
  <2> QED BY <1>3, <1>7, <2>1, <2>2
<1>11. PiecesOK'
  <2>1. piece'[o] = <<val, 1>> BY <1>1, <1>2, <1>3
  <2>2. ASSUME NEW c \in InUse', c = o
        PROVE  /\ piece'[c][1] \in Vals /\ piece'[c][2] <= Pieces[piece'[c][1]]
               /\ Pieces[piece'[c][1]] <= MaxPieces /\ Ends0'[c] = 0
               /\ IF Storing' /\ c = p' THEN piece'[c] = <<val', cnt' - 1>>
                                        ELSE piece'[c][2] = Pieces[piece'[c][1]]
    BY <1>2, <1>4, <1>6, <1>7, <1>9, <2>1, <2>2
  <2>3. ASSUME NEW c \in InUse
        PROVE  /\ piece'[c][1] \in Vals /\ piece'[c][2] <= Pieces[piece'[c][1]]
               /\ Pieces[piece'[c][1]] <= MaxPieces
               /\ Ends0'[c] # 0 => piece'[Ends0'[c]] = <<piece'[c][1], piece'[c][2] + 1>>
               /\ Ends0'[c] = 0 => piece'[c][2] = Pieces[piece'[c][1]]
               /\ ~(Storing' /\ c = p')
    BY <1>6, <1>10 DEF CInv, PiecesOK
  <2> QED BY <1>8, <2>2, <2>3 DEF PiecesOK
<1>12. ASSUME NEW b \in Buckets, NEW x \in Nodes(next', bucket'[b])
       PROVE  /\ piece'[x][1] \in Vals /\ piece'[x][2] = 1
              /\ \A k \in Keys : HashIs(x, k)' => latest'[k] = <<piece'[x][1], expireAt'[x]>>
  <2>1. x = o \/ x \in Nodes(next, bucket[b]) BY <1>2, FillPutsFirst
  <2>2. CASE x = o
    <3>1. /\ piece'[x] = <<val, 1>> /\ expireAt'[x] = now + ExpireTime
          /\ hi'[x] = HashHi[key] /\ latest'[key] = <<val, now + ExpireTime>>
      BY <1>1, <1>2, <1>3, <2>2
    <3>2. \A k \in Keys : HashIs(x, k)' => k = key
      BY <1>2, <3>1, HashAssumption DEF HashIs
    <3> QED BY <1>2, <3>1, <3>2
  <2>3. CASE x # o
    <3>1. x \in Nodes(next, bucket[b]) /\ x \in Entries /\ BucketOf(lo[x]) = b
      BY <2>1, <2>3 DEF LInv, BucketsOK
    <3>2. /\ piece'[x] = piece[x] /\ expireAt'[x] = expireAt[x]
          /\ hi'[x] = hi[x] /\ lo'[x] = lo[x]
      BY <1>3, <2>3
    <3>3. ~HashIs(x, key)
      <4> SUFFICES ASSUME HashIs(x, key) PROVE FALSE OBVIOUS
      <4>1. x \in Chain(key) BY <1>2, <3>1, ChainShape DEF HashIs
      <4> QED BY <1>2, <4>1 DEF CInv, WalkOK
    <3>4. \A k \in Keys : HashIs(x, k)' = HashIs(x, k) BY <3>2 DEF HashIs
    <3>5. \A k \in Keys : k # key => latest'[k] = latest[k] BY <1>3
    <3>6. /\ piece[x][1] \in Vals /\ piece[x][2] = 1
          /\ \A k \in Keys : HashIs(x, k) => latest[k] = <<piece[x][1], expireAt[x]>>
      BY <3>1 DEF CInv, ChainOK
    <3> QED BY <3>2, <3>3, <3>4, <3>5, <3>6
  <2> QED BY <2>2, <2>3
<1>13. ChainOK' BY <1>12 DEF ChainOK
<1>14. StoreOK' BY <1>4, <1>9 DEF StoreOK
<1> QED BY <1>4, <1>11, <1>13, <1>14 DEF CInv, WalkOK, ReadOK

\* Any further piece continues the value in the making.
LEMMA OtherContents ==
  ASSUME IInv, LInv, LInv', CInv, NEW o, Taken(o), cnt # 1 PROVE CInv'
<1>1. /\ DOMAIN expand = Chunk /\ DOMAIN hi = Chunk /\ DOMAIN lo = Chunk /\ DOMAIN piece = Chunk
  BY DEF IInv, MemoryOK
<1>2. /\ o \in Chunk \ {0} /\ pc = "alloc" /\ o \notin Entries
      /\ op = "put" /\ val \in Vals /\ cnt \in Nat /\ cnt > 1 /\ cnt <= Pieces[val]
      /\ Fill(o) /\ ret # "replace" /\ Tie(o)
  <2>1. /\ o \in Chunk \ {0} /\ pc = "alloc" /\ o \notin Entries /\ PutVal(o)
        /\ op = "put" /\ val \in Vals /\ cnt \in Nat
    BY DEF Taken, IInv, FrameOK
  <2>2. cnt >= 1 /\ cnt <= Pieces[val] BY <2>1 DEF LInv, CallOK
  <2>3. cnt > 1 BY <2>1, <2>2
  <2>4. ret # "replace" BY <2>1, <2>3 DEF LInv, CallOK, Storing
  <2> QED BY <2>1, <2>2, <2>3, <2>4 DEF PutVal
<1>3. /\ hi' = [hi EXCEPT ![o] = HashHi[key]] /\ lo' = [lo EXCEPT ![o] = HashLo[key]]
      /\ piece' = [piece EXCEPT ![o] = <<val, cnt>>]
      /\ UNCHANGED <<next, bucket, expireAt, latest>>
  BY <1>2 DEF Fill, history
<1>4. /\ op' = op /\ val' = val
      /\ \/ /\ cnt = Pieces[val] /\ pc' = "idle"
            /\ expand' = [[expand EXCEPT ![p] = o] EXCEPT ![o] = 0]
         \/ /\ cnt # Pieces[val] /\ pc' = "alloc"
            /\ expand' = [expand EXCEPT ![p] = o]
            /\ p' = o /\ cnt' = cnt + 1
  BY <1>2 DEF Tie, Return, call
<1>5. /\ Storing /\ Ends0 = [expand EXCEPT ![p] = 0] /\ pc' # "free"
      /\ Ends0' = [[expand EXCEPT ![p] = o] EXCEPT ![o] = 0]
      /\ Storing' => p' = o /\ cnt' = cnt + 1
      /\ ~Storing' => cnt = Pieces[val]
  <2>1. cnt + 1 > 1 BY <1>2
  <2> QED BY <1>2, <1>4, <2>1 DEF Storing, Ends0
<1>6. InUse' = InUse \cup {o} /\ o \notin InUse BY <1>5, TakenInUse
<1>7. p \in InUse /\ p \in Chunk /\ p # o /\ p # 0
  <2>1. access_beg # 0 /\ p \in Nodes(Ends0, access_beg)
    BY <1>5 DEF LInv, CallOK
  <2>2. access_beg \in Entries
    BY <2>1, LinksAreLinks, Members, ListShape DEF IInv, LInv, ListsOK, BothWays, Entries
  <2>3. p \in InUse BY <2>1, <2>2 DEF InUse
  <2> QED BY <1>6, <2>3, InUseShape
<1>8. /\ Ends0[p] = 0 /\ Ends0'[p] = o /\ Ends0'[o] = 0
      /\ \A c \in Chunk : c # p /\ c # o => Ends0'[c] = Ends0[c]
  BY <1>1, <1>2, <1>5, <1>7
<1>9. piece[p] = <<val, cnt - 1>> BY <1>5, <1>7, <1>8 DEF CInv, PiecesOK
<1>10. Pieces[val] \in Nat /\ Pieces[val] <= MaxPieces
  BY <1>2, DataAssumption DEF CInv, StoreOK
<1>11. piece'[o] = <<val, cnt>> /\ \A c \in InUse : piece'[c] = piece[c]
  BY <1>1, <1>2, <1>3, <1>6
<1>12. PiecesOK'
  <2>1. ASSUME NEW c \in InUse', c = o
        PROVE  /\ piece'[c][1] \in Vals /\ piece'[c][2] <= Pieces[piece'[c][1]]
               /\ Pieces[piece'[c][1]] <= MaxPieces /\ Ends0'[c] = 0
               /\ IF Storing' /\ c = p' THEN piece'[c] = <<val', cnt' - 1>>
                                        ELSE piece'[c][2] = Pieces[piece'[c][1]]
    <3>1. cnt = (cnt + 1) - 1 BY <1>2
    <3> QED BY <1>2, <1>4, <1>5, <1>8, <1>10, <1>11, <2>1, <3>1
  <2>2. ASSUME NEW c \in InUse', c = p
        PROVE  /\ piece'[c][1] \in Vals /\ piece'[c][2] <= Pieces[piece'[c][1]]
               /\ Pieces[piece'[c][1]] <= MaxPieces /\ Ends0'[c] # 0
               /\ piece'[Ends0'[c]] = <<piece'[c][1], piece'[c][2] + 1>>
    <3>1. cnt - 1 <= Pieces[val] /\ (cnt - 1) + 1 = cnt BY <1>2, <1>10
    <3> QED BY <1>2, <1>7, <1>8, <1>9, <1>10, <1>11, <2>2, <3>1
  <2>3. ASSUME NEW c \in InUse, c # p
        PROVE  /\ piece'[c][1] \in Vals /\ piece'[c][2] <= Pieces[piece'[c][1]]
               /\ Pieces[piece'[c][1]] <= MaxPieces
               /\ Ends0'[c] # 0 => piece'[Ends0'[c]] = <<piece'[c][1], piece'[c][2] + 1>>
               /\ Ends0'[c] = 0 => piece'[c][2] = Pieces[piece'[c][1]]
               /\ ~(Storing' /\ c = p')
    <3>1. c \in Chunk /\ c # o /\ Ends0'[c] = Ends0[c] BY <1>6, <1>8, <2>3, InUseShape
    <3>2. Ends0[c] # 0 => piece'[Ends0[c]] = piece[Ends0[c]] BY <1>11, InUseShape
    <3> QED BY <1>5, <1>11, <2>3, <3>1, <3>2 DEF CInv, PiecesOK
  <2> QED BY <1>6, <2>1, <2>2, <2>3 DEF PiecesOK
<1>13. ChainOK'
  <2> SUFFICES ASSUME NEW b \in Buckets, NEW x \in Nodes(next, bucket[b])
               PROVE  /\ piece'[x][1] \in Vals /\ piece'[x][2] = 1
                      /\ \A k \in Keys : HashIs(x, k)' =>
                                           latest[k] = <<piece'[x][1], expireAt[x]>>
    BY <1>3 DEF ChainOK
  <2>1. x \in Entries /\ x # o BY <1>2 DEF LInv, BucketsOK
  <2>2. piece'[x] = piece[x] /\ \A k \in Keys : HashIs(x, k)' = HashIs(x, k)
    BY <1>3, <2>1 DEF HashIs
  <2> QED BY <2>2 DEF CInv, ChainOK
<1>14. StoreOK' BY <1>4, <1>10 DEF StoreOK
<1>15. WalkOK' /\ ReadOK'
  <2>1. pc' \in {"idle", "alloc"} /\ (pc' = "alloc" => cnt' # 1) BY <1>2, <1>4
  <2> QED BY <2>1 DEF WalkOK, ReadOK
<1> QED BY <1>12, <1>13, <1>14, <1>15 DEF CInv

\* No memory for a value of one piece: chunk 0, which is written, is not in use.
LEMMA AllocFailContents ==
  ASSUME IInv, LInv, LInv', CInv, AllocFail, Pieces[val] = 1 PROVE CInv'
<1>1. pc = "alloc" /\ cnt = 1 /\ Tie(0)
  <2>1. pc = "alloc" /\ Tie(0) /\ cnt \in Nat BY DEF AllocFail, IInv, FrameOK
  <2>2. 1 <= cnt /\ cnt <= 1 BY <2>1 DEF LInv, CallOK
  <2> QED BY <2>1, <2>2
<1>2. /\ pc' = "idle" /\ expand' = [expand EXCEPT ![0] = 0]
      /\ UNCHANGED <<bucket, hi, lo, piece, expireAt, next, alloc_cnt, free_beg, latest>>
  BY <1>1 DEF AllocFail, Tie, Return, counts, queues, history
<1>3. Ends0 = expand /\ Ends0' = expand' /\ ~Storing /\ ~Storing'
  BY <1>1, <1>2 DEF Ends0, Storing
<1>4. InUse' = InUse
  <2>1. Free' = Free /\ Going = {} /\ Going' = {} BY <1>1, <1>2 DEF Free, Going
  <2> QED BY <1>2, <2>1, InUseIs
<1>5. \A c \in InUse : Ends0'[c] = Ends0[c] BY <1>2, <1>3, InUseShape
<1>6. PiecesOK' BY <1>2, <1>3, <1>4, <1>5 DEF CInv, PiecesOK
<1>7. ChainOK' BY <1>2 DEF CInv, ChainOK, HashIs
<1> QED BY <1>2, <1>6, <1>7 DEF CInv, WalkOK, ReadOK, StoreOK

-----------------------------------------------------------------------------
\* Every gentle step that is not a crash keeps the contents.
LEMMA NextContents ==
  ASSUME IInv, IInv', LInv, LInv', CInv, Alive', [GentleNext]_vars
  PROVE  CInv'
<1>1. CASE (\E k \in Keys : GetCall(k) \/ DelCall(k))
             \/ (\E k \in Keys, v \in Vals : PutCall(k, v) \/ PutEmpty(k, v))
             \/ ViewCall
  BY <1>1, CallContents
<1>2. CASE \/ EvictEnd \/ FindNext \/ FindNone \/ FlushEnd \/ ReadExpand \/ ReadOverrun
           \/ ReadEnd \/ StoreBegin \/ StoreTooLong \/ ViewNext \/ ViewEnd \/ Tick
  BY <1>2, LoopContents
<1>3. CASE DelFound \/ Replace \/ FlushFirst
  <2>1. pc = "find" /\ off \in Entries
    <3>1. pc = "find" /\ off # 0 BY <1>3 DEF DelFound, Replace, FlushFirst, Found
    <3>2. off \in Chain(key) /\ key \in Keys
      BY <3>1 DEF LInv, CallOK, IInv, FrameOK, Chain
    <3> QED BY <3>1, <3>2, ChainShape
  <2>2. \E caller : Unlink(off, caller) BY <1>3 DEF DelFound, Replace, FlushFirst
  <2> QED BY <2>1, <2>2, UnlinkContents
<1>4. CASE FlushNext
  <2>1. pc = "flush" /\ off \in Entries /\ op = "get" /\ Unlink(off, "flush")
    BY <1>4 DEF FlushNext, LInv, CallOK, IInv, FrameOK
  <2> QED BY <2>1, UnlinkContents
<1>5. CASE FreeExpand \/ FreeLast
  BY <1>5, FreeContents
<1>6. CASE Touch
  BY <1>6, TouchContents
<1>7. CASE AllocFree \/ AllocFresh \/ AllocSlice
  BY <1>7, ChunkTaken, FirstContents, OtherContents
<1>8. CASE AllocFail /\ Gentle
  BY <1>8, AllocFailContents DEF Gentle
<1>9. CASE Restart
  BY <1>9, RestartContents
<1>10. CASE UNCHANGED vars
  <2>1. /\ UNCHANGED <<bucket, hi, lo, piece, next, expand, aNext, expireAt, access_beg>>
        /\ UNCHANGED <<pc, op, key, val, off, p, cnt, good, latest>>
    BY <1>10 DEF vars, memory, chunks, links, queues, call, cursors, history
  <2>2. /\ Entries' = Entries /\ Storing' = Storing /\ Ends0' = Ends0
        /\ FirstIn(key)' = FirstIn(key)
    BY <2>1 DEF Entries, Storing, Ends0, FirstIn
  <2>3. InUse' = InUse /\ Chain(key)' = Chain(key) BY <2>1, <2>2 DEF InUse, Chain
  <2>4. \A o, k : HashIs(o, k)' = HashIs(o, k) BY <2>1 DEF HashIs
  <2>5. ChainOK' BY <2>1, <2>4 DEF CInv, ChainOK
  <2>6. WalkOK' BY <2>1, <2>3, <2>4 DEF CInv, WalkOK
  <2>7. PiecesOK' BY <2>1, <2>2, <2>3 DEF CInv, PiecesOK
  <2>8. ReadOK' /\ StoreOK' BY <2>1, <2>3 DEF CInv, ReadOK, StoreOK
  <2> QED BY <2>5, <2>6, <2>7, <2>8 DEF CInv
<1>11. ~AllocWild /\ ~ViewWild /\ ~StoreOverrun /\ (GentleNext => ~EvictOne)
  BY NeverWild DEF GentleNext, Gentle, StoreOverrun, Crash, Alive
<1> QED
  BY <1>1, <1>2, <1>3, <1>4, <1>5, <1>6, <1>7, <1>8, <1>9, <1>10, <1>11
  DEF GentleNext, Next, Step

\* What the chunks hold is right in every state that gentle steps reach, up
\* to a crash.
Contents == Alive => LInv /\ CInv

THEOREM ContentsInvariance == GentleSpec => [](IInv /\ Contents)
<1>1. Init => IInv /\ Contents
  BY InitInv, InitLists, InitContents DEF Contents
<1>2. IInv /\ Contents /\ [GentleNext]_vars => (IInv /\ Contents)'
  <2> SUFFICES ASSUME IInv, Contents, [GentleNext]_vars PROVE (IInv /\ Contents)'
    OBVIOUS
  <2>1. IInv' BY NextInv DEF GentleNext
  <2>2. Lists' BY <2>1, NextLists DEF Contents, Lists
  <2>3. CASE Alive
    BY <2>1, <2>2, <2>3, NextContents DEF Contents, Lists
  <2>4. CASE ~Alive /\ UNCHANGED vars
    BY <2>1, <2>4 DEF vars, Contents, Alive
  <2>5. CASE ~Alive /\ GentleNext
    BY <2>1, <2>2, <2>5, CrashLasts, RestartContents DEF GentleNext, Contents, Lists
  <2> QED BY <2>3, <2>4, <2>5
<1> QED
  BY <1>1, <1>2, PTL DEF GentleSpec

-----------------------------------------------------------------------------
\* A copy that ends without an error delivers what was stored last.
LEMMA AnswerIsLatest ==
  ASSUME IInv, CInv, Next, pc = "read", reply'.st = "ok"
  PROVE  ReadEnd /\ reply'.val = piece[off][1] /\ latest[key][1] = reply'.val
<1>1. reply.st = "none"
  BY DEF IInv, ReplyOK
<1>2. ReadEnd
  <2>1. ~Restart
    BY DEF Restart, NoReply
  <2>2. ~ReadExpand /\ ~ReadOverrun
    BY <1>1 DEF ReadExpand, ReadOverrun, Crash
  <2> QED
    BY <2>1, <2>2
    DEF Next, Step, GetCall, DelCall, PutCall, PutEmpty, ViewCall, Enter, EvictOne,
        EvictEnd, FreeExpand, FreeLast, FindNext, FindNone, Found, DelFound, Replace,
        FlushFirst, FlushNext, FlushEnd, Touch, StoreBegin, StoreTooLong, StoreOverrun,
        AllocFree, AllocWild, AllocFresh, AllocSlice, AllocFail, ViewNext, ViewWild,
        ViewEnd, Tick
<1>3. reply'.val = piece[off][1]
  BY <1>2 DEF ReadEnd, Return
<1>4. latest[key] = <<piece[off][1], expireAt[off]>>
  BY DEF CInv, ReadOK
<1> QED BY <1>2, <1>3, <1>4

\* A hit returns the value stored last for its key, not an older copy that
\* was left in the queues when del_off emptied its bucket; nothing evicted,
\* replaced in several chunks or cut short.
THEOREM ServesLatest == GentleSpec => ServedLatest
<1> DEFINE Latest == pc = "read" /\ reply'.st = "ok" => latest[key][1] = reply'.val
<1>1. IInv /\ Contents /\ [GentleNext]_vars => [Latest]_vars
  BY AnswerIsLatest DEF GentleNext, Contents, Alive
<1> QED
  BY <1>1, ContentsInvariance, PTL DEF GentleSpec, ServedLatest

\* A call crashes in a copy to or from the buffers, or on the free list.
LEMMA CrashNeeds ==
  ASSUME Next, Alive, ~Alive'
  PROVE  ReadOverrun \/ StoreOverrun \/ AllocWild \/ ViewWild
BY DEF Alive, Next, Step, GetCall, DelCall, PutCall, PutEmpty, ViewCall, Enter, EvictOne,
       EvictEnd, FreeExpand, FreeLast, FindNext, FindNone, Found, DelFound, Replace,
       FlushFirst, FlushNext, FlushEnd, Touch, ReadExpand, ReadEnd, StoreBegin,
       StoreTooLong, AllocFree, AllocFresh, AllocSlice, AllocFail, ViewNext, ViewEnd,
       Tick, Restart, Return, Unlink, PutVal, Tie

\* The longest values, when their last chunk fits the buffer in part only.
Longest(v) == v \in Vals /\ BufPieces < Pieces[v] /\ Pieces[v] = MaxPieces

\* A copy that runs over a buffer is one of such a value.
LEMMA OverrunNeeds ==
  ASSUME IInv, LInv, CInv, ReadOverrun \/ StoreOverrun
  PROVE  \/ op = "put" /\ Longest(val)
         \/ op = "get" /\ Longest(latest[key][1])
<1> DEFINE Reached(v) == /\ v \in Vals /\ Pieces[v] <= MaxPieces
                         /\ \E n \in Nat : BufPieces < n /\ n <= Pieces[v]
<1>1. \A v : Reached(v) => Longest(v) BY SizesAssumption, DataAssumption DEF Longest
<1>2. CASE StoreOverrun
  <2>1. pc = "alloc" /\ cnt > BufPieces /\ op = "put" /\ val \in Vals /\ cnt \in Nat
    BY <1>2 DEF StoreOverrun, IInv, FrameOK
  <2>2. cnt <= Pieces[val] /\ Pieces[val] <= MaxPieces
    BY <2>1 DEF LInv, CallOK, CInv, StoreOK
  <2>3. Reached(val)
    <3>1. BufPieces < cnt BY <2>1, SizesAssumption
    <3> QED BY <2>1, <2>2, <3>1
  <2> QED BY <1>1, <2>1, <2>3
<1>3. CASE ReadOverrun
  <2>1. /\ pc = "read" /\ expand[p] # 0 /\ cnt >= BufPieces /\ p \in InUse /\ cnt \in Nat
        /\ piece[p] = <<piece[off][1], cnt>> /\ latest[key] = <<piece[off][1], expireAt[off]>>
        /\ op = "get"
    BY <1>3 DEF ReadOverrun, CInv, ReadOK, IInv, FrameOK
  <2> DEFINE v == piece[off][1]
  <2>2. Ends0 = expand BY <2>1 DEF Ends0, Storing
  <2>3. expand[p] \in InUse /\ piece[expand[p]] = <<v, cnt + 1>>
    <3>1. Ends0[p] # 0 BY <2>1, <2>2
    <3>2. Ends0[p] \in InUse BY <2>1, <3>1, InUseShape
    <3>3. piece[Ends0[p]] = <<piece[p][1], piece[p][2] + 1>> BY <2>1, <3>1 DEF CInv, PiecesOK
    <3> QED BY <2>1, <2>2, <3>2, <3>3
  <2>4. v \in Vals /\ cnt + 1 <= Pieces[v] /\ Pieces[v] <= MaxPieces
    BY <2>3 DEF CInv, PiecesOK
  <2>5. Reached(v)
    <3> HIDE DEF v
    <3>1. cnt + 1 \in Nat /\ BufPieces < cnt + 1 BY <2>1, SizesAssumption
    <3> QED BY <2>4, <3>1
  <2>6. latest[key][1] = v BY <2>1
  <2> QED BY <1>1, <2>1, <2>5, <2>6
<1> QED BY <1>2, <1>3

\* As long as nothing is evicted, replaced in several chunks or cut short, no
\* call crashes on the free list, and get and put run over their buffers only
\* with a value of MaxPieces chunks that do not fit MAX_VAL_LEN whole.
OnlyLongestCrash ==
  [][Alive /\ ~Alive' => \/ op = "put" /\ Longest(val)
                         \/ op = "get" /\ Longest(latest[key][1])]_vars

THEOREM OnlyLongestCrashes == GentleSpec => OnlyLongestCrash
<1> DEFINE Fits == Alive /\ ~Alive' => \/ op = "put" /\ Longest(val)
                                       \/ op = "get" /\ Longest(latest[key][1])
<1>1. IInv /\ Contents /\ [GentleNext]_vars => [Fits]_vars
  BY CrashNeeds, NeverWild, OverrunNeeds DEF GentleNext, Contents
<1> QED
  BY <1>1, ContentsInvariance, PTL DEF GentleSpec, OnlyLongestCrash

\* debug=1 gets its answer, in the same behaviours, whatever the values are.
THEOREM DebugGetsAnswer == GentleSpec => []DebugAnswers
<1>1. Init => DebugAnswers
  BY DEF Init, DebugAnswers
<1>2. IInv /\ Contents /\ DebugAnswers /\ [GentleNext]_vars => DebugAnswers'
  <2> SUFFICES ASSUME IInv, Contents, DebugAnswers, [GentleNext]_vars PROVE DebugAnswers'
    OBVIOUS
  <2>1. CASE UNCHANGED vars BY <2>1 DEF vars, call, DebugAnswers
  <2>2. CASE Alive /\ ~Alive' /\ GentleNext
    <3>1. ReadOverrun \/ StoreOverrun
      BY <2>2, CrashNeeds, NeverWild DEF GentleNext, Contents
    <3>2. op' # "view" BY <3>1 DEF ReadOverrun, StoreOverrun, Crash, call, IInv, FrameOK
    <3> QED BY <3>2 DEF DebugAnswers
  <2>3. CASE Alive' BY <2>3 DEF Alive, DebugAnswers
  <2>4. CASE ~Alive /\ GentleNext
    BY <2>4, CrashLasts DEF GentleNext, Restart, DebugAnswers
  <2> QED BY <2>1, <2>2, <2>3, <2>4
<1> QED
  BY <1>1, <1>2, ContentsInvariance, PTL DEF GentleSpec

\* All of it holds for an owner whose values fit one chunk, up to the first
\* chunk that do_eliminate deletes: a hit returns what was stored last and
\* moves to the front, and debug=1 is answered.
THEOREM OneChunkAnswers ==
  ASSUME OneChunkValues
  PROVE  UnevictedSpec => AccessOrderKept /\ ServedLatest /\ []DebugAnswers
<1>1. IInv /\ LInv /\ OneInv /\ [UnevictedNext]_vars => [GentleNext]_vars
  BY OneIsGentle DEF GentleNext, UnevictedNext
<1>2. UnevictedSpec => GentleSpec
  BY <1>1, OneChunkGentle, PTL DEF UnevictedSpec, GentleSpec
<1> QED
  BY <1>2, OrderStaysUsed, ServesLatest, DebugGetsAnswer

-----------------------------------------------------------------------------
(* The worker thread of the server, as long as it evicts nothing, runs out *)
(* of memory in the middle of no page, and replaces no page of several     *)
(* chunks.  It replaces only what it cannot read back: pages longer than   *)
(* MAX_VAL_LEN before compression.                                         *)

Roomy ==
  /\ ~EvictOne
  /\ AllocFail => Pieces[val] = 1
  /\ Replace /\ piece[off][1] \in Big => Pieces[val] = 1 /\ expand[off] = 0
RoomyNext == WorkerNext /\ Roomy
RoomySpec == Init /\ [][RoomyNext]_vars

-----------------------------------------------------------------------------
\* The worker deletes nothing by name.
RolesOK == op # "del" /\ ret \notin {"del", "evict"} /\ (pc = "view" => op = "view")

\* After a get that failed its url is not in its bucket until it is put, but
\* for a page that is too long to be read.
MissedOK ==
  /\ pc = "idle" /\ reply.op = "get" /\ reply.st # "ok" =>
       /\ reply.key \in Keys
       /\ \A o \in Chain(reply.key) : HashIs(o, reply.key) => piece[o][1] \in Big
  /\ op = "put" /\ pc \in {"evict", "store", "find", "free"} =>
       \A o \in Chain(key) : HashIs(o, key) => piece[o][1] \in Big

\* What a get flushes is behind an entry of its key that has expired.
FlushedOK ==
  op = "get" /\ pc \in {"free", "flush"} =>
    /\ bucket[BucketOf(HashLo[key])] = 0
    /\ latest[key][1] # None /\ latest[key][2] < now

WInv == RolesOK /\ MissedOK /\ FlushedOK

-----------------------------------------------------------------------------
\* A step that leaves buckets and entries alone leaves what is found in them.
LEMMA FoundKept ==
  ASSUME IInv, LInv, UNCHANGED <<hi, bucket, next>>, \A o \in Entries : lo'[o] = lo[o],
         NEW k \in Keys
  PROVE  /\ Chain(k)' = Chain(k) /\ Nodes(next', FirstIn(k)') = Chain(k)
         /\ \A o \in Chain(k) : HashIs(o, k)' = HashIs(o, k)
         /\ Kept(k) => StillKept(k)
<1>1. Chain(k)' = Chain(k) /\ Nodes(next', FirstIn(k)') = Chain(k) BY DEF Chain, FirstIn
<1>2. \A o \in Chain(k) : HashIs(o, k)' = HashIs(o, k) BY ChainShape DEF HashIs
<1> QED BY <1>1, <1>2 DEF Kept, StillKept

\* The cache is empty, at start and after a restart.
LEMMA InitWork == Init => WInv
BY DEF Init, WInv, RolesOK, MissedOK, FlushedOK, NoReply

\* The same of a restart.
LEMMA RestartWork == Restart => WInv'
BY DEF Restart, WInv, RolesOK, MissedOK, FlushedOK, NoReply

-----------------------------------------------------------------------------
\* The worker calls get, debug=1, or put for the url it just missed.
LEMMA CallWork ==
  ASSUME IInv, LInv, WInv,
         (\E k \in Keys : GetCall(k)) \/ (\E k \in Keys, v \in Vals : Fetched(k, v)) \/ ViewCall
  PROVE  WInv'
<1>1. pc = "idle" /\ UNCHANGED <<memory, history, now, ret>>
  BY DEF GetCall, Fetched, PutCall, PutEmpty, ViewCall, Enter, cursors
<1>2. UNCHANGED <<bucket, hi, lo, piece, next>>
  BY <1>1 DEF memory, chunks, links
<1>3. \A k \in Keys : /\ Chain(k)' = Chain(k)
                      /\ \A o \in Chain(k) : HashIs(o, k)' = HashIs(o, k)
  BY <1>2, FoundKept
<1>4. CASE \E k \in Keys : GetCall(k)
  <2>1. pc' = "find" /\ op' = "get" BY <1>4 DEF GetCall, Enter
  <2> QED BY <1>1, <2>1 DEF WInv, RolesOK, MissedOK, FlushedOK
<1>5. CASE ViewCall
  <2>1. pc' = "view" /\ op' = "view" BY <1>5 DEF ViewCall, Enter
  <2> QED BY <1>1, <2>1 DEF WInv, RolesOK, MissedOK, FlushedOK
<1>6. CASE \E k \in Keys, v \in Vals : Fetched(k, v)
  <2>1. PICK k \in Keys, v \in Vals : Fetched(k, v) BY <1>6
  <2>2. \A o \in Chain(k) : HashIs(o, k) => piece[o][1] \in Big
    BY <1>1, <2>1 DEF Fetched, WInv, MissedOK
  <2>3. \A o \in Chain(k)' : HashIs(o, k)' => piece'[o][1] \in Big BY <1>2, <1>3, <2>2
  <2>4. CASE PutCall(k, v)
    <3>1. pc' \in {"evict", "store"} /\ op' = "put" /\ key' = k BY <2>4 DEF PutCall, Enter
    <3>2. Chain(key)' = Chain(k)' /\ \A o : HashIs(o, key)' = HashIs(o, k)'
      BY <3>1 DEF Chain, FirstIn, HashIs
    <3> QED BY <1>1, <2>3, <3>1, <3>2 DEF WInv, RolesOK, MissedOK, FlushedOK
  <2>5. CASE PutEmpty(k, v)
    <3>1. pc' = "idle" /\ reply'.op = "put" /\ op' = op BY <1>1, <2>5 DEF PutEmpty, call
    <3> QED BY <1>1, <3>1 DEF WInv, RolesOK, MissedOK, FlushedOK
  <2> QED BY <2>1, <2>4, <2>5 DEF Fetched
<1> QED BY <1>4, <1>5, <1>6

\* A copy fails only for a page that is too long: all of its pieces are there.
LEMMA ReadGivesPage ==
  ASSUME IInv, LInv, CInv, ReadEnd
  PROVE  /\ piece[off][1] \in Vals
         /\ \/ piece[off][1] \notin Big /\ Return("ok", piece[off][1])
            \/ piece[off][1] \in Big /\ Return("uncomp_error", None)
<1>1. /\ pc = "read" /\ p \in InUse /\ piece[p] = <<piece[off][1], cnt>> /\ good
      /\ expand[p] = 0
  BY DEF ReadEnd, CInv, ReadOK
<1>2. Ends0 = expand /\ ~Storing BY <1>1 DEF Ends0, Storing
<1>3. piece[off][1] \in Vals /\ cnt = Pieces[piece[off][1]]
  BY <1>1, <1>2 DEF CInv, PiecesOK
<1>4. cnt \in Nat BY DEF IInv, FrameOK
<1> QED BY <1>1, <1>3, <1>4 DEF ReadEnd

\* A walk that ends without the key has passed all of its bucket; a loop that
\* only reads changes nothing else.
LEMMA LoopWork ==
  ASSUME IInv, LInv, CInv, WInv,
         \/ EvictEnd \/ FindNext \/ FindNone \/ FlushEnd \/ ReadExpand \/ ReadOverrun
         \/ ReadEnd \/ StoreBegin \/ StoreTooLong \/ ViewNext \/ ViewEnd \/ Tick
  PROVE  WInv'
<1>1. /\ UNCHANGED <<memory, history, call>>
      /\ ret' = ret \/ ret' = "none"
      /\ pc' = "view" => pc = "view"
      /\ pc' \notin {"free", "flush"}
      /\ op = "put" /\ pc' \in {"evict", "store", "find"} => pc \in {"evict", "store", "find"}
  <2> USE DEF EvictEnd, FindNext, FindNone, FlushEnd, ReadExpand, ReadOverrun, ReadEnd,
              StoreBegin, StoreTooLong, ViewNext, ViewEnd, Tick, Return, Crash
  <2>1. /\ UNCHANGED <<memory, history, call>>
        /\ ret' = ret \/ ret' = "none"
        /\ pc' \notin {"free", "flush"}
    BY DEF cursors
  <2>2. /\ pc' = "view" => pc = "view"
        /\ op = "put" /\ pc' \in {"evict", "store", "find"} => pc \in {"evict", "store", "find"}
    OBVIOUS
  <2> QED BY <2>1, <2>2
<1>2. /\ UNCHANGED <<bucket, hi, lo, piece, next, latest>>
      /\ UNCHANGED <<op, key>>
  BY <1>1 DEF memory, chunks, links, history, call
<1>3. RolesOK' BY <1>1, <1>2 DEF WInv, RolesOK
<1>4. FlushedOK' BY <1>1 DEF FlushedOK
<1>5. ASSUME pc' = "idle", reply'.op = "get", reply'.st # "ok"
      PROVE  /\ reply'.key \in Keys
             /\ \A o \in Chain(reply'.key) : HashIs(o, reply'.key) => piece[o][1] \in Big
  <2>1. ASSUME FindNone, op = "get" PROVE \A o \in Chain(key) : ~HashIs(o, key)
    BY <2>1 DEF FindNone, CInv, WalkOK
  <2>2. ASSUME FlushEnd PROVE \A o \in Chain(key) : ~HashIs(o, key)
    <3>1. pc = "flush" /\ op = "get" /\ key \in Keys BY <2>2 DEF FlushEnd, IInv, FrameOK
    <3>2. FirstIn(key) = 0 BY <3>1 DEF WInv, FlushedOK, FirstIn
    <3> QED BY <3>1, <3>2, ChainShape
  <2>3. ASSUME ReadEnd, key \in Keys
        PROVE  \A o \in Chain(key) : HashIs(o, key) => piece[o][1] \in Big
    <3>1. piece[off][1] \in Big
      <4>1. piece[off][1] \in Big \/ Return("ok", piece[off][1]) BY <2>3, ReadGivesPage
      <4> QED BY <4>1, <1>5 DEF Return
    <3>2. latest[key][1] = piece[off][1] BY <2>3 DEF ReadEnd, CInv, ReadOK
    <3>3. \A o \in Chain(key) : HashIs(o, key) => latest[key][1] = piece[o][1]
      BY <2>3, ChainShape DEF CInv, ChainOK
    <3> QED BY <3>1, <3>2, <3>3
  <2>4. CASE Tick
    <3>1. pc = "idle" /\ reply' = reply BY <2>4 DEF Tick
    <3> QED BY <1>5, <3>1 DEF WInv, MissedOK
  <2>5. CASE ~Tick
    <3>1. /\ FindNone \/ FlushEnd \/ StoreTooLong \/ ViewEnd \/ ReadEnd
          /\ \E st, v : Return(st, v)
      BY <1>5, <2>5
      DEF EvictEnd, FindNext, FindNone, FlushEnd, ReadExpand, ReadOverrun, ReadEnd,
          StoreBegin, StoreTooLong, ViewNext, ViewEnd, Crash
    <3>2. reply'.op = op /\ reply'.key = key BY <3>1 DEF Return
    <3>3. op = "get" /\ key \in Keys BY <1>5, <3>2 DEF IInv, FrameOK
    <3>4. ~StoreTooLong /\ ~ViewEnd
      BY <3>3 DEF StoreTooLong, ViewEnd, IInv, FrameOK, WInv, RolesOK
    <3> QED BY <2>1, <2>2, <2>3, <3>1, <3>2, <3>3, <3>4
  <2> QED BY <2>4, <2>5
<1>6. MissedOK'
  <2>1. ASSUME pc' = "idle", reply'.op = "get", reply'.st # "ok"
        PROVE  /\ reply'.key \in Keys
               /\ \A o \in Chain(reply.key)' : HashIs(o, reply.key)' => piece'[o][1] \in Big
    <3>1. /\ reply'.key \in Keys
          /\ \A o \in Chain(reply'.key) : HashIs(o, reply'.key) => piece[o][1] \in Big
      BY <1>5, <2>1
    <3>2. Chain(reply.key)' = Chain(reply'.key) /\ \A o : HashIs(o, reply.key)' = HashIs(o, reply'.key)
      BY <1>2 DEF Chain, FirstIn, HashIs
    <3> QED BY <1>2, <3>1, <3>2
  <2>2. ASSUME op' = "put", pc' \in {"evict", "store", "find"}
        PROVE  \A o \in Chain(key)' : HashIs(o, key)' => piece'[o][1] \in Big
    <3>1. \A o \in Chain(key) : HashIs(o, key) => piece[o][1] \in Big
      BY <1>1, <1>2, <2>2 DEF WInv, MissedOK
    <3>2. Chain(key)' = Chain(key) /\ \A o : HashIs(o, key)' = HashIs(o, key)
      BY <1>2 DEF Chain, FirstIn, HashIs
    <3> QED BY <1>2, <3>1, <3>2
  <2> QED BY <1>1, <2>1, <2>2 DEF MissedOK
<1> QED BY <1>3, <1>4, <1>6 DEF WInv

-----------------------------------------------------------------------------
\* del_off leaves the bucket of its entry empty, and no other.
LEMMA UnlinkEmpties ==
  ASSUME IInv, LInv, NEW o \in Entries, NEW caller, Unlink(o, caller), NEW k \in Keys
  PROVE  /\ BucketOf(lo[o]) = BucketOf(HashLo[k]) => FirstIn(k)' = 0 /\ Chain(k)' = {}
         /\ BucketOf(lo[o]) # BucketOf(HashLo[k]) /\ Kept(k) => StillKept(k)
<1>1. UNCHANGED <<hi, lo>> /\ bucket' = [bucket EXCEPT ![BucketOf(lo[o])] = 0]
  BY DEF Unlink
<1>2. BucketOf(HashLo[k]) \in Buckets /\ DOMAIN bucket = Buckets
  BY BucketInRange, DataAssumption DEF IInv, MemoryOK
<1>3. \A b \in Buckets : Nodes(next', bucket'[b]) = IF b = BucketOf(lo[o]) THEN {}
                                                    ELSE Nodes(next, bucket[b])
  BY UnlinkTakesOut
<1>4. \A c : HashIs(c, k)' = HashIs(c, k) BY <1>1 DEF HashIs
<1>5. Chain(k)' = Nodes(next', bucket'[BucketOf(HashLo[k])])
  BY DEF Chain, FirstIn
<1> QED BY <1>1, <1>2, <1>3, <1>4, <1>5 DEF Kept, StillKept, Chain, FirstIn

\* A flush deletes what has expired.
LEMMA FlushWork ==
  ASSUME IInv, LInv, WInv, NEW o \in Entries, Unlink(o, "flush"), op = "get",
         latest[key][1] # None, latest[key][2] < now,
         \/ bucket[BucketOf(HashLo[key])] = 0
         \/ lo[o] = HashLo[key]
  PROVE  WInv'
<1>1. /\ UNCHANGED <<latest, now, op, key>> /\ pc' = "free" /\ ret' = "flush"
      /\ bucket' = [bucket EXCEPT ![BucketOf(lo[o])] = 0]
  BY DEF Unlink, call, history
<1>2. RolesOK' /\ MissedOK' BY <1>1 DEF WInv, RolesOK, MissedOK
<1>3. FlushedOK'
  <2>1. key \in Keys BY DEF IInv, FrameOK
  <2>2. BucketOf(HashLo[key]) \in Buckets /\ DOMAIN bucket = Buckets
    BY <2>1, BucketInRange, DataAssumption DEF IInv, MemoryOK
  <2>3. bucket'[BucketOf(HashLo[key])] = 0 BY <1>1, <2>2
  <2> QED BY <1>1, <2>3 DEF FlushedOK
<1> QED BY <1>2, <1>3 DEF WInv

\* put_val replaces an entry of its key, and finds none after that.
LEMMA ReplaceWork ==
  ASSUME IInv, LInv, WInv, Replace PROVE WInv' /\ off \in Entries /\ piece[off][1] \in Big
<1>1. /\ pc = "find" /\ op = "put" /\ off # 0 /\ HashIs(off, key) /\ key \in Keys
      /\ Unlink(off, "replace")
  BY DEF Replace, Found, IInv, FrameOK
<1>2. off \in Chain(key) /\ off \in Entries
  <2>1. off \in Chain(key) BY <1>1 DEF LInv, CallOK, Chain
  <2> QED BY <1>1, <2>1, ChainShape
<1>3. piece[off][1] \in Big BY <1>1, <1>2 DEF WInv, MissedOK
<1>4. pc' = "free" /\ ret' = "replace" /\ op' = "put" /\ key' = key
  BY <1>1 DEF Unlink, call
<1>5. Chain(key)' = {}
  <2>1. lo[off] = HashLo[key] BY <1>1 DEF HashIs
  <2>2. Nodes(next', bucket'[BucketOf(HashLo[key])]) = {}
    BY <1>1, <1>2, <2>1, UnlinkTakesOut, BucketInRange, DataAssumption
  <2> QED BY <1>4, <2>2 DEF Chain, FirstIn
<1>6. RolesOK' /\ FlushedOK' BY <1>4 DEF WInv, RolesOK, FlushedOK
<1>7. MissedOK' BY <1>4, <1>5 DEF MissedOK
<1> QED BY <1>2, <1>3, <1>6, <1>7 DEF WInv

\* Freeing touches no entry.
LEMMA FreeWork ==
  ASSUME IInv, LInv, WInv, FreeExpand \/ FreeLast
  PROVE  WInv' /\ ret \in {"flush", "replace"} /\ pc' \in {"free", "flush", "find"}
<1>1. /\ UNCHANGED <<bucket, hi, piece, next, latest>>
      /\ UNCHANGED <<op, key, now>> /\ pc = "free"
      /\ \E w : lo' = [lo EXCEPT ![p] = w]
      /\ ret' = ret \/ ret' = "none"
  BY DEF FreeExpand, FreeLast, TiedFree, Return, links, queues, history, call
<1>2. ret \in {"flush", "replace"} BY <1>1 DEF LInv, FreeingOK, WInv, RolesOK
<1>3. pc' \in {"free", "flush", "find"} BY <1>1, <1>2 DEF FreeExpand, FreeLast, Return
<1>4. op = "put" => key \in Keys BY <1>1 DEF IInv, FrameOK
<1>5. p \notin Entries
  <2>1. p \in Going BY <1>1 DEF LInv, FreeingOK, Going
  <2> QED BY <2>1, Members
<1>6. RolesOK' /\ FlushedOK' BY <1>1, <1>2, <1>3 DEF WInv, RolesOK, FlushedOK
<1>7. MissedOK'
  <2> SUFFICES ASSUME op = "put"
               PROVE  \A o \in Chain(key)' : HashIs(o, key)' => piece'[o][1] \in Big
    BY <1>1, <1>3 DEF MissedOK
  <2>1. \A o \in Chain(key) : HashIs(o, key) => piece[o][1] \in Big
    BY <1>1 DEF WInv, MissedOK
  <2>2. Chain(key)' = Chain(key) BY <1>1 DEF Chain, FirstIn
  <2>3. \A o \in Chain(key) : HashIs(o, key)' = HashIs(o, key)
    BY <1>1, <1>4, <1>5, ChainShape DEF HashIs
  <2> QED BY <1>1, <2>1, <2>2, <2>3
<1> QED BY <1>2, <1>3, <1>6, <1>7 DEF WInv

\* A hit, a piece stored and a page there is no memory for leave nothing of
\* the kind that is spoken of.
LEMMA OtherWork ==
  ASSUME IInv, WInv, Touch \/ AllocFail \/ \E o \in Chunk : Taken(o) PROVE WInv'
<1>1. CASE Touch
  <2>1. pc' = "read" /\ op' = op /\ ret' = ret BY <1>1 DEF Touch, call
  <2> QED BY <2>1 DEF WInv, RolesOK, MissedOK, FlushedOK
<1>2. CASE AllocFail \/ \E o \in Chunk : Taken(o)
  <2>1. pc = "alloc" /\ \E got : Tie(got)
    BY <1>2 DEF AllocFail, Taken, PutVal
  <2>2. op = "put" BY <2>1 DEF IInv, FrameOK
  <2>3. /\ op' = op /\ pc' \in {"idle", "alloc"} /\ ret' = "none"
        /\ pc' = "idle" => reply'.op = "put"
    BY <2>1, <2>2 DEF Tie, Return, call
  <2> QED BY <2>2, <2>3 DEF WInv, RolesOK, MissedOK, FlushedOK
<1> QED BY <1>1, <1>2

-----------------------------------------------------------------------------
\* A roomy worker takes gentle steps only.
LEMMA WorkIsGentle == ASSUME IInv, LInv, WInv, [RoomyNext]_vars PROVE [GentleNext]_vars
<1>1. WorkerNext => Next BY DEF WorkerNext, Fetched, Next
<1> QED BY <1>1, ReplaceWork DEF RoomyNext, Roomy, GentleNext, Gentle

\* What a get is about to flush first, or next.
LEMMA Flushes ==
  ASSUME IInv, LInv, CInv, WInv, FlushFirst \/ FlushNext
  PROVE  /\ off \in Entries /\ Unlink(off, "flush") /\ expireAt[off] < now /\ op = "get"
         /\ latest[key][1] # None /\ latest[key][2] < now
         /\ \/ bucket[BucketOf(HashLo[key])] = 0
            \/ lo[off] = HashLo[key]
<1>1. CASE FlushFirst
  <2>1. /\ pc = "find" /\ off # 0 /\ HashIs(off, key) /\ op = "get" /\ expireAt[off] < now
        /\ Unlink(off, "flush") /\ key \in Keys
    BY <1>1 DEF FlushFirst, Found, Expired, IInv, FrameOK
  <2>2. off \in Chain(key) BY <2>1 DEF LInv, CallOK, Chain
  <2>3. off \in Entries /\ lo[off] = HashLo[key] BY <2>1, <2>2, ChainShape DEF HashIs
  <2>4. /\ latest[key] = <<piece[off][1], expireAt[off]>> /\ piece[off][1] \in Vals
    BY <2>1, <2>2, ChainShape DEF CInv, ChainOK
  <2> QED BY <2>1, <2>3, <2>4, DataAssumption
<1>2. CASE FlushNext
  <2>1. /\ pc = "flush" /\ off \in Entries /\ expireAt[off] < now /\ op = "get"
        /\ Unlink(off, "flush")
    BY <1>2 DEF FlushNext, LInv, CallOK, IInv, FrameOK
  <2> QED BY <2>1 DEF WInv, FlushedOK
<1> QED BY <1>1, <1>2

\* Every such step keeps what is said of the worker.
LEMMA NextWork ==
  ASSUME IInv, IInv', LInv, CInv, WInv, Alive', [RoomyNext]_vars
  PROVE  WInv'
<1>1. CASE \/ \E k \in Keys : GetCall(k)
           \/ \E k \in Keys, v \in Vals : Fetched(k, v)
           \/ ViewCall
  BY <1>1, CallWork
<1>2. CASE \/ EvictEnd \/ FindNext \/ FindNone \/ FlushEnd \/ ReadExpand \/ ReadOverrun
           \/ ReadEnd \/ StoreBegin \/ StoreTooLong \/ ViewNext \/ ViewEnd \/ Tick
  BY <1>2, LoopWork
<1>3. CASE FlushFirst \/ FlushNext
  BY <1>3, Flushes, FlushWork
<1>4. CASE Replace
  BY <1>4, ReplaceWork
<1>5. CASE FreeExpand \/ FreeLast
  BY <1>5, FreeWork
<1>6. CASE Touch \/ AllocFree \/ AllocFresh \/ AllocSlice \/ AllocFail
  <2>1. Touch \/ AllocFail \/ \E o \in Chunk : Taken(o) BY <1>6, ChunkTaken
  <2> QED BY <2>1, OtherWork
<1>7. CASE Restart
  BY <1>7, RestartWork
<1>8. CASE UNCHANGED vars
  <2>1. /\ UNCHANGED <<bucket, hi, lo, piece, next, latest>>
        /\ UNCHANGED <<pc, op, key, ret, reply, now>>
    BY <1>8 DEF vars, memory, chunks, links, queues, call, cursors, history
  <2>2. /\ Chain(key)' = Chain(key) /\ Chain(reply.key)' = Chain(reply.key)
        /\ \A o : HashIs(o, key)' = HashIs(o, key) /\ HashIs(o, reply.key)' = HashIs(o, reply.key)
    BY <2>1 DEF Chain, FirstIn, HashIs
  <2>3. RolesOK' /\ FlushedOK' BY <2>1 DEF WInv, RolesOK, FlushedOK
  <2>4. MissedOK' BY <2>1, <2>2 DEF WInv, MissedOK
  <2> QED BY <2>3, <2>4 DEF WInv
<1>9. ~AllocWild /\ ~ViewWild /\ ~StoreOverrun /\ ~DelFound /\ (RoomyNext => ~EvictOne)
  BY NeverWild DEF RoomyNext, Roomy, StoreOverrun, Crash, Alive, DelFound, WInv, RolesOK
<1> QED
  BY <1>1, <1>2, <1>3, <1>4, <1>5, <1>6, <1>7, <1>8, <1>9 DEF RoomyNext, WorkerNext, Step

\* The invariant of the worker, its lists and its contents, up to a crash.
Sound == IInv /\ (Alive => LInv /\ CInv /\ WInv)

THEOREM WorkerInvariance == RoomySpec => []Sound
<1>1. Init => Sound
  BY InitInv, InitLists, InitContents, InitWork DEF Sound
<1>2. Sound /\ [RoomyNext]_vars => Sound'
  <2> SUFFICES ASSUME Sound, [RoomyNext]_vars PROVE Sound'
    OBVIOUS
  <2>1. IInv'
    <3>1. WorkerNext => Next BY DEF WorkerNext, Fetched, Next
    <3> QED BY <3>1, NextInv DEF Sound, RoomyNext
  <2>2. CASE Alive /\ Alive'
    <3>1. [GentleNext]_vars BY <2>2, WorkIsGentle DEF Sound
    <3>2. LInv' BY <2>1, <2>2, <3>1, LivingLists DEF Sound
    <3>3. CInv' BY <2>1, <2>2, <3>1, <3>2, NextContents DEF Sound
    <3>4. WInv' BY <2>1, <2>2, NextWork DEF Sound
    <3> QED BY <2>1, <3>2, <3>3, <3>4 DEF Sound
  <2>3. CASE ~Alive'
    BY <2>1, <2>3 DEF Sound
  <2>4. CASE ~Alive /\ Alive'
    <3>1. Restart
      <4>1. WorkerNext => Next BY DEF WorkerNext, Fetched, Next
      <4>2. ~UNCHANGED vars BY <2>4 DEF vars, Alive
      <4> QED BY <2>4, <4>1, <4>2, CrashLasts DEF RoomyNext
    <3>2. LInv' BY <2>1, <3>1, RestartLists
    <3> QED BY <2>1, <3>1, <3>2, RestartContents, RestartWork DEF Sound
  <2> QED BY <2>2, <2>3, <2>4
<1> QED BY <1>1, <1>2, PTL DEF RoomySpec

-----------------------------------------------------------------------------
(* Why a page is missed.                                                   *)

\* A step that keeps every page in its bucket and stores none.
LEMMA NothingLost ==
  ASSUME latest' = latest, \A k \in Keys : Kept(k) => StillKept(k), pc # "find" \/ reply'.st # "not_found"
  PROVE  Explained
BY DEF Explained

\* An empty get has passed all of its bucket.
LEMMA NoneExplained ==
  ASSUME IInv, LInv, CInv,
         \/ EvictEnd \/ FindNext \/ FindNone \/ FlushEnd \/ ReadExpand \/ ReadOverrun
         \/ ReadEnd \/ StoreBegin \/ StoreTooLong \/ StoreOverrun \/ ViewNext \/ ViewEnd \/ Tick
  PROVE  Explained
<1>1. UNCHANGED <<memory, history>>
  BY DEF EvictEnd, FindNext, FindNone, FlushEnd, ReadExpand, ReadOverrun, ReadEnd,
         StoreBegin, StoreTooLong, StoreOverrun, ViewNext, ViewEnd, Tick, Return, Crash
<1>2. UNCHANGED <<bucket, hi, lo, next, latest>>
  BY <1>1 DEF memory, chunks, links, history
<1>3. \A k \in Keys : Kept(k) => StillKept(k) BY <1>2, FoundKept
<1>4. ASSUME pc = "find", reply'.st = "not_found" PROVE ~Kept(key)
  <2>1. reply.st = "none" BY <1>4 DEF IInv, ReplyOK
  <2>2. FindNone /\ off = 0
    BY <1>4, <2>1
    DEF EvictEnd, FindNext, FindNone, FlushEnd, ReadExpand, ReadOverrun, ReadEnd,
        StoreBegin, StoreTooLong, StoreOverrun, ViewNext, ViewEnd, Tick
  <2> QED BY <1>4, <2>2 DEF CInv, WalkOK, Kept
<1> QED BY <1>2, <1>3, <1>4 DEF Explained

\* del_off takes a bucket away for an entry of it that has expired, or that is
\* replaced.
LEMMA UnlinkExplained ==
  ASSUME IInv, LInv, CInv, WInv, FlushFirst \/ FlushNext \/ Replace
  PROVE  Explained
<1>1. /\ off \in Entries /\ \E caller : Unlink(off, caller)
      /\ expireAt[off] < now \/ (op = "put" /\ HashIs(off, key))
  <2>1. CASE FlushFirst \/ FlushNext BY <2>1, Flushes
  <2>2. CASE Replace BY <2>2, ReplaceWork DEF Replace, Found
  <2> QED BY <2>1, <2>2
<1>2. PICK caller : Unlink(off, caller) BY <1>1
<1>3. pc' = "free" /\ off' = off /\ p' = off /\ UNCHANGED <<latest, reply>>
  BY <1>2 DEF Unlink, history
<1>4. pc = "find" => reply.st = "none" BY DEF IInv, ReplyOK
<1>5. ASSUME NEW k \in Keys, Kept(k), ~StillKept(k) PROVE Emptied(k)
  <2>1. BucketOf(lo[off]) = BucketOf(HashLo[k]) BY <1>1, <1>2, <1>5, UnlinkEmpties
  <2> QED BY <1>1, <1>3, <2>1 DEF Emptied, Expired
<1> QED BY <1>3, <1>4, <1>5 DEF Explained

\* The first piece of a page enters its bucket in front of the others; the
\* other pieces enter none.
LEMMA TakenExplained ==
  ASSUME IInv, LInv, LInv', CInv, NEW o, Taken(o) PROVE Explained
<1>1. /\ o \in Chunk \ {0} /\ pc = "alloc" /\ o \notin Entries
      /\ key \in Keys /\ val \in Vals /\ Fill(o)
  BY DEF Taken, PutVal, IInv, FrameOK
<1>2. /\ hi' = [hi EXCEPT ![o] = HashHi[key]] /\ lo' = [lo EXCEPT ![o] = HashLo[key]]
      /\ DOMAIN hi = Chunk /\ DOMAIN lo = Chunk
  BY <1>1 DEF Fill, IInv, MemoryOK
<1>3. ASSUME NEW c \in Entries, NEW k \in Keys PROVE HashIs(c, k)' = HashIs(c, k)
  BY <1>1, <1>2 DEF HashIs
<1>4. CASE cnt = 1
  <2>1. latest' = [latest EXCEPT ![key] = <<val, now + ExpireTime>>]
    BY <1>1, <1>4 DEF Fill
  <2>2. ASSUME NEW k \in Keys
        PROVE  /\ Chain(k) \subseteq Nodes(next', FirstIn(k)')
               /\ o \in Nodes(next', bucket'[BucketOf(HashLo[key])])
    <3>1. /\ \A j \in Keys : BucketOf(HashLo[j]) \in Buckets
          /\ \A b \in Buckets : Nodes(next', bucket'[b]) = Nodes(next, bucket[b])
                                  \cup (IF b = BucketOf(HashLo[key]) THEN {o} ELSE {})
      BY <1>1, <1>4, FillPutsFirst, BucketInRange, DataAssumption
    <3> QED BY <1>1, <3>1 DEF Chain, FirstIn
  <2>3. ASSUME NEW k \in Keys, Kept(k) PROVE StillKept(k)
    BY <1>3, <2>2, <2>3, ChainShape DEF Kept, StillKept
  <2>4. StillKept(key)
    <3>1. HashIs(o, key)' = (hi'[o] = HashHi[key'] /\ lo'[o] = HashLo[key']) BY DEF HashIs
    <3>2. key' = key BY <1>1 DEF Taken, PutVal, Tie, Return, call
    <3>3. o \in Nodes(next', FirstIn(key)') BY <1>1, <2>2, <3>2 DEF FirstIn
    <3> QED BY <1>1, <1>2, <3>1, <3>2, <3>3 DEF StillKept
  <2> QED BY <1>1, <2>1, <2>3, <2>4 DEF Explained
<1>5. CASE cnt # 1
  <2>1. UNCHANGED <<bucket, next, latest>> BY <1>1, <1>5 DEF Fill, history
  <2>2. ASSUME NEW k \in Keys, Kept(k) PROVE StillKept(k)
    BY <1>3, <2>1, <2>2, ChainShape DEF Kept, StillKept, Chain, FirstIn
  <2> QED BY <1>1, <2>1, <2>2, NothingLost
<1> QED BY <1>4, <1>5

\* Every step of the worker has its explanation.
LEMMA WorkExplained == ASSUME Sound, Sound', [RoomyNext]_vars PROVE [Explained]_vars
<1> SUFFICES ASSUME RoomyNext PROVE Explained OBVIOUS
<1>1. CASE ~Alive \/ Restart
  <2>1. WorkerNext => Next BY DEF WorkerNext, Fetched, Next
  <2>2. Restart BY <1>1, <2>1, CrashLasts DEF RoomyNext
  <2>3. (\A k \in Keys : latest'[k][1] = None) /\ reply'.st = "none"
    BY <2>2 DEF Restart, NoReply
  <2> QED BY <2>3 DEF Explained, Valid
<1>2. CASE Alive /\ ~Restart
  <2> USE DEF Sound
  <2>1. CASE \/ \E k \in Keys : GetCall(k)
             \/ \E k \in Keys, v \in Vals : Fetched(k, v)
             \/ ViewCall
    <3>1. pc = "idle" /\ UNCHANGED <<memory, history>>
      BY <2>1 DEF GetCall, Fetched, PutCall, PutEmpty, ViewCall, Enter
    <3>2. UNCHANGED <<bucket, hi, lo, next, latest>>
      BY <3>1 DEF memory, chunks, links, history
    <3> QED BY <1>2, <3>1, <3>2, FoundKept, NothingLost
  <2>2. CASE \/ EvictEnd \/ FindNext \/ FindNone \/ FlushEnd \/ ReadExpand \/ ReadOverrun
             \/ ReadEnd \/ StoreBegin \/ StoreTooLong \/ StoreOverrun \/ ViewNext \/ ViewEnd
             \/ Tick
    BY <1>2, <2>2, NoneExplained
  <2>3. CASE FlushFirst \/ FlushNext \/ Replace
    BY <1>2, <2>3, UnlinkExplained
  <2>4. CASE FreeExpand \/ FreeLast
    <3>1. /\ UNCHANGED <<bucket, hi, next, latest>> /\ pc = "free"
          /\ \E w : lo' = [lo EXCEPT ![p] = w]
      BY <2>4 DEF FreeExpand, FreeLast, TiedFree, Return, links, history
    <3>2. p \notin Entries
      <4>1. p \in Going BY <1>2, <3>1 DEF LInv, FreeingOK, Going
      <4> QED BY <1>2, <4>1, Members
    <3>3. \A k \in Keys : Kept(k) => StillKept(k) BY <1>2, <3>1, <3>2, FoundKept
    <3> QED BY <3>1, <3>3, NothingLost
  <2>5. CASE Touch
    <3>1. UNCHANGED <<bucket, hi, lo, next, latest, reply>> /\ pc = "find"
      BY <2>5 DEF Touch, Found, history
    <3>2. reply.st = "none" BY <3>1 DEF IInv, ReplyOK
    <3> QED BY <1>2, <3>1, <3>2, FoundKept, NothingLost
  <2>6. CASE AllocFree \/ AllocFresh \/ AllocSlice
    <3>1. PICK o \in Chunk : Taken(o) BY <1>2, <2>6, ChunkTaken
    <3>2. Alive' BY <3>1 DEF Taken, PutVal, Tie, Return, Alive
    <3> QED BY <1>2, <3>1, <3>2, TakenExplained
  <2>7. CASE AllocFail
    <3>1. UNCHANGED <<bucket, hi, lo, next, latest>> /\ pc = "alloc"
      BY <2>7 DEF AllocFail, history
    <3> QED BY <1>2, <3>1, FoundKept, NothingLost
  <2>8. ~AllocWild /\ ~ViewWild /\ ~EvictOne /\ ~DelFound
    BY <1>2, NeverWild DEF RoomyNext, Roomy, DelFound, WInv, RolesOK
  <2> QED
    BY <1>2, <2>1, <2>2, <2>3, <2>4, <2>5, <2>6, <2>7, <2>8 DEF RoomyNext, WorkerNext, Step
<1> QED BY <1>1, <1>2

\* get misses a page only when it is not in its bucket, and a valid page that
\* was stored leaves its bucket only when del_off empties it for an entry of it
\* that has expired, an old copy of the page included, or that put_val replaces.
THEOREM MissesExplained == RoomySpec => MissExplained
<1>1. Sound /\ Sound' /\ [RoomyNext]_vars => [Explained]_vars
  BY WorkExplained
<1> QED BY <1>1, WorkerInvariance, PTL DEF RoomySpec, MissExplained

-----------------------------------------------------------------------------
(* The refinement: what is left of UrlCache when its fairness is taken off *)
(* (that every call ends is checked by TLC).                               *)

\* The call that the url cache sees.
Seen == IF pc = "idle" THEN [op |-> "none", key |-> None, val |-> None]
        ELSE [op |-> op, key |-> key, val |-> val]

\* A call that ends is a call of the url cache that finishes, if the answer
\* is one of those that it allows.
LEMMA EndsAsFinish ==
  ASSUME NEW st, NEW v, Return(st, v), pc # "idle", latest' = latest,
         \/ op = "get" /\ st = "not_found" /\ v = None
         \/ /\ op = "get" /\ st = "ok" /\ key \in Keys /\ v \notin Big
            /\ v = latest[key][1] /\ v # None /\ now <= latest[key][2]
         \/ /\ op = "get" /\ st = "uncomp_error" /\ v = None /\ key \in Keys
            /\ latest[key][1] \in Big /\ latest[key][1] # None /\ now <= latest[key][2]
         \/ /\ op = "get" /\ st = "expired" /\ v = None /\ key \in Keys
            /\ latest[key][1] # None /\ now > latest[key][2]
         \/ op = "put" /\ st \in {"stored", "rejected"} /\ v = None
         \/ op = "view" /\ st = "done" /\ v = None
  PROVE  U!Finish
<1> DEFINE c == [op |-> op, key |-> key, val |-> val]
<1>1. /\ Seen = c /\ Seen' = U!NoCall /\ c # U!NoCall /\ now' = now
      /\ reply' = [op |-> op, key |-> key, st |-> st, val |-> v]
  <2>1. c.op # "none" OBVIOUS
  <2>2. c # U!NoCall BY <2>1 DEF U!NoCall
  <2> QED BY <2>2 DEF Return, Seen, U!NoCall
<1>2. reply' = U!Answer(st, v) BY <1>1 DEF U!Answer, Seen
<1>3. U!Answer(st, v) \in U!Answers
  <2>1. CASE op = "get" /\ st = "not_found"
    BY <1>1, <2>1 DEF U!Answers, U!Answer, Seen
  <2>2. CASE op = "get" /\ st = "ok"
    BY <1>1, <2>2 DEF U!Answers, U!Answer, U!Valid, Seen
  <2>6. CASE op = "get" /\ st = "uncomp_error"
    BY <1>1, <2>6 DEF U!Answers, U!Answer, U!Valid, Seen
  <2>3. CASE op = "get" /\ st = "expired"
    BY <1>1, <2>3 DEF U!Answers, U!Answer, U!Over, Seen
  <2>4. CASE op = "put"
    BY <1>1, <2>4 DEF U!Answers, U!Answer, Seen
  <2>5. CASE op = "view"
    BY <1>1, <2>5 DEF U!Answers, U!Answer, Seen
  <2> QED BY <2>1, <2>2, <2>3, <2>4, <2>5, <2>6
<1> QED BY <1>1, <1>2, <1>3 DEF U!Finish, Seen

\* In the middle of a call nothing happens that the url cache sees.
LEMMA MiddleStutters ==
  ASSUME pc # "idle", pc' # "idle", UNCHANGED <<op, key, val, latest, now, reply>>
  PROVE  UNCHANGED U!vars
BY DEF U!vars

\* A call of the worker is one of the url cache.
LEMMA CallsBegin ==
  ASSUME (\E k \in Keys : GetCall(k)) \/ (\E k \in Keys, v \in Vals : Fetched(k, v)) \/ ViewCall
  PROVE  U!Begin \/ U!Refuse
<1>1. pc = "idle" /\ UNCHANGED <<latest, now>> /\ Seen = U!NoCall
  BY DEF GetCall, Fetched, PutCall, PutEmpty, ViewCall, Enter, history, Seen, U!NoCall
<1>2. CASE \E k \in Keys, v \in Vals : PutEmpty(k, v)
  <2>1. PICK k \in Keys, v \in Vals : PutEmpty(k, v) BY <1>2
  <2>2. reply' = [op |-> "put", key |-> k, st |-> "rejected", val |-> None] /\ Seen' = Seen
    BY <1>1, <2>1 DEF PutEmpty, Seen
  <2> QED BY <1>1, <2>2 DEF U!Refuse, Seen
<1>3. CASE \/ \E k \in Keys : GetCall(k)
           \/ \E k \in Keys, v \in Vals : PutCall(k, v)
           \/ ViewCall
  <2>1. pc' # "idle" /\ reply' = U!NoReply
    BY <1>3 DEF GetCall, PutCall, ViewCall, Enter, NoReply, U!NoReply
  <2>2. [op |-> op', key |-> key', val |-> val'] \in U!Calls
    <3>1. CASE \E k \in Keys : GetCall(k)
      BY <3>1 DEF GetCall, Enter, U!Calls
    <3>2. CASE \E k \in Keys, v \in Vals : PutCall(k, v)
      BY <3>2 DEF PutCall, Enter, U!Calls
    <3>3. CASE ViewCall
      BY <3>3 DEF ViewCall, Enter, U!Calls
    <3> QED BY <1>3, <3>1, <3>2, <3>3
  <2>3. Seen' \in U!Calls BY <2>1, <2>2 DEF Seen
  <2> QED BY <1>1, <2>1, <2>3 DEF U!Begin, Seen
<1> QED BY <1>2, <1>3 DEF Fetched

\* A loop that only reads goes on unseen, or ends the call with an answer
\* that the url cache allows: the page stored last, if it is still valid.
LEMMA LoopsAnswer ==
  ASSUME IInv, LInv, CInv, WInv,
         \/ EvictEnd \/ FindNext \/ FindNone \/ FlushEnd \/ ReadExpand \/ ReadOverrun
         \/ ReadEnd \/ StoreBegin \/ StoreTooLong \/ StoreOverrun \/ ViewNext \/ ViewEnd
  PROVE  U!Finish \/ UNCHANGED U!vars
<1>1. pc # "idle" /\ UNCHANGED <<latest, now, op, key, val>>
  BY DEF EvictEnd, FindNext, FindNone, FlushEnd, ReadExpand, ReadOverrun, ReadEnd,
         StoreBegin, StoreTooLong, StoreOverrun, ViewNext, ViewEnd, Return, Crash, call,
         history
<1>2. CASE FindNone
  <2>1. CASE op = "get"
    <3>1. Return("not_found", None) BY <1>2, <2>1 DEF FindNone
    <3> QED BY <1>1, <2>1, <3>1, EndsAsFinish
  <2>2. CASE op = "put"
    <3>1. pc' = "alloc" /\ reply' = reply BY <1>2, <2>2 DEF FindNone
    <3> QED BY <1>1, <3>1, MiddleStutters
  <2> QED BY <1>2, <2>1, <2>2 DEF FindNone, WInv, RolesOK
<1>3. CASE FlushEnd
  <2>1. Return("expired", None) /\ pc = "flush" BY <1>3 DEF FlushEnd
  <2>2. op = "get" /\ key \in Keys /\ now \in Int BY <2>1 DEF IInv, FrameOK, History, Time
  <2>3. latest[key][1] # None /\ latest[key][2] < now BY <2>1, <2>2 DEF WInv, FlushedOK
  <2>4. now > latest[key][2] BY <2>3
  <2> QED BY <1>1, <2>1, <2>2, <2>3, <2>4, EndsAsFinish
<1>4. CASE ReadEnd
  <2>1. /\ piece[off][1] \in Vals
        /\ \/ piece[off][1] \notin Big /\ Return("ok", piece[off][1])
           \/ piece[off][1] \in Big /\ Return("uncomp_error", None)
    BY <1>4, ReadGivesPage
  <2>2. pc = "read" BY <1>4 DEF ReadEnd
  <2>3. op = "get" /\ key \in Keys BY <2>2 DEF IInv, FrameOK
  <2>4. latest[key] = <<piece[off][1], expireAt[off]>> /\ now <= expireAt[off]
    BY <2>2 DEF CInv, ReadOK, IInv, Reading
  <2>5. piece[off][1] = latest[key][1] /\ piece[off][1] # None /\ now <= latest[key][2]
    BY <2>1, <2>4, DataAssumption
  <2> QED BY <1>1, <2>1, <2>3, <2>5, EndsAsFinish
<1>5. CASE StoreTooLong
  <2>1. Return("rejected", None) /\ op = "put" BY <1>5 DEF StoreTooLong, IInv, FrameOK
  <2> QED BY <1>1, <2>1, EndsAsFinish
<1>6. CASE ViewEnd
  <2>1. Return("done", None) /\ op = "view" BY <1>6 DEF ViewEnd, WInv, RolesOK
  <2> QED BY <1>1, <2>1, EndsAsFinish
<1>7. CASE \/ EvictEnd \/ FindNext \/ ReadExpand \/ ReadOverrun \/ StoreBegin
           \/ StoreOverrun \/ ViewNext
  <2>1. pc' # "idle" /\ reply' = reply
    BY <1>7 DEF EvictEnd, FindNext, ReadExpand, ReadOverrun, StoreBegin, StoreOverrun,
                ViewNext, Crash
  <2> QED BY <1>1, <2>1, MiddleStutters
<1> QED BY <1>2, <1>3, <1>4, <1>5, <1>6, <1>7

\* Deleting an entry is not seen: the url cache may forget at any moment.
LEMMA DeletesUnseen ==
  ASSUME IInv, LInv, WInv,
         FlushFirst \/ FlushNext \/ Replace \/ FreeExpand \/ FreeLast \/ Touch
  PROVE  UNCHANGED U!vars
<1>1. pc # "idle" /\ UNCHANGED <<op, key, val, latest, now>>
  BY DEF FlushFirst, FlushNext, Replace, FreeExpand, FreeLast, Touch, Found, Unlink, Return,
         call, history
<1>2. pc' # "idle" /\ reply' = reply
  <2>1. CASE FreeExpand \/ FreeLast
    <3>1. ret \in {"flush", "replace"} BY <2>1, FreeWork
    <3> QED BY <2>1, <3>1 DEF FreeExpand, FreeLast
  <2>2. CASE FlushFirst \/ FlushNext \/ Replace \/ Touch
    BY <2>2 DEF FlushFirst, FlushNext, Replace, Touch, Unlink
  <2> QED BY <2>1, <2>2
<1> QED BY <1>1, <1>2, MiddleStutters

\* The first piece of a page stores it; the last one, or the lack of memory
\* for the only one, ends the call.
LEMMA PiecesStore ==
  ASSUME IInv, LInv,
         AllocFail \/ \E o \in Chunk : Taken(o)
  PROVE  U!Store \/ U!StoreAndFinish \/ U!Finish \/ UNCHANGED U!vars
<1>1. /\ pc = "alloc" /\ op = "put" /\ key \in Keys /\ val \in Vals /\ cnt \in Nat
      /\ Pieces[val] \in Nat
  BY DataAssumption DEF AllocFail, Taken, IInv, FrameOK
<1>2. ASSUME NEW got, Tie(got)
      PROVE  \/ Return("stored", None)
             \/ pc' # "idle" /\ UNCHANGED <<now, op, key, val, reply>>
  BY <1>1, <1>2 DEF Tie, call
<1>3. Seen = [op |-> op, key |-> key, val |-> val] BY <1>1 DEF Seen
<1>4. CASE AllocFail
  <2>1. Tie(0) /\ latest' = latest BY <1>4 DEF AllocFail, history
  <2>2. CASE Return("stored", None) BY <1>1, <2>1, <2>2, EndsAsFinish
  <2>3. CASE pc' # "idle" /\ UNCHANGED <<now, op, key, val, reply>>
    BY <1>1, <2>1, <2>3, MiddleStutters
  <2> QED BY <1>2, <2>1, <2>2, <2>3
<1>5. CASE \E o \in Chunk : Taken(o)
  <2>0. PICK o \in Chunk : Fill(o) /\ \E g : Tie(g) BY <1>5 DEF Taken, PutVal
  <2>1. PICK got : Fill(o) /\ Tie(got) BY <2>0
  <2>2. CASE cnt = 1
    <3>1. latest' = [latest EXCEPT ![key] = <<val, now + ExpireTime>>] BY <2>1, <2>2 DEF Fill
    <3>2. CASE Return("stored", None)
      <4>1. /\ reply' = [op |-> op, key |-> key, st |-> "stored", val |-> None]
            /\ pc' = "idle" /\ now' = now
        BY <3>2 DEF Return
      <4> QED BY <1>1, <1>3, <3>1, <4>1 DEF U!StoreAndFinish, U!Answer, U!NoCall, Seen
    <3>3. CASE pc' # "idle" /\ UNCHANGED <<now, op, key, val, reply>>
      <4>1. Seen' = Seen BY <1>1, <3>3 DEF Seen
      <4> QED BY <1>1, <1>3, <3>1, <3>3, <4>1 DEF U!Store, Seen
    <3> QED BY <1>2, <2>1, <3>2, <3>3
  <2>3. CASE cnt # 1
    <3>1. latest' = latest BY <2>1, <2>3 DEF Fill, history
    <3>2. CASE Return("stored", None) BY <1>1, <3>1, <3>2, EndsAsFinish
    <3>3. CASE pc' # "idle" /\ UNCHANGED <<now, op, key, val, reply>>
      BY <1>1, <3>1, <3>3, MiddleStutters
    <3> QED BY <1>2, <2>1, <3>2, <3>3
  <2> QED BY <2>2, <2>3
<1> QED BY <1>4, <1>5

\* Every step of the worker's cache is one of the url cache, or unseen.
LEMMA WorkSimulates ==
  ASSUME Sound, Sound', [RoomyNext]_vars
  PROVE  [U!Next]_(U!vars)
<1> USE DEF Sound
<1>1. CASE \/ \E k \in Keys : GetCall(k)
           \/ \E k \in Keys, v \in Vals : Fetched(k, v)
           \/ ViewCall
  BY <1>1, CallsBegin DEF U!Next
<1>2. CASE /\ Alive
           /\ \/ EvictEnd \/ FindNext \/ FindNone \/ FlushEnd \/ ReadExpand \/ ReadOverrun
              \/ ReadEnd \/ StoreBegin \/ StoreTooLong \/ StoreOverrun \/ ViewNext \/ ViewEnd
  BY <1>2, LoopsAnswer DEF U!Next
<1>3. CASE Alive /\ (FlushFirst \/ FlushNext \/ Replace \/ FreeExpand \/ FreeLast \/ Touch)
  BY <1>3, DeletesUnseen
<1>4. CASE Alive /\ (AllocFree \/ AllocFresh \/ AllocSlice \/ AllocFail)
  BY <1>4, ChunkTaken, PiecesStore DEF U!Next
<1>5. CASE Tick
  <2>1. pc = "idle" /\ pc' = "idle" /\ now < MaxTime /\ now' = now + 1 /\ reply' = reply
        /\ latest' = latest
    BY <1>5 DEF Tick, history
  <2>2. U!Tick BY <2>1 DEF U!Tick, U!NoCall
  <2> QED BY <2>2 DEF U!Next
<1>6. CASE Restart
  <2>1. /\ latest' = [k \in Keys |-> <<None, 0>>] /\ reply' = NoReply /\ pc' = "idle"
        /\ now' = now
    BY <1>6 DEF Restart
  <2>2. U!Restart BY <2>1 DEF U!Restart, U!Empty, U!NoReply, U!NoCall, NoReply
  <2> QED BY <2>2 DEF U!Next
<1>7. CASE UNCHANGED vars
  <2>1. UNCHANGED <<pc, op, key, val, latest, now, reply>> BY <1>7 DEF vars, call, history
  <2> QED BY <2>1 DEF U!vars
<1>8. Alive => ~AllocWild /\ ~ViewWild /\ ~DelFound /\ (RoomyNext => ~EvictOne)
  BY NeverWild DEF RoomyNext, Roomy, DelFound, WInv, RolesOK
<1>9. ~Alive /\ RoomyNext => Restart
  <2>1. WorkerNext => Next BY DEF WorkerNext, Fetched, Next
  <2> QED BY <2>1, CrashLasts DEF RoomyNext
<1> QED
  BY <1>1, <1>2, <1>3, <1>4, <1>5, <1>6, <1>7, <1>8, <1>9 DEF RoomyNext, WorkerNext, Step

\* The cache of the worker is a url cache in everything but the promise that
\* each call ends: a hit is the page stored last and still valid, "expired" is
\* said of a page whose time is over, a page is unreadable only when it is too
\* long, and nothing is answered twice.
THEOREM WorkerIsUrlCache == RoomySpec => U!Init /\ [][U!Next]_(U!vars)
<1>1. Init => U!Init
  BY DEF Init, U!Init, U!Empty, U!NoCall, U!NoReply, NoReply
<1>2. Sound /\ Sound' /\ [RoomyNext]_vars => [U!Next]_(U!vars)
  BY WorkSimulates
<1> QED
  BY <1>1, <1>2, WorkerInvariance, PTL DEF RoomySpec
=============================================================================
