--------------------------- MODULE CacheListProofs ---------------------------
(***************************************************************************)
(* The lists inside a cache, for every set of keys and values and every    *)
(* geometry, as long as nothing is evicted, no value of several chunks     *)
(* replaces another or is replaced, and none runs out of memory half way.  *)
(***************************************************************************)
EXTENDS DdCacheProps, DdCacheProofs, LinkedListProofs

\* The steps after which the lists may be wrong, and which the theorems leave
\* out: do_eliminate follows access_end, which a hit does not set; put forgets
\* the chunk with which put_val replaced an entry, and goes on with offset 0
\* when put_val has no chunk to give.
Gentle ==
  /\ ~EvictOne
  /\ Replace => Pieces[val] = 1 /\ expand[off] = 0
  /\ AllocFail => Pieces[val] = 1

GentleNext == Next /\ Gentle
GentleSpec == Init /\ [][GentleNext]_vars

-----------------------------------------------------------------------------
\* The value in the making lacks its end: the last chunk still has whatever
\* link it had.
Storing == pc = "alloc" /\ cnt > 1
Ends0   == IF Storing THEN [expand EXCEPT ![p] = 0] ELSE expand

\* What del_off is freeing, and what of it is tied to the free list already.
Going == IF pc = "free" THEN Nodes(expand, off) ELSE {}
Gone  == IF pc = "free" THEN Nodes(expand, off) \ Nodes(expand, p) ELSE {}
Held  == ((1..(alloc_cnt - 1)) \ Free) \ Gone

ListsOK ==
  /\ BothWays(aNext, aPre, access_beg)
  /\ BothWays(eNext, ePre, expire_beg) /\ Nodes(eNext, expire_beg) = Entries
  /\ Linked(lo, free_beg)

BucketsOK ==
  \A b \in Buckets :
    /\ Linked(next, bucket[b])
    /\ \A o \in Nodes(next, bucket[b]) : o \in Entries /\ BucketOf(lo[o]) = b

ValuesOK ==
  /\ \A h \in Entries : Linked(Ends0, h)
  /\ \A g, h \in Entries : g # h => Nodes(Ends0, g) \cap Nodes(Ends0, h) = {}
  /\ \A h \in Entries : /\ Nodes(Ends0, h) \cap Free = {}
                        /\ Nodes(Ends0, h) \cap Going = {}
                        /\ Nodes(Ends0, h) \subseteq 1..(alloc_cnt - 1)
  /\ Free \subseteq 1..(alloc_cnt - 1) /\ Going \subseteq 1..(alloc_cnt - 1)
  /\ Free \cap Going = {}
  /\ \A c \in 1..(alloc_cnt - 1) :
       c \in Free \/ c \in Going \/ \E h \in Entries : c \in Nodes(Ends0, h)

CountsOK ==
  /\ element_cnt = Cardinality(Held)
  /\ key_cnt = Cardinality(Entries) + (IF pc = "free" THEN 1 ELSE 0)

\* The expire queue has the oldest entry at its end.
AgesOK ==
  \A o \in Entries : /\ expireAt[o] <= now + ExpireTime
                     /\ eNext[o] # 0 => expireAt[eNext[o]] <= expireAt[o]

FreeingOK ==
  pc = "free" =>
    /\ off \notin Entries /\ off # 0 /\ Linked(expand, off) /\ p \in Nodes(expand, off)
    /\ \A c \in Gone : lo[c] = expand[c]
    /\ ret \in {"flush", "replace", "del"}
    /\ ret = "flush" => \/ eNext[off] = 0
                        \/ eNext[off] \in Entries /\ expireAt[eNext[off]] < now

CallOK ==
  /\ op = "put" /\ pc \in {"evict", "store", "find", "free", "alloc"} => Pieces[val] >= 1
  /\ op = "put" /\ pc \in {"find", "free"} => cnt = 1
  /\ pc = "alloc" => 1 <= cnt /\ cnt <= Pieces[val]
  /\ Storing => access_beg # 0 /\ p \in Nodes(Ends0, access_beg) /\ ret # "replace"
  /\ ret = "replace" => op = "put" /\ pc \in {"find", "free", "alloc"} /\ Pieces[val] = 1
  /\ ret = "replace" /\ pc = "free" => expand[off] = 0
  /\ ret = "replace" /\ pc \in {"find", "alloc"} => free_beg # 0 /\ expand[free_beg] = 0
  /\ pc = "find" => off = 0 \/ off \in Nodes(next, FirstIn(key))
  /\ pc = "flush" => off = 0 \/ (off \in Entries /\ expireAt[off] < now)
  /\ pc = "view" => off = 0 \/ off \in Free

LInv == /\ ListsOK /\ BucketsOK /\ ValuesOK /\ CountsOK /\ AgesOK /\ FreeingOK /\ CallOK

\* What a crashed process leaves behind is of no use to the next one.
Alive == pc # "crashed"
Lists == Alive => LInv

-----------------------------------------------------------------------------
\* Every array of links is one that lists can be made of.
LEMMA LinksAreLinks ==
  ASSUME MemoryOK, HeaderOK, p \in Chunk
  PROVE  /\ IsFiniteSet(Chunk) /\ 0 \in Chunk
         /\ \A f : DOMAIN f = Chunk => Links(f)
         /\ DOMAIN aNext = Chunk /\ DOMAIN aPre = Chunk
         /\ DOMAIN eNext = Chunk /\ DOMAIN ePre = Chunk
         /\ DOMAIN next = Chunk /\ DOMAIN expand = Chunk /\ DOMAIN lo = Chunk
         /\ DOMAIN Ends0 = Chunk
<1>1. SliceSz * SliceMax \in Nat BY SizesAssumption
<1>2. IsFiniteSet(Chunk)
  <2> DEFINE m == SliceSz * SliceMax - 1
  <2>1. m \in Int BY <1>1
  <2> HIDE DEF m
  <2>2. IsFiniteSet(0..m) BY <2>1, FS_Interval
  <2> QED BY <2>2 DEF Chunk, m
<1>3. 0 \in Chunk BY SmallFacts
<1>4. \A f : DOMAIN f = Chunk => Links(f) BY <1>2, <1>3 DEF Links
<1>5. /\ DOMAIN aNext = Chunk /\ DOMAIN aPre = Chunk
      /\ DOMAIN eNext = Chunk /\ DOMAIN ePre = Chunk
      /\ DOMAIN next = Chunk /\ DOMAIN expand = Chunk /\ DOMAIN lo = Chunk
  BY DEF MemoryOK
<1>6. DOMAIN Ends0 = Chunk BY <1>5 DEF Ends0
<1> QED BY <1>2, <1>3, <1>4, <1>5, <1>6

\* The clock and the expire times are numbers.
LEMMA Clock ==
  ASSUME IInv
  PROVE  now \in Time /\ now \in Nat /\ \A c \in Chunk : expireAt[c] \in Nat
<1>1. now \in Time BY DEF IInv, History
<1>2. now \in Nat BY <1>1 DEF Time
<1>3. \A c \in Chunk : expireAt[c] \in Nat BY DEF IInv, MemoryOK
<1> QED BY <1>1, <1>2, <1>3

\* What the lists hold are chunks of the mapped memory, none of them chunk 0.
LEMMA Members ==
  ASSUME IInv, LInv
  PROVE  /\ Entries \subseteq Chunk \ {0} /\ Free \subseteq Chunk \ {0}
         /\ 0..(alloc_cnt - 1) \subseteq Offset /\ Offset \subseteq Chunk
         /\ alloc_cnt \in Nat /\ IsFiniteSet(Entries)
         /\ \A h \in Entries : h \in Nodes(Ends0, h)
         /\ Entries \subseteq 1..(alloc_cnt - 1) /\ Entries \cap Free = {}
         /\ Entries \cap Going = {} /\ p \in Chunk
<1>1. MemoryOK /\ HeaderOK /\ Offset \subseteq Chunk /\ p \in Chunk
  BY OffsetFacts DEF IInv, HeaderOK, FrameOK
<1>2. /\ IsFiniteSet(Chunk) /\ Links(aNext) /\ Links(lo) /\ Links(Ends0)
      /\ DOMAIN aNext = Chunk /\ DOMAIN lo = Chunk
  BY <1>1, LinksAreLinks
<1>3. Entries \subseteq Chunk \ {0}
  BY <1>2, ListShape DEF LInv, ListsOK, BothWays, Entries
<1>4. Free \subseteq Chunk \ {0}
  BY <1>2, ListShape DEF LInv, ListsOK, Free
<1>5. alloc_cnt \in Nat /\ 0..(alloc_cnt - 1) \subseteq Offset
  BY SliceBounds DEF IInv, HeaderOK, Offset
<1>6. ASSUME NEW h \in Entries PROVE h \in Nodes(Ends0, h)
  <2>1. Linked(Ends0, h) /\ h # 0 BY <1>3 DEF LInv, ValuesOK
  <2> QED BY <2>1, <1>2, ListShape
<1>7. IsFiniteSet(Entries) BY <1>2, <1>3, FS_Subset
<1>8. /\ Entries \subseteq 1..(alloc_cnt - 1) /\ Entries \cap Free = {}
      /\ Entries \cap Going = {}
  <2>1. ASSUME NEW h \in Entries
        PROVE  h \in 1..(alloc_cnt - 1) /\ h \notin Free /\ h \notin Going
    BY <1>6 DEF LInv, ValuesOK
  <2> QED BY <2>1
<1> QED BY <1>1, <1>3, <1>4, <1>5, <1>6, <1>7, <1>8

-----------------------------------------------------------------------------
\* A cache in which nothing was ever stored.
LEMMA InitLists == Init => LInv
<1> SUFFICES ASSUME Init PROVE LInv
  OBVIOUS
<1>1. MemoryOK /\ HeaderOK /\ p = 0
  BY InitInv DEF IInv, Init
<1>2. /\ \A f : DOMAIN f = Chunk => Links(f)
      /\ DOMAIN aNext = Chunk /\ DOMAIN eNext = Chunk
      /\ DOMAIN next = Chunk /\ DOMAIN lo = Chunk
  BY <1>1, SmallFacts, LinksAreLinks
<1>3. /\ Linked(aNext, 0) /\ Nodes(aNext, 0) = {}
      /\ Linked(eNext, 0) /\ Nodes(eNext, 0) = {}
      /\ Linked(lo, 0) /\ Nodes(lo, 0) = {}
      /\ Linked(next, 0) /\ Nodes(next, 0) = {}
  BY <1>2, EmptyList
<1>4. Entries = {} /\ Free = {} /\ Going = {} /\ Gone = {}
  BY <1>3 DEF Init, Entries, Free, Going, Gone
<1>5. 1..(alloc_cnt - 1) = {} BY DEF Init
<1>6. ListsOK BY <1>3, <1>4 DEF Init, ListsOK, BothWays, Entries
<1>7. BucketsOK BY <1>3 DEF Init, BucketsOK
<1>8. ValuesOK BY <1>4, <1>5 DEF ValuesOK
<1>9. CountsOK
  <2>1. Held = {} BY <1>4, <1>5 DEF Held
  <2> QED BY <1>4, <2>1, FS_EmptySet DEF Init, CountsOK
<1>10. AgesOK /\ FreeingOK /\ CallOK BY <1>4 DEF Init, AgesOK, FreeingOK, CallOK, Storing
<1> QED BY <1>6, <1>7, <1>8, <1>9, <1>10 DEF LInv

\* The same after a restart.
LEMMA RestartLists == ASSUME IInv', Restart PROVE LInv'
<1>1. MemoryOK' /\ HeaderOK' /\ p' = 0
  BY DEF IInv, Restart
<1>2. /\ \A f : DOMAIN f = Chunk => Links(f)
      /\ DOMAIN aNext' = Chunk /\ DOMAIN eNext' = Chunk
      /\ DOMAIN next' = Chunk /\ DOMAIN lo' = Chunk
  <2>1. IsFiniteSet(Chunk) /\ 0 \in Chunk
    BY SizesAssumption, SmallFacts, FS_Interval DEF Chunk
  <2> QED BY <1>1, <2>1 DEF Links, MemoryOK
<1>3. /\ Linked(aNext', 0) /\ Nodes(aNext', 0) = {}
      /\ Linked(eNext', 0) /\ Nodes(eNext', 0) = {}
      /\ Linked(lo', 0) /\ Nodes(lo', 0) = {}
      /\ Linked(next', 0) /\ Nodes(next', 0) = {}
  BY <1>2, EmptyList
<1>4. Entries' = {} /\ Free' = {} /\ Going' = {} /\ Gone' = {}
  BY <1>3 DEF Restart, Entries, Free, Going, Gone
<1>5. 1..(alloc_cnt' - 1) = {} BY DEF Restart
<1>6. ListsOK' BY <1>3, <1>4 DEF Restart, ListsOK, BothWays, Entries
<1>7. BucketsOK' BY <1>3 DEF Restart, BucketsOK
<1>8. ValuesOK' BY <1>4, <1>5 DEF ValuesOK
<1>9. CountsOK'
  <2>1. Held' = {} BY <1>4, <1>5 DEF Held
  <2> QED BY <1>4, <2>1, FS_EmptySet DEF Restart, CountsOK
<1>10. AgesOK' /\ FreeingOK' /\ CallOK'
  BY <1>4 DEF Restart, AgesOK, FreeingOK, CallOK, Storing
<1> QED BY <1>6, <1>7, <1>8, <1>9, <1>10 DEF LInv

-----------------------------------------------------------------------------
\* A step that writes nothing, neither out of nor into the loops that do.
LEMMA QuietLists ==
  ASSUME LInv, UNCHANGED memory, now' >= now, now \in Time, now' \in Time, MemoryOK,
         pc # "free", pc' # "free", ~Storing, ~Storing'
  PROVE  /\ ListsOK' /\ BucketsOK' /\ ValuesOK' /\ CountsOK' /\ AgesOK' /\ FreeingOK'
         /\ Entries' = Entries /\ Free' = Free
<1> USE DEF memory, chunks, links, counts, queues
<1>1. /\ Entries' = Entries /\ Free' = Free
      /\ Going = {} /\ Going' = {} /\ Gone = {} /\ Gone' = {}
      /\ Ends0 = expand /\ Ends0' = expand
  BY DEF Entries, Free, Going, Gone, Ends0
<1>2. Held' = Held BY <1>1 DEF Held
<1>3. ListsOK' BY <1>1 DEF LInv, ListsOK
<1>4. BucketsOK' BY <1>1 DEF LInv, BucketsOK
<1>5. ValuesOK' BY <1>1 DEF LInv, ValuesOK
<1>6. CountsOK' BY <1>1, <1>2 DEF LInv, CountsOK
<1>7. AgesOK'
  <2>1. ASSUME NEW o \in Entries PROVE expireAt[o] <= now' + ExpireTime
    <3>1. expireAt[o] <= now + ExpireTime BY DEF LInv, AgesOK
    <3>2. o \in Chunk => expireAt[o] \in Nat BY DEF MemoryOK
    <3>3. o \in Chunk
      <4>1. /\ Linked(aNext, access_beg) BY DEF LInv, ListsOK, BothWays
      <4>2. Links(aNext) /\ DOMAIN aNext = Chunk
        BY SizesAssumption, SmallFacts, FS_Interval DEF Links, MemoryOK, Chunk
      <4> QED BY <4>1, <4>2, ListShape DEF Entries
    <3> QED BY <3>1, <3>2, <3>3, SizesAssumption DEF Time
  <2> QED BY <1>1, <2>1 DEF LInv, AgesOK
<1>8. FreeingOK' BY DEF FreeingOK
<1> QED BY <1>1, <1>3, <1>4, <1>5, <1>6, <1>7, <1>8

\* A call begins, which nothing has been written for yet.
LEMMA CallLists ==
  ASSUME IInv, IInv', LInv, (\E k \in Keys : GetCall(k) \/ DelCall(k))
           \/ (\E k \in Keys, v \in Vals : PutCall(k, v) \/ PutEmpty(k, v))
           \/ ViewCall
  PROVE  LInv'
<1>1. pc = "idle" /\ UNCHANGED <<memory, now, ret>> /\ pc' \in {"idle", "find", "evict", "store", "view"}
  BY DEF GetCall, DelCall, PutCall, PutEmpty, ViewCall, Enter, cursors
<1>2. now \in Time /\ now' \in Time /\ now' >= now /\ MemoryOK
  BY <1>1 DEF IInv, History, Time
<1>3. /\ ListsOK' /\ BucketsOK' /\ ValuesOK' /\ CountsOK' /\ AgesOK' /\ FreeingOK'
      /\ Entries' = Entries /\ Free' = Free
  BY <1>1, <1>2, QuietLists DEF Storing
<1>4. CallOK'
  <2>0. ret' # "replace" BY <1>1 DEF LInv, CallOK
  <2>1. CASE \E k \in Keys : GetCall(k) \/ DelCall(k)
    <3>1. PICK k \in Keys : GetCall(k) \/ DelCall(k) BY <2>1
    <3>2. /\ pc' = "find" /\ op' # "put" /\ off' = FirstIn(k) /\ key' = k
          /\ ret' = ret /\ val' = None
      BY <3>1 DEF GetCall, DelCall, Enter
    <3>3. off' = 0 \/ off' \in Nodes(next', FirstIn(key)')
      <4>1. FirstIn(key)' = FirstIn(k)
        BY <1>1, <3>2 DEF FirstIn, memory
      <4>2. BucketOf(HashLo[k]) \in Buckets BY BucketInRange, DataAssumption
      <4>3. Linked(next, FirstIn(k)) BY <4>2 DEF FirstIn, LInv, BucketsOK
      <4>4. Links(next)
        BY LinksAreLinks, Members DEF IInv
      <4>5. next' = next BY <1>1 DEF memory, chunks, links
      <4> QED BY <3>2, <4>1, <4>3, <4>4, <4>5, ListShape
    <3> QED BY <2>0, <3>2, <3>3, <1>1 DEF CallOK, Storing
  <2>2. CASE \E k \in Keys, v \in Vals : PutCall(k, v)
    <3>1. PICK k \in Keys, v \in Vals : PutCall(k, v) BY <2>2
    <3>2. /\ pc' \in {"evict", "store"} /\ op' = "put" /\ val' = v /\ Pieces[v] > 0
      BY <3>1 DEF PutCall, Enter
    <3>3. Pieces[v] >= 1 BY <3>2, DataAssumption
    <3> QED BY <2>0, <3>2, <3>3 DEF CallOK, Storing
  <2>3. CASE \E k \in Keys, v \in Vals : PutEmpty(k, v)
    <3>1. pc' = "idle" BY <2>3 DEF PutEmpty
    <3> QED BY <2>0, <3>1 DEF CallOK, Storing
  <2>4. CASE ViewCall
    <3>1. /\ pc' = "view" /\ op' = "view" /\ off' = free_beg /\ ret' = ret
      BY <2>4 DEF ViewCall, Enter
    <3>2. off' = 0 \/ off' \in Free'
      <4>1. Linked(lo, free_beg) /\ Links(lo)
        BY LinksAreLinks, Members DEF IInv, LInv, ListsOK
      <4> QED BY <3>1, <4>1, <1>3, ListShape DEF Free
    <3> QED BY <2>0, <3>1, <3>2 DEF CallOK, Storing
  <2> QED BY <2>1, <2>2, <2>3, <2>4
<1> QED BY <1>3, <1>4 DEF LInv

\* The loops that only read: each goes on along its list, or ends.
LEMMA LoopLists ==
  ASSUME IInv, IInv', LInv,
         \/ EvictEnd \/ FindNext \/ FindNone \/ FlushEnd \/ ReadExpand \/ ReadOverrun
         \/ ReadEnd \/ StoreBegin \/ StoreTooLong \/ ViewNext \/ ViewEnd \/ Tick
  PROVE  LInv'
<1>1. /\ UNCHANGED memory /\ now \in Time /\ now' \in Time /\ now' >= now /\ MemoryOK
      /\ pc \notin {"free", "alloc", "crashed"} /\ pc' # "free"
      /\ pc' = "alloc" => pc = "find" /\ op = "put" /\ cnt' = cnt
  BY DEF EvictEnd, FindNext, FindNone, FlushEnd, ReadExpand, ReadOverrun, ReadEnd,
         StoreBegin, StoreTooLong, ViewNext, ViewEnd, Tick, Return, Crash, cursors,
         IInv, History, Time
<1>2. ~Storing /\ ~Storing' BY <1>1 DEF LInv, CallOK, Storing
<1>3. /\ ListsOK' /\ BucketsOK' /\ ValuesOK' /\ CountsOK' /\ AgesOK' /\ FreeingOK'
      /\ Entries' = Entries /\ Free' = Free
  BY <1>1, <1>2, QuietLists
<1> SUFFICES CallOK'
  BY <1>3 DEF LInv
<1>4. CallOK
  BY DEF LInv
<1>5. ASSUME NEW st, NEW v, Return(st, v) PROVE CallOK'
  BY <1>5 DEF Return, CallOK, Storing
<1>6. /\ \A k \in Keys : FirstIn(k)' = FirstIn(k) /\ Linked(next, FirstIn(k))
      /\ Links(next) /\ Links(lo) /\ next' = next /\ lo' = lo
  <2>1. \A k \in Keys : BucketOf(HashLo[k]) \in Buckets BY BucketInRange, DataAssumption
  <2>2. next' = next /\ lo' = lo /\ bucket' = bucket BY <1>1 DEF memory, chunks, links
  <2>3. Links(next) /\ Links(lo) BY LinksAreLinks, Members DEF IInv
  <2> QED BY <2>1, <2>2, <2>3 DEF FirstIn, LInv, BucketsOK
<1>7. CASE EvictEnd
  BY <1>4, <1>7 DEF EvictEnd, CallOK, Storing, call
<1>8. CASE FindNext
  <2>1. key \in Keys /\ key' = key /\ off \in Nodes(next, FirstIn(key)) /\ off' = next[off]
    BY <1>4, <1>8 DEF FindNext, call, CallOK, IInv, FrameOK
  <2>2. off' = 0 \/ off' \in Nodes(next, FirstIn(key))
    BY <1>6, <2>1, ListShape
  <2>3. off' = 0 \/ off' \in Nodes(next', FirstIn(key)')
    <3>1. FirstIn(key)' = FirstIn(key) BY <1>1, <2>1 DEF FirstIn, memory
    <3> QED BY <2>2, <3>1, <1>6
  <2>4. UNCHANGED <<memory, pc, op, val, cnt, ret>> BY <1>8 DEF FindNext, call
  <2> QED BY <1>4, <2>3, <2>4, <1>8
    DEF FindNext, CallOK, Storing, memory, chunks, links, queues
<1>9. CASE FindNone
  <2>1. CASE pc' = "alloc"
    <3>1. UNCHANGED <<memory, op, val, off, cnt, ret>>
      BY <1>9, <2>1 DEF FindNone, Return, call, cursors
    <3>2. op = "put" /\ pc = "find" BY <1>1, <2>1
    <3> QED BY <1>4, <2>1, <3>1, <3>2 DEF CallOK, Storing, memory, chunks, links, queues
  <2>2. CASE pc' # "alloc"
    <3>1. \E st \in Status : Return(st, None) BY <1>9, <2>2 DEF FindNone, Status
    <3> QED BY <1>5, <3>1
  <2> QED BY <2>1, <2>2
<1>10. CASE FlushEnd \/ ReadEnd \/ StoreTooLong \/ ViewEnd
  BY <1>5, <1>10 DEF FlushEnd, ReadEnd, StoreTooLong, ViewEnd
<1>11. CASE ReadExpand
  BY <1>4, <1>11 DEF ReadExpand, CallOK, Storing, call
<1>12. CASE ReadOverrun
  BY <1>4, <1>12 DEF ReadOverrun, Crash, CallOK, Storing, call, cursors
<1>13. CASE StoreBegin
  <2>1. /\ pc = "store" /\ pc' = "find" /\ cnt' = 1 /\ off' = FirstIn(key)
        /\ UNCHANGED <<memory, op, key, val, ret>> /\ op = "put" /\ key \in Keys
    BY <1>13 DEF StoreBegin, call, IInv, FrameOK
  <2>2. off' = 0 \/ off' \in Nodes(next', FirstIn(key)')
    <3>1. FirstIn(key)' = FirstIn(key) BY <1>1, <2>1 DEF FirstIn, memory
    <3> QED BY <2>1, <3>1, <1>6, ListShape
  <2> QED BY <1>4, <2>1, <2>2 DEF CallOK, Storing
<1>14. CASE ViewNext
  <2>1. off \in Free /\ off' = lo[off] /\ pc' = "view" /\ pc = "view" /\ UNCHANGED <<op, ret>>
    BY <1>4, <1>14 DEF ViewNext, CallOK, call
  <2>2. off' = 0 \/ off' \in Free'
    BY <1>3, <1>6, <2>1, ListShape DEF LInv, ListsOK, Free
  <2> QED BY <1>4, <2>1, <2>2 DEF CallOK, Storing
<1>15. CASE Tick
  <2>1. pc' = "idle" /\ ret' = ret /\ pc = "idle" BY <1>15 DEF Tick, cursors
  <2> QED BY <1>4, <2>1 DEF CallOK, Storing
<1> QED BY <1>7, <1>8, <1>9, <1>10, <1>11, <1>12, <1>13, <1>14, <1>15

\* The free list holds chunks only, so that neither put nor debug=1 follows
\* it to a hash word.
LEMMA NeverWild == ASSUME IInv, LInv PROVE ~AllocWild /\ ~ViewWild
<1>1. Free \subseteq Offset
  <2>1. Free \subseteq 0..(alloc_cnt - 1)
    BY Members DEF LInv, ValuesOK
  <2> QED BY <2>1, Members
<1>2. \A o \in Free : Mapped(o)
  BY <1>1, SliceBounds DEF Offset, Mapped, IInv, HeaderOK
<1>3. free_beg # 0 => free_beg \in Free
  BY LinksAreLinks, Members, ListShape DEF IInv, LInv, ListsOK, Free
<1> QED BY <1>2, <1>3 DEF AllocWild, ViewWild, LInv, CallOK

-----------------------------------------------------------------------------
\* del_off empties the bucket of its entry, leaves the others alone and takes
\* the entry out of the access queue.
LEMMA UnlinkTakesOut ==
  ASSUME IInv, LInv, NEW o \in Entries, NEW caller, Unlink(o, caller)
  PROVE  /\ \A b \in Buckets :
              /\ Linked(next', bucket'[b])
              /\ Nodes(next', bucket'[b]) = IF b = BucketOf(lo[o]) THEN {}
                                            ELSE Nodes(next, bucket[b])
         /\ BothWays(aNext', aPre', access_beg') /\ Entries' = Entries \ {o}
         /\ Skips(ListFrom(aNext, access_beg), o, ListFrom(aNext', access_beg'))
<1>1. /\ \A f : DOMAIN f = Chunk => Links(f)
      /\ DOMAIN aNext = Chunk /\ DOMAIN aPre = Chunk /\ DOMAIN next = Chunk
      /\ DOMAIN bucket = Buckets
  BY LinksAreLinks, Members DEF IInv, MemoryOK
<1>2. /\ bucket' = [bucket EXCEPT ![BucketOf(lo[o])] = 0]
      /\ next' = [next EXCEPT ![o] = 0]
  BY DEF Unlink
<1>3. ASSUME NEW b \in Buckets
      PROVE  /\ Linked(next', bucket'[b])
             /\ Nodes(next', bucket'[b]) = IF b = BucketOf(lo[o]) THEN {}
                                           ELSE Nodes(next, bucket[b])
  <2>0. DOMAIN next' = Chunk BY <1>1, <1>2
  <2>1. CASE b = BucketOf(lo[o])
    <3>1. bucket'[b] = 0 BY <1>1, <1>2, <2>1
    <3> QED BY <1>1, <2>0, <2>1, <3>1, EmptyList
  <2>2. CASE b # BucketOf(lo[o])
    <3>1. bucket'[b] = bucket[b] BY <1>1, <1>2, <2>2
    <3>2. Linked(next, bucket[b]) /\ o \notin Nodes(next, bucket[b])
      BY <2>2 DEF LInv, BucketsOK
    <3>3. \A c \in Nodes(next, bucket[b]) : next'[c] = next[c] BY <1>2, <3>2
    <3>4. Linked(next', bucket[b]) /\ Nodes(next', bucket[b]) = Nodes(next, bucket[b])
      BY <1>1, <2>0, <3>2, <3>3, ListKept
    <3> QED BY <2>2, <3>1, <3>4
  <2> QED BY <2>1, <2>2
<1>4. /\ BothWays(aNext', aPre', access_beg') /\ Entries' = Entries \ {o}
      /\ Skips(ListFrom(aNext, access_beg), o, ListFrom(aNext', access_beg'))
  <2>1. TakenOut(aNext, aPre, access_beg, o, aNext', aPre', access_beg')
    BY DEF Unlink, TakenOut, BackLinksWithout, LinksWithout, BegWithout
  <2>2. BothWays(aNext, aPre, access_beg) /\ o \in Nodes(aNext, access_beg)
    BY DEF LInv, ListsOK, Entries
  <2> QED BY <1>1, <2>1, <2>2, BothWaysCut DEF Entries
<1> QED BY <1>3, <1>4

\* del_off takes an entry out of its bucket, with whatever else is in there,
\* and out of both queues; its chunks are from then on those being freed.
LEMMA UnlinkLists ==
  ASSUME IInv, IInv', LInv, NEW o \in Entries, NEW caller \in {"flush", "replace", "del"},
         Unlink(o, caller), cnt' = cnt, pc \notin {"free", "alloc"}, op = "put" => pc = "find",
         caller = "flush" => expireAt[o] < now,
         caller = "replace" => op = "put" /\ Pieces[val] = 1 /\ expand[o] = 0
  PROVE  LInv'
<1>1. /\ \A f : DOMAIN f = Chunk => Links(f)
      /\ DOMAIN aNext = Chunk /\ DOMAIN aPre = Chunk
      /\ DOMAIN eNext = Chunk /\ DOMAIN ePre = Chunk
      /\ DOMAIN next = Chunk /\ DOMAIN expand = Chunk /\ DOMAIN lo = Chunk
  BY LinksAreLinks, Members DEF IInv
<1>2. /\ UNCHANGED <<hi, lo, expand, expireAt, counts, free_beg, now, op, val>>
      /\ off' = o /\ p' = o /\ ret' = caller /\ pc' = "free"
      /\ bucket' = [bucket EXCEPT ![BucketOf(lo[o])] = 0]
      /\ next' = [next EXCEPT ![o] = 0]
  BY DEF Unlink, call
<1>3. /\ Ends0 = expand /\ Ends0' = expand /\ Going = {} /\ Going' = Nodes(expand, o)
      /\ Gone = {} /\ Gone' = {} /\ Free' = Free /\ alloc_cnt' = alloc_cnt
  BY <1>2 DEF Ends0, Storing, Going, Gone, Free, counts
<1>4. BothWays(aNext', aPre', access_beg') /\ Entries' = Entries \ {o}
  BY UnlinkTakesOut
<1>5. /\ BothWays(eNext', ePre', expire_beg')
      /\ Nodes(eNext', expire_beg') = Entries \ {o}
      /\ eNext' = IF ePre[o] # 0 THEN [eNext EXCEPT ![ePre[o]] = eNext[o]] ELSE eNext
  <2>1. TakenOut(eNext, ePre, expire_beg, o, eNext', ePre', expire_beg')
    BY DEF Unlink, TakenOut
  <2>2. BothWays(eNext, ePre, expire_beg) /\ o \in Nodes(eNext, expire_beg)
        /\ Nodes(eNext, expire_beg) = Entries
    BY DEF LInv, ListsOK
  <2>3. BothWays(eNext', ePre', expire_beg') /\ Nodes(eNext', expire_beg') = Entries \ {o}
    BY <1>1, <2>1, <2>2, BothWaysCut
  <2> QED BY <2>1, <2>3 DEF TakenOut
<1>6. ListsOK'
  BY <1>2, <1>4, <1>5 DEF LInv, ListsOK
<1>7. BucketsOK'
  <2>1. \A b \in Buckets :
          /\ Linked(next', bucket'[b])
          /\ Nodes(next', bucket'[b]) = IF b = BucketOf(lo[o]) THEN {}
                                        ELSE Nodes(next, bucket[b])
    BY UnlinkTakesOut
  <2>2. \A b \in Buckets : \A c \in Nodes(next, bucket[b]) : c \in Entries /\ BucketOf(lo[c]) = b
    BY DEF LInv, BucketsOK
  <2>3. ASSUME NEW b \in Buckets, NEW c \in Nodes(next', bucket'[b])
        PROVE  c \in Entries' /\ BucketOf(lo'[c]) = b
    <3>1. c \in Nodes(next, bucket[b]) /\ b # BucketOf(lo[o]) BY <2>1
    <3> QED BY <1>2, <1>4, <2>2, <3>1
  <2> QED BY <2>1, <2>3 DEF BucketsOK
<1>8. ValuesOK'
  BY <1>3, <1>4 DEF LInv, ValuesOK
<1>9. CountsOK'
  <2>1. Held' = Held BY <1>3 DEF Held
  <2>2. Cardinality(Entries \ {o}) = Cardinality(Entries) - 1 /\ Cardinality(Entries) \in Nat
    BY Members, FS_RemoveElement, FS_CardinalityType
  <2>3. /\ element_cnt = Cardinality(Held) /\ key_cnt = Cardinality(Entries)
    BY <2>2 DEF LInv, CountsOK
  <2>4. element_cnt' = element_cnt /\ key_cnt' = key_cnt BY <1>2 DEF counts
  <2> QED BY <1>2, <1>4, <2>1, <2>2, <2>3, <2>4 DEF CountsOK
<1>10. /\ ePre[o] # 0 => ePre[o] \in Entries /\ eNext[ePre[o]] = o /\ ePre[o] # o
       /\ eNext[o] # 0 => eNext[o] \in Entries /\ eNext[o] # o
       /\ \A c \in Entries : eNext[c] = 0 \/ eNext[c] \in Entries
  <2>1. BothWays(eNext, ePre, expire_beg) /\ Nodes(eNext, expire_beg) = Entries
    BY DEF LInv, ListsOK
  <2>2. \A c \in Entries : eNext[c] = 0 \/ eNext[c] \in Entries
    BY <1>1, <2>1, ListShape DEF BothWays
  <2> QED BY <1>1, <2>1, <2>2, BothWaysShape
<1>11. AgesOK'
  <2>1. \A c \in Entries : expireAt[c] \in Nat /\ c \in Chunk
    BY Members DEF IInv, MemoryOK
  <2>2. ASSUME NEW c \in Entries', eNext'[c] # 0
        PROVE  expireAt[eNext'[c]] <= expireAt[c]
    <3>1. c \in Entries BY <1>4
    <3>2. CASE c = ePre[o]
      <4>1. c # 0 /\ eNext'[c] = eNext[o] /\ eNext[c] = o
        BY <1>1, <1>5, <1>10, <2>1, <3>1, <3>2, Members
      <4>2. /\ expireAt[o] <= expireAt[c] /\ expireAt[eNext[o]] <= expireAt[o]
        BY <2>2, <3>1, <4>1, <1>10, Members DEF LInv, AgesOK
      <4>3. eNext[o] \in Entries BY <2>2, <4>1, <1>10
      <4> QED BY <2>1, <3>1, <4>1, <4>2, <4>3
    <3>3. CASE c # ePre[o]
      <4>1. eNext'[c] = eNext[c] BY <1>5, <3>3
      <4> QED BY <2>2, <3>1, <4>1 DEF LInv, AgesOK
    <3> QED BY <3>2, <3>3
  <2> QED BY <1>2, <1>4, <2>2 DEF LInv, AgesOK
<1>12. FreeingOK'
  <2>1. o # 0 /\ Linked(expand, o) /\ o \in Nodes(expand, o)
    BY <1>3, Members DEF LInv, ValuesOK
  <2>2. eNext'[o] = eNext[o] BY <1>5, <1>10
  <2>3. caller = "flush" =>
          \/ eNext[o] = 0
          \/ eNext[o] \in Entries' /\ expireAt[eNext[o]] < now
    <3> SUFFICES ASSUME caller = "flush", eNext[o] # 0
                 PROVE  eNext[o] \in Entries' /\ expireAt[eNext[o]] < now
      OBVIOUS
    <3>1. eNext[o] \in Entries /\ eNext[o] # o BY <1>10
    <3>2. expireAt[eNext[o]] <= expireAt[o] /\ expireAt[o] < now
      BY DEF LInv, AgesOK
    <3>3. expireAt[eNext[o]] \in Nat /\ expireAt[o] \in Nat /\ now \in Nat
      BY <3>1, Members, Clock
    <3> QED BY <1>4, <3>1, <3>2, <3>3
  <2>4. o \notin Entries' BY <1>4
  <2> QED BY <1>2, <1>3, <2>1, <2>2, <2>3, <2>4 DEF FreeingOK
<1>13. CallOK'
  BY <1>2 DEF LInv, CallOK, Storing
<1> QED BY <1>6, <1>7, <1>8, <1>9, <1>11, <1>12, <1>13 DEF LInv

-----------------------------------------------------------------------------
\* del_off ties one more chunk to the one behind it.
LEMMA FreeExpandLists == ASSUME IInv, IInv', LInv, FreeExpand PROVE LInv'
<1> DEFINE V == Nodes(expand, off)
<1>1. /\ \A f : DOMAIN f = Chunk => Links(f)
      /\ DOMAIN expand = Chunk /\ DOMAIN lo = Chunk
  BY LinksAreLinks, Members DEF IInv
<1>2. /\ pc = "free" /\ pc' = "free" /\ lo' = [lo EXCEPT ![p] = expand[p]]
      /\ p' = expand[p] /\ expand[p] # 0 /\ element_cnt' = Dec(element_cnt)
      /\ UNCHANGED <<bucket, hi, expireAt, next, expand, aPre, aNext, ePre, eNext,
                     key_cnt, alloc_cnt, free_beg, access_beg, access_end, expire_beg,
                     now, op, key, val, off, cnt, ret>>
  BY DEF FreeExpand, TiedFree, links, queues, call
<1>3. /\ off \notin Entries /\ off # 0 /\ Linked(expand, off) /\ p \in V
      /\ \A c \in Gone : lo[c] = expand[c]
  BY <1>2 DEF LInv, FreeingOK
<1>4. /\ Ends0 = expand /\ Ends0' = expand /\ Going = V /\ Going' = V
      /\ Gone = V \ Nodes(expand, p) /\ Gone' = V \ Nodes(expand, p')
      /\ Entries' = Entries
  BY <1>2 DEF Ends0, Storing, Going, Gone, Entries
<1>5. /\ Linked(expand, p) /\ Nodes(expand, p) \subseteq V /\ p \in Nodes(expand, p)
      /\ p # 0 /\ V \subseteq Chunk \ {0}
  BY <1>1, <1>3, ListRest, ListShape
<1>6. Nodes(expand, p') = Nodes(expand, p) \ {p} /\ p' \in Nodes(expand, p')
  <2>1. Linked(expand, p') /\ Nodes(expand, p') = Nodes(expand, p) \ {p}
    BY <1>1, <1>2, <1>5, ListPop
  <2> QED BY <2>1, <1>1, <1>2, ListShape
<1>7. Gone' = Gone \cup {p} /\ p \notin Gone /\ p' \in V
  BY <1>4, <1>5, <1>6
<1>8. p \notin Free /\ p \notin Entries /\ p \in 1..(alloc_cnt - 1)
  BY <1>3, <1>4, Members DEF LInv, ValuesOK
<1>9. Linked(lo', free_beg) /\ Free' = Free
  <2>1. Linked(lo, free_beg) /\ \A c \in Nodes(lo, free_beg) : lo'[c] = lo[c]
    BY <1>2, <1>8 DEF LInv, ListsOK, Free
  <2>2. DOMAIN lo' = Chunk BY <1>1, <1>2
  <2> QED BY <1>1, <1>2, <2>1, <2>2, ListKept DEF Free
<1>10. ListsOK'
  BY <1>2, <1>4, <1>9 DEF LInv, ListsOK
<1>11. BucketsOK'
  <2>1. \A c \in Entries : lo'[c] = lo[c] BY <1>2, <1>8
  <2> QED BY <1>2, <1>4, <2>1 DEF LInv, BucketsOK
<1>12. ValuesOK'
  BY <1>2, <1>4, <1>9 DEF LInv, ValuesOK
<1>13. CountsOK'
  <2>1. Held' = Held \ {p} /\ p \in Held
    BY <1>2, <1>7, <1>8, <1>9 DEF Held
  <2>2. IsFiniteSet(Held)
    <3>1. IsFiniteSet(1..(alloc_cnt - 1)) BY Members, FS_Interval
    <3> QED BY <3>1, FS_Subset DEF Held
  <2>3. Cardinality(Held \ {p}) = Cardinality(Held) - 1 /\ Cardinality(Held) \in Nat
    BY <2>1, <2>2, FS_RemoveElement, FS_CardinalityType
  <2>4. Cardinality(Held) # 0 BY <2>1, <2>2, FS_EmptySet
  <2> QED BY <1>2, <1>4, <2>1, <2>3, <2>4 DEF LInv, CountsOK, Dec
<1>14. AgesOK'
  BY <1>2, <1>4 DEF LInv, AgesOK
<1>15. FreeingOK'
  <2>1. \A c \in Gone' : lo'[c] = expand[c]
    BY <1>1, <1>2, <1>3, <1>5, <1>7
  <2> QED BY <1>2, <1>3, <1>4, <1>7, <2>1 DEF LInv, FreeingOK
<1>16. CallOK'
  BY <1>2 DEF LInv, CallOK, Storing
<1> QED BY <1>10, <1>11, <1>12, <1>13, <1>14, <1>15, <1>16 DEF LInv

\* The last chunk is tied to the free list, which now begins with the head.
LEMMA FreeLastLists == ASSUME IInv, IInv', LInv, FreeLast PROVE LInv'
<1> DEFINE V == Nodes(expand, off)
<1>1. /\ \A f : DOMAIN f = Chunk => Links(f)
      /\ DOMAIN expand = Chunk /\ DOMAIN lo = Chunk /\ DOMAIN next = Chunk
  BY LinksAreLinks, Members DEF IInv
<1>2. /\ pc = "free" /\ lo' = [lo EXCEPT ![p] = free_beg] /\ free_beg' = off
      /\ expand[p] = 0 /\ element_cnt' = Dec(element_cnt) /\ key_cnt' = Dec(key_cnt)
      /\ UNCHANGED <<bucket, hi, expireAt, next, expand, aPre, aNext, ePre, eNext,
                     alloc_cnt, access_beg, access_end, expire_beg, now, op, key, val>>
  BY DEF FreeLast, KeyCountedOff, Return, links, call
<1>3. /\ off \notin Entries /\ off # 0 /\ Linked(expand, off) /\ p \in V
      /\ \A c \in Gone : lo[c] = expand[c]
      /\ ret \in {"flush", "replace", "del"}
      /\ ret = "flush" => \/ eNext[off] = 0
                          \/ eNext[off] \in Entries /\ expireAt[eNext[off]] < now
  BY <1>2 DEF LInv, FreeingOK
<1>4. \/ ret = "del" /\ Return("done", None)
      \/ ret = "flush" /\ pc' = "flush" /\ off' = eNext[off] /\ ret' = "none"
      \/ /\ ret = "replace" /\ pc' = "find" /\ off' = FirstIn(key) /\ ret' = ret
         /\ cnt' = cnt
  BY <1>3 DEF FreeLast, NextExpired
<1>5. pc' # "free" /\ pc' # "alloc" BY <1>4 DEF Return
<1>6. /\ Ends0 = expand /\ Ends0' = expand /\ Going = V /\ Going' = {}
      /\ Gone = V \ Nodes(expand, p) /\ Gone' = {} /\ Entries' = Entries
  BY <1>2, <1>5 DEF Ends0, Storing, Going, Gone, Entries
<1>7. Linked(expand, p) /\ V \subseteq Chunk \ {0} /\ p \in Nodes(expand, p)
  BY <1>1, <1>3, ListRest, ListShape
<1>8. Nodes(expand, p) = {p}
  <2>1. p # 0 BY <1>3, <1>7
  <2>2. Nodes(expand, expand[p]) = Nodes(expand, p) \ {p} BY <1>1, <1>7, <2>1, ListPop
  <2>3. Nodes(expand, 0) = {} BY <1>1, EmptyList
  <2> QED BY <1>2, <1>7, <2>2, <2>3
<1>9. Gone = V \ {p} BY <1>6, <1>8
<1>10. p \notin Free /\ p \notin Entries /\ p \in 1..(alloc_cnt - 1)
  BY <1>3, <1>6, Members DEF LInv, ValuesOK
<1>11. Linked(lo', free_beg') /\ Free' = V \cup Free
  <2>1. Linked(lo, free_beg) /\ V \cap Nodes(lo, free_beg) = {}
    BY <1>6 DEF LInv, ListsOK, ValuesOK, Free
  <2>2. \A c \in V \ {p} : lo'[c] = expand[c] BY <1>2, <1>3, <1>9
  <2>3. \A c \in Nodes(lo, free_beg) : lo'[c] = lo[c] BY <1>2, <1>10 DEF Free
  <2>4. DOMAIN lo' = Chunk /\ lo'[p] = free_beg BY <1>1, <1>2, <1>3, <1>7
  <2>5. TiedTogether(expand, off, lo, free_beg, p, lo')
    BY <1>1, <1>2, <1>3, <2>1, <2>2, <2>3, <2>4 DEF TiedTogether
  <2>6. Linked(lo', off) /\ Nodes(lo', off) = V \cup Nodes(lo, free_beg)
    BY <1>1, <1>3, <2>1, <2>5, ListJoin
  <2> QED BY <1>2, <2>6 DEF Free
<1>12. ListsOK'
  BY <1>2, <1>6, <1>11 DEF LInv, ListsOK
<1>13. BucketsOK'
  <2>1. \A c \in Entries : lo'[c] = lo[c] BY <1>2, <1>10
  <2> QED BY <1>2, <1>6, <2>1 DEF LInv, BucketsOK
<1>14. ValuesOK'
  BY <1>2, <1>6, <1>11 DEF LInv, ValuesOK
<1>15. CountsOK'
  <2>1. Held' = Held \ {p} /\ p \in Held
    BY <1>2, <1>3, <1>6, <1>9, <1>10, <1>11 DEF Held
  <2>2. IsFiniteSet(Held)
    <3>1. IsFiniteSet(1..(alloc_cnt - 1)) BY Members, FS_Interval
    <3> QED BY <3>1, FS_Subset DEF Held
  <2>3. Cardinality(Held \ {p}) = Cardinality(Held) - 1 /\ Cardinality(Held) \in Nat
    BY <2>1, <2>2, FS_RemoveElement, FS_CardinalityType
  <2>4. Cardinality(Held) # 0 BY <2>1, <2>2, FS_EmptySet
  <2>5. element_cnt = Cardinality(Held) /\ key_cnt = Cardinality(Entries) + 1
    BY <1>2 DEF LInv, CountsOK
  <2>6. Cardinality(Entries) \in Nat BY Members, FS_CardinalityType
  <2>7. element_cnt' = Cardinality(Held') BY <1>2, <2>1, <2>3, <2>4, <2>5 DEF Dec
  <2>8. key_cnt' = Cardinality(Entries) BY <1>2, <2>5, <2>6 DEF Dec
  <2> QED BY <1>5, <1>6, <2>6, <2>7, <2>8 DEF CountsOK
<1>16. AgesOK'
  BY <1>2, <1>6 DEF LInv, AgesOK
<1>17. FreeingOK'
  BY <1>5 DEF FreeingOK
<1>18. CallOK'
  <2>1. CASE ret = "del" /\ Return("done", None)
    BY <2>1 DEF Return, CallOK, Storing
  <2>2. CASE ret = "flush" /\ pc' = "flush" /\ off' = eNext[off] /\ ret' = "none"
    BY <1>2, <1>3, <1>6, <2>2 DEF CallOK, Storing
  <2>3. CASE /\ ret = "replace" /\ pc' = "find" /\ off' = FirstIn(key) /\ ret' = ret
             /\ cnt' = cnt
    <3>1. off' = 0 \/ off' \in Nodes(next', FirstIn(key)')
      <4>1. FirstIn(key)' = FirstIn(key) BY <1>2 DEF FirstIn
      <4>2. key \in Keys BY <1>2, <2>3 DEF IInv, FrameOK
      <4>3. BucketOf(HashLo[key]) \in Buckets BY <4>2, BucketInRange, DataAssumption
      <4>4. Linked(next, FirstIn(key)) BY <4>3 DEF FirstIn, LInv, BucketsOK
      <4> QED BY <1>1, <1>2, <2>3, <4>1, <4>4, ListShape
    <3> QED BY <1>2, <1>3, <2>3, <3>1 DEF LInv, CallOK, Storing
  <2> QED BY <1>4, <2>1, <2>2, <2>3
<1> QED BY <1>12, <1>13, <1>14, <1>15, <1>16, <1>17, <1>18 DEF LInv

\* A hit takes its entry out of the access queue and puts it in front; the
\* others keep their order.
LEMMA TouchMoves ==
  ASSUME IInv, LInv, Touch
  PROVE  /\ BothWays(aNext', aPre', access_beg') /\ Entries' = Entries
         /\ \E rest : /\ Skips(ListFrom(aNext, access_beg), off, rest)
                     /\ Leads(off, rest, ListFrom(aNext', access_beg'))
<1>1. /\ \A f : DOMAIN f = Chunk => Links(f)
      /\ DOMAIN aNext = Chunk /\ DOMAIN aPre = Chunk
  BY LinksAreLinks, Members DEF IInv
<1>2. /\ pc = "find" /\ op = "get" /\ off # 0
      /\ aNext' = [LinksWithout(off) EXCEPT ![off] = BegWithout(off)]
      /\ aPre' = [BackLinksWithout(off) EXCEPT ![off] = 0, ![BegWithout(off)] = off]
      /\ access_beg' = off
  BY DEF Touch, Found
<1>3. off \in Entries
  <2>1. off \in Nodes(next, FirstIn(key)) /\ key \in Keys
    BY <1>2 DEF LInv, CallOK, IInv, FrameOK
  <2>2. BucketOf(HashLo[key]) \in Buckets BY <2>1, BucketInRange, DataAssumption
  <2> QED BY <2>1, <2>2 DEF FirstIn, LInv, BucketsOK
<1> DEFINE f == LinksWithout(off)
           b == BackLinksWithout(off)
           s == BegWithout(off)
<1>4. TakenOut(aNext, aPre, access_beg, off, f, b, s)
  BY DEF TakenOut, BackLinksWithout, LinksWithout, BegWithout
<1>5. BothWays(aNext, aPre, access_beg) /\ off \in Nodes(aNext, access_beg)
  BY <1>3 DEF LInv, ListsOK, Entries
<1>6. PutFirst(f, b, s, off, aNext', aPre') BY <1>2 DEF PutFirst
<1> HIDE DEF f, b, s
<1>7. /\ BothWays(f, b, s) /\ Nodes(f, s) = Entries \ {off}
      /\ DOMAIN f = Chunk /\ DOMAIN b = Chunk
      /\ Skips(ListFrom(aNext, access_beg), off, ListFrom(f, s))
  <2>1. /\ BothWays(f, b, s) /\ Nodes(f, s) = Nodes(aNext, access_beg) \ {off}
        /\ DOMAIN f = DOMAIN aNext /\ DOMAIN b = DOMAIN aNext
        /\ Skips(ListFrom(aNext, access_beg), off, ListFrom(f, s))
    BY <1>1, <1>4, <1>5, BothWaysCut
  <2> QED BY <2>1, <1>1 DEF Entries
<1>8. off \in Chunk \ {0} BY <1>3, Members
<1>9. /\ BothWays(aNext', aPre', off) /\ Nodes(aNext', off) = Nodes(f, s) \cup {off}
      /\ Leads(off, ListFrom(f, s), ListFrom(aNext', off))
  BY <1>1, <1>6, <1>7, <1>8, BothWaysPush
<1> QED BY <1>2, <1>3, <1>7, <1>9 DEF Entries

\* So it keeps the lists.
LEMMA TouchLists == ASSUME IInv, IInv', LInv, Touch PROVE LInv'
<1>2. /\ pc = "find" /\ pc' = "read" /\ op = "get"
      /\ UNCHANGED <<bucket, hi, lo, expireAt, next, expand, ePre, eNext, element_cnt,
                     key_cnt, alloc_cnt, free_beg, expire_beg, now, op, val, ret>>
  BY DEF Touch, Found, counts, call
<1>4. BothWays(aNext', aPre', access_beg') /\ Entries' = Entries
  BY TouchMoves
<1>5. /\ Ends0 = expand /\ Ends0' = expand /\ Going = {} /\ Going' = {}
      /\ Gone = {} /\ Gone' = {} /\ Free' = Free
  BY <1>2 DEF Ends0, Storing, Going, Gone, Free
<1>6. ListsOK' BY <1>2, <1>4 DEF LInv, ListsOK
<1>7. BucketsOK' BY <1>2, <1>4 DEF LInv, BucketsOK
<1>8. ValuesOK' BY <1>2, <1>4, <1>5 DEF LInv, ValuesOK
<1>9. CountsOK'
  <2>1. Held' = Held BY <1>2, <1>5 DEF Held
  <2> QED BY <1>2, <1>4, <2>1 DEF LInv, CountsOK
<1>10. AgesOK' BY <1>2, <1>4 DEF LInv, AgesOK
<1>11. FreeingOK' BY <1>2 DEF FreeingOK
<1>12. CallOK' BY <1>2 DEF LInv, CallOK, Storing
<1> QED BY <1>6, <1>7, <1>8, <1>9, <1>10, <1>11, <1>12 DEF LInv

-----------------------------------------------------------------------------
\* The chunk o that put_val uses was in no list but the free list, which it
\* has left, or was never used.
Taken(o) ==
  /\ o \in Chunk \ {0} /\ PutVal(o) /\ pc = "alloc"
  /\ Linked(lo', free_beg') /\ Free' = Free \ {o} /\ o \notin Entries
  /\ \A h \in Entries : o \notin Nodes(Ends0, h)
  /\ o \in Free \/ o \notin 1..(alloc_cnt - 1)
  /\ alloc_cnt' \in 1..(SliceSz * SliceMax)
  /\ 1..(alloc_cnt' - 1) = (1..(alloc_cnt - 1)) \cup {o}
  /\ ret = "replace" => expand[o] = 0

\* Such a chunk comes from the free list, from the slices that are mapped or
\* from one more slice.
LEMMA ChunkTaken ==
  ASSUME IInv, IInv', LInv, AllocFree \/ AllocFresh \/ AllocSlice
  PROVE  \E o \in Chunk : Taken(o)
<1>1. /\ \A f : DOMAIN f = Chunk => Links(f)
      /\ DOMAIN lo = Chunk
  BY LinksAreLinks, Members DEF IInv
<1>2. DOMAIN lo' = Chunk BY DEF IInv, MemoryOK
<1>3. pc = "alloc" BY DEF AllocFree, AllocFresh, AllocSlice
<1>4. /\ alloc_cnt \in Nat \ {0} /\ alloc_cnt' \in 1..(SliceSz * SliceMax)
      /\ SliceSz * slice_cnt' \in Nat /\ alloc_cnt' <= SliceSz * slice_cnt'
      /\ Offset' \subseteq Chunk
  <2>1. slice_cnt' \in 1..SliceMax /\ alloc_cnt' \in 1..(SliceSz * slice_cnt')
    BY DEF IInv, HeaderOK
  <2>2. /\ SliceSz * slice_cnt' \in Nat /\ SliceSz * slice_cnt' <= SliceSz * SliceMax
        /\ 0..(SliceSz * slice_cnt' - 1) \subseteq Chunk
    BY <2>1, SliceBounds
  <2>3. alloc_cnt \in Nat \ {0} BY SliceBounds DEF IInv, HeaderOK
  <2>4. SliceSz * SliceMax \in Nat BY SliceBounds
  <2> QED BY <2>1, <2>2, <2>3, <2>4 DEF Offset
<1>5. ASSUME NEW o, PutVal(o) PROVE lo' = [lo EXCEPT ![o] = HashLo[key]]
  BY <1>5 DEF PutVal, Fill
<1>6. CASE AllocFree
  <2> DEFINE o == free_beg
  <2>1. o # 0 /\ PutVal(o) /\ free_beg' = lo[o] /\ alloc_cnt' = alloc_cnt
    BY <1>6 DEF AllocFree, RestOfFreeList
  <2>2. Linked(lo, o) BY DEF LInv, ListsOK
  <2>3. o \in Free BY <1>1, <2>1, <2>2, ListShape DEF Free
  <2>4. /\ o \in Chunk \ {0} /\ o \notin Entries /\ o \in 1..(alloc_cnt - 1)
        /\ \A h \in Entries : o \notin Nodes(Ends0, h)
    BY <2>3, Members DEF LInv, ValuesOK
  <2>5. Linked(lo', free_beg') /\ Free' = Free \ {o}
    <3>1. Linked(lo, lo[o]) /\ Nodes(lo, lo[o]) = Nodes(lo, o) \ {o}
      BY <1>1, <2>1, <2>2, ListPop
    <3>2. \A c \in Nodes(lo, lo[o]) : lo'[c] = lo[c]
      <4>1. lo' = [lo EXCEPT ![o] = HashLo[key]] BY <2>1, <1>5
      <4> HIDE DEF o
      <4> QED BY <3>1, <4>1
    <3>3. Linked(lo', lo[o]) /\ Nodes(lo', lo[o]) = Nodes(lo, lo[o])
      BY <1>1, <1>2, <3>1, <3>2, ListKept
    <3> QED BY <2>1, <3>1, <3>3 DEF Free
  <2>6. ret = "replace" => expand[o] = 0 BY <1>3 DEF LInv, CallOK
  <2>7. 1..(alloc_cnt' - 1) = (1..(alloc_cnt - 1)) \cup {o} BY <2>1, <2>4
  <2> HIDE DEF o
  <2> QED BY <1>3, <1>4, <2>1, <2>3, <2>4, <2>5, <2>6, <2>7 DEF Taken
<1>7. CASE AllocFresh \/ AllocSlice
  <2> DEFINE o == alloc_cnt
  <2>1. PutVal(o) /\ free_beg = 0 /\ free_beg' = 0 /\ alloc_cnt' = o + 1
    BY <1>7 DEF AllocFresh, AllocSlice
  <2>2. o \in Chunk \ {0}
    <3>1. o \in Offset' BY <1>4, <2>1 DEF Offset
    <3> QED BY <1>4, <3>1
  <2>3. Free = {} /\ Linked(lo', free_beg') /\ Free' = {}
    BY <1>1, <1>2, <2>1, EmptyList DEF Free
  <2>4. o \notin 1..(alloc_cnt - 1) BY <1>4
  <2>5. o \notin Entries /\ \A h \in Entries : o \notin Nodes(Ends0, h)
    BY <2>4, Members DEF LInv, ValuesOK
  <2>6. ret # "replace" BY <1>3, <2>1 DEF LInv, CallOK
  <2>7. 1..(alloc_cnt' - 1) = (1..(alloc_cnt - 1)) \cup {o} BY <1>4, <2>1
  <2> HIDE DEF o
  <2> QED BY <1>3, <1>4, <2>1, <2>2, <2>3, <2>4, <2>5, <2>6, <2>7 DEF Taken
<1> QED BY <1>6, <1>7

\* The counters, once there is one chunk more in use.
LEMMA OneMoreHeld ==
  ASSUME IInv, IInv', LInv, NEW o, Taken(o), pc' # "free"
  PROVE  /\ element_cnt' = Cardinality(Held')
         /\ \A E \in SUBSET (1..(alloc_cnt' - 1)) :
              o \in E /\ key_cnt = Cardinality(E \ {o}) => Inc(key_cnt) = Cardinality(E)
<1> DEFINE b == alloc_cnt' - 1
           I == 1..b
<1>1. b \in Nat /\ b < Word - 1 /\ Word \in Nat
  <2> DEFINE m == SliceSz * SliceMax
             a == alloc_cnt'
  <2>1. a \in 1..m /\ m \in Nat /\ m < Word /\ Word \in Nat
    BY SizesAssumption, SliceBounds DEF Taken
  <2> HIDE DEF m, a
  <2>2. a - 1 < Word - 1 /\ a - 1 \in Nat /\ Word \in Nat BY <2>1
  <2> QED BY <2>2 DEF a
<1>2. ASSUME NEW E \in SUBSET I, o \in E
      PROVE  /\ Cardinality(E) = Cardinality(E \ {o}) + 1
             /\ Inc(Cardinality(E \ {o})) = Cardinality(E)
  <2> HIDE DEF b
  <2>1. IsFiniteSet(I) /\ Cardinality(I) = b BY <1>1, FS_Interval
  <2>2. IsFiniteSet(E) /\ Cardinality(E) \in Nat /\ Cardinality(E) <= b
    BY <2>1, FS_Subset, FS_CardinalityType
  <2>3. Cardinality(E \ {o}) = Cardinality(E) - 1 BY <2>2, <1>2, FS_RemoveElement
  <2> DEFINE x == Cardinality(E)
             y == Cardinality(E \ {o})
  <2>4. x \in Nat /\ x <= b /\ y = x - 1 BY <2>2, <2>3
  <2> HIDE DEF x, y, I
  <2>5. y # Word - 1 /\ x = y + 1 BY <1>1, <2>4
  <2>6. Inc(y) = x BY <2>5 DEF Inc
  <2> QED BY <2>5, <2>6 DEF x, y
<1>3. Held = Held' \ {o} /\ o \in Held' /\ Held' \in SUBSET I
  <2>1. Gone = {} /\ Gone' = {} BY DEF Gone, Taken
  <2>2. Free \subseteq 1..(alloc_cnt - 1) BY DEF LInv, ValuesOK
  <2> QED BY <2>1, <2>2 DEF Held, Taken
<1>4. element_cnt' = Inc(element_cnt) BY DEF Taken, PutVal, Fill
<1>5. element_cnt = Cardinality(Held) BY DEF LInv, CountsOK
<1> HIDE DEF I
<1>6. element_cnt' = Cardinality(Held') BY <1>2, <1>3, <1>4, <1>5
<1>7. \A E \in SUBSET I : o \in E /\ key_cnt = Cardinality(E \ {o}) =>
                           Inc(key_cnt) = Cardinality(E)
  BY <1>2
<1> QED BY <1>6, <1>7 DEF I

\* The first piece is put in front of its bucket and of the access queue.
LEMMA FillPutsFirst ==
  ASSUME IInv, LInv, NEW o \in Chunk \ {0}, o \notin Entries, Fill(o), cnt = 1, key \in Keys
  PROVE  /\ \A b \in Buckets :
              /\ Linked(next', bucket'[b])
              /\ Nodes(next', bucket'[b]) = Nodes(next, bucket[b])
                    \cup (IF b = BucketOf(HashLo[key]) THEN {o} ELSE {})
         /\ BothWays(aNext', aPre', access_beg') /\ Entries' = Entries \cup {o}
         /\ Leads(o, ListFrom(aNext, access_beg), ListFrom(aNext', access_beg'))
<1> DEFINE b0 == BucketOf(HashLo[key])
<1>1. /\ \A f : DOMAIN f = Chunk => Links(f)
      /\ DOMAIN aNext = Chunk /\ DOMAIN aPre = Chunk /\ DOMAIN next = Chunk
      /\ DOMAIN bucket = Buckets /\ b0 \in Buckets
  BY LinksAreLinks, Members, BucketInRange, DataAssumption DEF IInv, MemoryOK
<1>2. /\ next' = [next EXCEPT ![o] = bucket[b0]] /\ bucket' = [bucket EXCEPT ![b0] = o]
      /\ PutFirst(aNext, aPre, access_beg, o, aNext', aPre') /\ access_beg' = o
  BY DEF Fill, PutFirst, RestOfBucket, FirstIn
<1> HIDE DEF b0
<1>3. /\ DOMAIN next' = Chunk /\ next'[o] = bucket[b0] /\ bucket'[b0] = o
      /\ \A c \in Chunk : c # o => next'[c] = next[c]
      /\ \A b \in Buckets : b # b0 => bucket'[b] = bucket[b]
  BY <1>1, <1>2
<1>4. ASSUME NEW b \in Buckets
      PROVE  /\ Linked(next', bucket'[b])
             /\ Nodes(next', bucket'[b]) = Nodes(next, bucket[b])
                   \cup (IF b = b0 THEN {o} ELSE {})
  <2>1. Linked(next, bucket[b]) /\ o \notin Nodes(next, bucket[b])
    BY DEF LInv, BucketsOK
  <2>2. \A c \in Nodes(next, bucket[b]) : next'[c] = next[c] BY <1>2, <2>1
  <2>3. CASE b # b0
    <3>1. Linked(next', bucket[b]) /\ Nodes(next', bucket[b]) = Nodes(next, bucket[b])
      BY <1>1, <1>3, <2>1, <2>2, ListKept
    <3> QED BY <1>3, <2>3, <3>1
  <2>4. CASE b = b0
    <3>1. Linked(next', o) /\ Nodes(next', o) = Nodes(next, bucket[b]) \cup {o}
      BY <1>1, <1>3, <2>1, <2>2, <2>4, ListPush
    <3> QED BY <1>3, <2>4, <3>1
  <2> QED BY <2>3, <2>4
<1>5. /\ BothWays(aNext', aPre', access_beg') /\ Entries' = Entries \cup {o}
      /\ Leads(o, ListFrom(aNext, access_beg), ListFrom(aNext', access_beg'))
  <2>1. BothWays(aNext, aPre, access_beg) /\ o \notin Nodes(aNext, access_beg)
    BY DEF LInv, ListsOK, Entries
  <2>2. /\ BothWays(aNext', aPre', o) /\ Nodes(aNext', o) = Nodes(aNext, access_beg) \cup {o}
        /\ Leads(o, ListFrom(aNext, access_beg), ListFrom(aNext', o))
    BY <1>1, <1>2, <2>1, BothWaysPush
  <2> QED BY <1>2, <2>2 DEF Entries
<1> QED BY <1>4, <1>5 DEF b0

\* The first piece of a value: a new entry in front of its bucket and of both
\* queues.
LEMMA FirstPiece ==
  ASSUME IInv, IInv', LInv, NEW o, Taken(o), cnt = 1 PROVE LInv'
<1> DEFINE got == IF ret = "replace" THEN 0 ELSE o
<1>1. /\ \A f : DOMAIN f = Chunk => Links(f)
      /\ DOMAIN aNext = Chunk /\ DOMAIN aPre = Chunk
      /\ DOMAIN eNext = Chunk /\ DOMAIN ePre = Chunk
      /\ DOMAIN next = Chunk /\ DOMAIN expand = Chunk /\ DOMAIN lo = Chunk
  BY LinksAreLinks, Members DEF IInv
<1>2. /\ o \in Chunk \ {0} /\ pc = "alloc" /\ o \notin Entries
      /\ op = "put" /\ key \in Keys /\ val \in Vals /\ Fill(o) /\ Tie(got)
  BY DEF Taken, PutVal, IInv, FrameOK
<1>3. /\ lo' = [lo EXCEPT ![o] = HashLo[key]]
      /\ next' = [next EXCEPT ![o] = FirstIn(key)]
      /\ bucket' = [bucket EXCEPT ![BucketOf(HashLo[key])] = o]
      /\ key_cnt' = Inc(key_cnt)
      /\ PutFirst(aNext, aPre, access_beg, o, aNext', aPre') /\ access_beg' = o
      /\ PutFirst(eNext, ePre, expire_beg, o, eNext', ePre') /\ expire_beg' = o
      /\ expireAt' = [expireAt EXCEPT ![o] = now + ExpireTime]
  BY <1>2 DEF Fill, PutFirst, RestOfBucket
<1>4. /\ now' = now /\ op' = op /\ val' = val /\ ret' = "none"
      /\ \/ /\ cnt = Pieces[val] /\ pc' = "idle" /\ expand' = [expand EXCEPT ![got] = 0]
         \/ /\ cnt # Pieces[val] /\ pc' = "alloc" /\ expand' = expand
            /\ p' = got /\ cnt' = 2
  BY <1>2 DEF Tie, Return, call
<1>5. ret = "replace" => cnt = Pieces[val] /\ expand[o] = 0
  BY DEF LInv, CallOK, Taken
<1>6. /\ Ends0 = expand /\ Ends0' = [expand EXCEPT ![got] = 0]
      /\ Going = {} /\ Going' = {} /\ Gone = {} /\ Gone' = {} /\ pc' # "free"
  BY <1>2, <1>4 DEF Ends0, Storing, Going, Gone
<1>7. /\ Ends0'[o] = 0 /\ DOMAIN Ends0' = Chunk
      /\ \A c \in Chunk : c # 0 /\ c # o => Ends0'[c] = expand[c]
  BY <1>1, <1>2, <1>5, <1>6
<1> HIDE DEF got
<1>8. Linked(Ends0', o) /\ Nodes(Ends0', o) = {o}
  <2>1. Linked(Ends0', 0) /\ Nodes(Ends0', 0) = {} BY <1>1, <1>7, EmptyList
  <2> QED BY <1>1, <1>2, <1>7, <2>1, ListPush
<1>9. ASSUME NEW h \in Entries
      PROVE  Linked(Ends0', h) /\ Nodes(Ends0', h) = Nodes(expand, h)
  <2>1. Linked(expand, h) /\ o \notin Nodes(expand, h) BY <1>6 DEF LInv, ValuesOK, Taken
  <2>2. Nodes(expand, h) \subseteq Chunk \ {0} BY <1>1, <2>1, ListShape
  <2>3. \A c \in Nodes(expand, h) : Ends0'[c] = expand[c] BY <1>7, <2>1, <2>2
  <2> QED BY <1>1, <1>7, <2>1, <2>3, ListKept
<1>10. BothWays(aNext', aPre', access_beg') /\ Entries' = Entries \cup {o}
  BY <1>2, FillPutsFirst
<1>11. /\ BothWays(eNext', ePre', expire_beg')
       /\ Nodes(eNext', expire_beg') = Entries \cup {o}
  <2>1. /\ BothWays(eNext, ePre, expire_beg) /\ Nodes(eNext, expire_beg) = Entries
        /\ o \notin Nodes(eNext, expire_beg)
    BY <1>2 DEF LInv, ListsOK
  <2>2. BothWays(eNext', ePre', o) /\ Nodes(eNext', o) = Nodes(eNext, expire_beg) \cup {o}
    BY <1>1, <1>2, <1>3, <2>1, BothWaysPush
  <2> QED BY <1>3, <2>1, <2>2
<1>12. ListsOK'
  BY <1>10, <1>11 DEF ListsOK, Taken
<1>13. BucketsOK'
  <2>1. \A b \in Buckets :
          /\ Linked(next', bucket'[b])
          /\ Nodes(next', bucket'[b]) = Nodes(next, bucket[b])
                \cup (IF b = BucketOf(HashLo[key]) THEN {o} ELSE {})
    BY <1>2, FillPutsFirst
  <2>2. \A b \in Buckets : \A c \in Nodes(next, bucket[b]) :
          c \in Entries /\ lo'[c] = lo[c] /\ BucketOf(lo[c]) = b
    BY <1>2, <1>3 DEF LInv, BucketsOK
  <2>3. lo'[o] = HashLo[key] BY <1>1, <1>2, <1>3
  <2> QED BY <1>10, <2>1, <2>2, <2>3 DEF BucketsOK
<1>14. ValuesOK'
  <2>1. Entries' = Entries \cup {o} /\ Free' = Free \ {o} /\ Going' = {}
    BY <1>6, <1>10 DEF Taken
  <2>2. /\ 1..(alloc_cnt' - 1) = (1..(alloc_cnt - 1)) \cup {o}
        /\ o \in Free \/ o \notin 1..(alloc_cnt - 1)
        /\ \A h \in Entries : o \notin Nodes(expand, h)
    BY <1>6 DEF Taken
  <2>3. /\ \A g, h \in Entries : g # h => Nodes(expand, g) \cap Nodes(expand, h) = {}
        /\ \A h \in Entries : /\ Nodes(expand, h) \cap Free = {}
                              /\ Nodes(expand, h) \subseteq 1..(alloc_cnt - 1)
        /\ Free \subseteq 1..(alloc_cnt - 1)
        /\ \A c \in 1..(alloc_cnt - 1) :
             c \in Free \/ \E h \in Entries : c \in Nodes(expand, h)
    BY <1>6 DEF LInv, ValuesOK
  <2>4. \A h \in Entries' : Linked(Ends0', h) BY <1>8, <1>9, <2>1
  <2>5. \A h \in Entries' : Nodes(Ends0', h) = IF h = o THEN {o} ELSE Nodes(expand, h)
    BY <1>2, <1>8, <1>9, <2>1
  <2>6. \A g, h \in Entries' : g # h => Nodes(Ends0', g) \cap Nodes(Ends0', h) = {}
    BY <2>1, <2>2, <2>3, <2>5
  <2>7. \A h \in Entries' : /\ Nodes(Ends0', h) \cap Free' = {}
                            /\ Nodes(Ends0', h) \cap Going' = {}
                            /\ Nodes(Ends0', h) \subseteq 1..(alloc_cnt' - 1)
    BY <2>1, <2>2, <2>3, <2>5
  <2>8. \A c \in 1..(alloc_cnt' - 1) :
          c \in Free' \/ c \in Going' \/ \E h \in Entries' : c \in Nodes(Ends0', h)
    <3> SUFFICES ASSUME NEW c \in 1..(alloc_cnt' - 1), c \notin Free'
                 PROVE  \E h \in Entries' : c \in Nodes(Ends0', h)
      OBVIOUS
    <3>1. CASE c = o BY <3>1, <2>1, <1>8
    <3>2. CASE c # o
      <4>1. PICK h \in Entries : c \in Nodes(expand, h) BY <3>2, <2>1, <2>2, <2>3
      <4> QED BY <4>1, <1>9, <2>1
    <3> QED BY <3>1, <3>2
  <2>9. Free' \subseteq 1..(alloc_cnt' - 1) /\ Going' \subseteq 1..(alloc_cnt' - 1)
        /\ Free' \cap Going' = {}
    BY <2>1, <2>2, <2>3
  <2> QED BY <2>4, <2>6, <2>7, <2>8, <2>9 DEF ValuesOK
<1>15. CountsOK'
  <2>1. Entries' \in SUBSET (1..(alloc_cnt' - 1))
    BY <1>10, Members DEF Taken
  <2>2. o \in Entries' /\ Entries' \ {o} = Entries BY <1>2, <1>10
  <2>3. key_cnt = Cardinality(Entries)
    <3>1. Cardinality(Entries) \in Nat BY Members, FS_CardinalityType
    <3> QED BY <1>2, <3>1 DEF LInv, CountsOK
  <2>4. Inc(key_cnt) = Cardinality(Entries') BY <1>6, <2>1, <2>2, <2>3, OneMoreHeld
  <2>5. element_cnt' = Cardinality(Held') BY <1>6, OneMoreHeld
  <2>6. Cardinality(Entries') \in Nat
    <3>1. IsFiniteSet(Entries') BY <1>10, Members, FS_AddElement
    <3> QED BY <3>1, FS_CardinalityType
  <2> QED BY <1>3, <1>6, <2>4, <2>5, <2>6 DEF CountsOK
<1>16. AgesOK'
  <2>1. /\ expireAt'[o] = now + ExpireTime /\ eNext'[o] = expire_beg
        /\ \A c \in Entries : expireAt'[c] = expireAt[c] /\ eNext'[c] = eNext[c]
    BY <1>1, <1>2, <1>3 DEF PutFirst, IInv, MemoryOK
  <2>2. /\ expire_beg # 0 => expire_beg \in Entries
        /\ \A c \in Entries : eNext[c] = 0 \/ eNext[c] \in Entries
    <3>1. Linked(eNext, expire_beg) /\ Nodes(eNext, expire_beg) = Entries
      BY DEF LInv, ListsOK, BothWays
    <3> QED BY <1>1, <3>1, ListShape
  <2>3. now + ExpireTime <= now + ExpireTime BY SizesAssumption, Clock
  <2> QED BY <1>4, <1>10, <2>1, <2>2, <2>3 DEF LInv, AgesOK
<1>17. FreeingOK'
  BY <1>6 DEF FreeingOK
<1>18. CallOK'
  <2>1. CASE pc' = "idle" BY <1>4, <2>1 DEF CallOK, Storing
  <2>2. CASE pc' = "alloc"
    <3>1. cnt # Pieces[val] /\ p' = o /\ cnt' = 2 BY <1>4, <1>5, <2>2 DEF got
    <3>2. Pieces[val] \in Nat /\ Pieces[val] >= 1 BY <1>2, DataAssumption DEF LInv, CallOK
    <3> QED BY <1>2, <1>3, <1>4, <1>8, <2>2, <3>1, <3>2 DEF CallOK, Storing
  <2> QED BY <1>4, <2>1, <2>2
<1> QED BY <1>12, <1>13, <1>14, <1>15, <1>16, <1>17, <1>18 DEF LInv

\* Any further piece is tied to the end of the value in the making, which is
\* the first entry of the access queue.
LEMMA OtherPiece ==
  ASSUME IInv, IInv', LInv, NEW o, Taken(o), cnt # 1 PROVE LInv'
<1> DEFINE h0 == access_beg
<1>1. /\ \A f : DOMAIN f = Chunk => Links(f)
      /\ DOMAIN expand = Chunk /\ DOMAIN lo = Chunk /\ DOMAIN Ends0 = Chunk
  BY LinksAreLinks, Members DEF IInv
<1>2. /\ o \in Chunk \ {0} /\ pc = "alloc" /\ o \notin Entries
      /\ op = "put" /\ val \in Vals /\ cnt \in Nat /\ cnt > 1 /\ cnt <= Pieces[val]
      /\ Fill(o) /\ ret # "replace" /\ Tie(o)
  <2>1. /\ o \in Chunk \ {0} /\ pc = "alloc" /\ o \notin Entries /\ PutVal(o)
        /\ op = "put" /\ val \in Vals /\ cnt \in Nat
    BY DEF Taken, IInv, FrameOK
  <2>2. cnt >= 1 /\ cnt <= Pieces[val] BY <2>1 DEF LInv, CallOK
  <2>3. cnt > 1 BY <2>1, <2>2
  <2>4. ret # "replace" BY <2>1, <2>3 DEF LInv, CallOK, Storing
  <2> QED BY <2>1, <2>2, <2>3, <2>4 DEF PutVal
<1>3. /\ lo' = [lo EXCEPT ![o] = HashLo[key]]
      /\ UNCHANGED <<next, bucket, key_cnt, aNext, aPre, access_beg, eNext, ePre,
                     expire_beg, expireAt>>
  BY <1>2 DEF Fill
<1>4. /\ now' = now /\ op' = op /\ val' = val /\ ret' = "none"
      /\ \/ /\ cnt = Pieces[val] /\ pc' = "idle"
            /\ expand' = [[expand EXCEPT ![p] = o] EXCEPT ![o] = 0]
         \/ /\ cnt # Pieces[val] /\ pc' = "alloc"
            /\ expand' = [expand EXCEPT ![p] = o]
            /\ p' = o /\ cnt' = cnt + 1
  BY <1>2 DEF Tie, Return, call
<1>5. Storing /\ Ends0 = [expand EXCEPT ![p] = 0] /\ h0 # 0 /\ p \in Nodes(Ends0, h0)
  BY <1>2 DEF Storing, Ends0, LInv, CallOK
<1>6. /\ Going = {} /\ Going' = {} /\ Gone = {} /\ Gone' = {} /\ pc' # "free"
      /\ Ends0' = [[expand EXCEPT ![p] = o] EXCEPT ![o] = 0] /\ Entries' = Entries
  <2>1. cnt + 1 > 1 BY <1>2
  <2> QED BY <1>2, <1>3, <1>4, <2>1 DEF Ends0, Storing, Going, Gone, Entries
<1>7. h0 \in Entries
  BY LinksAreLinks, Members, ListShape, <1>5 DEF IInv, LInv, ListsOK, BothWays, Entries
<1>8. /\ Linked(Ends0, h0) /\ o \notin Nodes(Ends0, h0) /\ p # o
      /\ Nodes(Ends0, h0) \subseteq Chunk \ {0} /\ p \in Chunk
  <2>1. Linked(Ends0, h0) /\ o \notin Nodes(Ends0, h0) BY <1>7 DEF LInv, ValuesOK, Taken
  <2>2. Nodes(Ends0, h0) \subseteq Chunk \ {0} BY <1>1, <2>1, ListShape
  <2> QED BY <1>5, <2>1, <2>2
<1>9. /\ Ends0[p] = 0 /\ Ends0'[p] = o /\ Ends0'[o] = 0 /\ DOMAIN Ends0' = Chunk
      /\ \A c \in Chunk : c # p /\ c # o => Ends0'[c] = Ends0[c]
  BY <1>1, <1>2, <1>5, <1>6, <1>8
<1> HIDE DEF h0
<1>10. Linked(Ends0', o) /\ Nodes(Ends0', o) = {o}
  <2>1. Linked(Ends0', 0) /\ Nodes(Ends0', 0) = {} BY <1>1, <1>9, EmptyList
  <2> QED BY <1>1, <1>2, <1>9, <2>1, ListPush
<1>11. Linked(Ends0', h0) /\ Nodes(Ends0', h0) = Nodes(Ends0, h0) \cup {o}
  <2>1. \A c \in Nodes(Ends0, h0) \ {p} : Ends0'[c] = Ends0[c] BY <1>8, <1>9
  <2>2. /\ DOMAIN Ends0' = DOMAIN Ends0 /\ p \in Nodes(Ends0, h0)
        /\ Ends0[p] = 0 /\ Ends0'[p] = o
    BY <1>1, <1>5, <1>9
  <2>3. Nodes(Ends0, h0) \cap Nodes(Ends0', o) = {} BY <1>8, <1>10
  <2> DEFINE g == Ends0'
             f == Ends0
  <2> HIDE DEF g, f
  <2>4. TiedTogether(f, h0, g, o, p, g)
    BY <2>1, <2>2, <2>3 DEF TiedTogether, f, g
  <2>5. Links(f) /\ Linked(f, h0) /\ Linked(g, o) /\ Nodes(g, o) = {o}
    BY <1>1, <1>8, <1>10 DEF f, g
  <2>6. Linked(g, h0) /\ Nodes(g, h0) = Nodes(f, h0) \cup Nodes(g, o)
    BY <2>4, <2>5, ListJoin
  <2> QED BY <2>5, <2>6 DEF f, g
<1>12. ASSUME NEW h \in Entries, h # h0
       PROVE  Linked(Ends0', h) /\ Nodes(Ends0', h) = Nodes(Ends0, h)
  <2>1. Linked(Ends0, h) /\ o \notin Nodes(Ends0, h) /\ p \notin Nodes(Ends0, h)
    BY <1>5, <1>7, <1>12 DEF LInv, ValuesOK, Taken
  <2>2. Nodes(Ends0, h) \subseteq Chunk \ {0} BY <1>1, <2>1, ListShape
  <2>3. \A c \in Nodes(Ends0, h) : Ends0'[c] = Ends0[c] BY <1>9, <2>1, <2>2
  <2> QED BY <1>1, <1>9, <2>1, <2>3, ListKept
<1>13. ListsOK'
  BY <1>3, <1>6 DEF LInv, ListsOK, Taken
<1>14. BucketsOK'
  <2>1. \A c \in Entries : lo'[c] = lo[c] BY <1>2, <1>3
  <2> QED BY <1>3, <1>6, <2>1 DEF LInv, BucketsOK
<1>15. ValuesOK'
  <2>1. Free' = Free \ {o} BY DEF Taken
  <2>2. /\ 1..(alloc_cnt' - 1) = (1..(alloc_cnt - 1)) \cup {o}
        /\ o \in Free \/ o \notin 1..(alloc_cnt - 1)
        /\ \A h \in Entries : o \notin Nodes(Ends0, h)
    BY DEF Taken
  <2>3. /\ \A g, h \in Entries : g # h => Nodes(Ends0, g) \cap Nodes(Ends0, h) = {}
        /\ \A h \in Entries : /\ Nodes(Ends0, h) \cap Free = {}
                              /\ Nodes(Ends0, h) \subseteq 1..(alloc_cnt - 1)
        /\ Free \subseteq 1..(alloc_cnt - 1)
        /\ \A c \in 1..(alloc_cnt - 1) :
             c \in Free \/ \E h \in Entries : c \in Nodes(Ends0, h)
    BY <1>6 DEF LInv, ValuesOK
  <2>4. \A h \in Entries : Linked(Ends0', h) BY <1>11, <1>12
  <2>5. \A h \in Entries : Nodes(Ends0', h) = IF h = h0 THEN Nodes(Ends0, h) \cup {o}
                                                      ELSE Nodes(Ends0, h)
    BY <1>11, <1>12
  <2>6. \A g, h \in Entries : g # h => Nodes(Ends0', g) \cap Nodes(Ends0', h) = {}
    BY <2>2, <2>3, <2>5
  <2>7. \A h \in Entries : /\ Nodes(Ends0', h) \cap Free' = {}
                           /\ Nodes(Ends0', h) \subseteq 1..(alloc_cnt' - 1)
    BY <2>1, <2>2, <2>3, <2>5
  <2>8. ASSUME NEW c \in 1..(alloc_cnt' - 1), c \notin Free'
        PROVE  \E h \in Entries : c \in Nodes(Ends0', h)
    <3>1. CASE c = o BY <3>1, <1>7, <1>11
    <3>2. CASE c # o
      <4>1. PICK h \in Entries : c \in Nodes(Ends0, h) BY <3>2, <2>1, <2>2, <2>3, <2>8
      <4> QED BY <4>1, <2>5
    <3> QED BY <3>1, <3>2
  <2>9. Free' \subseteq 1..(alloc_cnt' - 1) BY <2>1, <2>2, <2>3
  <2> QED BY <1>6, <2>4, <2>6, <2>7, <2>8, <2>9 DEF ValuesOK
<1>16. CountsOK'
  <2>1. element_cnt' = Cardinality(Held') BY <1>6, OneMoreHeld
  <2> QED BY <1>2, <1>3, <1>6, <2>1 DEF LInv, CountsOK
<1>17. AgesOK'
  BY <1>3, <1>4, <1>6 DEF LInv, AgesOK
<1>18. FreeingOK'
  BY <1>6 DEF FreeingOK
<1>19. CallOK'
  <2>1. CASE pc' = "idle" BY <1>4, <2>1 DEF CallOK, Storing
  <2>2. CASE pc' = "alloc"
    <3>1. cnt # Pieces[val] /\ p' = o /\ cnt' = cnt + 1 BY <1>4, <2>2
    <3>2. Pieces[val] \in Nat BY <1>2, DataAssumption
    <3>3. 1 <= cnt' /\ cnt' <= Pieces[val] BY <1>2, <3>1, <3>2
    <3>4. access_beg' = h0 /\ h0 # 0 BY <1>3, <1>5 DEF h0
    <3> QED BY <1>2, <1>4, <1>11, <2>2, <3>1, <3>2, <3>3, <3>4 DEF CallOK, Storing
  <2> QED BY <1>4, <2>1, <2>2
<1> QED BY <1>13, <1>14, <1>15, <1>16, <1>17, <1>18, <1>19 DEF LInv

\* No memory for a value of one piece: nothing but chunk 0 is written.
LEMMA AllocFailLists ==
  ASSUME IInv, IInv', LInv, AllocFail, Pieces[val] = 1 PROVE LInv'
<1>1. /\ \A f : DOMAIN f = Chunk => Links(f)
      /\ DOMAIN expand = Chunk
  BY LinksAreLinks, Members DEF IInv
<1>2. pc = "alloc" /\ cnt = 1 /\ Tie(0)
  <2>1. pc = "alloc" /\ Tie(0) /\ cnt \in Nat BY DEF AllocFail, IInv, FrameOK
  <2>2. 1 <= cnt /\ cnt <= 1 BY <2>1 DEF LInv, CallOK
  <2> QED BY <2>1, <2>2
<1>3. /\ pc' = "idle" /\ ret' = "none" /\ expand' = [expand EXCEPT ![0] = 0] /\ now' = now
      /\ UNCHANGED <<bucket, lo, expireAt, next, aPre, aNext, ePre, eNext, element_cnt,
                     key_cnt, alloc_cnt, free_beg, access_beg, expire_beg>>
  BY <1>2 DEF AllocFail, Tie, Return, counts, queues
<1>4. /\ Ends0 = expand /\ Ends0' = expand' /\ Going = {} /\ Going' = {}
      /\ Gone = {} /\ Gone' = {} /\ Free' = Free /\ Entries' = Entries
  BY <1>2, <1>3 DEF Ends0, Storing, Going, Gone, Free, Entries
<1>5. ASSUME NEW h \in Entries
      PROVE  Linked(Ends0', h) /\ Nodes(Ends0', h) = Nodes(Ends0, h)
  <2>1. Linked(Ends0, h) BY DEF LInv, ValuesOK
  <2>2. Nodes(Ends0, h) \subseteq Chunk \ {0} BY <1>1, <1>4, <2>1, ListShape
  <2>3. DOMAIN Ends0' = Chunk /\ \A c \in Nodes(Ends0, h) : Ends0'[c] = Ends0[c]
    BY <1>1, <1>3, <1>4, <2>2
  <2>4. DOMAIN Ends0 = Chunk /\ Links(Ends0) BY <1>1, <1>4
  <2> QED BY <2>1, <2>3, <2>4, ListKept
<1>6. ListsOK' BY <1>3, <1>4 DEF LInv, ListsOK
<1>7. BucketsOK' BY <1>3, <1>4 DEF LInv, BucketsOK
<1>8. ValuesOK'
  <2>1. /\ Entries' = Entries /\ Free' = Free /\ Going' = Going /\ alloc_cnt' = alloc_cnt
        /\ \A h \in Entries : Linked(Ends0', h) /\ Nodes(Ends0', h) = Nodes(Ends0, h)
    BY <1>3, <1>4, <1>5
  <2>2. ValuesOK BY DEF LInv
  <2> QED BY <2>1, <2>2, SMTT(30) DEF ValuesOK
<1>9. CountsOK'
  <2>1. Held' = Held BY <1>3, <1>4 DEF Held
  <2> QED BY <1>2, <1>3, <1>4, <2>1 DEF LInv, CountsOK
<1>10. AgesOK' BY <1>3, <1>4 DEF LInv, AgesOK
<1>11. FreeingOK' BY <1>3 DEF FreeingOK
<1>12. CallOK' BY <1>3 DEF CallOK, Storing
<1> QED BY <1>6, <1>7, <1>8, <1>9, <1>10, <1>11, <1>12 DEF LInv

-----------------------------------------------------------------------------
\* A crashed process is started again, and does nothing else.
LEMMA CrashLasts == ASSUME Next, ~Alive PROVE Restart
BY DEF Alive, Next, Step, GetCall, DelCall, PutCall, PutEmpty, ViewCall, Enter, EvictOne,
       EvictEnd, FreeExpand, FreeLast, FindNext, FindNone, Found, DelFound, Replace,
       FlushFirst, FlushNext, FlushEnd, Touch, ReadExpand, ReadOverrun, ReadEnd,
       StoreBegin, StoreTooLong, StoreOverrun, AllocFree, AllocWild, AllocFresh,
       AllocSlice, AllocFail, ViewNext, ViewWild, ViewEnd, Tick

\* Every gentle step that is not a crash keeps the lists.
LEMMA LivingLists ==
  ASSUME IInv, IInv', LInv, Alive', [GentleNext]_vars PROVE LInv'
<1>1. CASE (\E k \in Keys : GetCall(k) \/ DelCall(k))
             \/ (\E k \in Keys, v \in Vals : PutCall(k, v) \/ PutEmpty(k, v))
             \/ ViewCall
  BY <1>1, CallLists
<1>2. CASE \/ EvictEnd \/ FindNext \/ FindNone \/ FlushEnd \/ ReadExpand \/ ReadOverrun
           \/ ReadEnd \/ StoreBegin \/ StoreTooLong \/ ViewNext \/ ViewEnd \/ Tick
  BY <1>2, LoopLists
<1>3. CASE DelFound \/ (Replace /\ Gentle) \/ FlushFirst
  <2>1. pc = "find" /\ off \in Entries
    <3>1. pc = "find" /\ off # 0 BY <1>3 DEF DelFound, Replace, FlushFirst, Found
    <3>2. off \in Nodes(next, FirstIn(key)) /\ key \in Keys
      BY <3>1 DEF LInv, CallOK, IInv, FrameOK
    <3>3. BucketOf(HashLo[key]) \in Buckets BY <3>2, BucketInRange, DataAssumption
    <3> QED BY <3>1, <3>2, <3>3 DEF FirstIn, LInv, BucketsOK
  <2>2. CASE DelFound
    BY <2>1, <2>2, UnlinkLists DEF DelFound
  <2>3. CASE Replace /\ Gentle
    BY <2>1, <2>3, UnlinkLists DEF Replace, Gentle
  <2>4. CASE FlushFirst
    BY <2>1, <2>4, UnlinkLists DEF FlushFirst, Expired
  <2> QED BY <1>3, <2>2, <2>3, <2>4
<1>4. CASE FlushNext
  <2>1. /\ pc = "flush" /\ off \in Entries /\ expireAt[off] < now /\ op = "get"
        /\ Unlink(off, "flush") /\ cnt' = cnt
    BY <1>4 DEF FlushNext, LInv, CallOK, IInv, FrameOK
  <2> QED BY <2>1, UnlinkLists
<1>5. CASE FreeExpand
  BY <1>5, FreeExpandLists
<1>6. CASE FreeLast
  BY <1>6, FreeLastLists
<1>7. CASE Touch
  BY <1>7, TouchLists
<1>8. CASE AllocFree \/ AllocFresh \/ AllocSlice
  BY <1>8, ChunkTaken, FirstPiece, OtherPiece
<1>9. CASE AllocFail /\ Gentle
  BY <1>9, AllocFailLists DEF Gentle
<1>10. CASE Restart
  BY <1>10, RestartLists
<1>11. CASE UNCHANGED vars
  <2>1. /\ UNCHANGED <<bucket, hi, lo, piece, next, expand, aPre, aNext, ePre, eNext, expireAt>>
        /\ UNCHANGED <<element_cnt, key_cnt, alloc_cnt, slice_cnt, free_beg, access_beg,
                       access_end, expire_beg, now, pc, op, key, val, off, p, cnt, ret>>
    BY <1>11 DEF vars, memory, chunks, links, counts, queues, call, cursors
  <2>2. /\ Entries' = Entries /\ Free' = Free /\ Storing' = Storing /\ Ends0' = Ends0
        /\ Going' = Going /\ Gone' = Gone /\ FirstIn(key)' = FirstIn(key)
    BY <2>1 DEF Entries, Free, Storing, Ends0, Going, Gone, FirstIn
  <2>3. Held' = Held BY <2>1, <2>2 DEF Held
  <2>4. ListsOK' BY <2>1, <2>2 DEF LInv, ListsOK
  <2>5. BucketsOK' BY <2>1, <2>2 DEF LInv, BucketsOK
  <2>6. ValuesOK' BY <2>1, <2>2 DEF LInv, ValuesOK
  <2>7. CountsOK' BY <2>1, <2>2, <2>3 DEF LInv, CountsOK
  <2>8. AgesOK' BY <2>1, <2>2 DEF LInv, AgesOK
  <2>9. FreeingOK' BY <2>1, <2>2 DEF LInv, FreeingOK
  <2>10. CallOK' BY <2>1, <2>2 DEF LInv, CallOK
  <2> QED BY <2>4, <2>5, <2>6, <2>7, <2>8, <2>9, <2>10 DEF LInv
<1>12. ~AllocWild /\ ~ViewWild /\ (GentleNext => ~EvictOne)
  BY NeverWild DEF GentleNext, Gentle
<1>13. ~StoreOverrun
  BY DEF StoreOverrun, Crash, Alive
<1> QED
  BY <1>1, <1>2, <1>3, <1>4, <1>5, <1>6, <1>7, <1>8, <1>9, <1>10, <1>11, <1>12, <1>13
  DEF GentleNext, Next, Step

\* Every gentle step keeps the lists of a process that has not crashed.
LEMMA NextLists == ASSUME IInv, IInv', Lists, [GentleNext]_vars PROVE Lists'
<1>1. CASE Alive
  BY <1>1, LivingLists DEF Lists
<1>2. CASE ~Alive /\ UNCHANGED vars
  BY <1>2 DEF vars, Lists, Alive
<1>3. CASE ~Alive /\ GentleNext
  BY <1>3, CrashLasts, RestartLists DEF GentleNext, Lists
<1> QED BY <1>1, <1>2, <1>3

\* The invariant of the lists holds in every state that gentle steps reach.
THEOREM ListInvariance == GentleSpec => [](IInv /\ Lists)
<1>1. Init => IInv /\ Lists
  BY InitInv, InitLists DEF Lists
<1>2. IInv /\ Lists /\ [GentleNext]_vars => (IInv /\ Lists)'
  <2> SUFFICES ASSUME IInv, Lists, [GentleNext]_vars PROVE (IInv /\ Lists)'
    OBVIOUS
  <2>1. IInv' BY NextInv DEF GentleNext
  <2> QED BY <2>1, NextLists
<1> QED
  BY <1>1, <1>2, PTL DEF GentleSpec

-----------------------------------------------------------------------------
(* The order of the access queue.                                          *)

Before == ListFrom(aNext, access_beg)
After  == ListFrom(aNext', access_beg')

\* A step that changes neither the queue nor the loop in a way that counts.
LEMMA QuietOrder ==
  ASSUME UNCHANGED <<aNext, access_beg>>, ~(Found /\ pc' = "read"),
         ~(pc' = "free" /\ p' = off')
  PROVE  AccessOrder
<1>1. Before = After BY DEF Before, After
<1> QED BY <1>1 DEF AccessOrder, Before, After

\* del_off takes its own entry out, and no other.
LEMMA UnlinkOrder ==
  ASSUME IInv, LInv, NEW o \in Entries, NEW caller, Unlink(o, caller)
  PROVE  AccessOrder
<1>1. pc' = "free" /\ p' = o /\ off' = o BY DEF Unlink
<1>2. Skips(Before, o, After) BY UnlinkTakesOut DEF Before, After
<1> QED BY <1>1, <1>2 DEF AccessOrder, Before, After

\* Going on to the next chunk of a value never leads back to its head.
LEMMA FreeExpandOrder == ASSUME IInv, LInv, FreeExpand PROVE AccessOrder
<1>1. /\ pc = "free" /\ p' = expand[p] /\ off' = off /\ expand[p] # 0
      /\ UNCHANGED <<aNext, access_beg>>
  BY DEF FreeExpand, links, queues
<1>2. Linked(expand, off) /\ p \in Nodes(expand, off) BY <1>1 DEF LInv, FreeingOK
<1>3. Links(expand) BY LinksAreLinks, Members DEF IInv
<1>4. expand[p] # off BY <1>2, <1>3, ListShape
<1> QED BY <1>1, <1>4, QuietOrder DEF Found

\* put_val enters its entry in front, or adds to the value of the first one.
LEMMA PutOrder == ASSUME IInv, LInv, NEW o, Taken(o) PROVE AccessOrder
<1>1. /\ pc = "alloc" /\ op = "put" /\ key \in Keys /\ Fill(o)
      /\ o \in Chunk \ {0} /\ o \notin Entries /\ pc' # "free"
  BY DEF Taken, PutVal, Tie, Return, IInv, FrameOK
<1>2. CASE cnt = 1
  <2>1. Leads(o, Before, After) BY <1>1, <1>2, FillPutsFirst DEF Before, After
  <2>2. access_beg' = o BY <1>1, <1>2 DEF Fill
  <2> QED BY <1>1, <2>1, <2>2 DEF AccessOrder, Found, Before, After
<1>3. CASE cnt # 1
  <2>1. UNCHANGED <<aNext, access_beg>> BY <1>1, <1>3 DEF Fill
  <2> QED BY <1>1, <2>1, QuietOrder DEF Found
<1> QED BY <1>2, <1>3

\* A restart leaves an empty queue.
LEMMA RestartOrder == ASSUME IInv', Restart PROVE AccessOrder
<1>1. /\ pc' = "idle" /\ access_beg' = 0 /\ alloc_cnt' = 1 BY DEF Restart
<1>2. Links(aNext')
  <2>1. IsFiniteSet(Chunk) /\ 0 \in Chunk
    BY SizesAssumption, SmallFacts, FS_Interval DEF Chunk
  <2>2. DOMAIN aNext' = Chunk BY DEF IInv, MemoryOK
  <2> QED BY <2>1, <2>2 DEF Links
<1>3. After = <<>> BY <1>1, <1>2, EmptyWalk DEF After
<1> QED BY <1>1, <1>3 DEF AccessOrder, After

\* Every gentle step keeps the order.
LEMMA LivingOrder == ASSUME IInv, IInv', LInv, GentleNext PROVE AccessOrder
<1>1. CASE (\E k \in Keys : GetCall(k) \/ DelCall(k))
             \/ (\E k \in Keys, v \in Vals : PutCall(k, v) \/ PutEmpty(k, v))
             \/ ViewCall
  <2>1. /\ UNCHANGED <<aNext, access_beg>>
        /\ pc' \in {"idle", "find", "evict", "store", "view"}
    BY <1>1 DEF GetCall, DelCall, PutCall, PutEmpty, ViewCall, Enter, memory, chunks, links,
                queues
  <2> QED BY <2>1, QuietOrder
<1>2. CASE \/ EvictEnd \/ FindNext \/ FindNone \/ FlushEnd \/ ReadExpand \/ ReadOverrun
           \/ ReadEnd \/ StoreBegin \/ StoreTooLong \/ ViewNext \/ ViewEnd \/ Tick
  <2>1. UNCHANGED memory /\ pc' # "free"
    BY <1>2 DEF EvictEnd, FindNext, FindNone, FlushEnd, ReadExpand, ReadOverrun, ReadEnd,
                StoreBegin, StoreTooLong, ViewNext, ViewEnd, Tick, Return, Crash, cursors
  <2>2. ~(pc = "find" /\ pc' = "read")
    BY <1>2 DEF EvictEnd, FindNext, FindNone, FlushEnd, ReadExpand, ReadOverrun, ReadEnd,
                StoreBegin, StoreTooLong, ViewNext, ViewEnd, Tick, Return, Crash, cursors
  <2>3. UNCHANGED <<aNext, access_beg>> BY <2>1 DEF memory, chunks, links, queues
  <2> QED BY <2>1, <2>2, <2>3, QuietOrder DEF Found
<1>3. CASE DelFound \/ Replace \/ FlushFirst
  <2>1. off \in Entries
    <3>1. pc = "find" /\ off # 0 BY <1>3 DEF DelFound, Replace, FlushFirst, Found
    <3>2. off \in Nodes(next, FirstIn(key)) /\ key \in Keys
      BY <3>1 DEF LInv, CallOK, IInv, FrameOK
    <3>3. BucketOf(HashLo[key]) \in Buckets BY <3>2, BucketInRange, DataAssumption
    <3> QED BY <3>1, <3>2, <3>3 DEF FirstIn, LInv, BucketsOK
  <2>2. \E caller \in {"del", "replace", "flush"} : Unlink(off, caller)
    BY <1>3 DEF DelFound, Replace, FlushFirst
  <2> QED BY <2>1, <2>2, UnlinkOrder
<1>4. CASE FlushNext
  <2>1. off \in Entries /\ Unlink(off, "flush")
    BY <1>4 DEF FlushNext, LInv, CallOK
  <2> QED BY <2>1, UnlinkOrder
<1>5. CASE FreeExpand
  BY <1>5, FreeExpandOrder
<1>6. CASE FreeLast
  <2>1. UNCHANGED <<aNext, access_beg>> /\ pc = "free" BY <1>6 DEF FreeLast, links
  <2>2. ret \in {"flush", "replace", "del"} BY <2>1 DEF LInv, FreeingOK
  <2>3. pc' # "free" BY <1>6, <2>2 DEF FreeLast, Return
  <2> QED BY <2>1, <2>3, QuietOrder DEF Found
<1>7. CASE Touch
  <2>1. Found /\ pc' = "read" BY <1>7 DEF Touch
  <2>2. PICK rest : Skips(Before, off, rest) /\ Leads(off, rest, After)
    BY <1>7, TouchMoves DEF Before, After
  <2>3. Tail(After) = rest BY <2>2 DEF Leads
  <2>4. Leads(off, Tail(After), After) /\ Skips(Before, off, Tail(After)) BY <2>2, <2>3
  <2> QED BY <2>1, <2>4 DEF AccessOrder, Before, After
<1>8. CASE AllocFree \/ AllocFresh \/ AllocSlice
  BY <1>8, ChunkTaken, PutOrder
<1>9. CASE AllocFail
  <2>1. UNCHANGED <<aNext, access_beg>> /\ pc = "alloc" /\ pc' # "free"
    BY <1>9 DEF AllocFail, Tie, Return, queues
  <2> QED BY <2>1, QuietOrder DEF Found
<1>10. CASE Restart
  BY <1>10, RestartOrder
<1>11. CASE StoreOverrun
  <2>1. UNCHANGED <<aNext, access_beg>> /\ pc' = "crashed"
    BY <1>11 DEF StoreOverrun, Crash, memory, chunks, links, queues
  <2> QED BY <2>1, QuietOrder
<1>12. ~AllocWild /\ ~ViewWild /\ ~EvictOne
  BY NeverWild DEF GentleNext, Gentle
<1> QED
  BY <1>1, <1>2, <1>3, <1>4, <1>5, <1>6, <1>7, <1>8, <1>9, <1>10, <1>11, <1>12
  DEF GentleNext, Next, Step

\* A crashed process has no queue to keep in order until it is restarted.
LEMMA NextOrder == ASSUME IInv, IInv', Lists, GentleNext PROVE AccessOrder
BY LivingOrder, CrashLasts, RestartOrder DEF Lists, GentleNext

\* The access queue is ordered by last use: a hit moves its entry to the front,
\* del_off takes its own out, put_val enters one in front, and the others keep
\* their places, whichever call is under way.
THEOREM OrderStaysUsed == GentleSpec => AccessOrderKept
<1>1. IInv /\ Lists /\ (IInv /\ Lists)' /\ [GentleNext]_vars => [AccessOrder]_vars
  BY NextOrder
<1>2. GentleSpec => [](IInv /\ Lists) BY ListInvariance
<1> QED BY <1>1, <1>2, PTL DEF GentleSpec, AccessOrderKept

-----------------------------------------------------------------------------
(* What the invariant says of the cache between two calls.                 *)

\* No chunk is lost and none is in two places.
LEMMA PartitionHolds == ASSUME IInv, Lists PROVE ChunksPartitioned
<1> SUFFICES ASSUME Idle, LInv PROVE ChunksPartitioned
  BY DEF ChunksPartitioned, Idle, Alive, Lists
<1>1. Ends0 = expand /\ Going = {} BY DEF Idle, Ends0, Storing, Going
<1>2. /\ \A f : DOMAIN f = Chunk => Links(f)
      /\ DOMAIN aNext = Chunk /\ DOMAIN expand = Chunk /\ DOMAIN lo = Chunk
  BY LinksAreLinks, Members DEF IInv
<1>3. Ends(lo, free_beg) /\ Ends(aNext, access_beg)
  BY <1>2, ListShape DEF LInv, ListsOK, BothWays
<1>4. ASSUME NEW h \in Entries PROVE Ends(expand, h) /\ Value(h) \cap Free = {}
  BY <1>1, <1>2, ListShape DEF LInv, ValuesOK, Value
<1>5. ASSUME NEW g \in Entries, NEW h \in Entries, g # h PROVE Value(g) \cap Value(h) = {}
  BY <1>1, <1>5 DEF LInv, ValuesOK, Value
<1>6. Free \cup UNION {Value(h) : h \in Entries} = 1..(alloc_cnt - 1)
  <2>1. /\ \A h \in Entries : Value(h) \subseteq 1..(alloc_cnt - 1)
        /\ Free \subseteq 1..(alloc_cnt - 1)
        /\ \A c \in 1..(alloc_cnt - 1) : c \in Free \/ \E h \in Entries : c \in Value(h)
    BY <1>1 DEF LInv, ValuesOK, Value
  <2> QED BY <2>1
<1> QED BY <1>3, <1>4, <1>5, <1>6 DEF ChunksPartitioned

\* The counters count what the lists hold.
LEMMA CountsHold == ASSUME IInv, Lists PROVE CountsMatch
<1> SUFFICES ASSUME Idle, LInv PROVE CountsMatch BY DEF CountsMatch, Idle, Alive, Lists
<1>1. Ends0 = expand /\ Going = {} /\ Gone = {} /\ pc # "free"
  BY DEF Idle, Ends0, Storing, Going, Gone
<1>2. Held = UNION {Value(h) : h \in Entries}
  <2>1. Held = (1..(alloc_cnt - 1)) \ Free BY <1>1 DEF Held
  <2> QED BY <1>1, <2>1 DEF LInv, ValuesOK, Value
<1>3. Cardinality(Entries) \in Nat BY Members, FS_CardinalityType
<1> QED BY <1>1, <1>2, <1>3 DEF LInv, CountsOK, CountsMatch

\* The queues hold the same entries and link back as they link forward.
LEMMA QueuesHold == ASSUME IInv, Lists PROVE QueuesAgree
<1> SUFFICES ASSUME Idle, LInv PROVE QueuesAgree BY DEF QueuesAgree, Idle, Alive, Lists
<1>1. /\ \A f : DOMAIN f = Chunk => Links(f)
      /\ DOMAIN eNext = Chunk /\ DOMAIN next = Chunk
  BY LinksAreLinks, Members DEF IInv
<1>2. Ends(eNext, expire_beg) /\ Nodes(eNext, expire_beg) = Entries
  BY <1>1, ListShape DEF LInv, ListsOK, BothWays
<1>3. /\ \A o \in Entries : aPre[aNext[o]] = o /\ ePre[eNext[o]] = o
      /\ access_beg # 0 => aPre[access_beg] = 0
      /\ expire_beg # 0 => ePre[expire_beg] = 0
  BY DEF LInv, ListsOK, BothWays, Entries
<1>4. ASSUME NEW b \in Buckets
      PROVE  /\ Ends(next, bucket[b])
             /\ \A o \in Nodes(next, bucket[b]) : o \in Entries /\ BucketOf(lo[o]) = b
  BY <1>1, ListShape DEF LInv, BucketsOK
<1> QED BY <1>2, <1>3, <1>4 DEF QueuesAgree

\* What a flush is about to delete has expired.
LEMMA FlushHolds == ASSUME Lists PROVE FlushOnlyExpired
BY DEF LInv, CallOK, FlushOnlyExpired, Alive, Lists

-----------------------------------------------------------------------------
(* The theorems for gentle behaviours, of any owner.                       *)

\* Every chunk handed out is free or part of exactly one value of the access
\* queue (del_off, put_val and put together), as long as nothing is evicted
\* and no value of several chunks replaces, is replaced or is cut short.
THEOREM ChunksStayPartitioned == GentleSpec => []ChunksPartitioned
BY ListInvariance, PartitionHolds, PTL

\* m_ptr_table_header's element_cnt and key_cnt are the numbers of chunks and
\* of entries stored, in the same behaviours.
THEOREM CountsStayRight == GentleSpec => []CountsMatch
BY ListInvariance, CountsHold, PTL

\* The access queue, the expire queue and the buckets agree, in the same
\* behaviours.
THEOREM QueuesStayAgreed == GentleSpec => []QueuesAgree
BY ListInvariance, QueuesHold, PTL

\* _flush_expire deletes only what has expired, in the same behaviours.
THEOREM FlushesOnlyExpired == GentleSpec => []FlushOnlyExpired
BY ListInvariance, FlushHolds, PTL
-----------------------------------------------------------------------------
(* An owner all of whose values fit one chunk: up to the first chunk that  *)
(* do_eliminate deletes every step it takes is gentle, whatever its limits *)
(* are and whatever the disk does, and it never crashes.                   *)

\* A value takes one chunk, or it is refused: empty or longer than MAX_VAL_LEN.
OneChunkValues == \A v \in Vals : Pieces[v] <= 1 \/ Pieces[v] > MaxPieces

\* The behaviours of any owner in which do_eliminate deletes nothing.
UnevictedNext == Next /\ ~EvictOne
UnevictedSpec == Init /\ [][UnevictedNext]_vars

OneInv ==
  /\ expand = Zero /\ Alive
  /\ op = "put" /\ pc \in {"find", "free", "alloc"} => Pieces[val] = 1

\* Such an owner replaces one chunk by one, and what it fails to store takes one.
LEMMA OneIsGentle ==
  ASSUME IInv, OneInv, ~EvictOne
  PROVE  Gentle
<1>1. ASSUME Replace PROVE Pieces[val] = 1 /\ expand[off] = 0
  <2>1. pc = "find" /\ op = "put" BY <1>1 DEF Replace, Found
  <2>2. off \in Chunk BY <2>1, OffsetFacts DEF IInv, FrameOK, HeaderOK
  <2> QED BY <2>1, <2>2 DEF OneInv, Zero
<1>2. ASSUME AllocFail PROVE Pieces[val] = 1
  <2>1. pc = "alloc" /\ op = "put" BY <1>2 DEF AllocFail, IInv, FrameOK
  <2> QED BY <2>1 DEF OneInv
<1> QED BY <1>1, <1>2 DEF Gentle

\* Such an owner's call stays one that stores a single chunk.
LEMMA OneStaysOne ==
  ASSUME IInv, LInv, OneInv, OneChunkValues, [UnevictedNext]_vars
  PROVE  OneInv'
<1>1. ASSUME pc = "alloc" PROVE Pieces[val] = 1 /\ cnt = 1
  <2>1. op = "put" /\ cnt \in Nat BY <1>1 DEF IInv, FrameOK
  <2>2. Pieces[val] = 1 BY <1>1, <2>1 DEF OneInv
  <2>3. 1 <= cnt /\ cnt <= Pieces[val] BY <1>1 DEF LInv, CallOK
  <2> QED BY <2>1, <2>2, <2>3
<1>2. CASE \/ \E k \in Keys : GetCall(k) \/ DelCall(k)
           \/ \E k \in Keys, v \in Vals : PutCall(k, v) \/ PutEmpty(k, v)
           \/ ViewCall
  <2>1. expand' = expand
    BY <1>2 DEF GetCall, DelCall, PutCall, PutEmpty, ViewCall, Enter, memory, chunks, links
  <2>2. \/ pc' = "find" /\ op' # "put"
        \/ pc' \in {"idle", "evict", "store", "view"}
    BY <1>2 DEF GetCall, DelCall, PutCall, PutEmpty, ViewCall, Enter
  <2> QED BY <2>1, <2>2 DEF OneInv, Alive
<1>3. CASE EvictEnd
  BY <1>3 DEF EvictEnd, OneInv, Alive, memory, chunks, links
<1>4. CASE FindNext \/ FindNone \/ DelFound \/ Replace \/ FlushFirst \/ FlushNext \/ Touch
  <2>1. expand' = expand /\ op' = op /\ val' = val /\ pc' # "crashed"
    BY <1>4 DEF FindNext, FindNone, DelFound, Replace, FlushFirst, FlushNext, Touch,
                Unlink, Return, memory, chunks, links, call
  <2>2. op = "put" /\ pc' \in {"find", "free", "alloc"} => pc = "find"
    <3>1. pc = "flush" => op # "put" BY DEF IInv, FrameOK
    <3> QED BY <1>4, <3>1 DEF FindNext, FindNone, DelFound, Replace, FlushFirst, FlushNext,
                              Touch, Found
  <2> QED BY <2>1, <2>2 DEF OneInv, Alive
<1>5. CASE FreeExpand \/ FreeLast
  <2>1. expand' = expand /\ op' = op /\ val' = val /\ pc = "free" /\ pc' # "crashed"
    BY <1>5 DEF FreeExpand, FreeLast, Return, links, call
  <2> QED BY <2>1 DEF OneInv, Alive
<1>6. CASE \/ FlushEnd \/ ReadExpand \/ ReadEnd \/ StoreTooLong
           \/ ViewNext \/ ViewEnd \/ Tick
  <2>1. expand' = expand
    BY <1>6 DEF FlushEnd, ReadExpand, ReadEnd, StoreTooLong, ViewNext, ViewEnd, Tick,
                Return, memory, chunks, links
  <2>2. pc' \in {"idle", "read", "view"}
    BY <1>6 DEF FlushEnd, ReadExpand, ReadEnd, StoreTooLong, ViewNext, ViewEnd, Tick, Return
  <2> QED BY <2>1, <2>2 DEF OneInv, Alive
<1>7. CASE StoreBegin
  <2>1. /\ expand' = expand /\ val' = val /\ pc' = "find" /\ pc = "store"
        /\ Pieces[val] <= MaxPieces
    BY <1>7 DEF StoreBegin, memory, chunks, links, call
  <2>2. op = "put" /\ val \in Vals BY <2>1 DEF IInv, FrameOK
  <2>3. Pieces[val] >= 1 /\ Pieces[val] \in Nat
    BY <2>1, <2>2, DataAssumption DEF LInv, CallOK
  <2>4. Pieces[val] <= 1 BY <2>1, <2>2, <2>3, SizesAssumption DEF OneChunkValues
  <2> QED BY <2>1, <2>3, <2>4 DEF OneInv, Alive
<1>8. CASE AllocFree \/ AllocFresh \/ AllocSlice \/ AllocFail
  <2>1. pc = "alloc" /\ \E got : Tie(got)
    BY <1>8 DEF AllocFree, AllocFresh, AllocSlice, AllocFail, PutVal
  <2>2. PICK got : Tie(got) BY <2>1
  <2>3. pc' = "idle" /\ expand' = [expand EXCEPT ![got] = 0]
    BY <1>1, <2>1, <2>2 DEF Tie, Return
  <2> QED BY <2>3 DEF OneInv, Alive, Zero
<1>9. CASE Restart
  BY <1>9 DEF Restart, OneInv, Alive
<1>10. CASE UNCHANGED vars
  BY <1>10 DEF vars, memory, chunks, links, call, OneInv, Alive
<1>11. ~StoreOverrun /\ ~ReadOverrun /\ ~AllocWild /\ ~ViewWild
  <2>1. ~StoreOverrun BY <1>1, SizesAssumption DEF StoreOverrun
  <2>2. ~ReadOverrun
    <3>1. pc = "read" => expand[p] = 0
      BY OffsetFacts DEF IInv, FrameOK, HeaderOK, OneInv, Zero
    <3> QED BY <3>1 DEF ReadOverrun
  <2> QED BY <2>1, <2>2, NeverWild
<1> QED
  BY <1>2, <1>3, <1>4, <1>5, <1>6, <1>7, <1>8, <1>9, <1>10, <1>11
  DEF UnevictedNext, Next, Step

\* For such an owner every behaviour is gentle.
THEOREM OneChunkGentle ==
  ASSUME OneChunkValues PROVE UnevictedSpec => [](IInv /\ LInv /\ OneInv)
<1>1. Init => IInv /\ LInv /\ OneInv
  BY InitInv, InitLists DEF Init, OneInv, Alive
<1>2. IInv /\ LInv /\ OneInv /\ [UnevictedNext]_vars => (IInv /\ LInv /\ OneInv)'
  <2> SUFFICES ASSUME IInv, LInv, OneInv, [UnevictedNext]_vars
               PROVE  (IInv /\ LInv /\ OneInv)'
    OBVIOUS
  <2>1. IInv' BY NextInv DEF UnevictedNext
  <2>2. OneInv' BY OneStaysOne
  <2>3. [GentleNext]_vars BY OneIsGentle DEF GentleNext, UnevictedNext
  <2>4. LInv' BY <2>1, <2>2, <2>3, LivingLists DEF OneInv
  <2> QED BY <2>1, <2>2, <2>4
<1> QED
  BY <1>1, <1>2, PTL DEF UnevictedSpec

\* The lists of an owner whose values fit one chunk stay right up to the first
\* chunk that do_eliminate deletes: calls in any order, values replaced,
\* allocations failing, whatever the limits of the cache are; and no call crashes.
THEOREM OneChunkLists ==
  ASSUME OneChunkValues
  PROVE  UnevictedSpec => [](ChunksPartitioned /\ CountsMatch /\ QueuesAgree
                               /\ FlushOnlyExpired /\ Alive)
<1>1. IInv /\ LInv /\ OneInv => ChunksPartitioned /\ CountsMatch /\ QueuesAgree
                                  /\ FlushOnlyExpired /\ Alive
  BY PartitionHolds, CountsHold, QueuesHold, FlushHolds DEF Lists, OneInv
<1> QED BY <1>1, OneChunkGentle, PTL
=============================================================================
