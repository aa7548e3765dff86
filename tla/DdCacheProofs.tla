--------------------------- MODULE DdCacheProofs ---------------------------
(***************************************************************************)
(* Proofs about DdCache for every set of keys and values, every geometry   *)
(* and every owner: also after values were replaced, chunks freed twice    *)
(* and allocations failed.                                                 *)
(***************************************************************************)
EXTENDS DdCache, TLAPS

-----------------------------------------------------------------------------
(* Offsets.                                                                *)

\* The chunks of any number of slices there can be.
LEMMA SliceBounds ==
  /\ SliceSz * SliceMax \in Nat
  /\ \A s \in 1..SliceMax : /\ SliceSz * s \in Nat
                           /\ SliceSz * s >= 1 /\ SliceSz * s <= SliceSz * SliceMax
                           /\ 0..(SliceSz * s - 1) \subseteq Chunk
                           /\ 0 \in 0..(SliceSz * s - 1)
<1>1. SliceSz * SliceMax \in Nat
  BY SizesAssumption
<1>2. ASSUME NEW s \in 1..SliceMax
      PROVE  SliceSz * s \in Nat /\ SliceSz * s >= 1 /\ SliceSz * s <= SliceSz * SliceMax
  BY SizesAssumption
<1> QED
  BY <1>1, <1>2 DEF Chunk

\* What is mapped lies inside the largest memory there can be, and offset 0
\* is always mapped.
LEMMA OffsetFacts ==
  ASSUME slice_cnt \in 1..SliceMax
  PROVE  /\ Offset \subseteq Chunk /\ Chunk \subseteq U32 /\ 0 \in Offset
         /\ \A o \in U32 : Mapped(o) => o \in Offset
BY SliceBounds, SizesAssumption DEF Offset, Chunk, U32, Mapped

\* One more slice: the next chunk to hand out is the first of it.
LEMMA SliceFacts ==
  ASSUME slice_cnt \in 1..SliceMax, slice_cnt < SliceMax,
         alloc_cnt \in 1..(SliceSz * slice_cnt), slice_cnt' = slice_cnt + 1
  PROVE  /\ slice_cnt' \in 1..SliceMax /\ Offset \subseteq Offset'
         /\ alloc_cnt \in Offset' /\ alloc_cnt + 1 \in 1..(SliceSz * slice_cnt')
<1>1. SliceSz * (slice_cnt + 1) = SliceSz * slice_cnt + SliceSz
  BY SizesAssumption
<1>2. SliceSz * slice_cnt \in Nat
  BY SizesAssumption
<1> QED
  BY <1>1, <1>2, SizesAssumption DEF Offset

\* A hash selects one of the buckets.
LEMMA BucketInRange == \A w \in U32 : BucketOf(w) \in Buckets
BY SizesAssumption DEF BucketOf, Buckets, U32

\* The counters wrap around inside a u32.
LEMMA CountersStayU32 == \A w \in U32 : Inc(w) \in U32 /\ Dec(w) \in U32
BY SizesAssumption DEF Inc, Dec, U32

\* The initial state has an empty chunk 0.
LEMMA SmallFacts ==
  /\ 1 \in 1..SliceMax /\ 1 \in 1..(SliceSz * 1) /\ 0 \in U32
  /\ 0 \in Chunk /\ 0 \in Time
<1>1. SliceSz * SliceMax \in Nat /\ SliceSz * SliceMax >= 1
  BY SizesAssumption
<1> QED
  BY <1>1, SizesAssumption DEF U32, Chunk, Time
-----------------------------------------------------------------------------
(* The inductive invariant: LinksMapped and TypeOK together, with what the *)
(* frame of a call and the chunks it has read have to do with each other.  *)

MemoryOK ==
  /\ bucket \in [Buckets -> Offset]
  /\ hi \in [Chunk -> U32] /\ lo \in [Chunk -> U32]
  /\ piece \in [Chunk -> (Vals \cup {None}) \X Nat]
  /\ next \in [Chunk -> Offset] /\ expand \in [Chunk -> Offset]
  /\ aPre \in [Chunk -> Offset] /\ aNext \in [Chunk -> Offset]
  /\ ePre \in [Chunk -> Offset] /\ eNext \in [Chunk -> Offset]
  /\ expireAt \in [Chunk -> Nat]

HeaderOK ==
  /\ element_cnt \in U32 /\ key_cnt \in U32 /\ free_beg \in U32
  /\ slice_cnt \in 1..SliceMax /\ alloc_cnt \in 1..(SliceSz * slice_cnt)
  /\ access_beg \in Offset /\ access_end \in Offset /\ expire_beg \in Offset

\* The call a loop runs for, and who called del_off.
FrameOK ==
  /\ pc \in Loops \cup {"idle", "crashed"}
  /\ op \in Ops /\ key \in Keys \cup {None} /\ val \in Vals \cup {None}
  /\ off \in U32 /\ p \in Offset /\ cnt \in Nat /\ limit \in Nat
  /\ ret \in Returns /\ good \in BOOLEAN
  /\ pc \notin {"view", "crashed"} => off \in Offset
  /\ op \in {"get", "put", "del"} => key \in Keys
  /\ op = "put" => val \in Vals
  /\ pc = "find" => op \in {"get", "put", "del"}
  /\ pc \in {"evict", "store", "alloc"} => op = "put"
  /\ pc \in {"flush", "read"} => op = "get"
  /\ pc = "free" /\ ret \in {"evict", "replace"} => op = "put"
  /\ pc = "free" /\ ret = "flush" => op = "get"

ReplyOK ==
  /\ reply \in [op : Ops, key : Keys \cup {None}, st : Status,
                val : Vals \cup {None}]
  /\ pc # "idle" => reply.st = "none"

\* A chunk that holds the beginning of a value under the hash of k was filled
\* by a put of k, and expires when that put said.
History ==
  /\ now \in Time /\ log \subseteq Keys \X Vals \X Time
  /\ latest \in [Keys -> Entry]
  /\ \A c \in Chunk, k \in Keys :
       hi[c] = HashHi[k] /\ piece[c][2] = 1 =>
         \E t \in Time : /\ expireAt[c] = t + ExpireTime
                         /\ <<k, piece[c][1], t>> \in log

\* What is being copied belongs to the key asked for and was valid.
Reading ==
  pc = "read" => /\ hi[off] = HashHi[key] /\ now <= expireAt[off]
                 /\ good => piece[off][2] = 1

IInv == MemoryOK /\ HeaderOK /\ FrameOK /\ ReplyOK /\ History /\ Reading

-----------------------------------------------------------------------------
\* The empty cache, at start and after a restart, satisfies the invariant.
LEMMA InitInv == Init => IInv
<1> SUFFICES ASSUME Init PROVE IInv
  OBVIOUS
<1>1. slice_cnt \in 1..SliceMax /\ 0 \in Offset /\ 0 \in U32 /\ 0 \in Chunk
  BY SmallFacts, OffsetFacts DEF Init
<1>2. MemoryOK
  BY <1>1 DEF Init, MemoryOK, Zero
<1>3. HeaderOK
  BY <1>1, SmallFacts DEF Init, HeaderOK
<1>4. FrameOK /\ ReplyOK /\ Reading
  BY <1>1 DEF Init, FrameOK, ReplyOK, Reading, NoReply, Ops, Returns, Status
<1>5. History
  BY SmallFacts, SizesAssumption, DataAssumption DEF Init, History, Entry, Zero
<1> QED
  BY <1>2, <1>3, <1>4, <1>5 DEF IInv

\* The same of a restart, which leaves the clock alone.
LEMMA RestartInv == ASSUME IInv, Restart PROVE IInv'
<1>1. slice_cnt' \in 1..SliceMax /\ 0 \in Offset' /\ 0 \in U32 /\ 0 \in Chunk
  <2>1. 1 * SliceSz >= 1 /\ slice_cnt' = 1
    BY SizesAssumption DEF Restart
  <2> QED
    BY <2>1, SmallFacts, SizesAssumption DEF Offset
<1>2. MemoryOK'
  BY <1>1 DEF Restart, MemoryOK, Zero
<1>3. HeaderOK'
  BY <1>1, SmallFacts DEF Restart, HeaderOK
<1>4. FrameOK' /\ ReplyOK' /\ Reading'
  BY <1>1 DEF Restart, FrameOK, ReplyOK, Reading, NoReply, Ops, Returns, Status
<1>5. History'
  BY SmallFacts, SizesAssumption, DataAssumption
  DEF Restart, IInv, History, Entry, Zero
<1> QED
  BY <1>2, <1>3, <1>4, <1>5 DEF IInv

\* A step that leaves the memory alone keeps its part of the invariant.
LEMMA MemoryKept ==
  ASSUME IInv, UNCHANGED <<memory, history>>, now' \in Time
  PROVE  MemoryOK' /\ HeaderOK' /\ History' /\ Offset' = Offset
<1> USE DEF memory, chunks, links, counts, queues, history
<1>1. Offset' = Offset
  BY DEF Offset
<1>2. MemoryOK'
  BY <1>1 DEF IInv, MemoryOK
<1>3. HeaderOK'
  BY <1>1 DEF IInv, HeaderOK
<1>4. History'
  BY DEF IInv, History
<1> QED
  BY <1>1, <1>2, <1>3, <1>4

\* del_off takes any mapped chunk out of its lists, were it free already.
LEMMA UnlinkInv ==
  ASSUME IInv, NEW o \in Offset, NEW caller \in Returns, Unlink(o, caller),
         cnt' \in Nat, pc # "idle",
         caller \in {"evict", "replace"} => op = "put",
         caller = "flush" => op = "get"
  PROVE  IInv'
<1> USE DEF counts, history, call
<1>1. Offset' = Offset
  BY DEF Unlink, Offset
<1>2. Offset \subseteq Chunk /\ Chunk \subseteq U32 /\ 0 \in Offset
  BY OffsetFacts DEF IInv, HeaderOK
<1>3. MemoryOK'
  <2>1. BucketOf(lo[o]) \in Buckets
    BY <1>2, BucketInRange DEF IInv, MemoryOK
  <2>2. bucket' \in [Buckets -> Offset]
    BY <1>1, <1>2, <2>1 DEF Unlink, IInv, MemoryOK
  <2>3. next' \in [Chunk -> Offset] /\ ePre' \in [Chunk -> Offset]
    BY <1>1, <1>2 DEF Unlink, IInv, MemoryOK
  <2>4. eNext' \in [Chunk -> Offset]
    <3>1. CASE ePre[o] # 0
      <4>1. eNext' = [eNext EXCEPT ![ePre[o]] = eNext[o]]
        BY <3>1 DEF Unlink
      <4> QED
        BY <1>1, <1>2, <4>1 DEF IInv, MemoryOK
    <3>2. CASE ePre[o] = 0
      BY <1>1, <3>2 DEF Unlink, IInv, MemoryOK
    <3> QED
      BY <3>1, <3>2
  <2>5. aPre' \in [Chunk -> Offset]
    BY <1>1, <1>2 DEF Unlink, IInv, MemoryOK, BackLinksWithout
  <2>6. aNext' \in [Chunk -> Offset]
    BY <1>1, <1>2 DEF Unlink, IInv, MemoryOK, LinksWithout
  <2> QED
    BY <1>1, <2>2, <2>3, <2>4, <2>5, <2>6 DEF Unlink, IInv, MemoryOK
<1>4. HeaderOK'
  BY <1>1, <1>2 DEF Unlink, IInv, MemoryOK, HeaderOK, BegWithout, EndWithout
<1>5. FrameOK'
  BY <1>1, <1>2 DEF Unlink, IInv, FrameOK, Loops, Returns
<1>6. ReplyOK'
  <2>1. reply.st = "none" => reply'.st = "none"
    BY DEF Unlink
  <2> QED
    BY <2>1 DEF Unlink, IInv, ReplyOK
<1>7. History'
  BY DEF Unlink, IInv, History
<1>8. Reading'
  BY DEF Unlink, Reading
<1> QED
  BY <1>3, <1>4, <1>5, <1>6, <1>7, <1>8 DEF IInv

\* One step of del_off's loop, and its end.
LEMMA FreeInv == ASSUME IInv, FreeExpand \/ FreeLast PROVE IInv'
<1> USE DEF counts, history, call, links, queues
<1>1. Offset' = Offset
  BY DEF FreeExpand, FreeLast, Offset
<1>2. Offset \subseteq Chunk /\ Chunk \subseteq U32 /\ 0 \in Offset
  BY OffsetFacts DEF IInv, HeaderOK
<1>3. MemoryOK'
  <2>1. CASE FreeExpand
    <3>1. lo' = [lo EXCEPT ![p] = expand[p]]
      BY <2>1 DEF FreeExpand, TiedFree
    <3> QED
      BY <1>1, <1>2, <2>1, <3>1 DEF FreeExpand, IInv, MemoryOK, FrameOK
  <2>2. CASE FreeLast
    <3>1. lo' = [lo EXCEPT ![p] = free_beg]
      BY <2>2 DEF FreeLast
    <3>2. lo' \in [Chunk -> U32]
      BY <1>2, <3>1 DEF IInv, MemoryOK, HeaderOK
    <3>3. UNCHANGED <<bucket, hi, piece, expireAt, links>>
      BY <2>2 DEF FreeLast
    <3> QED
      BY <1>1, <3>2, <3>3 DEF IInv, MemoryOK
  <2> QED
    BY <2>1, <2>2
<1>4. HeaderOK'
  BY <1>1, <1>2, CountersStayU32
  DEF FreeExpand, FreeLast, IInv, HeaderOK, FrameOK, KeyCountedOff
<1>5. FrameOK' /\ ReplyOK' /\ Reading'
  <2>1. CASE FreeExpand
    <3>1. p' \in Offset
      BY <2>1, <1>2 DEF FreeExpand, IInv, MemoryOK, FrameOK
    <3> QED
      BY <2>1, <1>1, <3>1 DEF FreeExpand, IInv, FrameOK, ReplyOK, Reading
  <2>2. CASE FreeLast /\ Return("done", None)
    BY <2>2, <1>1, <1>2
    DEF Return, FreeLast, IInv, FrameOK, ReplyOK, Reading, Ops, Returns, Status
  <2>3. CASE FreeLast /\ ~Return("done", None)
    <3>1. off' \in Offset /\ pc' \in {"evict", "flush", "find"}
      <4>1. ret = "replace" => key \in Keys
        BY <2>3 DEF FreeLast, IInv, FrameOK
      <4>2. \A k \in Keys : FirstIn(k) \in Offset
        BY BucketInRange, DataAssumption DEF FirstIn, IInv, MemoryOK
      <4>3. \/ pc' = "evict" /\ off' = aPre[off]
            \/ pc' = "flush" /\ off' = eNext[off]
            \/ ret = "replace" /\ pc' = "find" /\ off' = FirstIn(key)
        BY <2>3 DEF FreeLast, NextExpired
      <4>4. off \in Chunk
        BY <2>3, <1>2 DEF FreeLast, IInv, FrameOK
      <4> QED
        BY <4>1, <4>2, <4>3, <4>4 DEF IInv, MemoryOK
    <3>2. FrameOK'
      BY <2>3, <1>1, <1>2, <3>1 DEF FreeLast, IInv, FrameOK, Loops, Returns
    <3> QED
      BY <2>3, <3>1, <3>2 DEF FreeLast, IInv, ReplyOK, Reading
  <2> QED
    BY <2>1, <2>2, <2>3
<1>6. History'
  BY DEF FreeExpand, FreeLast, Return, IInv, History
<1> QED
  BY <1>3, <1>4, <1>5, <1>6 DEF IInv

\* A hit moves its entry inside the access queue.
LEMMA TouchInv == ASSUME IInv, Touch PROVE IInv'
<1> USE DEF counts, history, call
<1>1. Offset' = Offset
  BY DEF Touch, Offset
<1>2. Offset \subseteq Chunk /\ Chunk \subseteq U32 /\ 0 \in Offset
  BY OffsetFacts DEF IInv, HeaderOK
<1>3. off \in Offset /\ BegWithout(off) \in Offset /\ EndWithout(off) \in Offset
  BY <1>2 DEF Touch, Found, IInv, FrameOK, MemoryOK, HeaderOK, BegWithout, EndWithout
<1>4. MemoryOK'
  <2>1. BackLinksWithout(off) \in [Chunk -> Offset]
    BY <1>2, <1>3 DEF IInv, MemoryOK, BackLinksWithout
  <2>2. LinksWithout(off) \in [Chunk -> Offset]
    BY <1>2, <1>3 DEF IInv, MemoryOK, LinksWithout
  <2>3. aPre' \in [Chunk -> Offset] /\ aNext' \in [Chunk -> Offset]
    BY <1>2, <1>3, <2>1, <2>2 DEF Touch
  <2> QED
    BY <1>1, <2>3 DEF Touch, IInv, MemoryOK
<1>5. HeaderOK'
  BY <1>1, <1>3 DEF Touch, IInv, HeaderOK
<1>6. FrameOK' /\ ReplyOK'
  BY <1>1, <1>3 DEF Touch, Found, IInv, FrameOK, ReplyOK, Loops
<1>7. History'
  BY DEF Touch, IInv, History
<1>8. Reading'
  <2>1. good' => piece'[off'][2] = 1
    BY ZenonT(30) DEF Touch
  <2>2. off' = off /\ hi' = hi /\ key' = key /\ now' = now /\ expireAt' = expireAt
    BY DEF Touch
  <2>3. hi[off] = HashHi[key] /\ ~(expireAt[off] < now)
    BY DEF Touch, Found, HashIs, Expired
  <2>4. expireAt[off] \in Nat /\ now \in Nat
    BY <1>2, <1>3 DEF IInv, MemoryOK, History, Time
  <2> QED
    BY <2>1, <2>2, <2>3, <2>4 DEF Reading
<1> QED
  BY <1>4, <1>5, <1>6, <1>7, <1>8 DEF IInv

\* put_val writes the chunk o it was given and put ties it to the one before,
\* be o handed out anew, taken from the free list or, wrongly, still in use.
LEMMA PutValInv ==
  ASSUME IInv, pc = "alloc", NEW o \in Offset', PutVal(o),
         Offset \subseteq Offset', slice_cnt' \in 1..SliceMax,
         alloc_cnt' \in 1..(SliceSz * slice_cnt)', free_beg' \in U32
  PROVE  IInv'
<1> DEFINE got == IF ret = "replace" THEN 0 ELSE o
<1>1. Offset' \subseteq Chunk /\ Chunk \subseteq U32 /\ 0 \in Offset'
  <2>1. slice_cnt' \in 1..SliceMax
    OBVIOUS
  <2>2. Offset' \subseteq Chunk /\ 0 \in Offset'
    BY <2>1, SliceBounds DEF Offset
  <2> QED
    BY <2>2, OffsetFacts DEF IInv, HeaderOK
<1>2. key \in Keys /\ val \in Vals /\ op = "put" /\ p \in Offset /\ cnt \in Nat
  BY DEF IInv, FrameOK
<1>3. HashHi[key] \in U32 /\ HashLo[key] \in U32 /\ BucketOf(HashLo[key]) \in Buckets
  BY <1>2, DataAssumption, BucketInRange
<1>4. Fill(o) /\ Tie(got) /\ got \in Offset'
  BY <1>1 DEF PutVal
<1>5. expand' \in [Chunk -> Offset']
  BY <1>1, <1>2, <1>4 DEF Tie, IInv, MemoryOK
<1> HIDE DEF got
<1>6. now \in Time /\ now + ExpireTime \in Nat
  BY SizesAssumption DEF IInv, History, Time
<1>7. hi' = [hi EXCEPT ![o] = HashHi[key]] /\ lo' = [lo EXCEPT ![o] = HashLo[key]]
      /\ piece' = [piece EXCEPT ![o] = <<val, cnt>>]
      /\ element_cnt' = Inc(element_cnt)
  BY <1>4 DEF Fill
<1>8. FrameOK' /\ ReplyOK' /\ Reading'
  <2>1. CASE Return("stored", None)
    BY <2>1, <1>1
    DEF Return, call, IInv, FrameOK, ReplyOK, Reading, Ops, Returns, Status
  <2>2. CASE ~Return("stored", None)
    <3>1. /\ p' = got /\ cnt' = cnt + 1 /\ off' = 0 /\ ret' = "none"
          /\ UNCHANGED <<pc, now, call, good, reply>>
      BY <1>4, <2>2 DEF Tie
    <3> QED
      BY <3>1, <1>1, <1>2, <1>4 DEF call, IInv, FrameOK, ReplyOK, Reading, Returns
  <2> QED
    BY <2>1, <2>2
<1>9. now' = now
  BY <1>4 DEF Tie, Return
<1>10. hi' \in [Chunk -> U32] /\ lo' \in [Chunk -> U32]
       /\ piece' \in [Chunk -> (Vals \cup {None}) \X Nat]
  BY <1>1, <1>2, <1>3, <1>7 DEF IInv, MemoryOK
<1>11. CASE cnt = 1
  <2>1. /\ next' = [next EXCEPT ![o] = RestOfBucket]
        /\ bucket' = [bucket EXCEPT ![BucketOf(HashLo[key])] = o]
        /\ key_cnt' = Inc(key_cnt)
        /\ aNext' = [aNext EXCEPT ![o] = access_beg]
        /\ aPre' = [aPre EXCEPT ![o] = 0, ![access_beg] = o]
        /\ access_beg' = o
        /\ access_end' = IF access_end = 0 THEN o ELSE access_end
        /\ eNext' = [eNext EXCEPT ![o] = expire_beg]
        /\ ePre' = [ePre EXCEPT ![o] = 0, ![expire_beg] = o]
        /\ expire_beg' = o
        /\ expireAt' = [expireAt EXCEPT ![o] = now + ExpireTime]
        /\ log' = log \cup {<<key, val, now>>}
        /\ latest' = [latest EXCEPT ![key] = <<val, now + ExpireTime>>]
    BY <1>4, <1>11 DEF Fill
  <2>2. bucket' \in [Buckets -> Offset'] /\ next' \in [Chunk -> Offset']
    BY <2>1, <1>1, <1>2, <1>3 DEF IInv, MemoryOK, RestOfBucket, FirstIn
  <2>3. aNext' \in [Chunk -> Offset'] /\ eNext' \in [Chunk -> Offset']
    BY <2>1, <1>1 DEF IInv, MemoryOK, HeaderOK
  <2>4. aPre' \in [Chunk -> Offset'] /\ ePre' \in [Chunk -> Offset']
    BY <2>1, <1>1 DEF IInv, MemoryOK, HeaderOK
  <2>5. expireAt' \in [Chunk -> Nat]
    BY <2>1, <1>6 DEF IInv, MemoryOK
  <2>6. MemoryOK'
    BY <2>2, <2>3, <2>4, <2>5, <1>5, <1>10 DEF MemoryOK
  <2>7. HeaderOK'
    BY <2>1, <1>7, CountersStayU32 DEF IInv, HeaderOK
  <2>8. latest' \in [Keys -> Entry] /\ log' \subseteq Keys \X Vals \X Time
    <3>1. <<val, now + ExpireTime>> \in Entry
      BY <1>2, <1>6, SizesAssumption DEF Entry, Time
    <3> QED
      BY <2>1, <3>1, <1>2, <1>6 DEF IInv, History
  <2>9. ASSUME NEW c \in Chunk, NEW k \in Keys, hi'[c] = HashHi[k], piece'[c][2] = 1
        PROVE  \E t \in Time : /\ expireAt'[c] = t + ExpireTime
                               /\ <<k, piece'[c][1], t>> \in log'
    <3>1. CASE c = o
      <4>1. k = key
        BY <3>1, <2>9, <1>1, <1>2, <1>7, HashAssumption DEF IInv, MemoryOK
      <4>2. expireAt'[c] = now + ExpireTime /\ piece'[c][1] = val
        BY <3>1, <2>1, <1>1, <1>7 DEF IInv, MemoryOK
      <4> QED
        BY <4>1, <4>2, <2>1, <1>6
    <3>2. CASE c # o
      <4>1. hi'[c] = hi[c] /\ piece'[c] = piece[c] /\ expireAt'[c] = expireAt[c]
        BY <3>2, <2>1, <1>7 DEF IInv, MemoryOK
      <4> QED
        BY <4>1, <2>9, <2>1 DEF IInv, History
    <3> QED
      BY <3>1, <3>2
  <2>10. History'
    BY <2>8, <2>9, <1>6, <1>9 DEF History
  <2> QED
    BY <2>6, <2>7, <2>10, <1>8 DEF IInv
<1>12. CASE cnt > 1
  <2>1. UNCHANGED <<next, bucket, key_cnt, aNext, aPre, access_beg, access_end,
                    eNext, ePre, expire_beg, expireAt, log, latest>>
    BY <1>4, <1>12 DEF Fill, history
  <2>2. MemoryOK'
    BY <2>1, <1>5, <1>10 DEF IInv, MemoryOK
  <2>3. HeaderOK'
    BY <2>1, <1>7, CountersStayU32 DEF IInv, HeaderOK
  <2>4. ASSUME NEW c \in Chunk, NEW k \in Keys, hi'[c] = HashHi[k], piece'[c][2] = 1
        PROVE  \E t \in Time : /\ expireAt'[c] = t + ExpireTime
                               /\ <<k, piece'[c][1], t>> \in log'
    <3>1. c # o
      BY <2>4, <1>1, <1>2, <1>7, <1>12 DEF IInv, MemoryOK
    <3>2. hi'[c] = hi[c] /\ piece'[c] = piece[c]
      BY <3>1, <1>7 DEF IInv, MemoryOK
    <3> QED
      BY <3>2, <2>4, <2>1 DEF IInv, History
  <2>5. History'
    BY <2>1, <2>4, <1>9 DEF IInv, History
  <2> QED
    BY <2>2, <2>3, <2>5, <1>8 DEF IInv
<1> QED
  BY <1>4, <1>11, <1>12 DEF Fill

\* put_val with a chunk from any of its three sources.
LEMMA AllocInv == ASSUME IInv, AllocFree \/ AllocFresh \/ AllocSlice PROVE IInv'
<1>1. Offset \subseteq Chunk /\ Chunk \subseteq U32
      /\ \A o \in U32 : Mapped(o) => o \in Offset
  BY OffsetFacts DEF IInv, HeaderOK
<1>2. CASE AllocFree
  <2>1. Offset' = Offset /\ UNCHANGED <<alloc_cnt, slice_cnt>>
    BY <1>2 DEF AllocFree, Offset
  <2>2. free_beg \in Offset /\ free_beg' \in U32
    BY <1>1, <1>2 DEF AllocFree, RestOfFreeList, IInv, HeaderOK, MemoryOK
  <2> QED
    BY <1>2, <2>1, <2>2, PutValInv DEF AllocFree, IInv, HeaderOK
<1>3. CASE AllocFresh
  <2>1. Offset' = Offset /\ UNCHANGED <<free_beg, slice_cnt>>
    BY <1>3 DEF AllocFresh, Offset
  <2>2. alloc_cnt \in Offset /\ alloc_cnt' \in 1..(SliceSz * slice_cnt)
    BY <1>3, SliceBounds DEF AllocFresh, Mapped, Offset, IInv, HeaderOK
  <2> QED
    BY <1>3, <2>1, <2>2, PutValInv DEF AllocFresh, IInv, HeaderOK
<1>4. CASE AllocSlice
  <2>1. slice_cnt' = slice_cnt + 1 /\ slice_cnt < SliceMax /\ UNCHANGED free_beg
    BY <1>4 DEF AllocSlice
  <2>2. /\ slice_cnt' \in 1..SliceMax /\ Offset \subseteq Offset'
        /\ alloc_cnt \in Offset' /\ alloc_cnt + 1 \in 1..(SliceSz * slice_cnt')
    BY <2>1, SliceFacts DEF IInv, HeaderOK
  <2> QED
    BY <1>4, <2>1, <2>2, PutValInv DEF AllocSlice, IInv, HeaderOK
<1> QED
  BY <1>2, <1>3, <1>4

\* put_val gave no chunk: put ties offset 0 and goes on.
LEMMA AllocFailInv == ASSUME IInv, AllocFail PROVE IInv'
<1> USE DEF chunks, links, counts, queues, history
<1>1. Offset' = Offset /\ 0 \in Offset /\ Offset \subseteq Chunk /\ Chunk \subseteq U32
  BY OffsetFacts DEF AllocFail, Offset, IInv, HeaderOK
<1>2. op = "put" /\ key \in Keys /\ p \in Offset /\ cnt \in Nat /\ pc = "alloc" /\ Tie(0)
  BY DEF AllocFail, IInv, FrameOK
<1>3. expand' \in [Chunk -> Offset]
  BY <1>1, <1>2 DEF Tie, IInv, MemoryOK
<1>4. MemoryOK'
  BY <1>1, <1>3 DEF AllocFail, IInv, MemoryOK
<1>5. HeaderOK'
  BY <1>1 DEF AllocFail, IInv, HeaderOK
<1>6. FrameOK' /\ ReplyOK' /\ Reading'
  <2>1. CASE Return("stored", None)
    BY <2>1, <1>1
    DEF Return, call, IInv, FrameOK, ReplyOK, Reading, Ops, Returns, Status
  <2>2. CASE ~Return("stored", None)
    <3>1. /\ p' = 0 /\ cnt' = cnt + 1 /\ off' = 0 /\ ret' = "none"
          /\ UNCHANGED <<pc, now, call, good, reply>>
      BY <1>2, <2>2 DEF Tie
    <3> QED
      BY <3>1, <1>1, <1>2 DEF call, IInv, FrameOK, ReplyOK, Reading, Returns
  <2> QED
    BY <2>1, <2>2
<1>7. History'
  BY <1>2 DEF AllocFail, Tie, Return, IInv, History
<1> QED
  BY <1>4, <1>5, <1>6, <1>7 DEF IInv

\* A call that begins.
LEMMA CallInv ==
  ASSUME IInv, (\E k \in Keys : GetCall(k) \/ DelCall(k))
                 \/ (\E k \in Keys, v \in Vals : PutCall(k, v) \/ PutEmpty(k, v))
                 \/ ViewCall
  PROVE  IInv'
<1> USE DEF Ops, Status, Loops, NoReply
<1>1. Offset \subseteq Chunk /\ Chunk \subseteq U32 /\ 0 \in Offset
  BY OffsetFacts DEF IInv, HeaderOK
<1>2. \A k \in Keys : FirstIn(k) \in Offset
  BY BucketInRange, DataAssumption DEF FirstIn, IInv, MemoryOK
<1>3. /\ MemoryOK' /\ HeaderOK' /\ History' /\ Offset' = Offset
  <2>1. UNCHANGED <<memory, history, now>>
    BY DEF GetCall, DelCall, PutCall, PutEmpty, ViewCall, Enter
  <2> QED
    BY <2>1, MemoryKept DEF IInv, History
<1>4. CASE \E k \in Keys : GetCall(k) \/ DelCall(k)
  BY <1>1, <1>2, <1>3, <1>4 DEF GetCall, DelCall, Enter, IInv, FrameOK, ReplyOK, Reading
<1>5. CASE \E k \in Keys, v \in Vals : PutCall(k, v)
  <2>1. limit' \in Nat
    BY <1>5, SizesAssumption DEF PutCall, IInv, HeaderOK, U32
  <2> QED
    BY <1>1, <1>3, <1>5, <2>1 DEF PutCall, Enter, IInv, HeaderOK, FrameOK, ReplyOK, Reading
<1>6. CASE \E k \in Keys, v \in Vals : PutEmpty(k, v)
  BY <1>3, <1>6 DEF PutEmpty, call, cursors, IInv, FrameOK, ReplyOK, Reading
<1>7. CASE ViewCall
  BY <1>3, <1>7 DEF ViewCall, Enter, IInv, HeaderOK, FrameOK, ReplyOK, Reading
<1> QED
  BY <1>3, <1>4, <1>5, <1>6, <1>7 DEF IInv

\* The loops' other steps: they move the cursors of the call or end it.
LEMMA LoopInv ==
  ASSUME IInv,
         \/ EvictEnd \/ FindNext \/ FindNone \/ FlushEnd \/ ReadExpand \/ ReadOverrun
         \/ ReadEnd \/ StoreBegin \/ StoreTooLong \/ StoreOverrun \/ AllocWild
         \/ ViewNext \/ ViewWild \/ ViewEnd
  PROVE  IInv'
<1> USE DEF call, cursors, Ops, Loops, Returns, Status
<1>1. Offset \subseteq Chunk /\ Chunk \subseteq U32 /\ 0 \in Offset
      /\ \A o \in U32 : Mapped(o) => o \in Offset
  BY OffsetFacts DEF IInv, HeaderOK
<1>2. \A k \in Keys : FirstIn(k) \in Offset
  BY BucketInRange, DataAssumption DEF FirstIn, IInv, MemoryOK
<1>3. /\ MemoryOK' /\ HeaderOK' /\ History' /\ Offset' = Offset
  <2>1. UNCHANGED <<memory, history, now>>
    BY DEF EvictEnd, FindNext, FindNone, FlushEnd, ReadExpand, ReadOverrun, ReadEnd,
           StoreBegin, StoreTooLong, StoreOverrun, AllocWild, ViewNext, ViewWild,
           ViewEnd, Return, Crash
  <2> QED
    BY <2>1, MemoryKept DEF IInv, History
<1>4. ASSUME NEW st \in Status, NEW v \in Vals \cup {None}, Return(st, v)
      PROVE  FrameOK' /\ ReplyOK' /\ Reading'
  BY <1>1, <1>3, <1>4 DEF Return, IInv, FrameOK, ReplyOK, Reading
<1>5. ASSUME Crash, pc # "idle" PROVE FrameOK' /\ ReplyOK' /\ Reading'
  BY <1>3, <1>5 DEF Crash, IInv, FrameOK, ReplyOK, Reading
<1>6. CASE EvictEnd
  <2>1. FrameOK'
    BY <1>1, <1>3, <1>6 DEF EvictEnd, IInv, FrameOK
  <2>2. ReplyOK' /\ Reading'
    BY <1>6 DEF EvictEnd, IInv, ReplyOK, Reading
  <2> QED
    BY <1>3, <2>1, <2>2 DEF IInv
<1>7. CASE FindNext
  <2>1. next[off] \in Offset
    BY <1>1, <1>7 DEF FindNext, IInv, MemoryOK, FrameOK
  <2>2. FrameOK'
    BY <1>1, <1>3, <1>7, <2>1 DEF FindNext, IInv, FrameOK
  <2>3. ReplyOK' /\ Reading'
    BY <1>7 DEF FindNext, IInv, ReplyOK, Reading
  <2> QED
    BY <1>3, <2>2, <2>3 DEF IInv
<1>8. CASE FindNone
  <2>1. CASE \E st \in Status : Return(st, None)
    BY <1>3, <1>4, <2>1 DEF IInv
  <2>2. CASE ~\E st \in Status : Return(st, None)
    BY <1>1, <1>3, <1>8, <2>2 DEF FindNone, IInv, FrameOK, ReplyOK, Reading
  <2> QED
    BY <2>1, <2>2
<1>9. CASE FlushEnd \/ StoreTooLong \/ ViewEnd
  BY <1>3, <1>4, <1>9 DEF FlushEnd, StoreTooLong, ViewEnd, IInv
<1>10. CASE ReadExpand
  <2>1. p' \in Offset /\ cnt' \in Nat /\ good' \in BOOLEAN /\ (good' => good)
    BY <1>1, <1>10 DEF ReadExpand, IInv, MemoryOK, FrameOK
  <2> QED
    BY <1>3, <1>10, <2>1
    DEF ReadExpand, memory, chunks, IInv, FrameOK, ReplyOK, Reading
<1>11. CASE ReadOverrun \/ StoreOverrun \/ AllocWild \/ ViewWild
  BY <1>3, <1>5, <1>11 DEF ReadOverrun, StoreOverrun, AllocWild, ViewWild, IInv
<1>12. CASE ReadEnd
  <2>1. piece[off][1] \in Vals \cup {None}
    BY <1>1, <1>12 DEF ReadEnd, IInv, MemoryOK, FrameOK
  <2> QED
    BY <1>3, <1>4, <1>12, <2>1 DEF ReadEnd, IInv
<1>13. CASE StoreBegin
  BY <1>1, <1>2, <1>3, <1>13 DEF StoreBegin, IInv, FrameOK, ReplyOK, Reading
<1>14. CASE ViewNext
  <2>1. off' \in U32 /\ cnt' \in Nat
    BY <1>1, <1>14, SizesAssumption DEF ViewNext, Inc, IInv, MemoryOK, FrameOK
  <2> QED
    BY <1>3, <1>14, <2>1 DEF ViewNext, IInv, FrameOK, ReplyOK, Reading
<1> QED
  BY <1>6, <1>7, <1>8, <1>9, <1>10, <1>11, <1>12, <1>13, <1>14

\* Whoever owns the cache, every step keeps the invariant.
LEMMA NextInv == IInv /\ [Next]_vars => IInv'
<1> SUFFICES ASSUME IInv, [Next]_vars PROVE IInv'
  OBVIOUS
<1>1. CASE (\E k \in Keys : GetCall(k) \/ DelCall(k))
             \/ (\E k \in Keys, v \in Vals : PutCall(k, v) \/ PutEmpty(k, v))
             \/ ViewCall
  BY <1>1, CallInv
<1>2. CASE EvictOne \/ DelFound \/ Replace \/ FlushFirst \/ FlushNext
  <2>1. off \in Offset /\ cnt' \in Nat /\ pc # "idle"
    BY <1>2 DEF EvictOne, DelFound, Replace, FlushFirst, FlushNext, Found, IInv, FrameOK
  <2>2. CASE EvictOne
    BY <2>1, <2>2, UnlinkInv DEF EvictOne, IInv, FrameOK, Returns
  <2>3. CASE DelFound
    BY <2>1, <2>3, UnlinkInv DEF DelFound, Returns
  <2>4. CASE Replace
    BY <2>1, <2>4, UnlinkInv DEF Replace, Returns
  <2>5. CASE FlushFirst
    BY <2>1, <2>5, UnlinkInv DEF FlushFirst, Returns
  <2>6. CASE FlushNext
    BY <2>1, <2>6, UnlinkInv DEF FlushNext, IInv, FrameOK, Returns
  <2> QED
    BY <1>2, <2>2, <2>3, <2>4, <2>5, <2>6
<1>3. CASE FreeExpand \/ FreeLast
  BY <1>3, FreeInv
<1>4. CASE Touch
  BY <1>4, TouchInv
<1>5. CASE AllocFree \/ AllocFresh \/ AllocSlice
  BY <1>5, AllocInv
<1>6. CASE AllocFail
  BY <1>6, AllocFailInv
<1>7. CASE \/ EvictEnd \/ FindNext \/ FindNone \/ FlushEnd \/ ReadExpand \/ ReadOverrun
           \/ ReadEnd \/ StoreBegin \/ StoreTooLong \/ StoreOverrun \/ AllocWild
           \/ ViewNext \/ ViewWild \/ ViewEnd
  BY <1>7, LoopInv
<1>8. CASE Tick
  <2>1. now' \in Time
    BY <1>8, SizesAssumption DEF Tick, IInv, History, Time
  <2>2. MemoryOK' /\ HeaderOK' /\ History' /\ Offset' = Offset
    BY <1>8, <2>1, MemoryKept DEF Tick
  <2> QED
    BY <1>8, <2>2 DEF Tick, call, cursors, IInv, FrameOK, ReplyOK, Reading
<1>9. CASE Restart
  BY <1>9, RestartInv
<1>10. CASE UNCHANGED vars
  <2>1. MemoryOK' /\ HeaderOK' /\ History' /\ Offset' = Offset
    BY <1>10, MemoryKept DEF vars, IInv, History
  <2> QED
    BY <1>10, <2>1 DEF vars, memory, chunks, call, cursors, IInv, FrameOK, ReplyOK, Reading
<1> QED
  BY <1>1, <1>2, <1>3, <1>4, <1>5, <1>6, <1>7, <1>8, <1>9, <1>10 DEF Next, Step

\* The invariant holds in every reachable state.
THEOREM Invariance == Spec => []IInv
<1>1. Init => IInv
  BY InitInv
<1>2. IInv /\ [Next]_vars => IInv'
  BY NextInv
<1> QED
  BY <1>1, <1>2, PTL DEF Spec

-----------------------------------------------------------------------------
\* Every field of the memory, of the header and of a call keeps to its range,
\* whatever is put, deleted, evicted or replaced, and wherever the process is
\* killed.
THEOREM TypeCorrect == Spec => []TypeOK
<1>1. IInv => TypeOK
  <2> SUFFICES ASSUME IInv PROVE TypeOK
    OBVIOUS
  <2>1. Offset \subseteq Chunk
    BY OffsetFacts DEF IInv, HeaderOK
  <2> QED
    BY <2>1 DEF IInv, MemoryOK, HeaderOK, FrameOK, ReplyOK, History, TypeOK
<1> QED
  BY <1>1, Invariance, PTL

\* No link read by get, put or del leaves the mapped slices: the lists may
\* lose entries or share them, but get_hasher_ptr never goes astray on them.
THEOREM LinksAlwaysMapped == Spec => []LinksMapped
<1>1. IInv => LinksMapped
  BY DEF IInv, MemoryOK, HeaderOK, FrameOK, LinksMapped
<1> QED
  BY <1>1, Invariance, PTL

\* A value returned as found was put under that key, and is not older than
\* the expire time.
THEOREM ServedIsFresh == Spec => ServedFresh
<1> DEFINE Fresh == pc = "read" /\ reply'.st = "ok" =>
                      \E t \in Time : /\ <<key, reply'.val, t>> \in log
                                      /\ now <= t + ExpireTime
<1>1. IInv /\ [Next]_vars => [Fresh]_vars
  <2> SUFFICES ASSUME IInv, Next, pc = "read", reply'.st = "ok"
               PROVE  \E t \in Time : /\ <<key, reply'.val, t>> \in log
                                      /\ now <= t + ExpireTime
    OBVIOUS
  <2>1. reply.st = "none"
    BY DEF IInv, ReplyOK
  <2>2. ReadEnd
    <3>1. ~Restart
      BY DEF Restart, NoReply
    <3>2. ~ReadExpand /\ ~ReadOverrun
      BY <2>1 DEF ReadExpand, ReadOverrun, Crash
    <3> QED
      BY <3>1, <3>2
      DEF Next, Step, GetCall, DelCall, PutCall, PutEmpty, ViewCall, Enter, EvictOne,
          EvictEnd, FreeExpand, FreeLast, FindNext, FindNone, Found, DelFound, Replace,
          FlushFirst, FlushNext, FlushEnd, Touch, StoreBegin, StoreTooLong, StoreOverrun, AllocFree,
          AllocWild, AllocFresh, AllocSlice, AllocFail, ViewNext, ViewWild, ViewEnd, Tick
  <2>3. good /\ reply'.val = piece[off][1]
    BY <2>2 DEF ReadEnd, Return
  <2>4. off \in Chunk /\ key \in Keys
    BY OffsetFacts DEF IInv, HeaderOK, FrameOK
  <2>5. PICK t \in Time : /\ expireAt[off] = t + ExpireTime
                          /\ <<key, piece[off][1], t>> \in log
    BY <2>3, <2>4 DEF IInv, Reading, History
  <2> QED
    BY <2>3, <2>5 DEF IInv, Reading
<1> QED
  BY <1>1, Invariance, PTL DEF Spec, ServedFresh

=============================================================================
