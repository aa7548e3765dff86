------------------------------ MODULE DdCache ------------------------------
(***************************************************************************)
(* One instance of the template class ddcache (util/ddcache.h): the cache  *)
(* one worker thread of the server owns.                                   *)
(*                                                                         *)
(* Memory is cut into slices of SliceSz chunks, mapped one after another.  *)
(* A value is stored in a head chunk and as many expand chunks as its      *)
(* compressed length needs.  A head chunk is linked into three lists: its  *)
(* hash bucket, the access queue (least recently used last) and the expire *)
(* queue (oldest last).  A freed chunk is linked into the free list through*)
(* the low half of its hash word.  Offset 0 means "none", yet chunk 0      *)
(* exists and is written through like any other chunk.                     *)
(*                                                                         *)
(* Every loop of the code is a loop of steps here: pc says which loop the  *)
(* running call is in, off and p are its cursors.  A loop that never ends  *)
(* is then a behaviour, and an invariant can speak of its middle.          *)
(***************************************************************************)
EXTENDS Integers, FiniteSets

CONSTANTS
  Keys, Vals,      \* the keys (URLs) and the values (pages)
  None,            \* no key, no value
  HashHi, HashLo,  \* the upper and lower 32 bits of hash64(key)
  Pieces,          \* chunks a value needs once compressed; 0: the empty string
  Big,             \* values longer than MAX_VAL_LEN before compression
  BucketCnt,       \* buckets, a power of two in the code
  SliceSz,         \* chunks in a slice
  SliceMax,        \* SLICE_MAX_CNT
  MaxPieces,       \* chunks that MAX_VAL_LEN bytes take, the last one perhaps in part
  BufPieces,       \* of those, the ones that fit MAX_VAL_LEN bytes as a whole
  ChunkLen,        \* m_chunk_len, the bytes of a chunk
  MaxBytes,        \* max_size in bytes
  EliminateDiv,    \* 1 / ELIMINATE_SCALE, 100 in the code
  ExpireTime,      \* m_expire_time
  MaxTime,         \* bound of the clock
  Word,            \* number of values of a u32
  DiskMayFail      \* whether ftruncate may fail

Time    == 0..MaxTime
U32     == 0..(Word - 1)
Chunk   == 0..(SliceSz * SliceMax - 1)
Buckets == 0..(BucketCnt - 1)

ASSUME SizesAssumption ==
  /\ BucketCnt \in Nat \ {0} /\ SliceSz \in Nat \ {0} /\ SliceMax \in Nat \ {0}
  /\ BufPieces \in Nat \ {0} /\ MaxPieces \in {BufPieces, BufPieces + 1}
  /\ ChunkLen \in Nat /\ MaxBytes \in Nat /\ EliminateDiv \in Nat \ {0}
  /\ ExpireTime \in Nat /\ MaxTime \in Nat /\ Word \in Nat
  /\ SliceSz * SliceMax < Word /\ 1 < SliceSz
  /\ DiskMayFail \in BOOLEAN

ASSUME DataAssumption ==
  /\ None \notin Keys /\ None \notin Vals /\ Big \subseteq Vals
  /\ HashHi \in [Keys -> U32] /\ HashLo \in [Keys -> U32]
  /\ Pieces \in [Vals -> Nat]

\* hash64 never gives two cached keys the same upper half.
ASSUME HashAssumption ==
  \A k1, k2 \in Keys : HashHi[k1] = HashHi[k2] => k1 = k2

VARIABLES
  \* the mapped memory: m_ptr_bucket and the fields of every chunk
  bucket, hi, lo, piece, next, expand, aPre, aNext, ePre, eNext, expireAt,
  \* table_header_s
  element_cnt, key_cnt, alloc_cnt, slice_cnt,
  free_beg, access_beg, access_end, expire_beg,
  \* time(0)
  now,
  \* the call in progress and its local variables
  pc, op, key, val, off, p, cnt, limit, ret, good,
  \* what the last call returned
  reply,
  \* history: every <<key, value, time>> a head chunk was filled with, and
  \* the last one of each key
  log, latest

links    == <<next, expand, aPre, aNext, ePre, eNext>>
chunks   == <<hi, lo, piece, expireAt, links>>
counts   == <<element_cnt, key_cnt, alloc_cnt, slice_cnt>>
queues   == <<free_beg, access_beg, access_end, expire_beg>>
memory   == <<bucket, chunks, counts, queues>>
call     == <<op, key, val, limit>>
cursors  == <<off, p, cnt, ret, good>>
history  == <<log, latest>>
vars     == <<memory, now, pc, call, cursors, reply, history>>

Ops     == {"none", "get", "put", "del", "view"}
Loops   == {"find", "evict", "store", "alloc", "free", "flush", "read", "view"}
Returns == {"none", "evict", "flush", "replace", "del"}
Status  == {"none", "ok", "not_found", "expired", "uncomp_error", "stored",
            "rejected", "done"}
Entry   == (Vals \cup {None}) \X (0..(MaxTime + ExpireTime))

NoReply == [op |-> "none", key |-> None, st |-> "none", val |-> None]

\* u32 arithmetic of the counters.
Inc(w) == IF w = Word - 1 THEN 0 ELSE w + 1
DecNoWrap(w) == w - 1
Dec(w) == IF w = 0 THEN Word - 1 ELSE w - 1

BucketOf(w) == w % BucketCnt
FirstIn(k) == bucket[BucketOf(HashLo[k])]

\* The hash of chunk c is the hash of k: keys themselves are not compared.
HashIsBucketOnly(c, k) == BucketOf(lo[c]) = BucketOf(HashLo[k])
HashIs(c, k) == hi[c] = HashHi[k] /\ lo[c] = HashLo[k]

\* The slice of chunk o is mapped.
MappedOffByOne(o) == o <= SliceSz * slice_cnt
Mapped(o) == o < SliceSz * slice_cnt

ExpiredTooEarly(o) == expireAt[o] <= now
ExpiredTooLate(o) == expireAt[o] + 1 < now
Expired(o) == expireAt[o] < now

-----------------------------------------------------------------------------
(* init(..., use_file = false): the way every cache of the server starts.  *)

Zero == [c \in Chunk |-> 0]

Init ==
  /\ bucket = [b \in Buckets |-> 0]
  /\ hi = Zero /\ lo = Zero /\ expireAt = Zero
  /\ piece = [c \in Chunk |-> <<None, 0>>]
  /\ next = Zero /\ expand = Zero
  /\ aPre = Zero /\ aNext = Zero /\ ePre = Zero /\ eNext = Zero
  /\ element_cnt = 0 /\ key_cnt = 0 /\ alloc_cnt = 1 /\ slice_cnt = 1
  /\ free_beg = 0 /\ access_beg = 0 /\ access_end = 0 /\ expire_beg = 0
  /\ pc = "idle" /\ op = "none" /\ key = None /\ val = None
  /\ off = 0 /\ p = 0 /\ cnt = 0 /\ limit = 0 /\ ret = "none" /\ good = FALSE
  /\ reply = NoReply
  /\ log = {} /\ latest = [k \in Keys |-> <<None, 0>>]
  /\ now = 0

\* The process was killed or crashed, at any step, and was started again.
Restart ==
  /\ bucket' = [b \in Buckets |-> 0]
  /\ hi' = Zero /\ lo' = Zero /\ expireAt' = Zero
  /\ piece' = [c \in Chunk |-> <<None, 0>>]
  /\ next' = Zero /\ expand' = Zero
  /\ aPre' = Zero /\ aNext' = Zero /\ ePre' = Zero /\ eNext' = Zero
  /\ element_cnt' = 0 /\ key_cnt' = 0 /\ alloc_cnt' = 1 /\ slice_cnt' = 1
  /\ free_beg' = 0 /\ access_beg' = 0 /\ access_end' = 0 /\ expire_beg' = 0
  /\ pc' = "idle" /\ op' = "none" /\ key' = None /\ val' = None
  /\ off' = 0 /\ p' = 0 /\ cnt' = 0 /\ limit' = 0 /\ ret' = "none" /\ good' = FALSE
  /\ reply' = NoReply
  /\ log' = {} /\ latest' = [k \in Keys |-> <<None, 0>>]
  /\ UNCHANGED now

\* Every call reads the clock once, so the clock moves between calls only.
Tick ==
  /\ pc = "idle" /\ now < MaxTime
  /\ now' = now + 1
  /\ UNCHANGED <<memory, pc, call, cursors, reply, history>>

Crash ==
  /\ pc' = "crashed"
  /\ UNCHANGED <<memory, now, call, cursors, reply, history>>

Return(st, v) ==
  /\ pc' = "idle"
  /\ reply' = [op |-> op, key |-> key, st |-> st, val |-> v]
  /\ off' = 0 /\ p' = 0 /\ cnt' = 0 /\ ret' = "none" /\ good' = FALSE
  /\ UNCHANGED <<now, call>>

-----------------------------------------------------------------------------
(* The calls, up to their first loop.                                      *)

Enter(o, k, v, loop, o0) ==
  /\ pc = "idle" /\ pc' = loop
  /\ op' = o /\ key' = k /\ val' = v /\ off' = o0
  /\ reply' = NoReply
  /\ UNCHANGED <<memory, now, p, cnt, ret, good, history>>

GetCall(k) ==
  /\ Enter("get", k, None, "find", FirstIn(k))
  /\ UNCHANGED limit

DelCall(k) ==
  /\ Enter("del", k, None, "find", FirstIn(k))
  /\ UNCHANGED limit

\* A full cache evicts first, up to one hundredth of the keys it has now.  The
\* bytes in use are a product of u32.
Full == (element_cnt * ChunkLen) % Word > MaxBytes

PutCall(k, v) ==
  /\ Pieces[v] > 0
  /\ IF Full THEN Enter("put", k, v, "evict", access_end)
             ELSE Enter("put", k, v, "store", 0)
  /\ limit' = key_cnt \div EliminateDiv

PutEmpty(k, v) ==
  /\ pc = "idle" /\ Pieces[v] = 0
  /\ reply' = [op |-> "put", key |-> k, st |-> "rejected", val |-> None]
  /\ UNCHANGED <<memory, now, pc, call, cursors, history>>

ViewCall ==
  /\ Enter("view", None, None, "view", free_beg)
  /\ UNCHANGED limit

-----------------------------------------------------------------------------
(* _move_from_access(o): the access queue without o.                       *)

BackLinksKept(o) == aPre
BackLinksWithout(o) == [aPre EXCEPT ![aNext[o]] = aPre[o]]
LinksKept(o) == aNext
LinksWithout(o) == IF aPre[o] # 0 THEN [aNext EXCEPT ![aPre[o]] = aNext[o]] ELSE aNext
BegWithout(o) == IF aPre[o] = 0 THEN aNext[o] ELSE access_beg
EndWithout(o) == IF aNext[o] = 0 THEN aPre[o] ELSE access_end

-----------------------------------------------------------------------------
(* del_off(o), its first half: out of the bucket and out of both queues.   *)
(* next and pre of o are zeroed before they are used, so the bucket loses  *)
(* its whole chain; pre itself is read nowhere else and is not kept here.  *)

Unlink(o, caller) ==
  /\ bucket' = [bucket EXCEPT ![BucketOf(lo[o])] = 0]
  /\ next' = [next EXCEPT ![o] = 0]
  /\ aPre' = BackLinksWithout(o) /\ aNext' = LinksWithout(o)
  /\ access_beg' = BegWithout(o) /\ access_end' = EndWithout(o)
  \* _move_from_expire
  /\ ePre' = [ePre EXCEPT ![eNext[o]] = ePre[o]]
  /\ IF ePre[o] # 0
       THEN eNext' = [eNext EXCEPT ![ePre[o]] = eNext[o]] /\ UNCHANGED expire_beg
       ELSE expire_beg' = eNext[o] /\ UNCHANGED eNext
  /\ off' = o /\ p' = o /\ ret' = caller /\ pc' = "free"
  /\ UNCHANGED <<hi, lo, piece, expand, expireAt, counts, free_beg, now, call,
                 good, reply, history>>

\* Its second half: the head and its expand chunks go to the free list.
NotTied == lo
TiedFree == [lo EXCEPT ![p] = expand[p]]
KeyNotCounted == key_cnt
KeyCountedOff == Dec(key_cnt)
PrevExpired(o) == ePre[o]
NextExpired(o) == eNext[o]

FreeExpand ==
  /\ pc = "free" /\ expand[p] # 0
  /\ lo' = TiedFree
  /\ p' = expand[p]
  /\ element_cnt' = Dec(element_cnt)
  /\ UNCHANGED <<bucket, hi, piece, expireAt, links, key_cnt, alloc_cnt,
                 slice_cnt, queues, now, pc, call, off, cnt, ret, good, reply,
                 history>>

FreeLast ==
  /\ pc = "free" /\ expand[p] = 0
  /\ lo' = [lo EXCEPT ![p] = free_beg]
  /\ free_beg' = off
  /\ element_cnt' = Dec(element_cnt) /\ key_cnt' = KeyCountedOff
  /\ UNCHANGED <<bucket, hi, piece, expireAt, links, alloc_cnt, slice_cnt,
                 access_beg, access_end, expire_beg, history>>
  /\ \/ ret = "del" /\ Return("done", None)
     \/ /\ ret # "del"
        /\ p' = 0 /\ ret' = IF ret = "replace" THEN ret ELSE "none"
        /\ \/ ret = "evict" /\ pc' = "evict" /\ off' = aPre[off]
           \/ ret = "flush" /\ pc' = "flush" /\ off' = NextExpired(off)
           \* the nested put_val looks the key up again
           \/ ret = "replace" /\ pc' = "find" /\ off' = FirstIn(key)
        /\ UNCHANGED <<now, call, cnt, good, reply>>

-----------------------------------------------------------------------------
(* do_eliminate                                                            *)

EvictOne ==
  /\ pc = "evict" /\ cnt + 1 < limit
  /\ cnt' = cnt + 1
  /\ Unlink(off, "evict")

EvictEnd ==
  /\ pc = "evict" /\ cnt + 1 >= limit
  /\ pc' = "store" /\ off' = 0 /\ cnt' = 0
  /\ UNCHANGED <<memory, now, call, p, ret, good, reply, history>>

-----------------------------------------------------------------------------
(* The walk along a bucket: get, del and put_val each have one.            *)

FindNext ==
  /\ pc = "find" /\ off # 0 /\ ~HashIs(off, key)
  /\ off' = next[off]
  /\ UNCHANGED <<memory, now, pc, call, p, cnt, ret, good, reply, history>>

FindNone ==
  /\ pc = "find" /\ off = 0
  /\ \/ op = "get" /\ Return("not_found", None)
     \/ op = "del" /\ Return("done", None)
     \/ /\ op = "put" /\ pc' = "alloc"
        /\ UNCHANGED <<now, call, cursors, reply>>
  /\ UNCHANGED <<memory, history>>

Found == pc = "find" /\ off # 0 /\ HashIs(off, key)

DelFound ==
  /\ Found /\ op = "del"
  /\ Unlink(off, "del") /\ UNCHANGED cnt

Replace ==
  /\ Found /\ op = "put"
  /\ Unlink(off, "replace") /\ UNCHANGED cnt

-----------------------------------------------------------------------------
(* get, once the key is found.                                             *)

\* _flush_expire: the entry and all that is behind it in the expire queue.
FlushFirst ==
  /\ Found /\ op = "get" /\ Expired(off)
  /\ Unlink(off, "flush") /\ UNCHANGED cnt

FlushNext ==
  /\ pc = "flush" /\ off # 0
  /\ Unlink(off, "flush") /\ UNCHANGED cnt

FlushEnd ==
  /\ pc = "flush" /\ off = 0
  /\ Return("expired", None)
  /\ UNCHANGED <<memory, history>>

\* _move_from_access, then _put_into_access_header, which does not set
\* access_end; then _get_val begins with the head chunk.
Touch ==
  /\ Found /\ op = "get" /\ ~Expired(off)
  /\ aNext' = [LinksWithout(off) EXCEPT ![off] = BegWithout(off)]
  /\ aPre' = [BackLinksWithout(off) EXCEPT ![off] = 0, ![BegWithout(off)] = off]
  /\ access_end' = EndWithout(off)
  /\ access_beg' = off
  /\ pc' = "read" /\ p' = off /\ cnt' = 1 /\ good' = (piece[off][2] = 1)
  /\ UNCHANGED <<bucket, hi, lo, piece, expireAt, next, expand, ePre, eNext,
                 counts, free_beg, expire_beg, now, call, off, ret, reply,
                 history>>

\* One more chunk is copied; bytes past the length of the head are ignored.
ReadExpand ==
  /\ pc = "read" /\ expand[p] # 0 /\ cnt < MaxPieces
  /\ p' = expand[p] /\ cnt' = cnt + 1
  /\ good' = (good /\ \/ cnt' > Pieces[piece[off][1]]
                      \/ piece[p'] = <<piece[off][1], cnt'>>)
  /\ UNCHANGED <<memory, now, pc, call, off, ret, reply, history>>

\* The copy of a whole chunk runs over the end of the buffer of MAX_VAL_LEN
\* bytes.  A last chunk that fits in part may do so without harm (ReadExpand).
ReadOverrun ==
  /\ pc = "read" /\ expand[p] # 0 /\ cnt >= BufPieces
  /\ Crash

\* uncompress.  A chain that is too short leaves the end of the buffer as
\* the allocator returned it, which may hold the very bytes that are missing.
ReadEnd ==
  /\ pc = "read" /\ expand[p] = 0
  /\ LET v == piece[off][1]
     IN  \/ good /\ v \notin Big /\ Return("ok", v)
         \/ (good => v \in Big \/ cnt < Pieces[v]) /\ Return("uncomp_error", None)
  /\ UNCHANGED <<memory, history>>
-----------------------------------------------------------------------------
(* put, once there is room: one put_val for each piece of the value.       *)

StoreBegin ==
  /\ pc = "store" /\ Pieces[val] <= MaxPieces
  /\ pc' = "find" /\ cnt' = 1 /\ off' = FirstIn(key)
  /\ UNCHANGED <<memory, now, call, p, ret, good, reply, history>>

\* compress does not fit its result into MAX_VAL_LEN bytes.
StoreTooLong ==
  /\ pc = "store" /\ Pieces[val] > MaxPieces
  /\ Return("rejected", None)
  /\ UNCHANGED <<memory, history>>

\* The last piece is copied whole, from beyond the end of the buffer of
\* MAX_VAL_LEN bytes; what it gets there is never used, if it can be read.
StoreOverrun ==
  /\ pc = "alloc" /\ cnt > BufPieces
  /\ Crash

\* What the new head is put in front of, and what is left of the free list.
NoRest == 0
RestOfBucket == FirstIn(key)
RestOfFreeList == lo[free_beg]

\* put_val has its chunk o; the first piece makes it a head, entered in front
\* of its bucket and of both queues.
Fill(o) ==
  /\ hi' = [hi EXCEPT ![o] = HashHi[key]]
  /\ lo' = [lo EXCEPT ![o] = HashLo[key]]
  /\ piece' = [piece EXCEPT ![o] = <<val, cnt>>]
  /\ element_cnt' = Inc(element_cnt)
  /\ \/ /\ cnt = 1
        /\ next' = [next EXCEPT ![o] = RestOfBucket]
        /\ bucket' = [bucket EXCEPT ![BucketOf(HashLo[key])] = o]
        /\ key_cnt' = Inc(key_cnt)
        /\ aNext' = [aNext EXCEPT ![o] = access_beg]
        /\ aPre' = [aPre EXCEPT ![o] = 0, ![access_beg] = o]
        /\ access_beg' = o
        /\ access_end' = IF access_end = 0 THEN o ELSE access_end
        /\ eNext' = [eNext EXCEPT ![o] = expire_beg]
        /\ ePre' = [ePre EXCEPT ![o] = 0, ![expire_beg] = o]
        /\ expire_beg' = o
        /\ expireAt' = [expireAt EXCEPT ![o] = now + ExpireTime]
        /\ log' = log \cup {<<key, val, now>>}
        /\ latest' = [latest EXCEPT ![key] = <<val, now + ExpireTime>>]
     \/ /\ cnt > 1
        /\ UNCHANGED <<next, bucket, key_cnt, aNext, aPre, access_beg, access_end,
                       eNext, ePre, expire_beg, expireAt, history>>

\* The loop of put: the chunk got by this put_val is tied to the one before;
\* got is 0 when put_val replaced an entry or had no chunk to give.
Tie(got) ==
  LET tied == IF cnt > 1 THEN [expand EXCEPT ![p] = got] ELSE expand
  IN  \/ /\ cnt = Pieces[val]
         /\ expand' = [tied EXCEPT ![got] = 0]
         /\ Return("stored", None)
      \/ /\ cnt # Pieces[val]
         /\ expand' = tied
         /\ p' = got /\ cnt' = cnt + 1 /\ off' = 0 /\ ret' = "none"
         /\ UNCHANGED <<pc, now, call, good, reply>>

PutVal(o) ==
  /\ Fill(o)
  /\ Tie(IF ret = "replace" THEN 0 ELSE o)

AllocFree ==
  /\ pc = "alloc" /\ free_beg # 0 /\ Mapped(free_beg)
  /\ free_beg' = RestOfFreeList
  /\ PutVal(free_beg)
  /\ UNCHANGED <<alloc_cnt, slice_cnt>>

\* The free list led to a hash word instead of a chunk.
AllocWild ==
  /\ pc = "alloc" /\ free_beg # 0 /\ ~Mapped(free_beg)
  /\ Crash

AllocFresh ==
  /\ pc = "alloc" /\ free_beg = 0 /\ Mapped(alloc_cnt)
  /\ alloc_cnt' = alloc_cnt + 1
  /\ PutVal(alloc_cnt)
  /\ UNCHANGED <<free_beg, slice_cnt>>

AllocSlice ==
  /\ pc = "alloc" /\ free_beg = 0 /\ ~Mapped(alloc_cnt) /\ slice_cnt < SliceMax
  /\ slice_cnt' = slice_cnt + 1
  /\ alloc_cnt' = alloc_cnt + 1
  /\ PutVal(alloc_cnt)
  /\ UNCHANGED free_beg

\* No slice can be added, because SLICE_MAX_CNT is reached or because
\* ftruncate fails: put_val returns 0 and put goes on with that.
AllocFail ==
  /\ pc = "alloc" /\ free_beg = 0 /\ ~Mapped(alloc_cnt)
  /\ slice_cnt = SliceMax \/ DiskMayFail
  /\ Tie(0)
  /\ UNCHANGED <<bucket, hi, lo, piece, expireAt, next, aPre, aNext, ePre, eNext,
                 counts, queues, history>>

-----------------------------------------------------------------------------
(* view_header counts the free list.                                       *)

ViewNext ==
  /\ pc = "view" /\ off # 0 /\ Mapped(off)
  /\ off' = lo[off] /\ cnt' = Inc(cnt)
  /\ UNCHANGED <<memory, now, pc, call, p, ret, good, reply, history>>

ViewWild ==
  /\ pc = "view" /\ off # 0 /\ ~Mapped(off)
  /\ Crash

ViewEnd ==
  /\ pc = "view" /\ off = 0
  /\ Return("done", None)
  /\ UNCHANGED <<memory, history>>

-----------------------------------------------------------------------------
Step ==
  \/ EvictOne \/ EvictEnd \/ FreeExpand \/ FreeLast
  \/ FindNext \/ FindNone \/ DelFound \/ Replace
  \/ FlushFirst \/ FlushNext \/ FlushEnd
  \/ Touch \/ ReadExpand \/ ReadOverrun \/ ReadEnd
  \/ StoreBegin \/ StoreTooLong \/ StoreOverrun
  \/ AllocFree \/ AllocWild \/ AllocFresh \/ AllocSlice \/ AllocFail
  \/ ViewNext \/ ViewWild \/ ViewEnd

\* Any owner: calls of every kind, in any order.
Next ==
  \/ \E k \in Keys : GetCall(k) \/ DelCall(k)
  \/ \E k \in Keys, v \in Vals : PutCall(k, v) \/ PutEmpty(k, v)
  \/ ViewCall
  \/ Step \/ Tick \/ Restart

Spec == Init /\ [][Next]_vars

-----------------------------------------------------------------------------
(* What holds whatever the owner does.                                     *)

Offset == 0..(SliceSz * slice_cnt - 1)

\* Type invariant of the memory, the header and the call frame.
TypeOK ==
  /\ bucket \in [Buckets -> Chunk]
  /\ hi \in [Chunk -> U32] /\ lo \in [Chunk -> U32]
  /\ piece \in [Chunk -> (Vals \cup {None}) \X Nat]
  /\ next \in [Chunk -> Chunk] /\ expand \in [Chunk -> Chunk]
  /\ aPre \in [Chunk -> Chunk] /\ aNext \in [Chunk -> Chunk]
  /\ ePre \in [Chunk -> Chunk] /\ eNext \in [Chunk -> Chunk]
  /\ expireAt \in [Chunk -> Nat]
  /\ element_cnt \in U32 /\ key_cnt \in U32 /\ free_beg \in U32
  /\ slice_cnt \in 1..SliceMax /\ alloc_cnt \in 1..(SliceSz * slice_cnt)
  /\ access_beg \in Chunk /\ access_end \in Chunk /\ expire_beg \in Chunk
  /\ now \in Time
  /\ pc \in Loops \cup {"idle", "crashed"}
  /\ op \in Ops /\ key \in Keys \cup {None} /\ val \in Vals \cup {None}
  /\ off \in U32 /\ p \in Chunk /\ cnt \in Nat /\ limit \in Nat
  /\ ret \in Returns /\ good \in BOOLEAN
  /\ reply \in [op : Ops, key : Keys \cup {None}, st : Status,
                val : Vals \cup {None}]
  /\ log \subseteq Keys \X Vals \X Time
  /\ latest \in [Keys -> Entry]

\* No link of a bucket, of a queue or of a value ever leaves the slices that
\* are mapped, whatever was evicted, replaced or freed twice: get_hasher_ptr
\* is safe on all of them.  Only the free list, which shares its word with
\* the hash, can lead elsewhere (AllocWild, ViewWild).
LinksMapped ==
  /\ \A b \in Buckets : bucket[b] \in Offset
  /\ \A c \in Chunk : {next[c], expand[c], aPre[c], aNext[c], ePre[c], eNext[c]}
                        \subseteq Offset
  /\ {access_beg, access_end, expire_beg} \subseteq Offset
  /\ pc \notin {"view", "crashed"} => off \in Offset
  /\ p \in Offset

\* What get returns as found was stored under that very key, and has not been
\* there for longer than the expire time.
ServedFresh ==
  [][pc = "read" /\ reply'.st = "ok" =>
       \E t \in Time : /\ <<key, reply'.val, t>> \in log
                       /\ now <= t + ExpireTime]_vars
=============================================================================
