--------------------------- MODULE CacheGeometry ---------------------------
(***************************************************************************)
(* How the options of the command line become the geometry of a cache:     *)
(* CDaemon::initServer rounds the number of threads, ddcache::init the     *)
(* buckets, the chunks in a slice and the memory limit.  All of it is u32  *)
(* arithmetic modulo Word; each loop is a loop of steps, so that a wrapped *)
(* product that keeps a loop going is a behaviour.  DdCache takes the      *)
(* results as its constants BucketCnt, SliceSz, ChunkLen and MaxBytes.     *)
(***************************************************************************)
EXTENDS Integers, FiniteSetsExt

CONSTANTS
  Args,     \* the options: threads n, buckets b, value v, slice s, max size m
  Bits,     \* the width of a u32
  Short,    \* number of values of a u_short
  PageMin, PageMax, BuckMax, MaxVal, \* PAGE_MIN_SIZE ... MAX_VAL_LEN
  Mega,     \* BPM, also the 1024*1024 of init
  Head,     \* bytes of a chunk besides the value
  Default   \* the value size for 0

\* Number of values of a u32.
Word == 2^Bits

\* atoi gives an int, and each of these options becomes a u32: what is below
\* 0 (" -1" passes parseCmdLine's test of the first character) or cut off by
\* atoi is one from Word \div 2 on.
Options == [{"n", "b", "v", "s", "m"} -> 0..(Word - 1)]

PowersOf2 == {2^k : k \in 0..Bits}

\* How the constants of ddcache.h relate, whatever the width of a u32.
ASSUME GeometryAssumption ==
  /\ Args \subseteq Options
  /\ Bits \in Nat /\ {Short, PageMin, PageMax, BuckMax, MaxVal} \subseteq PowersOf2
  /\ 2 <= PageMin /\ PageMin < BuckMax /\ BuckMax < PageMax /\ PageMax = Word \div 4
  /\ PageMin < Short /\ Short < Word
  /\ MaxVal = Mega /\ MaxVal * PageMin = Word /\ Default \in 1..(MaxVal - 1)
  /\ Head \in Nat

VARIABLES
  pc,         \* the loop that is running; "map"; "done", "refused", "crashed"
  arg,        \* the options given
  x,          \* the variable of that loop (s, n or c)
  threads,    \* m_nThreadCount
  bucket_cnt, val_sz, slice_sz, slice_pow, max_size

geometry == <<threads, bucket_cnt, val_sz, slice_sz, slice_pow, max_size>>
vars     == <<pc, arg, x, geometry>>

U32(i) == i % Word

\* get_val_size
ZeroKept(v) == IF v > MaxVal THEN MaxVal ELSE v
ValSize(v) == IF v > MaxVal THEN MaxVal ELSE IF v = 0 THEN Default ELSE v

\* The bucket count between its limits.
NoUpperLimit(b) == IF b < PageMin THEN PageMin ELSE b
Clamped(b) == IF b < PageMin THEN PageMin ELSE IF b > BuckMax THEN BuckMax ELSE b

\* The bytes of values a slice is to hold.
Space == Max({PageMin, Min({PageMax, U32(arg["s"] * val_sz)})})

ChunkLen    == val_sz + Head
\* m_slice_buf_len, as get_max_size takes it; an int, below 0 if TooLong.
SliceBufLen == U32(slice_sz * ChunkLen)
TooLong     == SliceBufLen >= Word \div 2
\* get_hasher_ptr: the slice of an offset and its place in the slice.
Place(o)    == <<o \div 2^slice_pow, U32((o % slice_sz) * ChunkLen)>>
\* The limit in bytes that the option asks for, and what is left of it.
Asked       == arg["m"] * Mega
Expected    == U32(Asked)
\* What put_val compares the bytes of all chunks with.
MaxBytes    == U32(max_size * Mega)

-----------------------------------------------------------------------------
Init ==
  /\ pc = "threads" /\ x = 1 /\ arg \in Args
  /\ threads = 0 /\ bucket_cnt = 0 /\ val_sz = 0 /\ slice_sz = 0
  /\ slice_pow = 0 /\ max_size = 0

\* One round of a loop whose condition, tried on y, still holds.
Again(loop, y, condition) ==
  /\ pc = loop /\ condition /\ x' = y
  /\ UNCHANGED <<pc, arg, geometry>>

\* A loop ends: its condition fails, and the next loop starts at start.
Over(loop, condition, following, start) ==
  /\ pc = loop /\ ~condition
  /\ pc' = following /\ x' = start /\ UNCHANGED arg

\* get_2pow_size
NotLess(y, sz) == y <= sz
Less(y, sz) == y < sz

ThreadsRound == Again("threads", U32(2 * x), Less(U32(2 * x), arg["n"]))

\* The result is an int, and negative from Word \div 2 on.
ThreadsRefused ==
  /\ 2 * x >= Word \div 2
  /\ Over("threads", Less(U32(2 * x), arg["n"]), "refused", 0)
  /\ UNCHANGED geometry

\* createServer takes the number as a u_short.
ThreadsKnown ==
  /\ 2 * x < Word \div 2
  /\ Over("threads", Less(U32(2 * x), arg["n"]), "bucket", 1)
  /\ threads' = (2 * x) % Short
  /\ UNCHANGED <<bucket_cnt, val_sz, slice_sz, slice_pow, max_size>>

BucketRound == Again("bucket", U32(2 * x), Less(U32(2 * x), arg["b"]))

BucketKnown ==
  /\ Over("bucket", Less(U32(2 * x), arg["b"]), "slice", PageMin \div 2)
  /\ bucket_cnt' = Clamped(U32(2 * x))
  /\ val_sz' = ValSize(arg["v"])
  /\ UNCHANGED <<threads, slice_sz, slice_pow, max_size>>

\* get_slice_sz
NotAbove(y) == U32(val_sz * y) <= Space
BelowMax(y) == U32(val_sz * y) < PageMax
SliceTooSmall(y) == U32(val_sz * y) < Space

SliceRound == Again("slice", U32(2 * x), SliceTooSmall(U32(2 * x)))

SliceKnown ==
  /\ Over("slice", SliceTooSmall(U32(2 * x)), "pow", 1)
  /\ slice_sz' = U32(2 * x)
  /\ UNCHANGED <<threads, bucket_cnt, val_sz, slice_pow, max_size>>

\* get2pow
DoublesLess(y) == y < slice_sz
Doubles(y) == y <= slice_sz

PowRound ==
  /\ pc = "pow" /\ Doubles(U32(2 * x))
  /\ x' = U32(2 * x) /\ slice_pow' = slice_pow + 1
  /\ UNCHANGED <<pc, arg, threads, bucket_cnt, val_sz, slice_sz, max_size>>

PowKnown ==
  /\ pc = "pow" /\ ~Doubles(U32(2 * x)) /\ SliceBufLen # 0
  /\ pc' = "max" /\ x' = Expected \div SliceBufLen
  /\ UNCHANGED <<arg, geometry>>

\* Expected % SliceBufLen divides by zero: the process dies.
PowCrashes ==
  /\ SliceBufLen = 0
  /\ Over("pow", Doubles(U32(2 * x)), "crashed", 0)
  /\ UNCHANGED geometry

\* get_max_size
InBytes(n) == n
InMega(n) == n \div Mega

Divides == Expected % SliceBufLen = 0
Below   == U32(x * SliceBufLen) < Expected

MaxRound ==
  /\ pc = "max" /\ ~Divides /\ Below
  /\ x' = U32(x + 1)
  /\ UNCHANGED <<pc, arg, geometry>>

MaxDivides ==
  /\ pc = "max" /\ Divides
  /\ pc' = "map" /\ max_size' = Expected
  /\ UNCHANGED <<arg, x, threads, bucket_cnt, val_sz, slice_sz, slice_pow>>

MaxKnown ==
  /\ pc = "max" /\ ~Divides /\ ~Below
  /\ pc' = "map" /\ max_size' = InMega(U32(x * SliceBufLen))
  /\ UNCHANGED <<arg, x, threads, bucket_cnt, val_sz, slice_sz, slice_pow>>

\* The first slice is mapped, with a size_t made of the int m_slice_buf_len.
SliceMapped ==
  /\ pc = "map" /\ ~TooLong
  /\ pc' = "done" /\ UNCHANGED <<arg, x, geometry>>

\* A size_t made of a negative int: mmap fails, and the bzero that comes before
\* the test of its result writes to MAP_FAILED.
MapCrashes ==
  /\ pc = "map" /\ TooLong
  /\ pc' = "crashed" /\ UNCHANGED <<arg, x, geometry>>

Next ==
  \/ ThreadsRound \/ ThreadsRefused \/ ThreadsKnown
  \/ BucketRound \/ BucketKnown
  \/ SliceRound \/ SliceKnown
  \/ PowRound \/ PowKnown \/ PowCrashes
  \/ MaxRound \/ MaxDivides \/ MaxKnown
  \/ SliceMapped \/ MapCrashes

Spec == Init /\ [][Next]_vars /\ WF_vars(Next)

-----------------------------------------------------------------------------
\* The value sizes for which the header of a chunk wraps nothing: not below
\* the header itself, and a whole chunk shorter than MAX_VAL_LEN.
Ordinary == val_sz \in Head..(MaxVal - Head - 1)

\* The slices are at hand, or lost.
Sliced == {"pow", "max", "map", "done", "crashed"}

\* Up to half of what a u_short holds, the number of threads is the least
\* power of two from 2 on that is not below the option: masking a hash with
\* it less one reaches every queue (initServer, createServer, runServer:166).
EveryQueueReached ==
  pc \in {"bucket", "slice"} \cup Sliced /\ arg["n"] <= Short \div 2 =>
    threads = Min({i \in PowersOf2 \ {1} : i >= arg["n"]})

\* The buckets are a power of two, so that mod2pow_num is a remainder, they
\* fill whole pages, and they are enough for the option up to BUCK_MAX_SIZE.
BucketsFit ==
  pc \in {"slice"} \cup Sliced =>
    /\ bucket_cnt \in PowersOf2 /\ bucket_cnt % PageMin = 0 /\ bucket_cnt <= BuckMax
    /\ bucket_cnt >= Min({arg["b"], BuckMax})
    /\ bucket_cnt > PageMin => bucket_cnt \div 2 < Max({arg["b"], 1})

\* Offset o has bytes of its own: the slices being mapped one behind the
\* other, its chunk begins at byte o * ChunkLen of them all, and it ends
\* inside the bytes its slice was mapped with.
OwnBytes(o) ==
  /\ Place(o)[1] * SliceBufLen + Place(o)[2] = o * ChunkLen
  /\ Place(o)[2] + ChunkLen <= SliceBufLen

\* get_hasher_ptr gives every offset of two slices bytes of its own, for the
\* ordinary value sizes, and every slice begins on a page.  This is what lets
\* DdCache speak of chunks and not of bytes.
ChunksApart ==
  pc = "done" =>
    /\ SliceBufLen % PageMin = 0
    /\ Ordinary => \A o \in 0..(2 * slice_sz - 1) : OwnBytes(o)

\* No slice is larger than its space asks for.
SliceMinimal ==
  pc \in Sliced =>
    /\ slice_sz * val_sz >= Space /\ slice_sz % PageMin = 0
    /\ slice_sz > PageMin => (slice_sz \div 2) * val_sz < Space

\* init does not die of an ordinary value size, shorter than half of
\* MAX_VAL_LEN with its header, when the values of a slice are to take at most
\* half of PAGE_MAX_SIZE: only more lets m_slice_buf_len wrap to 0 or below.
InitSurvives ==
  pc = "crashed" => ~Ordinary \/ 2 * ChunkLen >= MaxVal \/ 2 * Space > PageMax

\* The limit that put_val knows is less than a slice above and less than a
\* megabyte below what was asked for, if that and a slice fit a u32 (an
\* option from 4096 on does not) and if no whole number of slices is exactly
\* what was asked for (MaxDivides then keeps bytes for megabytes).
MaxSizeNear ==
  pc = "done" /\ ~Divides /\ Asked + SliceBufLen <= Word =>
    MaxBytes < Asked + SliceBufLen /\ MaxBytes > Asked - Mega

\* The options for which get_2pow_size and get_slice_sz are to end: threads
\* and buckets up to half of a u32, a value size below MAX_VAL_LEN, none of
\* them negative.
Sane == arg["n"] <= Word \div 2 /\ arg["b"] <= Word \div 2 /\ arg["v"] < MaxVal

\* The limit is being rounded, and the multiple of a slice it is rounded to
\* is less than what a u32 holds.
Limited == pc = "max" /\ Expected + SliceBufLen <= Word

\* init is over, unless a slice is too long to be mapped.
Mapped == IF TooLong THEN pc = "crashed" ELSE pc = "done"

\* The loops of init end: the first four for every sane option, get_max_size
\* when the limit leaves room for one more slice, whose mapping then fails
\* only for its length.
InitReturns ==
  /\ Sane ~> pc \in {"max", "map", "done", "refused", "crashed"}
  /\ Limited ~> Mapped
=============================================================================
