# A TLA+ verification of sdcache

sdcache is a caching HTTP proxy: a client asks for `/?url=...`, one accepting
thread hands the request to one of several worker threads through a lock-free
queue, and the worker answers from its own memory-mapped cache or fetches the
page and stores it. This directory holds TLA+ modules for the parts of it that
have state worth reasoning about, TLC runs on small instances, and proofs
checked by TLAPS for all instances. Paths are relative to `src/`.

## Inventory

| Part | Code | State | Operations | What makes it correct |
|---|---|---|---|---|
| cache of a thread | `util/ddcache.h` | buckets, chunks, access, expire and free lists, counters | `init get put put_val del del_off do_eliminate _flush_expire view_header` | chunks neither lost nor shared; lists agree; a hit is fresh, whole and the latest; every loop ends |
| geometry of a cache | `util/ddcache.h:107-209`, `:486-506`, `server/Daemon.cpp:173` | counts and sizes, computed once | `get_2pow_size get_val_size get_slice_sz get2pow get_max_size` | every loop ends; powers of two where masks are used; no two chunks share a byte; the limit is near the option |
| worker thread | `server/ServerFrame.cpp:178` | the request in hand | poll, take, get, fetch, put, answer | every request taken is answered once; put only after a failed get |
| queue | `util/ring_queue.h` | `m_front`, `m_rear`, slots | `in out isEmpty isFull` | first in first out, whole requests, no shared slot, without a lock |
| acceptor | `server/ServerFrame.cpp:73` | the connection in hand | accept, parse, hash, `in`, close when full | one url always goes to one worker |
| shutdown | `server/ServerFrame.cpp:229` | `m_bShutdown` | `closeServer`, join | all threads end, sockets are closed |
| host name cache | `server/ServerFrame.h:79` | one `ddcache` for all threads | `get`, `put` from `getUrl` | a host gets its own address; needs mutual exclusion, has none |
| page fetch | `util/HttpRequest.cpp` | one socket | `getUrl` | socket closed on every path |
| request parsing | `util/HttpAnalyse.cpp` | none | `parseRequest urlDecode` | inverse of url encoding |
| daemon | `server/Daemon.cpp` | pid file, master, child | start, stop, restart, respawn, signals | one instance; a crash is followed by a restart and nothing else is; a stop reaches the server |
| threads, configuration, static hash, client, helpers | see `PROJECT.json` | — | — | — |

How they interact: the acceptor and one worker share one `ring_queue` and
nothing else; a worker calls its own `ddcache` (`get`, then `put` when the get
failed and the page was fetched; `view_header` for `debug=1`) and, inside
`getUrl`, the host name cache all workers share; a signal handler sets
`m_bShutdown`, which all loops read; the master process restarts a child that
crashed, whose caches start empty (`use_file` is false everywhere). The commands
`start`, `stop` and `restart` are processes of their own, which know the master
only by the pid file.

Hard behaviours: links of several lists in one chunk, updated in an order that
matters (`del_off`); a free list that shares its word with the hash; offset 0
as "none" although chunk 0 is written through; loops over links without a
bound; two threads on one ring without a lock; time running out between a get
and the next; allocation failing halfway through a value; a crash anywhere; two
threads in one cache that has no lock; signals that come before the process they
are meant for is ready; u32 products that wrap.
`PROJECT.json` lists these as hazards, each at its line.

## Modules

| Module | What it is |
|---|---|
| `DdCache` | the cache, one step per loop iteration of the code; any owner (`Spec`) |
| `DdCacheProps` | invariants and action properties over the lists; what the readme claims |
| `UrlCache` | abstract: a lossy map with expiry that answers every call |
| `CacheWorker` | the cache as the worker calls it (`WorkerSpec`); implements `UrlCache` |
| `MCCacheWorker` | instances for TLC: hashes, value sizes, an owner that puts once a second, a worker whose pages have one size each |
| `HostCache`, `MCHostCache` | two workers in one `DdCache`, composed from two instances of it; and its instance for TLC |
| `CacheGeometry`, `MCCacheGeometry` | how options become the constants of a cache, in u32 arithmetic; and its instance for TLC |
| `LinkedList` | lists made of links, walked to the 0 that ends them; what it means that two arrays link them both ways |
| `DdCacheProofs` | TLAPS proofs about `DdCache` for any owner |
| `LinkedListProofs` | TLAPS proofs about `LinkedList`: what pushing, cutting and joining do to a list |
| `CacheListProofs` | TLAPS proofs about the lists of a cache (`DdCacheProps`) |
| `CacheWorkerProofs` | TLAPS proofs about what a cache returns, the worker's above all, and its refinement of `UrlCache` |
| `CacheGeometryProofs` | TLAPS proofs about `CacheGeometry` |
| `BoundedQueue` | abstract: a bounded queue with atomic operations |
| `RingQueue` | the ring of two threads, each slot access in two steps; implements `BoundedQueue` |
| `MCRingQueue` | its instance for TLC |
| `RingQueueProofs` | TLAPS proofs about `RingQueue`, refinement included |
| `Server` | the acceptor, the workers with their queues, and the shutdown, composed |
| `MCServer` | its instance for TLC |
| `ServerProofs` | TLAPS proofs about `Server` |
| `Daemon`, `MCDaemon` | the commands, the masters, their children and the pid file; and the instances for TLC |
| `DaemonProofs` | TLAPS proofs about `Daemon` |

### DdCache: state and actions

The fields of a chunk are functions of its offset: `hi` and `lo` (the two
halves of the hash word; the free list uses `lo`), `piece` (value bytes and
`comp_len`, abstracted to which value and which piece of it), `next`, `expand`,
`aPre`/`aNext`, `ePre`/`eNext`, `expireAt`. The field `pre` is written in three
places and read only in `del_off`, which has just zeroed it, so it is left out
and `Unlink` always takes the branch the code takes. The header is
`element_cnt`, `key_cnt` (u32, wrapping at `Word`), `alloc_cnt`, `slice_cnt`,
`free_beg`, `access_beg`, `access_end`, `expire_beg`; `free_end` is always 0.

`pc` is the loop a call is in; `off` and `p` are its cursors, `cnt` its
counter, `ret` who called `del_off`.

| Code | Actions |
|---|---|
| `get`: bucket walk, hit, miss | `GetCall`, `FindNext`, `FindNone`, `Touch`, `FlushFirst` |
| `_get_val` | `ReadExpand`, `ReadOverrun`, `ReadEnd` |
| `_flush_expire` | `FlushFirst`, `FlushNext`, `FlushEnd` |
| `put` | `PutCall`, `PutEmpty`, `StoreBegin`, `StoreTooLong`, `StoreOverrun`, `Tie` |
| `put_val` | `FindNext`, `FindNone`, `Replace`, `AllocFree`, `AllocFresh`, `AllocSlice`, `AllocFail`, `AllocWild` (all but the last two `Fill` a chunk) |
| `del`, `del_off` | `DelCall`, `DelFound`, `Unlink`, `FreeExpand`, `FreeLast` |
| `do_eliminate` | `EvictOne`, `EvictEnd` |
| `view_header` | `ViewCall`, `ViewNext`, `ViewWild`, `ViewEnd` |
| kill or crash, and the daemon's restart | `Restart` |

Everything between two loops of the code is one step, since one thread owns the
cache; the loops are split so that a cycle is a behaviour that does not end.
`ReadOverrun`, `StoreOverrun`, `AllocWild` and `ViewWild` stand for memory the
code must not touch (past the 1M buffer of a thread, past the compressed data,
in a slice that is not mapped): the process dies. What really happens there is
undetermined; dying is the outcome modelled, and no property is about what
follows it but `TypeOK`, `LinksMapped` and `ServedFresh`.

Abstracted data: a value is a model value with `Pieces[v]` chunks (0: the empty
string; more than `MaxPieces`: too long to store) and may be `Big` (longer than
1M before compression). `BufPieces` is the number of chunks that fit the 1M
buffers whole; it is `MaxPieces` when the value size of a chunk divides 1M, and
one less otherwise, as with the default size 1000: the last chunk of a longest
value is then copied whole over the end of a buffer. What `put` compares with
the limit is the number of chunks times `ChunkLen` as a u32, and the limit is
`MaxBytes`. A key is a model value with two hash halves, and keys
never share the upper half (`HashAssumption`: the code compares 64-bit hashes
and no keys). A chain that is too short is completed by whatever the new buffer
holds, so decompression may fail or succeed (`ReadEnd`). The clock moves only
between calls: each call that looks at it does so once, or stores it once.

### RingQueue: state and actions

`front`, `rear` and `data` are the members. `ppc` and `cpc` are the places of
the acceptor in `in` and of the worker in its polling loop and `out`. A slot is
written in two steps and copied in two; in between it is `Torn`. The code reads
both indices without synchronisation, which C++ leaves undefined; the model
takes the loads and stores in program order, as x86 shows them to the other
thread. That is an assumption of all results about the queue.

### Server: state and actions

`apc` is where the main thread is in `runServer` and `cur` the request in its
hand; `queue`, `wpc`, `item` and `str` are each worker's queue, place, `sSock`
and `strSend`; `hpc` is where `closeServer` is and `on` the thread on whose
stack the signal handler runs, which stands still meanwhile. A request carries
`home`, the member `hasher` of `request_s`: a url is hashed also when it is empty
(`url=`), and without one the request goes to thread 0. `lsn` is the
listening socket, `sock` the state of every connection. `asked` is a history
variable: what was read from each connection.

| Code | Actions |
|---|---|
| the loop of `createThread` | `CreateThread`, `CreateFails` |
| `while(!m_bShutdown)`, `accept` and the test after it | `CheckLoop`, `EnterAccept`, `AcceptConn`, `AcceptError`, `AcceptChecked` |
| the end of the loop of `recv`, and `parseRequest`; `view=1` | `Receive`; `ReceiveView` |
| `in`, or closing the socket when it fails | `Push`, `Refuse` |
| `waitMultipleThread` | `Join` |
| polling, the test of `m_bShutdown`, `out` | `Poll`, `CheckShutdown`, `Take` |
| `debug=1`; a hit; a miss | `ServeDebug`; `Hit`; `Miss` |
| `getUrl`: up to the GET; the end of the loop of `recv` | `Requested`, `FetchFails`; `Fetched`, `RecvFails` |
| `send` and `closesocket` | `Send` |
| `closeServer`: the flag, closing, connecting to itself | `Signal`, `CloseListen`, `TestConnect` |
| clients | `Connect` |

The composition uses its parts by what is shown of them. A queue is a bounded
sequence with atomic operations, which `RingQueueProofs!Refinement` justifies.
A worker's cache is the set of urls it once stored, and both `Hit` and `Miss`
are possible for those, since eviction and expiry are the cache's affair; that
a hit is a page of that very url is `DdCacheProofs!ServedIsFresh`. A page is
named by its url and does not change. `Home` is the hash of a url and is any
function into the threads.

Of the operating system the model takes this. Closing a listening socket does
not wake a thread that is in `accept` on it: the kernel's socket lives until
that call returns (`lsn = "held"`), still takes connections, and is reset with
its backlog afterwards; `accept` on the closed number fails. A signal
interrupts `accept`, which is entered again after the handler returned
(`SA_RESTART`, the meaning of `signal`). The handler may run on any thread's
stack. Left out: a second signal, a socket call of the handler that fails, and
running out of descriptors, so `Refuse` and `Send` close what they close.

### Daemon: state and actions

Every process the program ever forks has a number in `1..N`, given out in
order; `st` is what it is doing, `master` who forked it (0 for a master). A
master's `m_nChildPid` is `childPid`, what `fork` returned to it but is not yet
assigned is `forked`, and `pending` are the masters with a SIGTERM on its way.
`file` is the pid file (0: missing or empty). A command has its place in `cpc`
and the pid it read in `target`.

| Code | Actions |
|---|---|
| `run`, reading the pid file | `Begin`; `Stopped` is the end of `stop`, after which `restart` goes on with `start` |
| `start`: the test of the pid; `initAsDaemon` | `StartRefused`; `StartMaster` |
| `stop`: nobody there; SIGTERM; the 200 seconds | `StopNobody`; `StopSignal`; `StopPolled`, `StopTimesOut` |
| `writeBuff2File` | `OpenFile`, `WriteFile` |
| the loop of `fork`, assignment, `wait`, `isAbnormalExit` | `Fork`, `ForkFails`, `Assign`, `Wait`, `WaitNobody` |
| `sigMasterHandler` and, in the child it reaches, `sigChildHandler` | `SigMaster` |
| the child: `signal`, `initServer`, `createServer`, `listen`, `exit` | `InstallHandlers`, `InitServer`, `CreateServer`, `Listen`, `Leave` |
| a crash, `kill -9`, a pid used again | `ChildDies`, `MasterKilled`, `Reuse` |

`kill(m_nChildPid, SIGUSR1)` means what it means to the kernel: a pid, the whole
group of the master when no child was ever assigned (0), everybody after a
failed fork (-1). A process without a handler for SIGUSR1 dies of it. A handler
runs at once when its signal is delivered, and a child that is told to shut
down is `shutdown` from then on. `runServer` is one place, `serving`, which ends
when the flag is set: that this is so is `Server!ShutdownEnds`, with the
conditions named there. Until it ended, its socket may still keep another server
from binding or listening (`CreateServer`, `Listen`). When
`fork` fails in `initAsDaemon` the command itself goes on as the master; the
model keeps them as two processes, which differs only in who waits for the
command. A forked pid is not given to this program a second time; strangers may
get it. `restart` does not go on to `start` when its `stop` timed out.

### HostCache: state and actions

The memory of one `DdCache` is shared and each of two workers has its own frame
(`pc`, the arguments and cursors of its call, its last answer), so the module is
two instances of `DdCache` over the same memory: `ThreadA` takes a step of the
first and leaves the other's frame alone. A worker gets a host, and puts it when
the get failed (`GetUrlA`, `GetUrlB`), in any order with the other, and a second
may pass at any moment (`Second`). The steps interleaved are those of `DdCache`,
whole stretches between two loops; the code gives less atomicity than that, so
what goes wrong here goes wrong there, and the converse is not claimed.

### CacheGeometry: state and actions

`arg` are the options `-n -b -v -s -m`, `pc` says which loop runs and `x` is its
variable: `threads` and `bucket` are `get_2pow_size`, `slice` is `get_slice_sz`,
`pow` is `get2pow`, `max` is `get_max_size`; `map` is where `init` maps the first
slice. Every product is taken modulo `Word` where the code keeps it in a u32,
that of `get_hasher_ptr` (`Place`) included. An option is any u32: `atoi` gives an
int, which is below 0 for a word like `" -1"` (`parseCmdLine` takes only a word
that begins with `-` for the next option) or for one it cuts off. The length of
a slice, `m_slice_buf_len`, is an int: from half of a u32 on it is negative, as a
`size_t` more than any memory, so that `mmap` fails; its result is zeroed before
it is tested, and the process dies (`MapCrashes`). A loop that never ends is a
behaviour that turns for ever, and a division by zero is `PowCrashes`. The
results are the constants `BucketCnt`, `SliceSz`, `ChunkLen` and `MaxBytes` of
`DdCache`; `ChunksApart` is why `DdCache` may speak of chunk offsets where the
code computes addresses.

## Runs

`pass` runs. States are what TLC reports, bounds are those of the `.cfg` files.

| Run | Question | Bounds |
|---|---|---|
| `worker` (204 000 states) | Below the eviction limit: are chunks partitioned between the values and the free list, do the counters and both queues agree, does an expiry delete only the expired, does a valid page leave its bucket only when `del_off` empties it for an entry that expired or is replaced, is the access order kept, and is the cache a `UrlCache`, which includes that every call returns? | 3 urls, two of them in one bucket, a page of 1 chunk, one of 2, and a `Big` one of 1 (stored, found, unreadable, replaced, at most once a second), 2 slices of 4 chunks, clock to 2 with expire time 1 |
| `slow_owner` (1 652 000) | Values of both sizes, replaced under eviction: do types, links in mapped memory and freshness survive? | one put a second and five seconds, any number of other calls, 4 chunks of 2 bytes, a buffer that the longest value overruns by its last chunk, `Word` 8 so that the counters and the product compared with the limit wrap; four puts suffice for a chunk freed twice, a buffer overrun or a hash followed as a link |
| `one_chunk_values` (744 000) | Any owner with values of one chunk, replacing and disk failures included: do chunks, counters and queues agree, and is the value put last served while older copies lie in the queues? | 2 urls in one bucket, 4 chunks, the disk may fail at any allocation; two values of one chunk (symmetric), an empty one and one too long to store; clock to 1 with expire time 0, so that an expiry frees more than one chunk; states that differ only in the history `log` are one (`VIEW`) |
| `queue` (41 000) | Is the ring a bounded queue, without a shared slot or a torn request? | 3 requests, 3 places, so the indices wrap and the queue fills |
| `server` (163 000) | Is every connection in one place only, answered with its own page or closed, each url stored by one thread, is a request of a thread answered whatever other targets do, and does a signal at any moment end the process once clients and targets end what they send? | 2 threads, queues of 1, 2 clients' connections, of which the first accepted is called `c1`, and the test connection, a url of each queue; the empty url is one of them |
| `daemon` (40 000) | Whatever two commands, a signal and a fault do to each other: does a server keep its master, does a shutdown end both, does a crash come to a server again, and does one of two masters end? | a start and any other command, in any order or at once, 6 pids, one fault: a crash, a kill -9 of a child or of a master, a failing fork or a reused pid |
| `geometry` (532 000) | For which options does `init` end, and not by a crash, and are threads, buckets, slices, addresses and the limit what the rest of the code takes them for? | 12 bit words with the constants of `ddcache.h` in the same proportions; 31 values for threads and buckets, 1584 combinations of value, slice and limit around every boundary, negative ones among them |

Two urls in one bucket and one outside it, a value that needs a second chunk, and
memory that is used up and reused are what the list code distinguishes; expire
time 1 with a clock to 2 lets an entry be valid and expire, alone or with others
behind it in the queue. The eviction runs set `EliminateDiv` to 1 where the code
has 100: the code's threshold needs 200 entries, and the divisor only decides how
many are deleted. `slow_owner` reaches double frees, and what follows from them,
by bounding the number of puts; the proofs below cover the rest.

`violation` runs show where the code differs from what the repository says of
it; each is a finding in `PROJECT.json`, with the quoted line.

| Run | The code does | It is said |
|---|---|---|
| `evict_debug` | eviction frees a chunk twice, `debug=1` then follows a hash as a link | debug=1 prints the use of the cache (readme:13) |
| `redundant` | deleting one entry unlinks its whole bucket; the others are stored again | no redundant data (readme:72) |
| `missing_thread` | requests hashed to a thread that could not be created are never answered nor closed | on a miss the page is fetched and returned (readme:46) |
| `host_cache` | a worker is given the address of another host | each thread's data are independent (readme:72) |
| `stop_lost` | a stop after a start that is over stops nothing | start starts, stop stops (readme:37) |

Because of the first row of this table `ChunksPartitioned`, `CountsMatch` and
`QueuesAgree` are checked where they hold: for the worker below the eviction
limit, and for any owner whose values fit one chunk. `put` over a key the cache
holds loses all chunks of the new value but the first (`ddcache.h:328`). The
worker puts only after a miss, so this concerns other callers of the class, and
the worker with one kind of page: a `Big` one, of more than 1M before it is
compressed, that takes several chunks after it. It is stored, fails to
decompress at every get, and is put again over itself. The `Big` page of the run `worker` has one chunk, and nothing is lost
when one chunk replaces one.

`MissExplained` speaks of the steps that take a page away, not of a history: the
only one is `del_off` emptying the bucket of the page, for an entry that has
expired at that moment or one that `put` replaces. The entry may be an older copy
of the same url, which a former such step left in the queues; a page put again and
still valid can be lost to its own past. That is the code's doing, and allowed.

The latest value is another property that holds only there. When `put`
replaces values of several chunks, the chunks freed and used twice can tie the
chains of two buckets together, and a `get` then returns an older copy of its
url, one that has not expired, although a newer one was put. It takes about 13
puts in one life and two buckets with two urls each, no eviction and no expiry:
more than a run reaches, found by random simulation and retraced step by step
with TLC. `ServedLatest` is therefore checked by `one_chunk_values` and proved
for the owners named below, and `ServedFresh` is all that any owner has.

What else the code does and a reader may not expect, seen in the models but
without a run of its own: an eviction may begin with the entry used last, since
a hit on the only entry loses `access_end`; no eviction happens below 200
entries. In the same way, in `CacheGeometry`:

- `init` never returns for the value size 1048576, and the doubling loops never
  end for a negative `-n`, `-b` or `-v`;
- `-v 1000 -s 1100000` makes the length of a slice a negative int and the process
  dies in `init`; `-v 16 -s 100000000` makes it wrap to 0, a division by zero;
- `-m 4097` is taken for `-m 1`, since the product of `init` wraps: the memory limit
  of the readme (readme.txt:38) is one for options up to 4095;
- when a slice divides the bytes asked for, the limit is bytes taken for
  megabytes, which wraps to 0;
- more than 32768 threads are none;
- chunks of a value size below the length of their header, or so near to 1M that
  the header makes them longer, may share bytes when the product wraps.

The preconditions of `ChunksApart` (`Ordinary`), `InitSurvives`, `MaxSizeNear`,
`InitReturns` (`Sane`, `Limited`) and `EveryQueueReached` name just these cases.
`MaxSizeNear` compares with `Asked`, what the option says in bytes before any
wrap.

`StopLost` excludes all faults and runs the two commands one after the other.
The trace TLC finds is the stop that reads a file not yet written; when that is
excluded there is a second one, in which SIGUSR1 reaches the child before it has
its handler, and the master takes its death for a crash and forks again.

Two commands with one fault use at most six pids: two masters, a child of each,
and two children forked again, one after the fault and one after a SIGUSR1 that
came too early. The 12 bit words keep the relations between the constants that
matter (`MaxVal * PageMin = Word`, `PageMax = Word / 4`, `GeometryAssumption`),
so that each product wraps where it does in 32 bits.

Two connections and queues of one request let a queue be full while its worker
serves, let the second connection meet what the first left in `strSend`, and
let one wait in `listen`'s backlog while the other is served. Two threads are
enough for one that holds the handler and one that does not, or for one that
was not created. The proofs lift the bounds for the safety properties.

## Fairness

`WorkerSpec` assumes `WF_vars(Step)`: the thread inside a call goes on. It
assumes nothing of callers, of the clock or of restarts. `RingQueue!FairSpec`
assumes that the worker thread goes on polling and that an acceptor inside `in`
finishes it, both plain scheduling by the operating system; nobody is assumed
to connect. `RingQueue` has no shutdown, so its worker polls for ever; `Server`
has it.

`Server!FairSpec` assumes weak fairness of the main thread and of each worker
outside their loops of `recv`, and of the handler. That those steps end is
justified by the code: `send` and `connect` have timeouts (`setTimeOut`), polling
sleeps and tests again, and the calls of the cache return (`ImplementsUrlCache`,
below the eviction limit; `evict_debug` shows where they might not, and the
liveness results of `Server` do not cover that). The two loops of `recv`
(`ServerFrame.cpp:111-122`, `HttpRequest.cpp:94-105`) have a timeout for each
`recv` only and do not look at `m_bShutdown`: a client or a target that goes on
sending keeps the thread there for ever. So `Receive`, `ReceiveView`, `Fetched`
and `RecvFails` are not fair, and the properties say what they depend on:
`ClientsEnd` is that the main thread never stays in its loop, `TargetsEnd(w)` that
worker `w` does not. `Served` needs `TargetsEnd` of the thread that has the
request and of no other, and nothing of clients; `ShutdownEnds` needs both, of
all. `AcceptError` is not fair: errors of `accept` need not come. Clients need not
connect and no signal need come. The main thread's wait in `accept` is fair only
as far as there is something in the backlog.

`Daemon!FairSpec` assumes that a master, a child and a command that has begun go
on, and that a signal sent arrives. No command has to begin, and no fault is fair.
`Leave` is fair because runServer ends when the flag is set: this rests on
`Server!ShutdownEnds` and on its conditions, so `ShutdownTakesMaster`,
`CrashRestarted` and `OneMasterRemains` are for clients and targets that end what
they send. `CrashRestarted` follows a lost child to the place where the property
is about something: not until its master forks again but until a child of it
serves, or exits because the port is taken or a stop came. `CacheGeometry` is one
thread that runs.

## Proofs

`DdCacheProofs` proves, for every set of keys and values, every geometry, every
hash that separates the keys and every order of calls:

- `TypeCorrect`: `Spec => []TypeOK`;
- `LinksAlwaysMapped`: `Spec => []LinksMapped`;
- `ServedIsFresh`: `Spec => ServedFresh`.

They use only `SizesAssumption`, `DataAssumption` and `HashAssumption` of
`DdCache`. All three follow from one inductive invariant, `IInv`: links lie
within the mapped slices (`MemoryOK`, `HeaderOK`), a loop runs only for the call
it belongs to (`FrameOK`), no answer is pending while a call runs (`ReplyOK`),
every chunk that holds the first piece of a value under a key's hash is backed
by a put in `log` with its expire time (`History`), and the chunk being copied
has the key's hash and has not expired (`Reading`). `TypeOK` alone is not
inductive: that `off` is a chunk again after `view`, that `key` is a key in
`put_val`, and that what `Touch` checked still holds in `ReadEnd` need the other
parts. The invariant deliberately says nothing of how lists relate, so it
survives the double frees the violation runs show: even then a hit is never a
wrong or stale page and no list but the free list leaves mapped memory.

`RingQueueProofs` proves for every `Size` and every set of requests
`TypeCorrect`, `SlotsNeverShared`, `RequestsWhole` and `Refinement`
(`Spec => B!Safety`). Its invariant adds to the types that what a thread tested
(`not full`, `not empty`) stays true while the other moves (`Apart`), and that
all slots between the indices hold whole requests (`Whole`).

`ServerProofs` proves for every number of threads, queue length, set of
connections and urls, and every hash (`CountAssumption`, `HomeAssumption`,
`SockAssumption`): `TypeCorrect`, `InvalidNeverServed`, `ConnectionsAccounted`,
`AnswersMatch` and `UrlsApart`. The first four come from one invariant, because
they need each other:

- that a worker never serves socket -1 needs that the main thread queues it
  only once the flag is set, and that a worker which read a clear flag had seen
  its queue not empty while it was clear (`InvalidOnlyInShutdown`); nobody but
  that worker takes from the queue;
- that an answer is of what was read needs that the request is unchanged on its
  way (`Remembered`), and that reading from one connection does not change what
  is known of another's request, which needs that a connection is in one place
  (`Accounted`, by `MainAlone`);
- `Accounted` needs that the worker closes a real connection, and that the test
  connection is not accepted before it is made (`Frame`).

A step moves a connection in one of a few ways, each a lemma: it is picked up
(`Acquired`), put down (`Released`), handed over (`HandedOver`) or moves up in
a queue (`MovedUp`). `UrlsApart` adds that a queue, a worker's hand and its
cache hold only urls of that thread (`AtHome`).

`DaemonProofs` proves for any number of pids, commands and faults
(`CountAssumption`) `ServersHaveMasters`: a server that will go on serving has a
master that waits for it, unless that master was killed with SIGKILL. It is
`Spec => []ServerHasMaster`, from the invariant `IInv`: by itself the property
is not inductive, since a SIGUSR1 sent by one master could hit another; that it
does not needs that a process is a master or a child for good and that the pids
a master holds are of children (`Kinds`). After a failed fork the signal goes to
everybody but its sender, and then no server is left that would go on: those
with a handler are shut down and the others die.

### The lists of a cache

`LinkedListProofs` is about the operators `ListFrom`, `Nodes` and `Ends`, which
follow links to their end. `Linked(f, s)` says that there is a list from `s`
along `f`; the lemmas say what its nodes are after a node was pushed
(`ListPush`), popped (`ListPop`) or cut out (`ListCut`), after a list was tied in
front of another (`ListJoin`), and for lists that are linked back as well
(`BothWaysPush`, `BothWaysCut`); `Leads` and `Skips` say what becomes of their
order. `ListFrom` is a recursive function over the number of nodes, so these
rest on an induction of their own (`NatInd`), over sets instead of a predicate.

`CacheListProofs` proves, for every set of keys and values and every geometry,
from `LInv`:

- the access and the expire queue hold the same entries, linked both ways
  (`ListsOK`); each bucket leads to entries of its own (`BucketsOK`);
- the values are lists that end, no two share a chunk, and every chunk handed
  out is in one of them, free, or being freed (`ValuesOK`). In the middle of a
  put the last chunk of the new value still has the link it had when it was
  free; `Ends0` are the links with that one closed. In the middle of `del_off`
  the chunks of a value are split at `p` between those tied to the free list to
  be (`Gone`) and the rest (`FreeingOK`);
- the counters are cardinalities (`CountsOK`), also between two chunks;
- behind an entry of the expire queue are only older ones (`AgesOK`): this is
  why `_flush_expire` may delete without looking;
- what each loop knows of its cursor (`CallOK`).

`ChunksStayPartitioned`, `CountsStayRight`, `QueuesStayAgreed` and
`FlushesOnlyExpired` are what `LInv` says between two calls, and
`OrderStaysUsed` is the action property `AccessOrderKept`: the access queue is
in order of use at every step, inside the calls too.

These are theorems of `GentleSpec`, not of `Spec`, of which they are false, as
`evict_debug` shows for the first of the three steps it leaves out. They are
`EvictOne` (`do_eliminate` goes by `access_end`, which a hit does not set), a
`Replace` in which the old or the new value has several chunks (`put` loses the
chunks behind the first), and an `AllocFail` half way through a value (the
rest of the value is tied to chunk 0). So the theorems speak of every behaviour
up to the first such step. A copy that overruns a buffer stays a step of it;
after it there are no lists to speak of until the restart (`Alive`, `Lists`).

Of the three steps an owner whose values fit one chunk (`OneChunkValues`) can
take the first only, whatever it calls, replaces or deletes and wherever an
allocation fails: `OneChunkGentle`. So `OneChunkLists` and `OneChunkAnswers` are
the results for such an owner up to the first chunk `do_eliminate` deletes
(`UnevictedSpec`); for it they also say that it does not crash at all. Nothing is
assumed of the limit. Below 200 entries `do_eliminate` deletes nothing, and above
it deletes once the limit is passed, which the default options allow: what holds
from then on is what `DdCacheProofs` says.

### What a get returns, and the worker

`CacheWorkerProofs` adds to the lists what their chunks hold (`CInv`): every
entry a bucket leads to has the value put last for its key and its expire time
(`ChainOK`), the walk along a bucket has not passed the key it looks for
(`WalkOK`), behind the n-th chunk of a value comes its piece n + 1, and the
last is the last (`PiecesOK`), and the copy under way is of the latest value,
piece for piece (`ReadOK`). The access queue may hold older copies of a key,
which `del_off` cut off with the rest of their bucket; that no walk reaches one
is why `ServesLatest` holds. `OnlyLongestCrashes` follows too, a theorem of the
same behaviours (`GentleSpec`): the free list has chunks only, and a copy ends
with its value. That is before its buffer does, unless the value is a longest
one (`MaxPieces` chunks, of which `BufPieces` fit): only a put or a get of such a
value crashes, and none when the value size of a chunk divides 1M. In the same
behaviours debug=1 gets its answer (`DebugGetsAnswer`), which it does not in
`evict_debug`.

For the worker (`RoomySpec`: `WorkerSpec` without its fairness, up to the first
eviction, the first page that runs out of memory half way, and the first `Big`
page of several chunks that is put over itself) `WInv` adds what the worker does
not do: it deletes nothing by name (`RolesOK`), a put follows a get of the same
url that failed, so that what is replaced is a page it could not read
(`MissedOK`), and what a get flushes is behind an entry of its url that has
expired (`FlushedOK`). `Sound` is the whole invariant, up to a crash. With it
`MissesExplained` follows step by step: the only step after which a bucket no
longer leads to a page is `del_off` emptying it.

`WorkerIsUrlCache` is the refinement of `UrlCache`, its fairness excepted. A get
of the url cache is answered where the code's loops answer it; deleting the
expired, freeing chunks and storing piece after piece are stutters
(`DeletesUnseen`, `PiecesStore`). It needs `ServedLatest` for a hit, `WInv` for
an expiry, and that nothing is deleted that is not expired.

Nothing is assumed of the sizes of pages. A page of more than 1M that compresses
to one chunk is replaced at every miss, and the theorems hold on; only its
replacement in several chunks ends what they speak of, and from then on chunks
are lost.

### The geometry

`CacheGeometryProofs` proves the six invariants of the `geometry` run for words of
any width (`GeometryAssumption`: the limits of `ddcache.h` are powers of two in
the order they have there, `PageMax` is a quarter of a word's values and `MaxVal *
PageMin` all of them). The invariant `IInv` has a part for each loop: while a loop
doubles, its variable is a power of two that was too small one round ago, or has
wrapped to 0 for good. In the loop of `get_slice_sz` the product with the value
size fits a u32 unless the value size is `MAX_VAL_LEN`; elsewhere products do
wrap, and the theorems say what holds then. `ChunksStayApart` takes the address of
a chunk as the code computes it, modulo a u32, and shows for ordinary value sizes
and for every offset of two slices that nothing wraps once a slice could be mapped
at all; `InitAlwaysSurvives` says which options get there. The lemmas on powers of
two, quotients and products, of which the provers know nothing, stand in front of
the module.

### What is only model-checked

Liveness: `Served`, `ShutdownEnds`, `ShutdownTakesMaster`, `CrashRestarted`,
`OneMasterRemains`, `InitReturns`, and what `ImplementsUrlCache` and
`ImplementsBoundedQueue` say of fairness, that every call is answered. All
safety properties of the passing runs are proved, those of `DdCacheProps` for
the behaviours described above. `ServedLatest` is false for an owner that
replaces values of several chunks (see the runs above); whether the worker, which
replaces nothing, keeps it under evictions is open: random simulation found no
counterexample, and `LInv` does not hold there.

## Not modelled, and the plan

In order of importance:

1. Descriptors: `getUrl` leaves its socket open when it fails, until none is
   left for `accept` or for `closeServer`; a second signal closes a number that
   may be in use again. Needs descriptor numbers in `Server`.
2. Proofs: whether the worker is served the latest value after an eviction, and
   that its cache needs no more memory than the limit says.
3. Composition of `Daemon` with `Server`: the signal as a step of both.
4. Pure functions: `urlDecode`, `parseRequest`.

Left out for good: socket and file I/O, configuration, the client library (one
blocking call), printing, `nokey_static_hash`, which no program of the
repository includes, and `use_file=true`, which nothing passes.
