---------------------------- MODULE DdCacheProps ----------------------------
(***************************************************************************)
(* The data structure inside one ddcache, seen between two calls: which    *)
(* chunks its lists hold and how the lists relate; and what the calls      *)
(* promise to their owner.  Most of it holds for some owners only (the     *)
(* worker thread of the server, or an owner whose values fit one chunk):   *)
(* each run says for whom it checks what.                                  *)
(***************************************************************************)
EXTENDS DdCache, LinkedList

Idle    == pc = "idle"
Free    == Nodes(lo, free_beg)
Entries == Nodes(aNext, access_beg)
Value(h) == Nodes(expand, h)

\* Every chunk handed out so far is either free or part of exactly one value
\* of the access queue: del_off and put_val neither lose a chunk nor put one
\* in two places, so no value is ever written over another.
ChunksPartitioned ==
  Idle =>
    /\ Ends(lo, free_beg) /\ Ends(aNext, access_beg)
    /\ \A h \in Entries : Ends(expand, h) /\ Value(h) \cap Free = {}
    /\ \A g, h \in Entries : g # h => Value(g) \cap Value(h) = {}
    /\ Free \cup UNION {Value(h) : h \in Entries} = 1..(alloc_cnt - 1)

\* What debug=1 reports as chunk_cnt and items is what is really stored: the
\* counters of put_val, del_off and its expand loop agree.
CountsMatch ==
  Idle => /\ element_cnt = Cardinality(UNION {Value(h) : h \in Entries})
          /\ key_cnt = Cardinality(Entries)

\* The two queues hold the same entries, each queue is linked back as it is
\* linked forward (chunk 0 closes both), and a bucket leads to entries whose
\* key belongs to that bucket.
QueuesAgree ==
  Idle =>
    /\ Ends(eNext, expire_beg) /\ Nodes(eNext, expire_beg) = Entries
    /\ \A o \in Entries : aPre[aNext[o]] = o /\ ePre[eNext[o]] = o
    /\ access_beg # 0 => aPre[access_beg] = 0
    /\ expire_beg # 0 => ePre[expire_beg] = 0
    /\ \A b \in Buckets :
         /\ Ends(next, bucket[b])
         /\ \A o \in Nodes(next, bucket[b]) : o \in Entries /\ BucketOf(lo[o]) = b

\* _flush_expire deletes the rest of the expire queue without looking at the
\* expire times: it never throws away an entry that is still valid.
FlushOnlyExpired ==
  pc = "flush" /\ off # 0 => expireAt[off] < now

\* A hit moves its entry to the front of the access queue, del_off takes its
\* entry out of it and put_val enters a new one in front; none of them changes
\* the order of the others, and nothing else but a restart changes the queue.
AccessOrder ==
  LET before == ListFrom(aNext, access_beg)
      after  == ListFrom(aNext', access_beg')
  IN  IF Found /\ pc' = "read"
        THEN Leads(off, Tail(after), after) /\ Skips(before, off, Tail(after))
      ELSE IF pc' = "free" /\ p' = off' THEN Skips(before, off', after)
      ELSE \/ after = before
           \/ pc = "alloc" /\ Leads(access_beg', before, after)
           \/ alloc_cnt' = 1 /\ after = <<>>
AccessOrderKept == [][AccessOrder]_vars

\* A hit returns the value stored last for its key, although an older copy
\* may still lie in the queues. An owner that replaces values of several chunks
\* loses this after some ten puts: two buckets come to share a chain.
ServedLatest ==
  [][pc = "read" /\ reply'.st = "ok" => latest[key][1] = reply'.val]_vars

\* The bucket of k leads to an entry of k; what was stored last for k is valid.
Chain(k)     == Nodes(next, FirstIn(k))
Kept(k)      == \E o \in Chain(k) : HashIs(o, k)
StillKept(k) == \E o \in Nodes(next', FirstIn(k)') : HashIs(o, k)'
Valid(k)     == latest[k][1] # None /\ now <= latest[k][2]

\* del_off takes an entry out of the bucket of k: one that has expired, an old
\* copy of k among them, or the one that put_val is about to replace.
Emptied(k) ==
  /\ pc' = "free" /\ p' = off' /\ BucketOf(lo[off']) = BucketOf(HashLo[k])
  /\ Expired(off') \/ (op = "put" /\ HashIs(off', key))

\* get misses a page only when its bucket does not lead to it; and a page that
\* was just stored, or was there and is still valid, is out of its bucket only
\* in the step in which del_off empties the bucket for another entry of it
\* that has expired, or for one that is replaced.
Explained ==
  /\ pc = "find" /\ reply'.st = "not_found" => ~Kept(key)
  /\ \A k \in Keys : Valid(k)' /\ ~StillKept(k) /\ (latest'[k] # latest[k] \/ Kept(k))
                      => Emptied(k)
MissExplained == [][Explained]_vars

-----------------------------------------------------------------------------
(* What the readme and the comments of the code say, and the code does not *)
(* do; DdCache.tla says why at del_off, Touch and EvictEnd.                *)

\* readme:72: a url is stored by one thread only and so never redundantly.
NoRedundantCopies ==
  Idle => \A g, h \in Entries : <<hi[g], lo[g]>> = <<hi[h], lo[h]>> => g = h

\* readme:13: debug=1 prints how the cache of a thread is used.
DebugAnswers == ~(op = "view" /\ pc = "crashed")
=============================================================================
