--------------------------- MODULE MCCacheWorker ---------------------------
(* Instances of CacheWorker (and, for any owner, of DdCache) for TLC.       *)
EXTENDS CacheWorker

CONSTANTS k1, k2, k3, k4, v1, v2, v3, v4

\* k1 and k2 share a bucket; no lower half of a hash is the offset of a chunk.
HashHiDef == [k \in Keys |-> CASE k = k1 -> 1 [] k = k2 -> 2 [] k = k3 -> 3 [] OTHER -> 4]
HashLoDef == [k \in Keys |-> CASE k = k1 -> Word - 4 [] k = k2 -> Word - 2
                               [] k = k3 -> Word - 3 [] OTHER -> Word - 1]

\* v2 needs two chunks, the others fit one.
PiecesDef   == [v \in Vals |-> IF v = v2 THEN 2 ELSE 1]
\* v2 is the empty string, v3 is too long to be stored.
OneChunkDef == [v \in Vals |-> CASE v = v2 -> 0 [] v = v3 -> 3 [] OTHER -> 1]
\* No operation tells v1 from v4.
SameLength  == Permutations({v1, v4})
\* Spec only adds to log, and what OneChunk.cfg checks does not read it.
WithoutLog  == <<memory, now, pc, call, cursors, reply, latest>>
-----------------------------------------------------------------------------
\* An owner that puts at most one value a second, so MaxTime + 1 in all.
SlowPut(k, v) ==
  /\ \A e \in log : e[3] # now
  /\ PutCall(k, v)

SlowNext ==
  \/ \E k \in Keys : GetCall(k) \/ DelCall(k)
  \/ \E k \in Keys, v \in Vals : SlowPut(k, v)
  \/ ViewCall
  \/ Step \/ Tick \/ Restart

SlowSpec == Init /\ [][SlowNext]_vars

\* A worker to whom the page of k1 comes in one chunk, that of k2 in two, and
\* that of k3, too long for MAX_VAL_LEN before compression, in one; it asks for
\* k3 at most once a second, since it never gets it from the cache.
Page(k) == CASE k = k1 -> v1 [] k = k2 -> v2 [] OTHER -> v3

Again(k) == \E e \in log : e[1] = k /\ e[3] = now

PagesNext ==
  /\ WorkerNext
  /\ pc = "idle" /\ op' = "put" => val' = Page(key') /\ ~(key' = k3 /\ Again(k3))

PagesSpec == Init /\ [][PagesNext]_vars /\ WF_vars(Step)
=============================================================================
