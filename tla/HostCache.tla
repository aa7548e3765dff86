----------------------------- MODULE HostCache -----------------------------
(***************************************************************************)
(* m_cacheNameToHost: one ddcache from host names to addresses, which all  *)
(* worker threads call inside getUrl, without a lock.  Two workers A and B *)
(* share the memory of the cache and each has a call frame of its own; the *)
(* steps of both are those of DdCache.                                     *)
(*                                                                         *)
(* The steps of two threads interleave here; that each of them is atomic   *)
(* is more than the code gives, so the real program has more behaviours.   *)
(***************************************************************************)
EXTENDS Integers

CONSTANTS Keys, Vals, None, HashHi, HashLo, Pieces, Big, BucketCnt, SliceSz,
          SliceMax, MaxPieces, BufPieces, ChunkLen, MaxBytes, EliminateDiv, ExpireTime,
          MaxTime, Word, DiskMayFail

VARIABLES
  \* what the threads share
  bucket, hi, lo, piece, next, expand, aPre, aNext, ePre, eNext, expireAt,
  element_cnt, key_cnt, alloc_cnt, slice_cnt,
  free_beg, access_beg, access_end, expire_beg, now, log, latest,
  \* what each has for itself
  pcA, opA, keyA, valA, offA, pA, cntA, limitA, retA, goodA, replyA,
  pcB, opB, keyB, valB, offB, pB, cntB, limitB, retB, goodB, replyB

memory == <<bucket, hi, lo, piece, next, expand, aPre, aNext, ePre, eNext, expireAt,
            element_cnt, key_cnt, alloc_cnt, slice_cnt,
            free_beg, access_beg, access_end, expire_beg>>
frameA == <<pcA, opA, keyA, valA, offA, pA, cntA, limitA, retA, goodA, replyA>>
frameB == <<pcB, opB, keyB, valB, offB, pB, cntB, limitB, retB, goodB, replyB>>

A == INSTANCE DdCache WITH pc <- pcA, op <- opA, key <- keyA, val <- valA, off <- offA,
       p <- pA, cnt <- cntA, limit <- limitA, ret <- retA, good <- goodA, reply <- replyA
B == INSTANCE DdCache WITH pc <- pcB, op <- opB, key <- keyB, val <- valB, off <- offB,
       p <- pB, cnt <- cntB, limit <- limitB, ret <- retB, good <- goodB, reply <- replyB

vars == <<memory, now, log, latest, frameA, frameB>>

Init == A!Init /\ B!Init

\* getUrl: the address of a host is looked up only when get has failed, the
\* look-up takes any time, and its result is put.
GetUrlA ==
  \/ \E k \in Keys : A!GetCall(k)
  \/ \E v \in Vals : /\ replyA.op = "get" /\ replyA.st # "ok"
                     /\ A!PutCall(replyA.key, v)
GetUrlB ==
  \/ \E k \in Keys : B!GetCall(k)
  \/ \E v \in Vals : /\ replyB.op = "get" /\ replyB.st # "ok"
                     /\ B!PutCall(replyB.key, v)

ThreadA == (GetUrlA \/ A!Step) /\ UNCHANGED frameB
ThreadB == (GetUrlB \/ B!Step) /\ UNCHANGED frameA

\* A second passes, whatever the threads are doing.
Second ==
  /\ now < MaxTime /\ now' = now + 1
  /\ UNCHANGED <<memory, log, latest, frameA, frameB>>

Next == ThreadA \/ ThreadB \/ Second

Spec == Init /\ [][Next]_vars

-----------------------------------------------------------------------------
\* readme:72: the data of each thread are independent.  Were they so here too, a
\* hit would be an address put under that very host (DdCacheProofs!ServedIsFresh).
RightHost ==
  replyA.st = "ok" => \E t \in A!Time : <<replyA.key, replyA.val, t>> \in log
=============================================================================
