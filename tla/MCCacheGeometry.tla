-------------------------- MODULE MCCacheGeometry --------------------------
(* Options around every boundary of CacheGeometry, for TLC.                *)
EXTENDS CacheGeometry

Usual == [n |-> 2, b |-> 20, v |-> 20, s |-> 10, m |-> 5]

\* Threads and buckets alone, value, slice and limit together; from 2048 on
\* the options are negative.
ArgsDef ==
  {[Usual EXCEPT !["n"] = i] :
       i \in {0, 1, 2, 3, 16, 17, 32, 33, 64, 1024, 1025, 2047, 2048, 2049, 4095}}
    \cup {[Usual EXCEPT !["b"] = i] :
             i \in {0, 1, 2, 15, 16, 17, 32, 33, 255, 256, 257, 1025, 2047, 2048, 2049, 4095}}
    \cup {[Usual EXCEPT !["v"] = v, !["s"] = s, !["m"] = m] :
            v \in {0, 1, 2, 3, 4, 5, 13, 61, 64, 252, 253, 255, 256, 300, 2047, 4095},
            s \in {0, 1, 2, 16, 17, 64, 205, 512, 1024, 2047, 4095},
            m \in {0, 1, 3, 8, 15, 16, 17, 2047, 4095}}
=============================================================================
