---------------------------- MODULE MCHostCache ----------------------------
(* The instance of HostCache for TLC: two hosts, each with its address.     *)
EXTENDS HostCache

CONSTANTS k1, k2, v1, v2

HashHiDef == [k \in Keys |-> IF k = k1 THEN 1 ELSE 2]
HashLoDef == [k \in Keys |-> Word - (IF k = k1 THEN 1 ELSE 2)]
PiecesDef == [v \in Vals |-> 1]
=============================================================================
