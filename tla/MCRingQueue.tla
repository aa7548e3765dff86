---------------------------- MODULE MCRingQueue ----------------------------
(* An instance of RingQueue for TLC: a ring of four slots goes round often  *)
(* enough for every pair of front and rear, and three requests tell apart   *)
(* every two that could be mixed up.                                        *)
EXTENDS RingQueue
=============================================================================
