------------------------------ MODULE MCDaemon ------------------------------
(* Instances of Daemon for TLC.                                             *)
EXTENDS Daemon

CONSTANTS c1, c2

\* Two commands at once, in any order, one of them a start.
AnyOps   == [c \in Cmds |-> IF c = c1 THEN {"start"} ELSE Ops]
AnyOrder == [c \in Cmds |-> {}]

\* A start, and when it is over a stop.
StartStop == [c \in Cmds |-> IF c = c1 THEN {"start"} ELSE {"stop"}]
StartThen == [c \in Cmds |-> IF c = c2 THEN {c1} ELSE {}]
=============================================================================
