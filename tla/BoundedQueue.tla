---------------------------- MODULE BoundedQueue ----------------------------
(***************************************************************************)
(* What the acceptor and a worker thread expect of the queue between them: *)
(* at most Size requests, first in first out, each step atomic.            *)
(***************************************************************************)
EXTENDS Integers, Sequences

CONSTANTS Items, Size, NoItem

VARIABLES
  q,         \* the requests waiting
  accepted,  \* what the last in() returned
  got        \* what the last out() returned

vars == <<q, accepted, got>>

Init == q = <<>> /\ accepted = TRUE /\ got = NoItem

In(x) ==
  /\ Len(q) < Size
  /\ q' = Append(q, x) /\ accepted' = TRUE
  /\ UNCHANGED got

Refuse ==
  /\ Len(q) = Size
  /\ accepted' = FALSE
  /\ UNCHANGED <<q, got>>

Out ==
  /\ q # <<>>
  /\ got' = Head(q) /\ q' = Tail(q)
  /\ UNCHANGED accepted

Next == (\E x \in Items : In(x)) \/ Refuse \/ Out

Safety == Init /\ [][Next]_vars
\* The worker thread never stops taking requests.
Spec   == Safety /\ WF_vars(Out)
=============================================================================
