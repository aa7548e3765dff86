----------------------------- MODULE RingQueue -----------------------------
(***************************************************************************)
(* ring_queue (util/ring_queue.h): the queue by which the accepting thread *)
(* hands requests to one worker thread, without a lock.  m_front belongs   *)
(* to the worker and m_rear to the acceptor; each reads the other's index  *)
(* as it happens to be.  A slot holds a socket, a string and two more      *)
(* fields, so writing or copying one takes several steps.  The order of    *)
(* the steps is the program order, which the compiled code keeps and x86   *)
(* shows to the other thread; the C++ source alone would not promise it.   *)
(***************************************************************************)
EXTENDS Integers, Sequences

CONSTANTS
  Items,   \* the requests
  Size,    \* m_sz; the array has one slot more
  NoItem,  \* m_inval_val, and what was in a slot before it was first written
  Torn     \* a slot, or a copy of one, with fields of two requests

ASSUME SizeAssumption == Size \in Nat \ {0}
ASSUME ItemAssumption == NoItem \notin Items /\ Torn \notin Items /\ NoItem # Torn

VARIABLES
  front, rear, data,       \* m_front, m_rear, m_data
  ppc, item, accepted,     \* the acceptor: inside in(item); its last result
  cpc, copy, got           \* the worker: inside out(); its last result

vars == <<front, rear, data, ppc, item, accepted, cpc, copy, got>>
acceptor == <<rear, ppc, item, accepted>>
worker   == <<front, cpc, copy, got>>

Slots == 0..Size
FollowingUnwrapped(i) == i + 1
Following(i) == IF i = Size THEN 0 ELSE i + 1

IsEmpty == front = rear
FullWhenWrapped == rear - front = Size
IsFull == front = rear + 1 \/ rear - front = Size

Init ==
  /\ front = 0 /\ rear = 0 /\ data = [i \in Slots |-> NoItem]
  /\ ppc = "idle" /\ item = NoItem /\ accepted = TRUE
  /\ cpc = "poll" /\ copy = NoItem /\ got = NoItem

-----------------------------------------------------------------------------
(* in(): runServer closes the socket of a request that is refused.         *)

Refuse ==
  /\ ppc = "idle" /\ IsFull
  /\ accepted' = FALSE
  /\ UNCHANGED <<data, rear, ppc, item, worker>>

Accept(x) ==
  /\ ppc = "idle" /\ ~IsFull
  /\ ppc' = "write" /\ item' = x
  /\ UNCHANGED <<data, rear, accepted, worker>>

WriteBegin ==
  /\ ppc = "write" /\ ppc' = "writing"
  /\ data' = [data EXCEPT ![rear] = Torn]
  /\ UNCHANGED <<rear, item, accepted, worker>>

WriteEnd ==
  /\ ppc = "writing" /\ ppc' = "publish"
  /\ data' = [data EXCEPT ![rear] = item]
  /\ UNCHANGED <<rear, item, accepted, worker>>

Publish ==
  /\ ppc = "publish" /\ ppc' = "idle"
  /\ rear' = Following(rear)
  /\ item' = NoItem /\ accepted' = TRUE
  /\ UNCHANGED <<data, worker>>

-----------------------------------------------------------------------------
(* serverThread polls with isEmpty(), then calls out(), which asks again.  *)

Poll ==
  /\ cpc = "poll" /\ ~IsEmpty
  /\ cpc' = "out"
  /\ UNCHANGED <<data, front, copy, got, acceptor>>

CopyBegin ==
  /\ cpc = "out"
  /\ IF IsEmpty THEN cpc' = "poll" /\ got' = NoItem /\ UNCHANGED copy
                ELSE cpc' = "copying" /\ copy' = data[front] /\ UNCHANGED got
  /\ UNCHANGED <<data, front, acceptor>>

CopyEnd ==
  /\ cpc = "copying" /\ cpc' = "advance"
  /\ copy' = IF data[front] = copy THEN copy ELSE Torn
  /\ UNCHANGED <<data, front, got, acceptor>>

Advance ==
  /\ cpc = "advance" /\ cpc' = "poll"
  /\ front' = Following(front)
  /\ got' = copy /\ copy' = NoItem
  /\ UNCHANGED <<data, acceptor>>

-----------------------------------------------------------------------------
Acceptor == Refuse \/ (\E x \in Items : Accept(x)) \/ WriteBegin \/ WriteEnd \/ Publish
Worker   == Poll \/ CopyBegin \/ CopyEnd \/ Advance

Next == Acceptor \/ Worker

Spec == Init /\ [][Next]_vars

\* The worker thread is scheduled again and again; so is an acceptor that is
\* inside in(), though nobody need connect.
FairSpec == Spec /\ WF_vars(Worker) /\ WF_vars(WriteBegin \/ WriteEnd \/ Publish)

-----------------------------------------------------------------------------
\* Type invariant of the indices, the slots and the two threads.
TypeOK ==
  /\ front \in Slots /\ rear \in Slots
  /\ data \in [Slots -> Items \cup {NoItem, Torn}]
  /\ ppc \in {"idle", "write", "writing", "publish"}
  /\ item \in Items \cup {NoItem} /\ accepted \in BOOLEAN
  /\ cpc \in {"poll", "out", "copying", "advance"}
  /\ copy \in Items \cup {NoItem, Torn} /\ got \in Items \cup {NoItem, Torn}

\* The two threads are never on the same slot: while the acceptor writes
\* m_data[m_rear] the worker does not copy it, though neither waits for the
\* other and each decided on an index the other has since moved.
NoSharedSlot ==
  ppc \in {"write", "writing"} /\ cpc \in {"copying", "advance"} => front # rear

\* out() gives the worker whole requests only: never the invalid one, which
\* serverThread would serve as socket -1, and never a torn one.
WholeRequests ==
  cpc = "advance" => copy \in Items

-----------------------------------------------------------------------------
(* The abstract queue: what lies between the two indices.                  *)

Count   == IF front <= rear THEN rear - front ELSE rear - front + Size + 1
Slot(n) == IF front + n - 1 <= Size THEN front + n - 1 ELSE front + n - 2 - Size
Waiting == [n \in 1..Count |-> data[Slot(n)]]

B == INSTANCE BoundedQueue WITH q <- Waiting

\* The ring implements the bounded first-in-first-out queue: a request that
\* was accepted is taken, once, whole, in its turn; one is refused only when
\* Size requests wait.
ImplementsBoundedQueue == B!Spec
ImplementsSafety == B!Safety
=============================================================================
