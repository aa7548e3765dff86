-------------------------- MODULE RingQueueProofs --------------------------
(***************************************************************************)
(* Proofs about RingQueue for every set of requests and every size.        *)
(***************************************************************************)
EXTENDS RingQueue, SequenceTheorems, TLAPS

\* The acceptor, past the test of isFull, has a free slot in front of the
\* worker; the worker, past the test of isEmpty, has a full one.  Both stay
\* true while the other thread moves its index.
Apart ==
  /\ ppc # "idle" => Following(rear) # front
  /\ cpc # "poll" => front # rear

Occupied(i) == IF front <= rear THEN front <= i /\ i < rear
                                ELSE front <= i \/ i < rear

\* Every slot between the two indices holds a whole request; so does what the
\* acceptor is about to publish and what the worker has copied.
Whole ==
  /\ \A i \in Slots : Occupied(i) => data[i] \in Items
  /\ ppc # "idle" => item \in Items
  /\ ppc = "publish" => data[rear] = item
  /\ cpc \in {"copying", "advance"} => copy = data[front]

IInv == TypeOK /\ Apart /\ Whole

\* An empty queue with nobody inside satisfies the invariant.
LEMMA InitInv == Init => IInv
BY SizeAssumption DEF Init, IInv, TypeOK, Apart, Whole, Occupied, Slots, Following

\* So does every step of either thread: what one thread has tested the other
\* cannot spoil.
LEMMA NextInv == IInv /\ [Next]_vars => IInv'
<1> SUFFICES ASSUME IInv, [Next]_vars PROVE IInv'
  OBVIOUS
<1> USE SizeAssumption, ItemAssumption DEF IInv, TypeOK, Apart, Whole, Slots, Following, Occupied
<1>1. CASE Refuse
  BY <1>1 DEF Refuse, worker
<1>2. ASSUME NEW x \in Items, Accept(x) PROVE IInv'
  BY <1>2 DEF Accept, IsFull, worker
<1>3. CASE WriteBegin
  BY <1>3 DEF WriteBegin, worker
<1>4. CASE WriteEnd
  BY <1>4 DEF WriteEnd, worker
<1>5. CASE Publish
  BY <1>5 DEF Publish, worker
<1>6. CASE Poll
  BY <1>6 DEF Poll, IsEmpty, acceptor
<1>7. CASE CopyBegin
  BY <1>7 DEF CopyBegin, IsEmpty, acceptor
<1>8. CASE CopyEnd
  BY <1>8 DEF CopyEnd, acceptor
<1>9. CASE Advance
  BY <1>9 DEF Advance, acceptor
<1>10. CASE UNCHANGED vars
  BY <1>10 DEF vars
<1> QED
  BY <1>1, <1>2, <1>3, <1>4, <1>5, <1>6, <1>7, <1>8, <1>9, <1>10
  DEF Next, Acceptor, Worker

\* The invariant holds in every reachable state, for every size.
THEOREM Invariance == Spec => []IInv
<1>1. Init => IInv
  BY InitInv
<1>2. IInv /\ [Next]_vars => IInv'
  BY NextInv
<1> QED
  BY <1>1, <1>2, PTL DEF Spec

\* m_front, m_rear and the slots keep their types.
THEOREM TypeCorrect == Spec => []TypeOK
<1>1. IInv => TypeOK
  BY DEF IInv
<1> QED
  BY <1>1, Invariance, PTL

\* Writer and reader are never on the same slot of the array, for any number
\* of slots: the queue needs no lock.
THEOREM SlotsNeverShared == Spec => []NoSharedSlot
<1>1. IInv => NoSharedSlot
  BY DEF IInv, Apart, NoSharedSlot
<1> QED
  BY <1>1, Invariance, PTL

\* A worker only ever gets whole requests.
THEOREM RequestsWhole == Spec => []WholeRequests
<1>1. IInv => WholeRequests
  BY DEF IInv, TypeOK, Apart, Whole, Occupied, WholeRequests, Slots
<1> QED
  BY <1>1, Invariance, PTL

-----------------------------------------------------------------------------
(* Refinement: the waiting requests as a sequence.                         *)

\* The waiting requests are a sequence of at most Size slots, all occupied.
LEMMA WaitingType ==
  ASSUME TypeOK
  PROVE  /\ Count \in 0..Size
         /\ \A n \in 1..Count : Slot(n) \in Slots /\ Occupied(Slot(n))
         /\ Waiting \in Seq(Items \cup {NoItem, Torn}) /\ Len(Waiting) = Count
<1> USE SizeAssumption DEF TypeOK, Slots
<1>1. Count \in 0..Size
  BY DEF Count
<1>2. \A n \in 1..Count : Slot(n) \in Slots /\ Occupied(Slot(n))
  BY DEF Count, Slot, Occupied
<1>3. \A n \in 1..Count : data[Slot(n)] \in Items \cup {NoItem, Torn}
  BY <1>2
<1> QED
  BY <1>1, <1>2, <1>3 DEF Waiting

\* The acceptor counts as many waiting requests as the abstract queue does.
LEMMA FullMeansSize ==
  ASSUME TypeOK
  PROVE  IsFull <=> Count = Size
BY SizeAssumption DEF TypeOK, Slots, IsFull, Count

\* Tail moves every element one place down.
LEMMA TailIsShifted ==
  ASSUME NEW S, NEW s \in Seq(S), s # <<>>
  PROVE  Tail(s) = [n \in 1..(Len(s) - 1) |-> s[n + 1]]
<1>1. /\ Tail(s) \in Seq(S) /\ Len(Tail(s)) = Len(s) - 1
      /\ \A n \in 1..Len(Tail(s)) : Tail(s)[n] = s[n + 1]
  BY HeadTailProperties
<1>2. Tail(s) \in [1..(Len(s) - 1) -> S]
  BY <1>1, LenProperties
<1> QED
  BY <1>1, <1>2

\* Moving m_rear appends the request just written.
LEMMA PublishAppends ==
  ASSUME IInv, Publish
  PROVE  B!In(item)
<1> USE SizeAssumption DEF IInv, TypeOK, Slots, Publish, worker
<1>1. Count < Size /\ Count' = Count + 1
  BY DEF Apart, Count, Following
<1>2. \A n \in 1..Count : Slot(n)' = Slot(n)
  BY DEF Slot
<1>3. \A n \in Nat : n = Count + 1 => Slot(n)' = rear
  BY <1>1 DEF Slot, Count
<1>4. data[rear] = item /\ item \in Items
  BY DEF Whole
<1>5. Waiting' = Append(Waiting, item)
  <2> DEFINE W == Waiting
  <2>1. Len(W) = Count /\ W \in Seq(Items \cup {NoItem, Torn}) /\ Count \in Nat
    BY WaitingType
  <2>2. Waiting' = [n \in 1..(Count + 1) |-> data[Slot(n)']]
    BY <1>1 DEF Waiting
  <2>3. Append(W, item) = [n \in 1..(Count + 1) |-> IF n = Count + 1 THEN item ELSE W[n]]
    BY <2>1
  <2>4. \A n \in 1..(Count + 1) :
          data[Slot(n)'] = IF n = Count + 1 THEN item ELSE W[n]
    BY <1>2, <1>3, <1>4, <2>1 DEF Waiting
  <2> QED
    BY <2>2, <2>3, <2>4
<1>6. Len(Waiting) < Size
  BY <1>1, WaitingType
<1> QED
  BY <1>5, <1>6 DEF B!In

\* Moving m_front takes the first request away, which is the one copied.
LEMMA AdvanceTakes ==
  ASSUME IInv, Advance
  PROVE  B!Out
<1> USE SizeAssumption DEF IInv, TypeOK, Slots, Advance, acceptor
<1>1. Count > 0 /\ Count' = Count - 1
  BY DEF Apart, Count, Following
<1>2. \A n \in 1..(Count - 1) : Slot(n)' = Slot(n + 1)
  BY <1>1 DEF Slot, Count, Following
<1>3. Slot(1) = front /\ copy = data[front]
  BY DEF Slot, Whole
<1>4. Waiting \in Seq(Items \cup {NoItem, Torn}) /\ Len(Waiting) = Count /\ Count \in Nat
  BY WaitingType
<1>5. Waiting # <<>> /\ Head(Waiting) = copy
  BY <1>1, <1>3, <1>4 DEF Waiting
<1>6. Waiting' = Tail(Waiting)
  <2>1. Waiting' = [n \in 1..(Count - 1) |-> data[Slot(n)']]
    BY <1>1 DEF Waiting
  <2>2. Tail(Waiting) = [n \in 1..(Count - 1) |-> Waiting[n + 1]]
    BY <1>4, <1>5, TailIsShifted
  <2>3. \A n \in 1..(Count - 1) : data[Slot(n)'] = Waiting[n + 1]
    BY <1>1, <1>2, <1>4 DEF Waiting
  <2> QED
    BY <2>1, <2>2, <2>3
<1> QED
  BY <1>5, <1>6 DEF B!Out

\* Writing the slot at m_rear changes no waiting request.
LEMMA WritingIsInvisible ==
  ASSUME IInv, NEW v, data' = [data EXCEPT ![rear] = v], UNCHANGED <<front, rear>>
  PROVE  UNCHANGED Waiting
<1>1. Count' = Count /\ \A n \in 1..Count : Slot(n)' = Slot(n)
  BY DEF Count, Slot
<1>2. \A n \in 1..Count : Slot(n) \in Slots /\ Slot(n) # rear
  BY WaitingType DEF IInv, TypeOK, Slots, Occupied
<1>3. \A n \in 1..Count : data'[Slot(n)] = data[Slot(n)]
  BY <1>2 DEF IInv, TypeOK
<1> QED
  BY <1>1, <1>3 DEF Waiting

\* Every step of the ring is a step of the bounded queue, or none: in() takes
\* effect when m_rear moves, out() when m_front moves.
THEOREM Refinement == Spec => ImplementsSafety
<1>1. Init => B!Init
  <2> SUFFICES ASSUME Init PROVE B!Init
    OBVIOUS
  <2>1. Count = 0
    BY DEF Init, Count
  <2>2. Waiting = <<>>
    BY <2>1 DEF Waiting
  <2> QED
    BY <2>2 DEF Init, B!Init
<1>2. IInv /\ [Next]_vars => [B!Next]_(B!vars)
  <2> SUFFICES ASSUME IInv, [Next]_vars PROVE [B!Next]_(B!vars)
    OBVIOUS
  <2> USE DEF B!Next, B!vars
  <2>1. CASE Refuse
    <3>1. Waiting' = Waiting
      BY <2>1 DEF Refuse, worker, Waiting, Count, Slot
    <3>2. Len(Waiting) = Size
      BY <2>1, FullMeansSize, WaitingType DEF Refuse, IInv
    <3> QED
      BY <2>1, <3>1, <3>2 DEF Refuse, worker, B!Refuse
  <2>2. ASSUME NEW x \in Items, Accept(x) PROVE UNCHANGED B!vars
    BY <2>2 DEF Accept, worker, Waiting, Count, Slot
  <2>3. CASE WriteBegin
    BY <2>3, WritingIsInvisible DEF WriteBegin, worker
  <2>4. CASE WriteEnd
    BY <2>4, WritingIsInvisible DEF WriteEnd, worker
  <2>5. CASE Publish
    BY <2>5, PublishAppends DEF IInv, Whole, Publish
  <2>6. CASE Poll
    BY <2>6 DEF Poll, acceptor, Waiting, Count, Slot
  <2>7. CASE CopyBegin
    <3>1. ~IsEmpty
      BY <2>7 DEF CopyBegin, IInv, Apart, IsEmpty
    <3> QED
      BY <2>7, <3>1 DEF CopyBegin, acceptor, Waiting, Count, Slot
  <2>8. CASE CopyEnd
    BY <2>8 DEF CopyEnd, acceptor, Waiting, Count, Slot
  <2>9. CASE Advance
    BY <2>9, AdvanceTakes
  <2>10. CASE UNCHANGED vars
    BY <2>10 DEF vars, Waiting, Count, Slot
  <2> QED
    BY <2>1, <2>2, <2>3, <2>4, <2>5, <2>6, <2>7, <2>8, <2>9, <2>10
    DEF Next, Acceptor, Worker
<1> QED
  BY <1>1, <1>2, Invariance, PTL DEF Spec, ImplementsSafety, B!Safety
=============================================================================
