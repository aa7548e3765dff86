-------------------------- MODULE LinkedListProofs --------------------------
(***************************************************************************)
(* What happens to a linked list when a node is put in front of it, taken  *)
(* out of it or when another list is tied to its end.                      *)
(***************************************************************************)
EXTENDS LinkedList, FiniteSetTheorems, SequenceTheorems, TLAPS

-----------------------------------------------------------------------------
(* Numbers and sequences.                                                  *)

\* Induction, for a set of numbers: were m the first number missing from P,
\* adding one would map the members of P up to m into those without 0, which
\* are one fewer.
LEMMA NatInd ==
  ASSUME NEW P, 0 \in P, \A k \in Nat : k \in P => k + 1 \in P
  PROVE  Nat \subseteq P
<1> SUFFICES ASSUME NEW m \in Nat, m \notin P PROVE FALSE OBVIOUS
<1> DEFINE A == P \cap (0..m)
           f == [k \in A |-> k + 1]
<1>1. IsFiniteSet(A)
  <2>1. IsFiniteSet(0..m) BY FS_Interval
  <2>2. A \subseteq 0..m OBVIOUS
  <2> HIDE DEF A
  <2> QED BY <2>1, <2>2, FS_Subset
<1>2. IsFiniteSet(A \ {0}) /\ Cardinality(A \ {0}) = Cardinality(A) - 1
  <2>1. 0 \in A OBVIOUS
  <2> HIDE DEF A
  <2> QED BY <1>1, <2>1, FS_RemoveElement
<1>3. f \in [A -> A \ {0}] OBVIOUS
<1>4. Cardinality(A) \in Nat BY <1>1, FS_CardinalityType
<1>5. \E x, y \in A : x # y /\ f[x] = f[y]
  <2> HIDE DEF A, f
  <2> QED BY <1>1, <1>2, <1>3, <1>4, FS_PigeonHole
<1> QED BY <1>5

\* A sequence without its k-th element, element by element.
LEMMA RemoveAtIs ==
  ASSUME NEW S, NEW q \in Seq(S), NEW k \in 1..Len(q)
  PROVE  RemoveAt(q, k) = [i \in 1..(Len(q) - 1) |-> IF i < k THEN q[i] ELSE q[i + 1]]
<1> DEFINE n == Len(q)
           a == SubSeq(q, 1, k - 1)
           b == SubSeq(q, k + 1, n)
           r == [i \in 1..(n - 1) |-> IF i < k THEN q[i] ELSE q[i + 1]]
<1>1. n \in Nat /\ q \in [1..n -> S] BY LenProperties
<1>2. /\ a \in Seq(S) /\ Len(a) = k - 1 /\ \A i \in 1..(k - 1) : a[i] = q[i]
  <2>1. \A i \in 1..(k - 1) : q[i] \in S BY <1>1
  <2> QED BY <2>1, <1>1, SubSeqProperties
<1>3. /\ b \in Seq(S) /\ Len(b) = n - k /\ \A i \in 1..(n - k) : b[i] = q[k + i]
  <2> DEFINE m == k + 1
  <2>1. m \in Int /\ n \in Int /\ \A i \in m..n : q[i] \in S BY <1>1
  <2>2. n - m + 1 = n - k /\ (IF m <= n THEN n - m + 1 ELSE 0) = n - k
    <3>1. n \in Nat /\ k \in 1..n BY <1>1
    <3> HIDE DEF n
    <3> QED BY <3>1
  <2>3. \A i \in 1..(n - k) : m + i - 1 = k + i BY <1>1
  <2> HIDE DEF m, n
  <2>4. /\ SubSeq(q, m, n) \in Seq(S)
        /\ Len(SubSeq(q, m, n)) = IF m <= n THEN n - m + 1 ELSE 0
        /\ \A i \in 1..(n - m + 1) : SubSeq(q, m, n)[i] = q[m + i - 1]
    BY <2>1, SubSeqProperties
  <2>5. \A i \in 1..(n - k) : SubSeq(q, m, n)[i] = q[k + i] BY <2>2, <2>3, <2>4
  <2> QED BY <2>2, <2>4, <2>5 DEF m, n
<1> HIDE DEF a, b
<1>4. /\ a \o b \in Seq(S) /\ Len(a \o b) = n - 1
      /\ \A i \in 1..(n - 1) : (a \o b)[i] = IF i < k THEN q[i] ELSE q[i + 1]
  <2>1. /\ a \o b \in Seq(S) /\ Len(a \o b) = Len(a) + Len(b)
        /\ \A i \in 1 .. Len(a) + Len(b) : (a \o b)[i] =
                     IF i <= Len(a) THEN a[i] ELSE b[i - Len(a)]
    BY <1>2, <1>3, ConcatProperties
  <2>2. Len(a) + Len(b) = n - 1 BY <1>1, <1>2, <1>3
  <2>3. ASSUME NEW i \in 1..(n - 1) PROVE (a \o b)[i] = IF i < k THEN q[i] ELSE q[i + 1]
    <3>1. CASE i < k BY <2>1, <2>2, <2>3, <3>1, <1>1, <1>2
    <3>2. CASE ~(i < k)
      <4>1. (a \o b)[i] = b[i - (k - 1)] BY <2>1, <2>2, <2>3, <3>2, <1>1, <1>2
      <4>2. i - (k - 1) \in 1..(n - k) /\ k + (i - (k - 1)) = i + 1 BY <3>2, <1>1
      <4> QED BY <1>3, <3>2, <4>1, <4>2
    <3> QED BY <3>1, <3>2
  <2> QED BY <2>1, <2>2, <2>3
<1>5. a \o b = r
  <2>1. r \in Seq(S) /\ Len(r) = n - 1 /\ \A i \in 1..(n - 1) : r[i] = IF i < k THEN q[i] ELSE q[i + 1]
    <3>1. n - 1 \in Nat BY <1>1
    <3>2. r \in [1..(n - 1) -> S] BY <1>1
    <3> HIDE DEF n
    <3> QED BY <3>1, <3>2
  <2> HIDE DEF r, n
  <2> QED BY <1>4, <2>1, SeqEqual
<1> QED BY <1>5 DEF a, b, RemoveAt

\* A sequence with a new first element, element by element.
LEMMA PushIs ==
  ASSUME NEW S, NEW q \in Seq(S), NEW o \in S, NEW n \in Nat, n = Len(q),
         NEW r, r = [i \in 1..(n + 1) |-> IF i = 1 THEN o ELSE q[i - 1]]
  PROVE  Leads(o, q, r)
<1>1. q \in [1..n -> S] BY LenProperties
<1>2. r \in Seq(S) /\ Len(r) = n + 1 /\ r # <<>>
  <2>1. r \in [1..(n + 1) -> S] /\ n + 1 \in Nat BY <1>1
  <2> QED BY <2>1
<1>3. \A i \in 1..(n + 1) : r[i] = IF i = 1 THEN o ELSE q[i - 1] OBVIOUS
<1>4. /\ Head(r) = r[1] /\ Tail(r) \in Seq(S) /\ Len(Tail(r)) = Len(r) - 1
      /\ \A i \in 1..Len(Tail(r)) : Tail(r)[i] = r[i + 1]
  BY <1>2, HeadTailProperties
<1>5. Len(Tail(r)) = n BY <1>2, <1>4
<1>6. \A i \in 1..n : i + 1 \in 1..(n + 1) /\ i + 1 # 1 /\ (i + 1) - 1 = i OBVIOUS
<1>7. \A i \in 1..n : Tail(r)[i] = q[i] BY <1>3, <1>4, <1>5, <1>6
<1>8. Tail(r) = q BY <1>4, <1>5, <1>7, SeqEqual
<1>9. Head(r) = o BY <1>3, <1>4
<1> QED BY <1>2, <1>8, <1>9 DEF Leads

-----------------------------------------------------------------------------
(* Lists.                                                                  *)

\* A path has fewer nodes than there are, for 0 is none of them.
LEMMA PathShort ==
  ASSUME NEW f, IsFiniteSet(DOMAIN f), 0 \in DOMAIN f, NEW s, NEW q, Path(f, s, q)
  PROVE  Len(q) \in Nat /\ Len(q) < Cardinality(DOMAIN f)
<1> DEFINE D == DOMAIN f
           n == Len(q)
<1>1. /\ q \in Seq(D \ {0}) /\ n \in Nat /\ q \in [1..n -> D \ {0}]
      /\ \A i, j \in 1..n : q[i] = q[j] => i = j
  BY DEF Path
<1>2. IsFiniteSet(D \ {0}) /\ Cardinality(D \ {0}) = Cardinality(D) - 1
  BY FS_RemoveElement
<1>3. IsFiniteSet(1..n) /\ Cardinality(1..n) = n
  <2> HIDE DEF n, D
  <2> QED BY <1>1, FS_Interval
<1>4. Cardinality(D) \in Nat BY FS_CardinalityType
<1> HIDE DEF D, n
<1>5. ~(Cardinality(D \ {0}) < Cardinality(1..n))
  <2> SUFFICES ASSUME Cardinality(D \ {0}) < Cardinality(1..n) PROVE FALSE OBVIOUS
  <2>1. \E i, j \in 1..n : i # j /\ q[i] = q[j] BY <1>1, <1>2, <1>3, FS_PigeonHole
  <2> QED BY <2>1, <1>1
<1> QED BY <1>1, <1>2, <1>3, <1>4, <1>5 DEF D, n

\* The first k elements of a sequence.
Start(q, k) == [i \in 1..k |-> q[i]]

LEMMA StartNext ==
  ASSUME NEW S, NEW q \in Seq(S), NEW k \in Nat, k < Len(q)
  PROVE  /\ Start(q, k) \in Seq(S) /\ Len(Start(q, k)) = k
         /\ Append(Start(q, k), q[k + 1]) = Start(q, k + 1)
<1> DEFINE a == Start(q, k)
           b == Start(q, k + 1)
<1>1. Len(q) \in Nat /\ q \in [1..Len(q) -> S] BY LenProperties
<1>2. k + 1 \in 1..Len(q) /\ \A i \in 1..(k + 1) : q[i] \in S BY <1>1
<1>3. a \in [1..k -> S] /\ b \in [1..(k + 1) -> S] BY <1>2 DEF Start
<1>4. a \in Seq(S) /\ Len(a) = k BY <1>3
<1>5. b \in Seq(S) /\ Len(b) = k + 1 BY <1>3
<1>6. /\ Append(a, q[k + 1]) \in Seq(S) /\ Len(Append(a, q[k + 1])) = k + 1
      /\ \A i \in 1..(k + 1) : Append(a, q[k + 1])[i] = IF i = k + 1 THEN q[k + 1] ELSE a[i]
  <2>1. q[k + 1] \in S BY <1>2
  <2> HIDE DEF a
  <2> QED BY <1>4, <2>1, AppendProperties
<1>7. \A i \in 1..(k + 1) : Append(a, q[k + 1])[i] = b[i] BY <1>6 DEF Start
<1>8. Append(a, q[k + 1]) = b
  <2> HIDE DEF a, b
  <2> QED BY <1>5, <1>6, <1>7, SeqEqual
<1> QED BY <1>4, <1>8

\* The path from s along f is what ListFrom collects.
LEMMA PathIsList ==
  ASSUME NEW f, IsFiniteSet(DOMAIN f), 0 \in DOMAIN f, NEW s, NEW q, Path(f, s, q)
  PROVE  ListFrom(f, s) = q
<1> DEFINE D == DOMAIN f
           N == Cardinality(D)
           n == Len(q)
           step(r) == LET c == Behind(f, s, r) IN IF c = 0 THEN r ELSE Append(r, c)
           is(a) == a = [k \in 0..N |-> IF k = 0 THEN <<>> ELSE step(a[k - 1])]
           g == [k \in 0..N |-> IF k < n THEN Start(q, k) ELSE q]
           first == CHOOSE a : is(a)
<1>1. n \in Nat /\ n < N /\ N \in Nat BY PathShort, FS_CardinalityType
<1>2. /\ q \in Seq(D \ {0}) /\ q \in [1..n -> D \ {0}] /\ s = IF n = 0 THEN 0 ELSE q[1]
      /\ \A i \in 1..n : f[q[i]] = IF i = n THEN 0 ELSE q[i + 1]
  BY DEF Path
<1>3. Start(q, 0) = <<>> /\ Start(q, n) = q
  BY <1>1, <1>2 DEF Start
<1>4. ASSUME NEW k \in Nat, k < n PROVE step(Start(q, k)) = Start(q, k + 1)
  <2>1. Start(q, k) \in Seq(D \ {0}) /\ Len(Start(q, k)) = k
        /\ Append(Start(q, k), q[k + 1]) = Start(q, k + 1)
    BY <1>2, <1>4, StartNext
  <2>2. k + 1 \in 1..n /\ q[k + 1] \in D /\ q[k + 1] # 0
    <3> HIDE DEF n, D
    <3>1. k + 1 \in 1..n BY <1>1, <1>4
    <3> QED BY <3>1, <1>2
  <2>3. Behind(f, s, Start(q, k)) = q[k + 1]
    <3>1. CASE k = 0
      <4>1. Start(q, k) = <<>> /\ q[k + 1] = q[1] /\ n # 0 BY <3>1, <1>1, <1>3, <1>4
      <4> QED BY <4>1, <1>2 DEF Behind
    <3>2. CASE k # 0
      <4>1. k \in 1..n /\ k # n BY <3>2, <1>1, <1>4
      <4>2. f[q[k]] = q[k + 1] /\ q[k] \in D BY <4>1, <1>2
      <4>3. Start(q, k) # <<>> BY <3>2, <2>1
      <4>4. Last(Start(q, k)) = q[k] BY <2>1, <4>1 DEF Last, Start
      <4> QED BY <4>2, <4>3, <4>4 DEF Behind
    <3> QED BY <3>1, <3>2
  <2> QED BY <2>1, <2>2, <2>3
<1>5. step(q) = q
  <2>1. CASE n = 0
    <3>1. q = <<>> BY <2>1, <1>2
    <3> QED BY <3>1, <2>1, <1>2 DEF Behind
  <2>2. CASE n # 0
    <3>1. n \in 1..n /\ q # <<>>
      <4>1. q # <<>> BY <2>2
      <4> HIDE DEF n
      <4> QED BY <2>2, <4>1, <1>1
    <3>2. Last(q) = q[n] /\ q[n] \in D /\ f[q[n]] = 0 BY <3>1, <1>2 DEF Last
    <3> QED BY <3>1, <3>2 DEF Behind
  <2> QED BY <2>1, <2>2
<1> HIDE DEF step
<1>6. is(g)
  <2> SUFFICES ASSUME NEW k \in 0..N
               PROVE  g[k] = IF k = 0 THEN <<>> ELSE step(g[k - 1])
    BY Zenon
  <2>1. CASE k = 0 BY <2>1, <1>1, <1>3
  <2>2. CASE k # 0
    <3>1. k - 1 \in 0..N /\ k - 1 \in Nat /\ (k - 1) + 1 = k BY <2>2, <1>1
    <3>2. CASE k - 1 < n
      <4>1. g[k - 1] = Start(q, k - 1) BY <3>1, <3>2
      <4>2. step(g[k - 1]) = Start(q, k) BY <4>1, <3>1, <3>2, <1>4
      <4>3. g[k] = Start(q, k) BY <3>1, <3>2, <1>1, <1>3
      <4> QED BY <2>2, <4>2, <4>3
    <3>3. CASE ~(k - 1 < n)
      <4>1. g[k - 1] = q /\ g[k] = q BY <3>1, <3>3, <1>1
      <4> QED BY <2>2, <4>1, <1>5
    <3> QED BY <3>2, <3>3
  <2> QED BY <2>1, <2>2
<1>7. is(first) BY <1>6
<1>8. first[N] = g[N]
  <2> HIDE DEF first, g, N
  <2>1. /\ first = [k \in 0..N |-> IF k = 0 THEN <<>> ELSE step(first[k - 1])]
        /\ g = [k \in 0..N |-> IF k = 0 THEN <<>> ELSE step(g[k - 1])]
    BY <1>6, <1>7
  <2> DEFINE P == {k \in Nat : k \in 0..N => first[k] = g[k]}
  <2>2. 0 \in P BY <2>1, <1>1
  <2>3. ASSUME NEW k \in Nat, k \in P PROVE k + 1 \in P
    <3> SUFFICES ASSUME k + 1 \in 0..N PROVE first[k + 1] = g[k + 1] OBVIOUS
    <3>1. first[k] = g[k] BY <2>3, <1>1
    <3>2. first[k + 1] = step(first[k]) /\ g[k + 1] = step(g[k]) BY <2>1, <1>1
    <3> QED BY <3>1, <3>2
  <2>4. Nat \subseteq P
    <3> HIDE DEF P
    <3> QED BY <2>2, <2>3, NatInd
  <2> QED BY <2>4, <1>1
<1>9. g[N] = q BY <1>1
<1>10. ListFrom(f, s) = first[N] BY DEF ListFrom, first, step
<1> QED BY <1>8, <1>9, <1>10

\* A function that may be the links of a list: finitely many nodes, 0 is one.
Links(f) == IsFiniteSet(DOMAIN f) /\ 0 \in DOMAIN f

\* A path makes a list, whose nodes are those on the path.
LEMMA PathMakes ==
  ASSUME NEW f, Links(f), NEW s, NEW q, Path(f, s, q)
  PROVE  Linked(f, s) /\ Ends(f, s) /\ Nodes(f, s) = {q[i] : i \in 1..Len(q)}
<1>1. ListFrom(f, s) = q BY PathIsList DEF Links
<1>2. Len(q) < Cardinality(DOMAIN f) BY PathShort DEF Links
<1>3. DOMAIN q = 1..Len(q) BY DEF Path
<1> QED BY <1>1, <1>2, <1>3 DEF Linked, Ends, Nodes, ToSet

\* The same as Path, and as Nodes, with every index spelled out.
Walk(f, s, n, q) ==
  /\ n \in Nat /\ q \in [1..n -> DOMAIN f \ {0}]
  /\ \A i, j \in 1..n : q[i] = q[j] => i = j
  /\ s = IF n = 0 THEN 0 ELSE q[1]
  /\ \A i \in 1..n : f[q[i]] = IF i = n THEN 0 ELSE q[i + 1]

On(n, q) == {q[i] : i \in 1..n}

\* Every list is walked.
LEMMA WalkOf ==
  ASSUME NEW f, Links(f), NEW s, Linked(f, s)
  PROVE  \E n, q : /\ Walk(f, s, n, q) /\ Nodes(f, s) = On(n, q)
                    /\ q = ListFrom(f, s) /\ q \in Seq(DOMAIN f \ {0}) /\ n = Len(q)
<1> DEFINE q == ListFrom(f, s)
           n == Len(q)
<1>1. Path(f, s, q) BY DEF Linked
<1>2. n \in Nat /\ q \in [1..n -> DOMAIN f \ {0}] BY <1>1 DEF Path
<1>3. Nodes(f, s) = On(n, q) BY <1>1, PathMakes DEF On
<1>4. /\ \A i, j \in 1..n : q[i] = q[j] => i = j
      /\ s = IF n = 0 THEN 0 ELSE q[1]
      /\ \A i \in 1..n : f[q[i]] = IF i = n THEN 0 ELSE q[i + 1]
  BY <1>1 DEF Path
<1>5. q = ListFrom(f, s) /\ q \in Seq(DOMAIN f \ {0}) /\ n = Len(q) BY <1>1 DEF Path
<1> HIDE DEF n, q
<1> QED BY <1>2, <1>3, <1>4, <1>5 DEF Walk

\* What is walked is a list.
LEMMA ListOf ==
  ASSUME NEW f, Links(f), NEW s, NEW n, NEW q, Walk(f, s, n, q)
  PROVE  Linked(f, s) /\ Ends(f, s) /\ Nodes(f, s) = On(n, q) /\ ListFrom(f, s) = q
<1>1. q \in Seq(DOMAIN f \ {0}) /\ Len(q) = n BY DEF Walk
<1>2. Path(f, s, q) BY <1>1 DEF Path, Walk
<1>3. ListFrom(f, s) = q BY <1>2, PathIsList DEF Links
<1> QED BY <1>1, <1>2, <1>3, PathMakes DEF On

-----------------------------------------------------------------------------
\* The empty list.
LEMMA EmptyList ==
  ASSUME NEW f, Links(f)
  PROVE  Linked(f, 0) /\ Ends(f, 0) /\ Nodes(f, 0) = {}
<1> DEFINE q == [i \in 1..0 |-> 0]
<1>1. Walk(f, 0, 0, q) BY DEF Walk
<1>2. On(0, q) = {} BY DEF On
<1> HIDE DEF q
<1> QED BY <1>1, <1>2, ListOf

\* It has no nodes to walk.
LEMMA EmptyWalk ==
  ASSUME NEW f, Links(f)
  PROVE  ListFrom(f, 0) = <<>>
<1> DEFINE q == [i \in 1..0 |-> 0]
<1>1. Walk(f, 0, 0, q) BY DEF Walk
<1>2. q = <<>> OBVIOUS
<1> HIDE DEF q
<1>3. ListFrom(f, 0) = q BY <1>1, ListOf
<1> QED BY <1>2, <1>3

\* A list that is not empty has its beginning and an end, and 0 is no node.
LEMMA ListShape ==
  ASSUME NEW f, Links(f), NEW s, Linked(f, s)
  PROVE  /\ Ends(f, s)
         /\ Nodes(f, s) \subseteq DOMAIN f \ {0}
         /\ s # 0 => s \in Nodes(f, s) /\ \E o \in Nodes(f, s) : f[o] = 0
         /\ s = 0 => Nodes(f, s) = {}
         /\ \A o \in Nodes(f, s) : /\ f[o] = 0 \/ f[o] \in Nodes(f, s)
                                  /\ f[o] # o /\ f[o] # s
         /\ \A o \in Nodes(f, s) : o # s => \E p \in Nodes(f, s) : f[p] = o
         /\ \A o, p \in Nodes(f, s) : f[o] = f[p] => o = p
<1>0. PICK n, q : Walk(f, s, n, q) /\ Nodes(f, s) = On(n, q) BY WalkOf
<1>1. /\ n \in Nat /\ q \in [1..n -> DOMAIN f \ {0}]
      /\ \A i, j \in 1..n : q[i] = q[j] => i = j
      /\ s = IF n = 0 THEN 0 ELSE q[1]
      /\ \A i \in 1..n : f[q[i]] = IF i = n THEN 0 ELSE q[i + 1]
      /\ Nodes(f, s) = {q[i] : i \in 1..n}
  BY <1>0 DEF Walk, On
<1>2. \A i \in 1..n : q[i] # 0 BY <1>1
<1>3. Ends(f, s) BY <1>0, ListOf
<1>4. s # 0 => s \in Nodes(f, s) /\ \E o \in Nodes(f, s) : f[o] = 0
  <2> SUFFICES ASSUME s # 0 PROVE s \in Nodes(f, s) /\ \E o \in Nodes(f, s) : f[o] = 0
    OBVIOUS
  <2>1. n # 0 /\ 1 \in 1..n /\ n \in 1..n BY <1>1
  <2>2. s = q[1] /\ f[q[n]] = 0 BY <1>1, <2>1
  <2> QED BY <1>1, <2>1, <2>2
<1>5. s = 0 => Nodes(f, s) = {}
  <2> SUFFICES ASSUME s = 0, n # 0 PROVE FALSE BY <1>1
  <2> QED BY <1>1, <1>2
<1>6. ASSUME NEW o \in Nodes(f, s)
      PROVE  (f[o] = 0 \/ f[o] \in Nodes(f, s)) /\ f[o] # o /\ f[o] # s
  <2>1. PICK i \in 1..n : o = q[i] BY <1>1
  <2>2. CASE i = n BY <1>1, <1>2, <2>1, <2>2
  <2>3. CASE i # n
    <3>1. i + 1 \in 1..n /\ f[o] = q[i + 1] BY <1>1, <2>1, <2>3
    <3>2. i + 1 # i /\ i + 1 # 1 /\ 1 \in 1..n BY <1>1
    <3> QED BY <1>1, <2>1, <3>1, <3>2
  <2> QED BY <2>2, <2>3
<1>7. ASSUME NEW o \in Nodes(f, s), o # s
      PROVE  \E p \in Nodes(f, s) : f[p] = o
  <2>1. PICK i \in 1..n : o = q[i] BY <1>1
  <2>2. i - 1 \in 1..n BY <1>1, <2>1, <1>7
  <2>3. f[q[i - 1]] = q[(i - 1) + 1] BY <1>1, <2>2
  <2> QED BY <1>1, <2>1, <2>2, <2>3
<1>8. ASSUME NEW o \in Nodes(f, s), NEW p \in Nodes(f, s), f[o] = f[p]
      PROVE  o = p
  <2>1. PICK i \in 1..n : o = q[i] BY <1>1
  <2>2. PICK j \in 1..n : p = q[j] BY <1>1
  <2>3. CASE i = n \/ j = n BY <1>1, <1>2, <1>8, <2>1, <2>2, <2>3
  <2>4. CASE i # n /\ j # n
    <3>1. i + 1 \in 1..n /\ j + 1 \in 1..n /\ q[i + 1] = q[j + 1]
      BY <1>1, <1>8, <2>1, <2>2, <2>4
    <3>2. i + 1 = j + 1 BY <1>1, <3>1
    <3> QED BY <2>1, <2>2, <3>2
  <2> QED BY <2>3, <2>4
<1> QED BY <1>1, <1>3, <1>4, <1>5, <1>6, <1>7, <1>8

\* A list stays as it is when only links of other nodes are written.
LEMMA ListKept ==
  ASSUME NEW f, Links(f), NEW s, Linked(f, s),
         NEW g, DOMAIN g = DOMAIN f, \A o \in Nodes(f, s) : g[o] = f[o]
  PROVE  Linked(g, s) /\ Nodes(g, s) = Nodes(f, s)
<1>0. PICK n, q : Walk(f, s, n, q) /\ Nodes(f, s) = On(n, q) BY WalkOf
<1>1. /\ n \in Nat /\ q \in [1..n -> DOMAIN f \ {0}]
      /\ \A i, j \in 1..n : q[i] = q[j] => i = j
      /\ s = IF n = 0 THEN 0 ELSE q[1]
      /\ \A i \in 1..n : f[q[i]] = IF i = n THEN 0 ELSE q[i + 1]
      /\ Nodes(f, s) = {q[i] : i \in 1..n}
  BY <1>0 DEF Walk, On
<1>2. Walk(g, s, n, q) BY <1>1 DEF Walk
<1>3. Links(g) BY DEF Links
<1> QED BY <1>0, <1>2, <1>3, ListOf

\* A new first node.
LEMMA ListPush ==
  ASSUME NEW f, Links(f), NEW s, Linked(f, s),
         NEW o \in DOMAIN f \ {0}, o \notin Nodes(f, s),
         NEW g, DOMAIN g = DOMAIN f, g[o] = s, \A c \in Nodes(f, s) : g[c] = f[c]
  PROVE  /\ Linked(g, o) /\ Nodes(g, o) = Nodes(f, s) \cup {o}
         /\ Leads(o, ListFrom(f, s), ListFrom(g, o))
<1>0. PICK n, q : /\ Walk(f, s, n, q) /\ Nodes(f, s) = On(n, q)
                  /\ q = ListFrom(f, s) /\ q \in Seq(DOMAIN f \ {0}) /\ n = Len(q)
  BY WalkOf
<1>1. /\ n \in Nat /\ q \in [1..n -> DOMAIN f \ {0}]
      /\ \A i, j \in 1..n : q[i] = q[j] => i = j
      /\ s = IF n = 0 THEN 0 ELSE q[1]
      /\ \A i \in 1..n : f[q[i]] = IF i = n THEN 0 ELSE q[i + 1]
      /\ Nodes(f, s) = {q[i] : i \in 1..n}
  BY <1>0 DEF Walk, On
<1> DEFINE r == [i \in 1..(n + 1) |-> IF i = 1 THEN o ELSE q[i - 1]]
<1>2. r \in [1..(n + 1) -> DOMAIN g \ {0}] BY <1>1
<1>3. ASSUME NEW i \in 1..(n + 1), NEW j \in 1..(n + 1), r[i] = r[j]
      PROVE  i = j
  <2>1. \A k \in 1..n : q[k] # o BY <1>1
  <2>2. CASE i = 1 \/ j = 1 BY <1>1, <1>3, <2>1, <2>2
  <2>3. CASE i # 1 /\ j # 1
    <3>1. i - 1 \in 1..n /\ j - 1 \in 1..n /\ q[i - 1] = q[j - 1] BY <1>1, <1>3, <2>3
    <3>2. i - 1 = j - 1 BY <1>1, <3>1
    <3> QED BY <3>2, <1>1
  <2> QED BY <2>2, <2>3
<1>4. ASSUME NEW i \in 1..(n + 1)
      PROVE  g[r[i]] = IF i = n + 1 THEN 0 ELSE r[i + 1]
  <2>1. CASE i = 1
    <3>1. CASE n = 0 BY <1>1, <2>1, <3>1
    <3>2. CASE n # 0
      <4>1. 2 \in 1..(n + 1) /\ r[2] = q[1] BY <1>1, <3>2
      <4> QED BY <1>1, <2>1, <3>2, <4>1
    <3> QED BY <3>1, <3>2
  <2>2. CASE i # 1
    <3>1. i - 1 \in 1..n /\ r[i] = q[i - 1] BY <1>1, <2>2
    <3>2. g[r[i]] = IF i - 1 = n THEN 0 ELSE q[i] BY <1>1, <3>1
    <3> QED BY <1>1, <2>2, <3>2
  <2> QED BY <2>1, <2>2
<1>5. Walk(g, o, n + 1, r) BY <1>1, <1>2, <1>3, <1>4 DEF Walk
<1>6. On(n + 1, r) = Nodes(f, s) \cup {o}
  <2>1. \A i \in 1..n : i + 1 \in 1..(n + 1) /\ r[i + 1] = q[i] BY <1>1
  <2>2. 1 \in 1..(n + 1) /\ r[1] = o BY <1>1
  <2>3. \A i \in 1..(n + 1) : r[i] = o \/ (i - 1 \in 1..n /\ r[i] = q[i - 1]) BY <1>1
  <2> HIDE DEF r
  <2> QED BY <1>1, <2>1, <2>2, <2>3 DEF On
<1>7. Leads(o, q, r)
  <2> DEFINE S == DOMAIN f \ {0}
  <2>1. r = [i \in 1..(n + 1) |-> IF i = 1 THEN o ELSE q[i - 1]] OBVIOUS
  <2>2. q \in Seq(S) /\ o \in S /\ n \in Nat /\ n = Len(q) BY <1>0, <1>1
  <2> HIDE DEF r, S
  <2> QED BY <2>1, <2>2, PushIs
<1> HIDE DEF r
<1>8. Links(g) BY DEF Links
<1>9. Linked(g, o) /\ Nodes(g, o) = Nodes(f, s) \cup {o} /\ ListFrom(g, o) = r
  BY <1>5, <1>6, <1>8, ListOf
<1>10. q = ListFrom(f, s) BY <1>0
<1> QED BY <1>7, <1>9, <1>10

\* The list without its first node.
LEMMA ListPop ==
  ASSUME NEW f, Links(f), NEW s, Linked(f, s), s # 0
  PROVE  Linked(f, f[s]) /\ Nodes(f, f[s]) = Nodes(f, s) \ {s}
<1>0. PICK n, q : Walk(f, s, n, q) /\ Nodes(f, s) = On(n, q) BY WalkOf
<1>1. /\ n \in Nat /\ q \in [1..n -> DOMAIN f \ {0}]
      /\ \A i, j \in 1..n : q[i] = q[j] => i = j
      /\ s = IF n = 0 THEN 0 ELSE q[1]
      /\ \A i \in 1..n : f[q[i]] = IF i = n THEN 0 ELSE q[i + 1]
      /\ Nodes(f, s) = {q[i] : i \in 1..n}
  BY <1>0 DEF Walk, On
<1>2. n # 0 /\ n - 1 \in Nat /\ 1 \in 1..n /\ s = q[1] BY <1>1
<1> DEFINE r == [i \in 1..(n - 1) |-> q[i + 1]]
<1>3. r \in [1..(n - 1) -> DOMAIN f \ {0}] BY <1>1
<1>4. ASSUME NEW i \in 1..(n - 1), NEW j \in 1..(n - 1), r[i] = r[j]
      PROVE  i = j
  <2>1. i + 1 \in 1..n /\ j + 1 \in 1..n /\ q[i + 1] = q[j + 1] BY <1>1, <1>4
  <2>2. i + 1 = j + 1 BY <1>1, <2>1
  <2> QED BY <2>2, <1>1
<1>5. f[s] = IF n - 1 = 0 THEN 0 ELSE r[1] BY <1>1, <1>2
<1>6. ASSUME NEW i \in 1..(n - 1)
      PROVE  f[r[i]] = IF i = n - 1 THEN 0 ELSE r[i + 1]
  <2>1. i + 1 \in 1..n /\ f[q[i + 1]] = IF i + 1 = n THEN 0 ELSE q[(i + 1) + 1] BY <1>1
  <2> QED BY <1>1, <2>1
<1>7. Walk(f, f[s], n - 1, r) BY <1>2, <1>3, <1>4, <1>5, <1>6 DEF Walk
<1>8. On(n - 1, r) = Nodes(f, s) \ {s}
  <2>1. \A i \in 1..(n - 1) : i + 1 \in 1..n /\ r[i] = q[i + 1] /\ i + 1 # 1 BY <1>1
  <2>2. \A i \in 1..n : i = 1 \/ (i - 1 \in 1..(n - 1) /\ r[i - 1] = q[i]) BY <1>1
  <2> HIDE DEF r
  <2> QED BY <1>1, <1>2, <2>1, <2>2 DEF On
<1> HIDE DEF r
<1> QED BY <1>7, <1>8, ListOf

\* From any node of a list on there is a list of its nodes.
LEMMA ListRest ==
  ASSUME NEW f, Links(f), NEW s, Linked(f, s), NEW o \in Nodes(f, s)
  PROVE  Linked(f, o) /\ Nodes(f, o) \subseteq Nodes(f, s) /\ o \in Nodes(f, o)
<1>0. PICK n, q : Walk(f, s, n, q) /\ Nodes(f, s) = On(n, q) BY WalkOf
<1>1. /\ n \in Nat /\ q \in [1..n -> DOMAIN f \ {0}]
      /\ \A i, j \in 1..n : q[i] = q[j] => i = j
      /\ s = IF n = 0 THEN 0 ELSE q[1]
      /\ \A i \in 1..n : f[q[i]] = IF i = n THEN 0 ELSE q[i + 1]
      /\ Nodes(f, s) = {q[i] : i \in 1..n}
  BY <1>0 DEF Walk, On
<1>2. PICK k \in 1..n : o = q[k] BY <1>1
<1> DEFINE m == n - k + 1
           r == [i \in 1..m |-> q[i + k - 1]]
<1>3. m \in Nat /\ m # 0 /\ 1 \in 1..m /\ \A i \in 1..m : i + k - 1 \in 1..n BY <1>1
<1>4. r \in [1..m -> DOMAIN f \ {0}] BY <1>1, <1>3
<1>5. ASSUME NEW i \in 1..m, NEW j \in 1..m, r[i] = r[j]
      PROVE  i = j
  <2>1. i + k - 1 = j + k - 1 BY <1>1, <1>3, <1>5
  <2> QED BY <2>1, <1>1
<1>6. o = r[1] BY <1>1, <1>2, <1>3
<1>7. ASSUME NEW i \in 1..m
      PROVE  f[r[i]] = IF i = m THEN 0 ELSE r[i + 1]
  <2> DEFINE l == i + k - 1
  <2>1. l \in 1..n /\ r[i] = q[l] /\ (i = m <=> l = n) BY <1>1, <1>3
  <2>2. f[q[l]] = IF l = n THEN 0 ELSE q[l + 1]
    <3> HIDE DEF l
    <3> QED BY <1>1, <2>1
  <2>3. i # m => i + 1 \in 1..m /\ (i + 1) + k - 1 = l + 1 BY <1>1
  <2> QED BY <2>1, <2>2, <2>3
<1>8. Walk(f, o, m, r) BY <1>3, <1>4, <1>5, <1>6, <1>7 DEF Walk
<1>9. On(m, r) \subseteq Nodes(f, s) /\ o \in On(m, r) BY <1>1, <1>3, <1>6 DEF On
<1> HIDE DEF m, r
<1> QED BY <1>8, <1>9, ListOf

\* A node is taken out: its predecessor, or the beginning, skips it.
LEMMA ListCut ==
  ASSUME NEW f, Links(f), NEW s, Linked(f, s), NEW o \in Nodes(f, s),
         NEW g, DOMAIN g = DOMAIN f,
         \A c \in Nodes(f, s) \ {o} : g[c] = IF f[c] = o THEN f[o] ELSE f[c],
         NEW t, t = IF s = o THEN f[o] ELSE s
  PROVE  /\ Linked(g, t) /\ Nodes(g, t) = Nodes(f, s) \ {o}
         /\ Skips(ListFrom(f, s), o, ListFrom(g, t))
<1>0. PICK n, q : /\ Walk(f, s, n, q) /\ Nodes(f, s) = On(n, q)
                  /\ q = ListFrom(f, s) /\ q \in Seq(DOMAIN f \ {0}) /\ n = Len(q)
  BY WalkOf
<1>1. /\ n \in Nat /\ q \in [1..n -> DOMAIN f \ {0}]
      /\ \A i, j \in 1..n : q[i] = q[j] => i = j
      /\ s = IF n = 0 THEN 0 ELSE q[1]
      /\ \A i \in 1..n : f[q[i]] = IF i = n THEN 0 ELSE q[i + 1]
      /\ Nodes(f, s) = {q[i] : i \in 1..n}
  BY <1>0 DEF Walk, On
<1>2. PICK k \in 1..n : o = q[k] BY <1>1
<1> DEFINE r == [i \in 1..(n - 1) |-> IF i < k THEN q[i] ELSE q[i + 1]]
           from(i) == IF i < k THEN i ELSE i + 1
<1>3. \A i \in 1..(n - 1) : from(i) \in 1..n /\ from(i) # k /\ r[i] = q[from(i)]
  BY <1>1
<1>4. n - 1 \in Nat /\ r \in [1..(n - 1) -> DOMAIN g \ {0}] BY <1>1
<1>5. ASSUME NEW i \in 1..(n - 1), NEW j \in 1..(n - 1), r[i] = r[j]
      PROVE  i = j
  <2>1. from(i) = from(j) 
    <3> HIDE DEF r, from
    <3> QED BY <1>1, <1>3, <1>5
  <2> QED BY <2>1, <1>1
<1>6. t = IF n - 1 = 0 THEN 0 ELSE r[1]
  <2>0. n # 0 /\ 1 \in 1..n /\ s = q[1] BY <1>1
  <2>1. CASE k = 1
    <3>1. s = o /\ t = f[q[1]] BY <1>2, <2>0, <2>1
    <3>2. f[q[1]] = IF n = 1 THEN 0 ELSE q[2] BY <1>1, <2>0
    <3>3. n # 1 => 1 \in 1..(n - 1) /\ r[1] = q[2] BY <1>1, <2>1
    <3> QED BY <3>1, <3>2, <3>3, <1>1
  <2>2. CASE k # 1
    <3>1. s # o BY <1>1, <1>2, <2>0, <2>2
    <3>2. n # 1 /\ 1 \in 1..(n - 1) /\ r[1] = q[1] BY <1>1, <2>2
    <3> QED BY <3>1, <3>2, <2>0, <1>1
  <2> QED BY <2>1, <2>2
<1>7. ASSUME NEW i \in 1..(n - 1)
      PROVE  g[r[i]] = IF i = n - 1 THEN 0 ELSE r[i + 1]
  <2> DEFINE l == from(i)
  <2>1. l \in 1..n /\ l # k /\ r[i] = q[l] BY <1>3
  <2>2. q[l] # o /\ q[l] \in Nodes(f, s)
    <3> HIDE DEF l
    <3> QED BY <1>1, <1>2, <2>1
  <2>3. g[q[l]] = IF f[q[l]] = o THEN f[o] ELSE f[q[l]] BY <2>2
  <2>4. f[q[l]] = IF l = n THEN 0 ELSE q[l + 1]
    <3> HIDE DEF l
    <3> QED BY <1>1, <2>1
  <2>5. CASE l + 1 = k
    <3>1. l # n /\ f[q[l]] = o BY <2>4, <2>5, <1>1, <1>2
    <3>2. g[r[i]] = f[q[k]] BY <2>1, <2>3, <3>1, <1>2
    <3>3. f[q[k]] = IF k = n THEN 0 ELSE q[k + 1] BY <1>1
    <3>4. i + 1 = k /\ (i = n - 1 <=> k = n) BY <2>5, <1>1
    <3>5. i # n - 1 => i + 1 \in 1..(n - 1) /\ r[i + 1] = q[k + 1] BY <3>4, <1>1
    <3> QED BY <3>2, <3>3, <3>4, <3>5
  <2>6. CASE l + 1 # k
    <3>1. f[q[l]] # o
      <4>1. CASE l = n BY <4>1, <2>4, <1>1, <1>2
      <4>2. CASE l # n
        <5>1. l + 1 \in 1..n /\ q[l + 1] # q[k]
          <6>1. l + 1 \in 1..n BY <4>2, <2>1, <1>1
          <6> HIDE DEF l
          <6> QED BY <6>1, <2>6, <1>1
        <5> QED BY <5>1, <2>4, <4>2, <1>2
      <4> QED BY <4>1, <4>2
    <3>2. g[r[i]] = IF l = n THEN 0 ELSE q[l + 1] BY <2>1, <2>3, <2>4, <3>1
    <3>3. i = n - 1 <=> l = n
      <4>1. CASE i < k
        <5>1. l = i /\ i + 1 # k BY <2>6, <4>1
        <5> QED BY <5>1, <4>1, <1>1
      <4>2. CASE ~(i < k)
        <5>1. l = i + 1 BY <4>2
        <5> QED BY <5>1, <1>1
      <4> QED BY <4>1, <4>2
    <3>4. i # n - 1 => i + 1 \in 1..(n - 1) /\ r[i + 1] = q[l + 1] BY <2>6, <1>1
    <3> QED BY <3>2, <3>3, <3>4
  <2> QED BY <2>5, <2>6
<1>8. Walk(g, t, n - 1, r) BY <1>4, <1>5, <1>6, <1>7 DEF Walk
<1>9. On(n - 1, r) = Nodes(f, s) \ {o}
  <2>1. \A i \in 1..(n - 1) : r[i] \in Nodes(f, s) \ {o}
    <3> HIDE DEF r, from
    <3> QED BY <1>1, <1>2, <1>3
  <2>2. ASSUME NEW l \in 1..n, l # k PROVE \E i \in 1..(n - 1) : r[i] = q[l]
    <3>1. CASE l < k
      <4>1. l \in 1..(n - 1) /\ r[l] = q[l] BY <3>1, <1>1
      <4> HIDE DEF r
      <4> QED BY <4>1
    <3>2. CASE l > k
      <4>1. l - 1 \in 1..(n - 1) /\ r[l - 1] = q[l] BY <3>2, <1>1
      <4> HIDE DEF r
      <4> QED BY <4>1
    <3> QED BY <3>1, <3>2, <2>2, <1>1
  <2> HIDE DEF r
  <2> QED BY <1>1, <1>2, <2>1, <2>2 DEF On
<1>10. k \in DOMAIN q /\ r = RemoveAt(q, k)
  <2> DEFINE S == DOMAIN f \ {0}
  <2>1. r = [i \in 1..(n - 1) |-> IF i < k THEN q[i] ELSE q[i + 1]] OBVIOUS
  <2>2. q \in Seq(S) /\ k \in 1..Len(q) /\ n = Len(q) /\ k \in DOMAIN q BY <1>0, <1>1
  <2> HIDE DEF r, from, S
  <2>3. RemoveAt(q, k) = [i \in 1..(Len(q) - 1) |-> IF i < k THEN q[i] ELSE q[i + 1]]
    BY <2>2, RemoveAtIs
  <2> QED BY <2>1, <2>2, <2>3
<1> HIDE DEF r, from
<1>11. Links(g) BY DEF Links
<1>12. Linked(g, t) /\ Nodes(g, t) = Nodes(f, s) \ {o} /\ ListFrom(g, t) = r
  BY <1>8, <1>9, <1>11, ListOf
<1> QED BY <1>0, <1>2, <1>10, <1>12 DEF Skips

\* The links g after the list of h from t was tied to p, the last node of the
\* list of f from s, which shares no node with it.
TiedTogether(f, s, h, t, p, g) ==
  /\ DOMAIN h = DOMAIN f /\ DOMAIN g = DOMAIN f
  /\ Nodes(f, s) \cap Nodes(h, t) = {} /\ p \in Nodes(f, s) /\ f[p] = 0
  /\ g[p] = t /\ \A c \in Nodes(f, s) \ {p} : g[c] = f[c]
  /\ \A c \in Nodes(h, t) : g[c] = h[c]

\* Two lists become one.
LEMMA ListJoin ==
  ASSUME NEW f, Links(f), NEW s, Linked(f, s), NEW h, NEW t, Linked(h, t),
         NEW p, NEW g, TiedTogether(f, s, h, t, p, g)
  PROVE  Linked(g, s) /\ Nodes(g, s) = Nodes(f, s) \cup Nodes(h, t)
<1>0. PICK n, q : Walk(f, s, n, q) /\ Nodes(f, s) = On(n, q) BY WalkOf
<1>00. PICK m, u : Walk(h, t, m, u) /\ Nodes(h, t) = On(m, u)
  <2>1. DOMAIN h = DOMAIN f BY DEF TiedTogether
  <2>2. Links(h) BY <2>1 DEF Links
  <2> QED BY <2>2, WalkOf
<1> USE DEF TiedTogether
<1>1. /\ n \in Nat /\ q \in [1..n -> DOMAIN f \ {0}]
      /\ \A i, j \in 1..n : q[i] = q[j] => i = j
      /\ s = IF n = 0 THEN 0 ELSE q[1]
      /\ \A i \in 1..n : f[q[i]] = IF i = n THEN 0 ELSE q[i + 1]
      /\ Nodes(f, s) = {q[i] : i \in 1..n}
  BY <1>0 DEF Walk, On
<1>2. /\ m \in Nat /\ u \in [1..m -> DOMAIN f \ {0}]
      /\ \A i, j \in 1..m : u[i] = u[j] => i = j
      /\ t = IF m = 0 THEN 0 ELSE u[1]
      /\ \A i \in 1..m : h[u[i]] = IF i = m THEN 0 ELSE u[i + 1]
      /\ Nodes(h, t) = {u[i] : i \in 1..m}
  BY <1>00 DEF Walk, On
<1>3. n # 0 /\ n \in 1..n /\ p = q[n]
  <2>1. PICK i \in 1..n : p = q[i] BY <1>1
  <2>2. i = n
    <3> SUFFICES ASSUME i # n PROVE FALSE OBVIOUS
    <3>1. i + 1 \in 1..n /\ f[p] = q[i + 1] BY <1>1, <2>1
    <3> QED BY <1>1, <3>1
  <2> QED BY <2>1, <2>2
<1> DEFINE r == [i \in 1..(n + m) |-> IF i <= n THEN q[i] ELSE u[i - n]]
<1>4. /\ \A i \in 1..n : i \in 1..(n + m) /\ r[i] = q[i]
      /\ \A i \in 1..m : i + n \in 1..(n + m) /\ r[i + n] = u[i]
      /\ \A i \in 1..(n + m) : i \in 1..n \/ i - n \in 1..m
      /\ \A i \in 1..(n + m) : i \notin 1..n => r[i] = u[i - n]
  BY <1>1, <1>2
<1>5. n + m \in Nat /\ r \in [1..(n + m) -> DOMAIN g \ {0}] BY <1>1, <1>2
<1> HIDE DEF r
<1>6. ASSUME NEW i \in 1..(n + m), NEW j \in 1..(n + m), r[i] = r[j]
      PROVE  i = j
  <2>0. \A k \in 1..n, l \in 1..m : q[k] # u[l]
    <3>1. \A k \in 1..n : q[k] \in Nodes(f, s) BY <1>1
    <3>2. \A l \in 1..m : u[l] \in Nodes(h, t) BY <1>2
    <3> QED BY <3>1, <3>2
  <2>1. CASE i \in 1..n /\ j \in 1..n BY <2>1, <1>1, <1>4, <1>6
  <2>2. CASE i \notin 1..n /\ j \notin 1..n
    <3>1. i - n \in 1..m /\ j - n \in 1..m /\ u[i - n] = u[j - n]
      BY <2>2, <1>4, <1>6
    <3>2. i - n = j - n BY <3>1, <1>2
    <3> QED BY <3>2, <1>1
  <2>3. CASE i \in 1..n /\ j \notin 1..n
    BY <2>0, <2>3, <1>4, <1>6
  <2>4. CASE i \notin 1..n /\ j \in 1..n
    BY <2>0, <2>4, <1>4, <1>6
  <2> QED BY <2>1, <2>2, <2>3, <2>4
<1>7. s = IF n + m = 0 THEN 0 ELSE r[1] BY <1>1, <1>2, <1>3, <1>4
<1>8. ASSUME NEW i \in 1..(n + m)
      PROVE  g[r[i]] = IF i = n + m THEN 0 ELSE r[i + 1]
  <2>1. CASE i = n
    <3>1. r[i] = p /\ g[r[i]] = t BY <2>1, <1>3, <1>4
    <3>2. CASE m = 0 BY <2>1, <3>1, <3>2, <1>1, <1>2
    <3>3. CASE m # 0
      <4>1. 1 \in 1..m /\ r[1 + n] = u[1] BY <3>3, <1>2, <1>4
      <4> QED BY <2>1, <3>1, <3>3, <4>1, <1>1, <1>2
    <3> QED BY <3>2, <3>3
  <2>2. CASE i \in 1..n /\ i # n
    <3>0. i + 1 \in 1..n /\ i # n + m BY <2>2, <1>1, <1>2
    <3>1. r[i] = q[i] /\ r[i + 1] = q[i + 1] BY <2>2, <3>0, <1>4
    <3>2. q[i] \in Nodes(f, s) /\ q[i] # p BY <2>2, <1>1, <1>3
    <3> QED BY <2>2, <3>0, <3>1, <3>2, <1>1
  <2>3. CASE i \notin 1..n
    <3> DEFINE l == i - n
    <3>1. l \in 1..m /\ r[i] = u[l] BY <2>3, <1>4
    <3>2. l = m <=> i = n + m BY <1>1, <1>2
    <3>3. l # m => l + 1 \in 1..m /\ (l + 1) + n = i + 1 BY <3>1, <1>1, <1>2
    <3> HIDE DEF l
    <3>4. g[u[l]] = IF l = m THEN 0 ELSE u[l + 1] BY <3>1, <1>2
    <3> QED BY <3>1, <3>2, <3>3, <3>4, <1>4
  <2> QED BY <2>1, <2>2, <2>3
<1>9. Walk(g, s, n + m, r) BY <1>5, <1>6, <1>7, <1>8 DEF Walk
<1>10. On(n + m, r) = Nodes(f, s) \cup Nodes(h, t)
  <2>1. \A i \in 1..(n + m) : r[i] \in Nodes(f, s) \/ r[i] \in Nodes(h, t)
    BY <1>1, <1>2, <1>4
  <2>2. \A o \in Nodes(f, s) : \E i \in 1..(n + m) : r[i] = o BY <1>1, <1>4
  <2>3. ASSUME NEW o \in Nodes(h, t) PROVE \E i \in 1..(n + m) : r[i] = o
    <3>1. PICK i \in 1..m : o = u[i] BY <1>2
    <3> QED BY <3>1, <1>4
  <2> QED BY <2>1, <2>2, <2>3 DEF On
<1>11. Links(g) BY DEF Links
<1> QED BY <1>9, <1>10, <1>11, ListOf

-----------------------------------------------------------------------------
\* The links of a node of a list that is linked both ways.
LEMMA BothWaysShape ==
  ASSUME NEW f, Links(f), NEW b, NEW s, BothWays(f, b, s), NEW o \in Nodes(f, s)
  PROVE  /\ b[o] = 0 <=> o = s
         /\ b[o] # 0 => b[o] \in Nodes(f, s) /\ f[b[o]] = o /\ b[o] # o
         /\ f[o] # 0 => f[o] \in Nodes(f, s) /\ f[o] # o
         /\ b[f[o]] = o
<1>1. /\ Linked(f, s) /\ \A c \in Nodes(f, s) : b[f[c]] = c
      /\ s # 0 => b[s] = 0
  BY DEF BothWays
<1>2. s # 0 /\ s \in Nodes(f, s) /\ 0 \notin Nodes(f, s) BY <1>1, ListShape
<1>3. o # s => \E c \in Nodes(f, s) : f[c] = o BY <1>1, ListShape
<1>4. (f[o] = 0 \/ f[o] \in Nodes(f, s)) /\ f[o] # o BY <1>1, ListShape
<1>5. ASSUME NEW c \in Nodes(f, s), f[c] = o PROVE b[o] = c /\ c # o
  BY <1>1, <1>5, ListShape
<1> QED BY <1>1, <1>2, <1>3, <1>4, <1>5

\* The links after o was taken out, and after it was put in front.
TakenOut(f, b, s, o, g, d, t) ==
  /\ g = IF b[o] # 0 THEN [f EXCEPT ![b[o]] = f[o]] ELSE f
  /\ d = [b EXCEPT ![f[o]] = b[o]]
  /\ t = IF b[o] = 0 THEN f[o] ELSE s

PutFirst(f, b, s, o, g, d) ==
  g = [f EXCEPT ![o] = s] /\ d = [b EXCEPT ![o] = 0, ![s] = o]

\* Taking a node out of a list that is linked both ways.
LEMMA BothWaysCut ==
  ASSUME NEW f, Links(f), NEW b, DOMAIN b = DOMAIN f, NEW s, BothWays(f, b, s),
         NEW o \in Nodes(f, s), NEW g, NEW d, NEW t, TakenOut(f, b, s, o, g, d, t)
  PROVE  /\ BothWays(g, d, t) /\ Nodes(g, t) = Nodes(f, s) \ {o}
         /\ DOMAIN g = DOMAIN f /\ DOMAIN d = DOMAIN f
         /\ Skips(ListFrom(f, s), o, ListFrom(g, t))
<1> DEFINE N == Nodes(f, s)
<1>0. /\ g = IF b[o] # 0 THEN [f EXCEPT ![b[o]] = f[o]] ELSE f
      /\ d = [b EXCEPT ![f[o]] = b[o]]
      /\ t = IF b[o] = 0 THEN f[o] ELSE s
  BY DEF TakenOut
<1>1. /\ Linked(f, s) /\ \A c \in N : b[f[c]] = c
      /\ s # 0 => b[s] = 0
  BY DEF BothWays
<1>2. /\ N \subseteq DOMAIN f \ {0} /\ s # 0 /\ s \in N
      /\ \A c \in N : f[c] = 0 \/ f[c] \in N
      /\ \A c, e \in N : f[c] = f[e] => c = e
      /\ \A c \in N : f[c] # c /\ f[c] # s
  BY <1>1, ListShape
<1>3. /\ b[o] = 0 <=> o = s
      /\ b[o] # 0 => b[o] \in N /\ f[b[o]] = o /\ b[o] # o
      /\ f[o] # 0 => f[o] \in N /\ f[o] # o
  BY BothWaysShape
<1>4. DOMAIN g = DOMAIN f /\ DOMAIN d = DOMAIN f BY <1>0
<1>5. \A c \in N \ {o} : g[c] = IF f[c] = o THEN f[o] ELSE f[c]
  <2> SUFFICES ASSUME NEW c \in N, c # o
               PROVE  g[c] = IF f[c] = o THEN f[o] ELSE f[c]
    OBVIOUS
  <2>1. f[c] = o => c = b[o] /\ b[o] # 0 BY <1>1, <1>2
  <2>2. c = b[o] /\ b[o] # 0 => f[c] = o BY <1>3
  <2>3. c \in DOMAIN f BY <1>2
  <2> QED BY <1>0, <2>1, <2>2, <2>3
<1>6. t = IF s = o THEN f[o] ELSE s BY <1>0, <1>3
<1>7. /\ Linked(g, t) /\ Nodes(g, t) = N \ {o}
      /\ Skips(ListFrom(f, s), o, ListFrom(g, t))
  BY <1>1, <1>4, <1>5, <1>6, ListCut
<1>8. 0 \in DOMAIN b /\ f[o] \in DOMAIN b BY <1>2 DEF Links
<1>9. ASSUME NEW c \in N \ {o} PROVE d[g[c]] = c
  <2>1. CASE f[c] = o
    <3>1. g[c] = f[o] /\ b[o] = c BY <1>1, <1>5, <2>1
    <3> QED BY <3>1, <1>0, <1>8
  <2>2. CASE f[c] # o
    <3>1. g[c] = f[c] /\ f[c] # f[o] /\ b[f[c]] = c BY <1>1, <1>2, <1>5, <2>2
    <3> QED BY <3>1, <1>0
  <2> QED BY <2>1, <2>2
<1>10. t # 0 => d[t] = 0
  <2>1. CASE o = s BY <1>0, <1>3, <1>8, <2>1
  <2>2. CASE o # s
    <3>1. t = s /\ f[o] # s BY <1>0, <1>2, <1>3, <2>2
    <3> QED BY <3>1, <1>0, <1>1
  <2> QED BY <2>1, <2>2
<1> QED BY <1>4, <1>7, <1>9, <1>10 DEF BothWays

\* Putting a new node in front of one.
LEMMA BothWaysPush ==
  ASSUME NEW f, Links(f), NEW b, DOMAIN b = DOMAIN f, NEW s, BothWays(f, b, s),
         NEW o \in DOMAIN f \ {0}, o \notin Nodes(f, s),
         NEW g, NEW d, PutFirst(f, b, s, o, g, d)
  PROVE  /\ BothWays(g, d, o) /\ Nodes(g, o) = Nodes(f, s) \cup {o}
         /\ Leads(o, ListFrom(f, s), ListFrom(g, o))
<1> DEFINE N == Nodes(f, s)
<1>0. g = [f EXCEPT ![o] = s] /\ d = [b EXCEPT ![o] = 0, ![s] = o] BY DEF PutFirst
<1>1. /\ Linked(f, s) /\ \A c \in N : b[f[c]] = c
      /\ s # 0 => b[s] = 0
  BY DEF BothWays
<1>2. /\ N \subseteq DOMAIN f \ {0} /\ (s # 0 => s \in N)
      /\ \A c \in N : (f[c] = 0 \/ f[c] \in N) /\ f[c] # s
  <2>1. /\ N \subseteq DOMAIN f \ {0} /\ (s # 0 => s \in N)
        /\ \A c \in N : (f[c] = 0 \/ f[c] \in N) /\ f[c] # s
    BY <1>1, ListShape
  <2> QED BY <2>1
<1>3. DOMAIN g = DOMAIN f /\ g[o] = s /\ \A c \in N : g[c] = f[c] BY <1>0
<1>4. /\ Linked(g, o) /\ Nodes(g, o) = N \cup {o}
      /\ Leads(o, ListFrom(f, s), ListFrom(g, o))
  BY <1>1, <1>3, ListPush
<1>5. s \in DOMAIN b /\ o # s BY <1>2 DEF Links
<1>6. ASSUME NEW c \in N PROVE d[g[c]] = c
  <2>1. f[c] # o /\ f[c] # s /\ g[c] = f[c] /\ f[c] \in DOMAIN b
    BY <1>2, <1>3 DEF Links
  <2> QED BY <2>1, <1>0, <1>1
<1>7. d[g[o]] = o /\ d[o] = 0 BY <1>0, <1>3, <1>5
<1> QED BY <1>4, <1>6, <1>7 DEF BothWays
=============================================================================
