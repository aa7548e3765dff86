----------------------------- MODULE LinkedList -----------------------------
(***************************************************************************)
(* Lists whose links are a function f from nodes to nodes, as the offsets  *)
(* kept in the chunks of a ddcache are; 0 ends a list.                     *)
(***************************************************************************)
EXTENDS Integers, FiniteSets, SequencesExt

\* The node behind the nodes q of a list from s along the links f, or 0.
Behind(f, s, q) ==
  IF q = <<>> THEN s ELSE LET c == Last(q) IN IF c \in DOMAIN f THEN f[c] ELSE c

\* The nodes met from s along the links f up to the 0 that ends a list.  A
\* list that never ends is cut when it is as long as there are nodes.
ListFrom(f, s) ==
  LET first[n \in 0..Cardinality(DOMAIN f)] ==
        IF n = 0 THEN <<>>
        ELSE LET q == first[n - 1]
                 c == Behind(f, s, q)
             IN  IF c = 0 THEN q ELSE Append(q, c)
  IN  first[Cardinality(DOMAIN f)]

Nodes(f, s) == ToSet(ListFrom(f, s))
Ends(f, s)  == Len(ListFrom(f, s)) < Cardinality(DOMAIN f)

\* q is the list from s along f: no node twice, and 0 after the last.
Path(f, s, q) ==
  /\ q \in Seq(DOMAIN f \ {0}) /\ \A i, j \in 1..Len(q) : q[i] = q[j] => i = j
  /\ s = IF Len(q) = 0 THEN 0 ELSE q[1]
  /\ \A i \in 1..Len(q) : f[q[i]] = IF i = Len(q) THEN 0 ELSE q[i + 1]

\* There is a list from s along f.
Linked(f, s) == Path(f, s, ListFrom(f, s))

\* The list r is the list q without its node o.
Skips(q, o, r) == \E k \in DOMAIN q : q[k] = o /\ r = RemoveAt(q, k)

\* The list r is the node o with the list q behind it.
Leads(o, q, r) == r # <<>> /\ Head(r) = o /\ Tail(r) = q

\* The links b lead back where the links f lead forward.
BothWays(f, b, s) ==
  /\ Linked(f, s)
  /\ \A o \in Nodes(f, s) : b[f[o]] = o
  /\ s # 0 => b[s] = 0
=============================================================================
