------------------------ MODULE CacheGeometryProofs ------------------------
(***************************************************************************)
(* The safety properties of CacheGeometry for every width of a u32 and     *)
(* every option, by one inductive invariant: the power of two a loop is at *)
(* was too small one round ago, and the product it forms next still fits a *)
(* u32.                                                                    *)
(***************************************************************************)
EXTENDS CacheGeometry, FiniteSetTheorems, TLAPS

-----------------------------------------------------------------------------
(* Natural numbers: induction over a set, powers of two, quotients and     *)
(* remainders.  tlapm knows nothing of 2^n beyond what the library says of *)
(* the number of subsets of a set, so all starts from FS_SUBSET.           *)

\* Induction, for a set of numbers: were m the first number missing from P,
\* adding one would map the members of P up to m into those without 0, which
\* are one fewer.
LEMMA NatInd ==
  ASSUME NEW P, 0 \in P, \A k \in Nat : k \in P => k + 1 \in P
  PROVE  Nat \subseteq P
<1> SUFFICES ASSUME NEW m \in Nat, m \notin P PROVE FALSE OBVIOUS
<1> DEFINE A == P \cap (0..m)
           f == [k \in A |-> k + 1]
<1>1. IsFiniteSet(A)
  <2>1. IsFiniteSet(0..m) BY FS_Interval
  <2>2. A \subseteq 0..m OBVIOUS
  <2> HIDE DEF A
  <2> QED BY <2>1, <2>2, FS_Subset
<1>2. IsFiniteSet(A \ {0}) /\ Cardinality(A \ {0}) = Cardinality(A) - 1
  <2>1. 0 \in A OBVIOUS
  <2> HIDE DEF A
  <2> QED BY <1>1, <2>1, FS_RemoveElement
<1>3. f \in [A -> A \ {0}] OBVIOUS
<1>4. Cardinality(A) \in Nat BY <1>1, FS_CardinalityType
<1>5. \E i, j \in A : i # j /\ f[i] = f[j]
  <2> HIDE DEF A, f
  <2> QED BY <1>1, <1>2, <1>3, <1>4, FS_PigeonHole
<1> QED BY <1>5

\* The empty set has one subset.
LEMMA PowZero == 2^0 = 1
<1>1. SUBSET {} = {{}} OBVIOUS
<1>2. Cardinality({}) = 0 /\ IsFiniteSet({}) BY FS_EmptySet
<1>3. Cardinality(SUBSET {}) = 2^Cardinality({}) BY <1>2, FS_SUBSET
<1>4. Cardinality({{}}) = 1 BY FS_Singleton
<1> QED BY <1>1, <1>2, <1>3, <1>4

\* A set with one more element has twice the subsets: those without that
\* element and those with it.
LEMMA PowStep ==
  ASSUME NEW n \in Nat
  PROVE  2^n \in Nat /\ 2^(n + 1) = 2 * 2^n
<1> DEFINE S == SUBSET (1..n)
           U == SUBSET (1..(n + 1))
           f == [a \in S \X (1..2) |-> IF a[2] = 1 THEN a[1] ELSE a[1] \cup {n + 1}]
<1>1. IsFiniteSet(1..n) /\ Cardinality(1..n) = n BY FS_Interval
<1>2. IsFiniteSet(1..(n + 1)) /\ Cardinality(1..(n + 1)) = n + 1 BY FS_Interval
<1>3. IsFiniteSet(S) /\ Cardinality(S) = 2^n BY <1>1, FS_SUBSET
<1>4. IsFiniteSet(U) /\ Cardinality(U) = 2^(n + 1) BY <1>2, FS_SUBSET
<1>5. IsFiniteSet(1..2) /\ Cardinality(1..2) = 2
  <2>1. ASSUME NEW k \in Nat PROVE IsFiniteSet(1..k) /\ Cardinality(1..k) = k
    BY FS_Interval
  <2> HIDE DEF f, S, U
  <2> QED BY <2>1
<1>6. /\ IsFiniteSet(S \X (1..2))
      /\ Cardinality(S \X (1..2)) = Cardinality(S) * Cardinality(1..2)
  <2> HIDE DEF S
  <2> QED BY <1>3, <1>5, FS_Product
<1>7. f \in [S \X (1..2) -> U] OBVIOUS
<1>8. ASSUME NEW a \in S \X (1..2), NEW b \in S \X (1..2), f[a] = f[b]
      PROVE  a = b
  <2>1. n + 1 \notin a[1] /\ n + 1 \notin b[1] OBVIOUS
  <2>2. (n + 1 \in f[a] <=> a[2] # 1) /\ (n + 1 \in f[b] <=> b[2] # 1) BY <2>1
  <2>3. a[2] = b[2] BY <2>2, <1>8
  <2>4. a[1] = f[a] \ {n + 1} /\ b[1] = f[b] \ {n + 1} BY <2>1
  <2>5. a[1] = b[1] BY <2>4, <1>8
  <2>6. a = <<a[1], a[2]>> /\ b = <<b[1], b[2]>> OBVIOUS
  <2> HIDE DEF f
  <2> QED BY <2>3, <2>5, <2>6
<1>9. ASSUME NEW u \in U PROVE \E a \in S \X (1..2) : f[a] = u
  <2>1. CASE n + 1 \in u
    <3>1. <<u \ {n + 1}, 2>> \in S \X (1..2)
      <4>1. u \ {n + 1} \in S OBVIOUS
      <4> HIDE DEF f, S, U
      <4> QED BY <4>1
    <3>2. f[<<u \ {n + 1}, 2>>] = (u \ {n + 1}) \cup {n + 1} BY <3>1
    <3>3. f[<<u \ {n + 1}, 2>>] = u BY <3>2, <2>1
    <3> HIDE DEF f
    <3> QED BY <3>1, <3>3
  <2>2. CASE n + 1 \notin u
    <3>1. <<u, 1>> \in S \X (1..2)
      <4>1. u \in S BY <2>2
      <4> HIDE DEF f, S, U
      <4> QED BY <4>1
    <3>2. f[<<u, 1>>] = u BY <3>1
    <3> HIDE DEF f
    <3> QED BY <3>1, <3>2
  <2> QED BY <2>1, <2>2
<1>10. f \in Bijection(S \X (1..2), U)
  <2> HIDE DEF f, S, U
  <2> QED BY <1>7, <1>8, <1>9 DEF Bijection, Injection, Surjection, IsInjective
<1>11. Cardinality(U) = Cardinality(S \X (1..2))
  <2> HIDE DEF f, S, U
  <2> QED BY <1>6, <1>10, FS_Bijection DEF ExistsBijection
<1>12. 2^n \in Nat BY <1>3, FS_CardinalityType
<1> QED
  <2> HIDE DEF f, S, U
  <2> QED BY <1>3, <1>4, <1>5, <1>6, <1>11, <1>12

\* A power of two is a number from 1 on.
LEMMA PowPositive == ASSUME NEW n \in Nat PROVE 2^n \in Nat /\ 2^n >= 1
<1> DEFINE P == {k \in Nat : 2^k >= 1}
<1>1. 0 \in P BY PowZero
<1>2. ASSUME NEW k \in Nat, k \in P PROVE k + 1 \in P
  BY <1>2, PowStep
<1>3. Nat \subseteq P
  <2> HIDE DEF P
  <2> QED BY <1>1, <1>2, NatInd
<1> QED BY <1>3, PowStep

\* The power of a sum is the product of the powers.
LEMMA PowSum ==
  ASSUME NEW m \in Nat, NEW n \in Nat
  PROVE  2^(m + n) = 2^m * 2^n
<1> DEFINE P == {k \in Nat : 2^(m + k) = 2^m * 2^k}
<1>1. 0 \in P BY PowZero, PowStep
<1>2. ASSUME NEW k \in Nat, k \in P PROVE k + 1 \in P
  <2> DEFINE a == 2^m
             b == 2^k
             c == 2^(m + k)
  <2>1. a \in Nat /\ b \in Nat /\ c \in Nat BY PowStep
  <2>2. 2^(k + 1) = 2 * b BY PowStep
  <2>3. 2^(m + (k + 1)) = 2 * c
    <3>1. m + (k + 1) = (m + k) + 1 /\ m + k \in Nat OBVIOUS
    <3> QED BY <3>1, PowStep
  <2>4. c = a * b BY <1>2
  <2>5. 2 * c = a * (2 * b)
    <3> HIDE DEF a, b, c
    <3> QED BY <2>1, <2>4
  <2> QED BY <2>2, <2>3, <2>5
<1>3. Nat \subseteq P
  <2> HIDE DEF P
  <2> QED BY <1>1, <1>2, NatInd
<1> QED BY <1>3

\* Of two powers of two the larger is at least twice the smaller.
LEMMA PowLess ==
  ASSUME NEW m \in Nat, NEW n \in Nat, m < n
  PROVE  2 * 2^m <= 2^n
<1>1. n = (m + 1) + (n - m - 1) /\ n - m - 1 \in Nat /\ m + 1 \in Nat OBVIOUS
<1>2. 2^n = 2^(m + 1) * 2^(n - m - 1)
  <2> DEFINE d == n - m - 1
  <2>1. d \in Nat /\ n = (m + 1) + d OBVIOUS
  <2> HIDE DEF d
  <2>2. 2^n = 2^(m + 1) * 2^d BY <2>1, PowSum
  <2> QED BY <2>2 DEF d
<1>3. 2^(n - m - 1) >= 1 /\ 2^(n - m - 1) \in Nat BY <1>1, PowPositive
<1>4. 2^(m + 1) = 2 * 2^m /\ 2^m \in Nat BY PowStep
<1> DEFINE a == 2^m
           b == 2^(n - m - 1)
<1>5. a \in Nat /\ b \in Nat /\ b >= 1 /\ 2^n = (2 * a) * b BY <1>2, <1>3, <1>4
<1> HIDE DEF a, b
<1>6. (2 * a) * b >= 2 * a BY <1>5
<1> QED BY <1>5, <1>6 DEF a

\* A remainder is what a quotient leaves.
LEMMA DivMod ==
  ASSUME NEW a \in Nat, NEW b \in Nat, b > 0
  PROVE  /\ a \div b \in Nat /\ a % b \in 0..(b - 1)
         /\ a = b * (a \div b) + (a % b)
OBVIOUS

\* Quotient and remainder are the only ones.
LEMMA DivIs ==
  ASSUME NEW b \in Nat, b > 0, NEW q \in Nat, NEW r \in 0..(b - 1)
  PROVE  (b * q + r) \div b = q /\ (b * q + r) % b = r
OBVIOUS

\* A multiple leaves nothing.
LEMMA MultipleRest ==
  ASSUME NEW b \in Nat, b > 0, NEW q \in Nat
  PROVE  (b * q) % b = 0
<1>1. (b * q + 0) % b = 0 BY DivIs
<1> QED BY <1>1

\* A factor of a product, and of the modulus it is taken to, divides what is
\* left of the product.
LEMMA ModKeepsFactor ==
  ASSUME NEW f \in Nat, f > 0, NEW a \in Nat, NEW b \in Nat, b > 0
  PROVE  ((f * a) % (f * b)) % f = 0
<1> DEFINE q == a \div b
           r == a % b
<1>1. q \in Nat /\ r \in 0..(b - 1) /\ a = b * q + r BY DivMod
<1> HIDE DEF q, r
<1>2. f * b \in Nat /\ f * b > 0 /\ f * r \in 0..(f * b - 1)
  <2>1. f * r + f <= f * b
    <3>1. r + 1 <= b BY <1>1
    <3>2. f * (r + 1) <= f * b BY <3>1, <1>1
    <3> QED BY <3>2, <1>1
  <2> QED BY <2>1, <1>1
<1>3. f * a = (f * b) * q + f * r BY <1>1
<1>4. (f * a) % (f * b) = f * r
  <2> DEFINE fb == f * b
             fr == f * r
  <2>1. fb \in Nat /\ fb > 0 /\ fr \in 0..(fb - 1) /\ f * a = fb * q + fr
    BY <1>2, <1>3
  <2> HIDE DEF fb, fr
  <2>2. (f * a) % fb = fr BY <2>1, <1>1, DivIs
  <2> QED BY <2>2 DEF fb, fr
<1>5. (f * r + 0) % f = 0 BY <1>1, DivIs
<1> QED BY <1>1, <1>4, <1>5

-----------------------------------------------------------------------------
\* Every variable has a value of its type; the sizes that are known are u32.
TypeOK ==
  /\ pc \in {"threads", "bucket", "slice", "refused"} \cup Sliced
  /\ arg \in Args
  /\ {x, threads, bucket_cnt, val_sz, slice_sz, slice_pow, max_size} \subseteq Nat

\* get_2pow_size(n): the last y it tried was below n; for more than half of
\* Word it has come to 0 in the end, and stays there.
TooSmall(y, n) ==
  \/ y \in PowersOf2 /\ (y = 1 \/ y < n)
  \/ y = 0 /\ 2 * n > Word

ThreadsLoop == pc = "threads" => TooSmall(x, arg["n"])
BucketLoop  == pc = "bucket" => TooSmall(x, arg["b"])

ValueFits == pc \in {"slice"} \cup Sliced => val_sz \in 1..MaxVal

\* get_slice_sz: with the largest value size the product is a multiple of
\* Word, always 0, and the loop never ends; with a smaller one it never wraps.
SliceLoop ==
  pc = "slice" =>
    /\ (2 * x) % PageMin = 0
    /\ val_sz < MaxVal =>
         /\ x \in PowersOf2 /\ 2 * x >= PageMin
         /\ 2 * x = PageMin \/ val_sz * x < Space

SliceFound ==
  pc \in Sliced =>
    /\ val_sz < MaxVal
    /\ slice_sz \in PowersOf2 /\ slice_sz >= PageMin
    /\ slice_sz * val_sz >= Space
    /\ slice_sz = PageMin \/ (slice_sz \div 2) * val_sz < Space

\* get2pow counts the doublings.
PowLoop ==
  /\ pc \in {"threads", "bucket", "slice"} => slice_pow = 0
  /\ pc = "pow" => x = 2^slice_pow /\ x \in PowersOf2 /\ x <= slice_sz
  /\ pc \in {"max", "map", "done"} => slice_sz = 2^slice_pow /\ SliceBufLen # 0

\* get_max_size looks at one multiple below the limit and stops at the next.
MaxLoop ==
  pc = "max" /\ ~Divides /\ Expected + SliceBufLen <= Word =>
    x \in {Expected \div SliceBufLen, (Expected \div SliceBufLen) + 1}

\* The rounded limit is near what was asked for, and dying has a reason.
LimitFound ==
  pc \in {"map", "done"} /\ ~Divides /\ Asked + SliceBufLen <= Word =>
    MaxBytes < Asked + SliceBufLen /\ MaxBytes > Asked - Mega
Died == pc = "crashed" => SliceBufLen = 0 \/ TooLong

IInv ==
  /\ TypeOK /\ ThreadsLoop /\ BucketLoop /\ ValueFits /\ SliceLoop /\ SliceFound
  /\ PowLoop /\ MaxLoop /\ LimitFound /\ Died /\ EveryQueueReached /\ BucketsFit

-----------------------------------------------------------------------------
\* The constants are numbers, the limits powers of two.
LEMMA Constants ==
  /\ Bits \in Nat /\ Word \in Nat /\ Head \in Nat /\ Default \in 1..(MaxVal - 1)
  /\ {Short, PageMin, PageMax, BuckMax, MaxVal} \subseteq PowersOf2
  /\ MaxVal = Mega /\ MaxVal * PageMin = Word
  /\ 2 <= PageMin /\ PageMin < BuckMax /\ PageMin < Short /\ PageMin < PageMax
  /\ BuckMax < PageMax /\ Short < Word /\ 4 * PageMax = Word
<1>1. Bits \in Nat /\ Word \in Nat BY GeometryAssumption, PowStep DEF Word
<1>2. \A p \in PowersOf2 : p \in Nat BY PowStep DEF PowersOf2
<1>3. 4 * PageMax = Word
  <2>1. Word >= 4 BY <1>1, <1>2, GeometryAssumption
  <2>2. Bits # 0 /\ Bits # 1
    <3>1. Bits = 0 => Word = 1 BY PowZero DEF Word
    <3>2. 2^(0 + 1) = 2 * 2^0 BY PowStep
    <3>3. 2^1 = 2
      <4>1. 2^(0 + 1) = 2 * 1 BY <3>2, PowZero
      <4> QED BY <4>1
    <3>4. Bits = 1 => Word = 2 BY <3>3 DEF Word
    <3> QED BY <2>1, <3>1, <3>4
  <2>3. PICK k \in Nat : Bits = (k + 1) + 1
    <3>1. Bits - 2 \in Nat BY <1>1, <2>2
    <3> QED BY <3>1, <1>1
  <2>4. 2^k \in Nat /\ Word = 2 * (2 * 2^k)
    <3>1. 2^((k + 1) + 1) = 2 * 2^(k + 1) /\ 2^(k + 1) = 2 * 2^k /\ 2^k \in Nat
      BY PowStep
    <3> QED BY <2>3, <3>1 DEF Word
  <2> QED BY <2>4, GeometryAssumption
<1> QED BY <1>1, <1>2, <1>3, GeometryAssumption

\* Powers of two are numbers from 1 to Word.
LEMMA PowersRange == \A p \in PowersOf2 : p \in 1..Word
<1> SUFFICES ASSUME NEW k \in 0..Bits PROVE 2^k \in 1..Word
  BY DEF PowersOf2
<1>1. CASE k = Bits BY <1>1, Constants, PowPositive DEF Word
<1>2. CASE k < Bits
  <2>1. 2 * 2^k <= 2^Bits BY <1>2, Constants, PowLess
  <2> QED BY <2>1, Constants, PowPositive DEF Word
<1> QED BY <1>1, <1>2, Constants

\* Of two powers the larger is at least twice the smaller, and a multiple.
LEMMA PowersApart ==
  ASSUME NEW p \in PowersOf2, NEW q \in PowersOf2, p < q
  PROVE  2 * p <= q
<1>1. PICK j \in 0..Bits : p = 2^j BY DEF PowersOf2
<1>2. PICK k \in 0..Bits : q = 2^k BY DEF PowersOf2
<1>3. j < k
  <2>1. j # k BY <1>1, <1>2, PowStep
  <2>2. ASSUME k < j PROVE FALSE
    <3>1. 2 * q <= p BY <1>1, <1>2, <2>2, Constants, PowLess
    <3> QED BY <3>1, PowersRange
  <2> QED BY <2>1, <2>2, Constants
<1> QED BY <1>1, <1>2, <1>3, Constants, PowLess

\* ... so every page, slice and bucket array is a whole number of smaller ones.
LEMMA PowersDivide ==
  ASSUME NEW p \in PowersOf2, NEW q \in PowersOf2, p <= q
  PROVE  \E d \in Nat : d > 0 /\ q = p * d
<1>1. PICK j \in 0..Bits : p = 2^j BY DEF PowersOf2
<1>2. PICK k \in 0..Bits : q = 2^k BY DEF PowersOf2
<1>3. ~ k < j
  <2> SUFFICES ASSUME k < j PROVE FALSE OBVIOUS
  <2>1. 2 * q <= p BY <1>1, <1>2, Constants, PowLess
  <2> QED BY <2>1, PowersRange
<1>4. PICK i \in Nat : k = j + i
  <2>1. k - j \in Nat BY <1>3, Constants
  <2> QED BY <2>1, Constants
<1>5. q = p * 2^i BY <1>1, <1>2, <1>4, Constants, PowSum
<1> QED BY <1>5, PowPositive

\* Doubling a power up to half of Word gives a power.
LEMMA PowersDouble ==
  ASSUME NEW p \in PowersOf2, 2 * p <= Word
  PROVE  2 * p \in PowersOf2
<1>1. PICK j \in 0..Bits : p = 2^j BY DEF PowersOf2
<1>2. 2^(j + 1) = 2 * p BY <1>1, Constants, PowStep
<1>3. j # Bits BY <1>1, Constants, PowersRange DEF Word
<1> QED BY <1>2, <1>3, Constants DEF PowersOf2

\* A power above 1 is twice another: the halves the loops start from.
LEMMA PowersHalve ==
  ASSUME NEW p \in PowersOf2, p > 1
  PROVE  p \div 2 \in PowersOf2 /\ 2 * (p \div 2) = p
<1>1. PICK j \in 0..Bits : p = 2^j BY DEF PowersOf2
<1>2. j # 0
  <2>1. j = 0 => p = 1 BY <1>1, PowZero
  <2> QED BY <2>1
<1>3. PICK i \in 0..Bits : j = i + 1
  <2>1. j - 1 \in 0..Bits BY <1>2, Constants
  <2> QED BY <2>1, Constants
<1>4. p = 2 * 2^i /\ 2^i \in Nat BY <1>1, <1>3, Constants, PowStep
<1>5. p \div 2 = 2^i BY <1>4
<1> QED BY <1>4, <1>5 DEF PowersOf2

\* The loops of get_2pow_size start from a power.
LEMMA OneIsPower == 1 \in PowersOf2
<1>1. 0 \in 0..Bits BY Constants
<1>2. 2^0 \in PowersOf2 BY <1>1 DEF PowersOf2
<1> QED BY <1>2, PowZero

-----------------------------------------------------------------------------
\* Min chooses the element that is least.
LEMMA MinIs ==
  ASSUME NEW S \in SUBSET Nat, NEW m \in S, \A i \in S : m <= i
  PROVE  Min(S) = m
<1>1. Min(S) \in S /\ \A i \in S : Min(S) <= i BY Zenon DEF Min
<1>2. Min(S) \in Nat /\ m \in Nat BY <1>1
<1> QED BY <1>1, <1>2

\* The same for Max.
LEMMA MaxIs ==
  ASSUME NEW S \in SUBSET Nat, NEW m \in S, \A i \in S : m >= i
  PROVE  Max(S) = m
<1>1. Max(S) \in S /\ \A i \in S : Max(S) >= i BY Zenon DEF Max
<1>2. Max(S) \in Nat /\ m \in Nat BY <1>1
<1> QED BY <1>1, <1>2

\* The smaller of two numbers.
LEMMA MinOfTwo ==
  ASSUME NEW i \in Nat, NEW j \in Nat
  PROVE  Min({i, j}) = IF i <= j THEN i ELSE j
BY MinIs

\* The larger of two numbers.
LEMMA MaxOfTwo ==
  ASSUME NEW i \in Nat, NEW j \in Nat
  PROVE  Max({i, j}) = IF i >= j THEN i ELSE j
BY MaxIs

\* U32 gives a u32.
LEMMA U32Type == \A i \in Nat : U32(i) \in 0..(Word - 1)
BY Constants, PowersRange, DivMod DEF U32

\* U32 leaves what fits alone.
LEMMA U32Fits == \A i \in Nat : i < Word => U32(i) = i
BY Constants DEF U32

\* An option is a u32.
LEMMA ArgType ==
  ASSUME arg \in Args
  PROVE  \A o \in {"n", "b", "v", "s", "m"} : arg[o] \in Nat /\ arg[o] < Word
<1>1. Word \in Nat BY Constants
<1>2. arg \in Options BY GeometryAssumption
<1> QED BY <1>1, <1>2 DEF Options

\* A slice is asked to hold between a page and a quarter of Word.
LEMMA SpaceType ==
  ASSUME arg \in Args, val_sz \in Nat
  PROVE  Space \in Nat /\ PageMin <= Space /\ 4 * Space <= Word
<1> DEFINE y == U32(arg["s"] * val_sz)
<1>1. y \in Nat
  <2>1. arg["s"] * val_sz \in Nat BY ArgType
  <2> QED BY <2>1, U32Type
<1>2. PageMin \in Nat /\ PageMax \in Nat BY Constants, PowersRange
<1> HIDE DEF y
<1>3. Min({PageMax, y}) \in Nat /\ Min({PageMax, y}) <= PageMax
  BY <1>1, <1>2, MinOfTwo
<1> DEFINE z == Min({PageMax, y})
<1>4. Space = Max({PageMin, z}) BY DEF Space, y
<1> HIDE DEF z
<1>5. z \in Nat /\ z <= PageMax BY <1>3 DEF z
<1>6. Space = IF PageMin >= z THEN PageMin ELSE z BY <1>2, <1>4, <1>5, MaxOfTwo
<1>7. PageMin <= PageMax /\ 4 * PageMax = Word /\ Word \in Nat BY <1>2, Constants
<1>8. Space \in Nat /\ PageMin <= Space /\ Space <= PageMax BY <1>2, <1>5, <1>6, <1>7
<1> HIDE DEF Space
<1> QED BY <1>2, <1>7, <1>8

-----------------------------------------------------------------------------
\* get_2pow_size: a next y that is still below n leaves the loop where it was;
\* one that is not has not wrapped.
LEMMA NextPower ==
  ASSUME NEW n \in Nat, n < Word, NEW y \in Nat, TooSmall(y, n)
  PROVE  /\ U32(2 * y) < n => TooSmall(U32(2 * y), n) /\ U32(2 * y) \in Nat
         /\ ~(U32(2 * y) < n) =>
              /\ y \in PowersOf2 /\ 2 * y \in PowersOf2
              /\ 2 * y < Word /\ U32(2 * y) = 2 * y /\ (y = 1 \/ y < n)
<1>1. Word \in Nat /\ PageMin \in Nat /\ PageMax \in Nat /\ 2 < Word
  <2>1. Word \in Nat /\ PageMin \in Nat /\ PageMax \in Nat BY Constants, PowersRange
  <2> QED BY <2>1, Constants
<1>2. CASE y = 0 /\ 2 * n > Word
  <2>1. U32(2 * y) = 0 BY <1>1, <1>2, U32Fits
  <2>2. n > 0 BY <1>1, <1>2
  <2> QED BY <1>2, <2>1, <2>2 DEF TooSmall
<1>3. CASE y \in PowersOf2 /\ (y = 1 \/ y < n)
  <2>1. Word \in PowersOf2 BY Constants DEF Word, PowersOf2
  <2>2. 2 * y <= Word
    <3>1. y < Word BY <1>1, <1>3
    <3> QED BY <3>1, <2>1, <1>3, PowersApart
  <2>3. CASE 2 * y = Word
    <3>1. U32(2 * y) = 0
      <4>1. (Word * 1) % Word = 0 BY <1>1, MultipleRest
      <4>2. Word * 1 = Word BY <1>1
      <4> QED BY <4>1, <4>2, <2>3 DEF U32
    <3>2. y < n /\ 2 * n > Word /\ n > 0 BY <1>1, <1>3, <2>3
    <3> QED BY <3>1, <3>2 DEF TooSmall
  <2>4. CASE 2 * y # Word
    <3>1. 2 * y < Word BY <2>2, <2>4, <1>1
    <3>2. 2 * y \in PowersOf2 BY <1>3, <2>2, PowersDouble
    <3>3. U32(2 * y) = 2 * y BY <3>1, U32Fits
    <3> QED BY <1>3, <3>1, <3>2, <3>3 DEF TooSmall
  <2> QED BY <2>3, <2>4
<1> QED BY <1>2, <1>3 DEF TooSmall

\* ... and it is the least power from 2 on.
LEMMA FirstPower ==
  ASSUME NEW n \in Nat, n < Word, NEW y \in Nat, TooSmall(y, n), ~(U32(2 * y) < n)
  PROVE  2 * y = Min({i \in PowersOf2 \ {1} : i >= n})
<1> DEFINE S == {i \in PowersOf2 \ {1} : i >= n}
<1>1. y \in PowersOf2 /\ 2 * y \in PowersOf2 /\ (y = 1 \/ y < n) /\ ~(2 * y < n)
  BY NextPower
<1>2. S \in SUBSET Nat BY PowersRange
<1>3. 2 * y \in S
  <2>1. 2 * y # 1 BY <1>1
  <2> QED BY <1>1, <2>1
<1>4. \A i \in S : 2 * y <= i
  <2> TAKE i \in S
  <2>1. i \in PowersOf2 /\ i \in Nat /\ i # 1 /\ i >= n /\ i >= 1 BY PowersRange
  <2>2. y < i BY <1>1, <2>1
  <2> QED BY <1>1, <2>1, <2>2, PowersApart
<1> HIDE DEF S
<1>5. 2 * y = Min(S) BY <1>2, <1>3, <1>4, MinIs
<1> QED BY <1>5 DEF S

\* get_slice_sz: a value size below the largest lets no product wrap.
LEMMA NextSlice ==
  ASSUME NEW v \in Nat, 1 <= v, v < MaxVal, NEW room \in Nat, 4 * room <= Word,
         NEW y \in PowersOf2, 2 * y >= PageMin, 2 * y = PageMin \/ v * y < room
  PROVE  /\ 2 * y < Word /\ v * (2 * y) < Word
         /\ 2 * y \in PowersOf2 /\ U32(2 * y) = 2 * y /\ U32(v * (2 * y)) = v * (2 * y)
<1>1. /\ y \in Nat /\ y >= 1 /\ Word \in Nat /\ MaxVal \in Nat /\ PageMin \in Nat
      /\ MaxVal * PageMin = Word /\ PageMin >= 2
  BY Constants, PowersRange
<1>2. v * (2 * y) < Word
  <2>1. CASE 2 * y = PageMin
    <3>1. v * PageMin + PageMin <= MaxVal * PageMin
      <4>1. v + 1 <= MaxVal BY <1>1
      <4>2. (v + 1) * PageMin <= MaxVal * PageMin BY <4>1, <1>1
      <4> QED BY <4>2, <1>1
    <3> QED BY <3>1, <2>1, <1>1
  <2>2. CASE v * y < room
    <3>1. v * (2 * y) = 2 * (v * y) /\ v * y \in Nat BY <1>1
    <3> QED BY <3>1, <2>2, <1>1
  <2> QED BY <2>1, <2>2
<1>3. 2 * y <= v * (2 * y) BY <1>1
<1>4. 2 * y < Word BY <1>1, <1>2, <1>3
<1>5. v * (2 * y) \in Nat BY <1>1
<1> QED BY <1>1, <1>2, <1>4, <1>5, PowersDouble, U32Fits

\* get_max_size: the limit e lies between two multiples of a slice b, and the
\* upper one fits a u32.
LEMMA NextMultiple ==
  ASSUME NEW e \in Nat, NEW b \in Nat, b > 0, e % b # 0, e + b <= Word,
         NEW q, q = e \div b
  PROVE  /\ q \in Nat /\ q + 1 < Word
         /\ U32(q * b) < e /\ U32(q + 1) = q + 1
         /\ U32((q + 1) * b) = (q + 1) * b
         /\ e < (q + 1) * b /\ (q + 1) * b < e + b
<1> DEFINE r == e % b
<1>1. q \in Nat /\ r \in 1..(b - 1) /\ e = b * q + r /\ Word \in Nat
  BY DivMod, Constants
<1> HIDE DEF r
<1>2. (q + 1) * b = b * q + b /\ q * b = b * q /\ b * q \in Nat BY <1>1
<1>3. q * b < e /\ e < (q + 1) * b /\ (q + 1) * b < e + b BY <1>1, <1>2
<1>4. q + 1 <= (q + 1) * b
  <2>1. q <= b * q BY <1>1
  <2> QED BY <2>1, <1>1, <1>2
<1>5. q * b < Word /\ (q + 1) * b < Word /\ q + 1 < Word BY <1>1, <1>2, <1>3, <1>4
<1>6. U32(q * b) = q * b /\ U32((q + 1) * b) = (q + 1) * b /\ U32(q + 1) = q + 1
  BY <1>1, <1>2, <1>5, U32Fits
<1> QED BY <1>1, <1>3, <1>5, <1>6

\* A remainder of 0 means a multiple.
LEMMA Multiple ==
  ASSUME NEW p \in Nat, p > 0, NEW z \in Nat
  PROVE  z % p = 0 <=> \E q \in Nat : z = p * q
<1>1. z % p = 0 => z = p * (z \div p) /\ z \div p \in Nat BY DivMod
<1>2. ASSUME NEW q \in Nat, z = p * q PROVE z % p = 0
  <2>1. (p * q + 0) % p = 0 BY DivIs
  <2> QED BY <1>2, <2>1
<1> QED BY <1>1, <1>2

\* What is left of whole pages modulo Word is whole pages.
LEMMA PageFactor ==
  ASSUME NEW k \in Nat
  PROVE  ((PageMin * k) % (PageMin * MaxVal)) % PageMin = 0
<1>1. PageMin \in Nat /\ PageMin > 0 /\ MaxVal \in Nat /\ MaxVal > 0
  BY Constants, PowersRange
<1> QED BY <1>1, ModKeepsFactor

\* Doubling keeps a whole number of pages whole, wrapped or not, and so many
\* values of the largest size wrap to nothing.
LEMMA PagesStayWhole ==
  ASSUME NEW y \in Nat, (2 * y) % PageMin = 0
  PROVE  /\ U32(2 * y) \in Nat /\ (2 * U32(2 * y)) % PageMin = 0
         /\ U32(MaxVal * U32(2 * y)) = 0
<1>1. /\ PageMin \in Nat /\ PageMin > 0 /\ MaxVal \in Nat /\ MaxVal > 0
      /\ Word = PageMin * MaxVal /\ Word \in Nat /\ Word > 0
  BY Constants, PowersRange
<1>2. PICK q \in Nat : 2 * y = PageMin * q
  <2> DEFINE z == 2 * y
  <2>1. z \in Nat /\ z % PageMin = 0 OBVIOUS
  <2> HIDE DEF z
  <2>2. \E q \in Nat : z = PageMin * q BY <2>1, <1>1, Multiple
  <2> QED BY <2>2 DEF z
<1> DEFINE w == U32(2 * y)
<1>3. w \in Nat
  <2>1. 2 * y \in Nat OBVIOUS
  <2> QED BY <2>1, <1>1, U32Type
<1>4. w % PageMin = 0
  <2>1. w = (PageMin * q) % (PageMin * MaxVal) BY <1>1, <1>2 DEF U32
  <2>2. ((PageMin * q) % (PageMin * MaxVal)) % PageMin = 0 BY PageFactor
  <2> HIDE DEF w
  <2> QED BY <2>1, <2>2
<1> HIDE DEF w
<1>5. PICK r \in Nat : w = PageMin * r BY <1>1, <1>3, <1>4, Multiple
<1>6. (2 * w) % PageMin = 0
  <2>1. 2 * w = PageMin * (2 * r) + 0 /\ 2 * r \in Nat BY <1>1, <1>5
  <2>2. (PageMin * (2 * r) + 0) % PageMin = 0 BY <2>1, <1>1, DivIs
  <2> QED BY <2>1, <2>2
<1>7. U32(MaxVal * w) = 0
  <2>1. MaxVal * w = Word * r
    <3>1. MaxVal * w = (PageMin * MaxVal) * r BY <1>1, <1>5
    <3> QED BY <3>1, <1>1
  <2>2. (Word * r) % Word = 0 BY <1>1, MultipleRest
  <2> QED BY <2>1, <2>2 DEF U32
<1> QED BY <1>3, <1>6, <1>7 DEF w

-----------------------------------------------------------------------------
\* The invariant holds when the first loop starts.
LEMMA InitInv == Init => IInv
<1> SUFFICES ASSUME Init PROVE IInv OBVIOUS
<1>1. TypeOK BY DEF Init, TypeOK
<1>2. ThreadsLoop BY OneIsPower DEF Init, ThreadsLoop, TooSmall
<1> QED BY <1>1, <1>2
  DEF Init, IInv, Sliced, BucketLoop, ValueFits, SliceLoop, SliceFound, PowLoop, MaxLoop,
      EveryQueueReached, BucketsFit, LimitFound, Died

\* What a slice and the limit come to depends on the options and the sizes of
\* a value and of a slice alone.
LEMMA SameSizes ==
  ASSUME UNCHANGED <<arg, val_sz>>
  PROVE  /\ Space' = Space /\ Expected' = Expected /\ Asked' = Asked
         /\ slice_sz' = slice_sz =>
              SliceBufLen' = SliceBufLen /\ Divides' = Divides /\ TooLong' = TooLong
BY DEF Space, Asked, Expected, SliceBufLen, TooLong, Divides, ChunkLen, U32

\* They are numbers.
LEMMA SizesType ==
  ASSUME TypeOK
  PROVE  /\ Expected \in Nat /\ SliceBufLen \in Nat /\ Asked \in Nat
         /\ Space \in Nat /\ PageMin <= Space /\ 4 * Space <= Word
<1>1. Asked \in Nat BY ArgType, Constants, PowersRange DEF TypeOK, Asked
<1>2. slice_sz * ChunkLen \in Nat BY Constants DEF TypeOK, ChunkLen
<1>3. Expected \in Nat /\ SliceBufLen \in Nat
  BY <1>1, <1>2, U32Type DEF Expected, SliceBufLen
<1> QED BY <1>1, <1>3, SpaceType DEF TypeOK

\* Up to the limit of a slice another doubling does not wrap.
LEMMA SliceHalf ==
  ASSUME TypeOK, ValueFits, SliceFound, pc \in Sliced
  PROVE  slice_sz \in Nat /\ 2 * slice_sz < Word
<1>1. /\ slice_sz \in PowersOf2 /\ slice_sz \in Nat /\ val_sz \in Nat /\ val_sz >= 1
      /\ slice_sz = PageMin \/ (slice_sz \div 2) * val_sz < Space
      /\ slice_sz >= PageMin
  BY PowersRange DEF SliceFound, ValueFits, TypeOK
<1>2. Word \in Nat /\ PageMin \in Nat /\ PageMax \in Nat /\ 4 * PageMax = Word
      /\ PageMin < PageMax /\ PageMin >= 2
  BY Constants, PowersRange
<1>3. CASE slice_sz = PageMin BY <1>2, <1>3
<1>4. CASE (slice_sz \div 2) * val_sz < Space
  <2> DEFINE h == slice_sz \div 2
  <2>1. h \in Nat /\ 2 * h = slice_sz BY <1>1, <1>2, PowersHalve, PowersRange
  <2>2. Space \in Nat /\ 4 * Space <= Word /\ h * val_sz < Space BY <1>4, SizesType
  <2> HIDE DEF h
  <2>3. h <= h * val_sz /\ h * val_sz \in Nat BY <1>1, <2>1
  <2>4. 4 * h < Word BY <1>2, <2>1, <2>2, <2>3
  <2> QED BY <1>1, <2>1, <2>4
<1> QED BY <1>1, <1>3, <1>4

\* Every step keeps the invariant.
LEMMA NextInv == IInv /\ [Next]_vars => IInv'
<1> SUFFICES ASSUME IInv, [Next]_vars PROVE IInv' OBVIOUS
<1> USE DEF IInv, Sliced
<1>a. /\ x \in Nat /\ slice_pow \in Nat /\ val_sz \in Nat /\ slice_sz \in Nat
      /\ arg \in Args /\ threads \in Nat /\ bucket_cnt \in Nat /\ max_size \in Nat
  BY DEF TypeOK
<1>b. \A o \in {"n", "b", "v", "s", "m"} : arg[o] \in Nat /\ arg[o] < Word
  BY <1>a, ArgType
<1>c. /\ {Word, PageMin, PageMax, BuckMax, MaxVal, Mega, Short} \subseteq Nat
      /\ 2 <= PageMin /\ PageMin < Word
  BY Constants, PowersRange
<1>d. /\ Expected \in Nat /\ SliceBufLen \in Nat /\ Asked \in Nat
      /\ Space \in Nat /\ PageMin <= Space /\ 4 * Space <= Word
  BY SizesType
<1>1. CASE ThreadsRound
  <2>1. /\ pc = "threads" /\ pc' = "threads" /\ x' = U32(2 * x) /\ U32(2 * x) < arg["n"]
        /\ UNCHANGED <<arg, geometry>>
    BY <1>1 DEF ThreadsRound, Again, Less
  <2>2. TooSmall(U32(2 * x), arg["n"]) /\ U32(2 * x) \in Nat
    BY <2>1, <1>a, <1>b, NextPower DEF ThreadsLoop
  <2>3. ThreadsLoop'
    <3>1. TooSmall(x', arg["n"]) BY <2>1, <2>2
    <3> QED BY <2>1, <3>1 DEF ThreadsLoop, TooSmall
  <2>4. TypeOK' BY <2>1, <2>2, <1>a DEF TypeOK, geometry
  <2> QED BY <2>1, <2>3, <2>4
    DEF BucketLoop, ValueFits, SliceLoop, SliceFound, PowLoop, MaxLoop,
        EveryQueueReached, BucketsFit, LimitFound, Died, geometry
<1>2. CASE ThreadsRefused
  <2>1. pc' = "refused" /\ x' = 0 /\ UNCHANGED <<arg, geometry>>
    BY <1>2 DEF ThreadsRefused, Over
  <2>2. TypeOK' BY <2>1, <1>a DEF TypeOK, geometry
  <2> QED BY <2>1, <2>2
    DEF ThreadsLoop, BucketLoop, ValueFits, SliceLoop, SliceFound, PowLoop, MaxLoop,
        EveryQueueReached, BucketsFit, LimitFound, Died
<1>3. CASE ThreadsKnown
  <2>1. /\ pc = "threads" /\ pc' = "bucket" /\ x' = 1 /\ ~(U32(2 * x) < arg["n"])
        /\ threads' = (2 * x) % Short
        /\ UNCHANGED <<arg, bucket_cnt, val_sz, slice_sz, slice_pow, max_size>>
    BY <1>3 DEF ThreadsKnown, Over, Less
  <2>2. TooSmall(x, arg["n"]) /\ U32(2 * x) = 2 * x /\ x >= 1 /\ (x = 1 \/ x < arg["n"])
    BY <2>1, <1>a, <1>b, NextPower, PowersRange DEF ThreadsLoop
  <2>3. threads' \in Nat
    BY <2>1, <1>a, Constants, PowersRange, DivMod
  <2>4. BucketLoop' BY <2>1, OneIsPower DEF BucketLoop, TooSmall
  <2>5. ASSUME arg["n"] <= Short \div 2
        PROVE  threads' = Min({i \in PowersOf2 \ {1} : i >= arg["n"]})
    <3>1. 2 * x < Short
      <4>1. 2 < Short BY <1>c, Constants
      <4> QED BY <4>1, <2>2, <2>5, <1>a, <1>b, <1>c
    <3>2. threads' = 2 * x BY <3>1, <2>1, <1>a, <1>c
    <3> QED BY <3>2, <2>1, <2>2, <1>a, <1>b, FirstPower
  <2>6. EveryQueueReached' BY <2>1, <2>5 DEF EveryQueueReached
  <2>7. TypeOK' BY <2>1, <2>3, <1>a DEF TypeOK
  <2> QED BY <2>1, <2>4, <2>6, <2>7
    DEF ThreadsLoop, ValueFits, SliceLoop, SliceFound, PowLoop, MaxLoop, BucketsFit, LimitFound, Died
<1>4. CASE BucketRound
  <2>1. /\ pc = "bucket" /\ pc' = "bucket" /\ x' = U32(2 * x) /\ U32(2 * x) < arg["b"]
        /\ UNCHANGED <<arg, geometry>>
    BY <1>4 DEF BucketRound, Again, Less
  <2>2. TooSmall(U32(2 * x), arg["b"]) /\ U32(2 * x) \in Nat
    BY <2>1, <1>a, <1>b, NextPower DEF BucketLoop
  <2>3. BucketLoop'
    <3>1. TooSmall(x', arg["b"]) BY <2>1, <2>2
    <3> QED BY <2>1, <3>1 DEF BucketLoop, TooSmall
  <2>4. TypeOK' BY <2>1, <2>2, <1>a DEF TypeOK, geometry
  <2> QED BY <2>1, <2>3, <2>4
    DEF ThreadsLoop, ValueFits, SliceLoop, SliceFound, PowLoop, MaxLoop,
        EveryQueueReached, BucketsFit, LimitFound, Died, geometry
<1>5. CASE BucketKnown
  <2>1. /\ pc = "bucket" /\ pc' = "slice" /\ x' = PageMin \div 2
        /\ ~(U32(2 * x) < arg["b"])
        /\ bucket_cnt' = Clamped(U32(2 * x)) /\ val_sz' = ValSize(arg["v"])
        /\ UNCHANGED <<arg, threads, slice_sz, slice_pow, max_size>>
    BY <1>5 DEF BucketKnown, Over, Less
  <2>2. /\ x = 1 \/ x < arg["b"]
        /\ U32(2 * x) = 2 * x
        /\ 2 * x \in PowersOf2 /\ x \in PowersOf2
    BY <2>1, <1>a, <1>b, NextPower DEF BucketLoop
  <2>3. val_sz' \in 1..MaxVal BY <2>1, <1>b, <1>c, Constants DEF ValSize
  <2>4. /\ x' \in PowersOf2 /\ x' \in Nat /\ 2 * x' = PageMin
        /\ (2 * x') % PageMin = 0
    <3>1. x' \in PowersOf2 /\ 2 * x' = PageMin BY <2>1, <1>c, Constants, PowersHalve
    <3> QED BY <3>1, <1>c, PowersRange
  <2>5. BucketsFit'
    <3> DEFINE y == 2 * x
    <3>1. /\ y \in PowersOf2 /\ y \in Nat /\ ~(y < arg["b"]) /\ bucket_cnt' = Clamped(y)
          /\ y = 2 \/ y \div 2 < arg["b"]
      BY <2>1, <2>2, <1>a, <1>b, PowersRange
    <3> HIDE DEF y
    <3>2. bucket_cnt' \in PowersOf2 /\ bucket_cnt' \in Nat
      BY <3>1, <1>c, Constants DEF Clamped
    <3>3. PageMin <= bucket_cnt' /\ bucket_cnt' <= BuckMax
      BY <3>1, <1>c, Constants DEF Clamped
    <3>4. bucket_cnt' % PageMin = 0
      <4>1. PICK d \in Nat : bucket_cnt' = PageMin * d
        BY <3>2, <3>3, Constants, PowersDivide
      <4>2. (PageMin * d + 0) % PageMin = 0 BY <1>c, DivIs
      <4> QED BY <4>1, <4>2, <1>c
    <3>5. bucket_cnt' >= Min({arg["b"], BuckMax})
      BY <3>1, <1>b, <1>c, MinOfTwo DEF Clamped
    <3>6. bucket_cnt' > PageMin => bucket_cnt' \div 2 < Max({arg["b"], 1})
      <4>1. Max({arg["b"], 1}) >= arg["b"] /\ Max({arg["b"], 1}) \in Nat
        BY <1>b, MaxOfTwo
      <4> SUFFICES ASSUME bucket_cnt' > PageMin
                   PROVE  bucket_cnt' \div 2 < arg["b"]
        BY <4>1, <3>2, <1>b
      <4>2. bucket_cnt' <= y BY <3>1, <1>c DEF Clamped
      <4>3. y > 2 BY <4>2, <3>1, <3>2, <1>c
      <4> QED BY <4>2, <4>3, <3>1, <3>2, <1>b
    <3> QED BY <2>1, <3>2, <3>3, <3>4, <3>5, <3>6 DEF BucketsFit
  <2>9. bucket_cnt' \in Nat BY <2>1, <2>2, <1>a, <1>c DEF Clamped
  <2>6. SliceLoop' BY <2>1, <2>4, <1>c DEF SliceLoop
  <2>7. TypeOK' BY <2>1, <2>3, <2>4, <2>9, <1>a DEF TypeOK
  <2>8. EveryQueueReached' BY <2>1 DEF EveryQueueReached
  <2> QED BY <2>1, <2>3, <2>5, <2>6, <2>7, <2>8
    DEF ThreadsLoop, BucketLoop, ValueFits, SliceFound, PowLoop, MaxLoop, LimitFound, Died
<1>6. CASE SliceRound
  <2>1. /\ pc = "slice" /\ pc' = "slice" /\ x' = U32(2 * x)
        /\ U32(val_sz * U32(2 * x)) < Space
        /\ UNCHANGED <<arg, geometry>>
    BY <1>6 DEF SliceRound, Again, SliceTooSmall
  <2>2. x' \in Nat BY <2>1, <1>a, <1>c, U32Type
  <2>3. (2 * x) % PageMin = 0 BY <2>1 DEF SliceLoop
  <2>4. (2 * x') % PageMin = 0
    <3>1. (2 * U32(2 * x)) % PageMin = 0 BY <2>3, <1>a, PagesStayWhole
    <3> QED BY <3>1, <2>1
  <2>5. ASSUME val_sz < MaxVal
        PROVE  x' \in PowersOf2 /\ 2 * x' >= PageMin /\ val_sz * x' < Space
    <3>1. /\ x \in PowersOf2 /\ 2 * x >= PageMin /\ val_sz >= 1
          /\ 2 * x = PageMin \/ val_sz * x < Space
      BY <2>1, <2>5, <1>a DEF SliceLoop, ValueFits
    <3>2. /\ 2 * x \in PowersOf2 /\ U32(2 * x) = 2 * x
          /\ U32(val_sz * (2 * x)) = val_sz * (2 * x)
      BY <3>1, <2>5, <1>a, <1>d, NextSlice
    <3> QED BY <3>1, <3>2, <2>1, <1>a, <1>c
  <2>6. Space' = Space BY <2>1, SameSizes DEF geometry
  <2>7. SliceLoop' BY <2>1, <2>4, <2>5, <2>6 DEF SliceLoop, geometry
  <2>8. TypeOK' BY <2>1, <2>2, <1>a DEF TypeOK, geometry
  <2> QED BY <2>1, <2>7, <2>8
    DEF ThreadsLoop, BucketLoop, ValueFits, SliceFound, PowLoop, MaxLoop,
        EveryQueueReached, BucketsFit, LimitFound, Died, geometry
<1>7. CASE SliceKnown
  <2>1. /\ pc = "slice" /\ pc' = "pow" /\ x' = 1
        /\ ~(U32(val_sz * U32(2 * x)) < Space)
        /\ slice_sz' = U32(2 * x)
        /\ UNCHANGED <<arg, threads, bucket_cnt, val_sz, slice_pow, max_size>>
    BY <1>7 DEF SliceKnown, Over, SliceTooSmall
  <2>2. val_sz \in 1..MaxVal BY <2>1 DEF ValueFits
  <2>3. val_sz < MaxVal
    <3> SUFFICES ASSUME val_sz = MaxVal PROVE FALSE BY <2>2, <1>c
    <3>1. (2 * x) % PageMin = 0 BY <2>1 DEF SliceLoop
    <3>2. U32(MaxVal * U32(2 * x)) = 0 BY <3>1, <1>a, PagesStayWhole
    <3> QED BY <3>2, <2>1, <1>c, <1>d
  <2>4. /\ x \in PowersOf2 /\ 2 * x >= PageMin
        /\ 2 * x = PageMin \/ val_sz * x < Space
    BY <2>1, <2>3 DEF SliceLoop
  <2>5. /\ 2 * x \in PowersOf2 /\ slice_sz' = 2 * x
        /\ U32(val_sz * (2 * x)) = val_sz * (2 * x) /\ U32(2 * x) = 2 * x
    BY <2>1, <2>2, <2>3, <2>4, <1>a, <1>d, NextSlice
  <2>6. Space' = Space BY <2>1, SameSizes
  <2>7. slice_sz' * val_sz >= Space
    BY <2>1, <2>5, <1>a, <1>d
  <2>8. slice_sz' \div 2 = x BY <2>5, <1>a
  <2>9. slice_sz' = PageMin \/ (slice_sz' \div 2) * val_sz < Space
    BY <2>4, <2>5, <2>8, <1>a
  <2>10. SliceFound' BY <2>1, <2>3, <2>4, <2>5, <2>6, <2>7, <2>9 DEF SliceFound
  <2>11. PowLoop'
    <3>1. slice_pow' = 0 BY <2>1 DEF PowLoop
    <3>2. x' <= slice_sz' BY <2>1, <2>4, <2>5, <1>c
    <3> QED BY <2>1, <3>1, <3>2, PowZero, OneIsPower DEF PowLoop
  <2>12. TypeOK' BY <2>1, <2>5, <1>a DEF TypeOK
  <2> QED BY <2>1, <2>2, <2>10, <2>11, <2>12
    DEF ThreadsLoop, BucketLoop, ValueFits, SliceLoop, MaxLoop,
        EveryQueueReached, BucketsFit, LimitFound, Died
<1>8. CASE PowRound
  <2>1. /\ pc = "pow" /\ pc' = "pow" /\ U32(2 * x) <= slice_sz
        /\ x' = U32(2 * x) /\ slice_pow' = slice_pow + 1
        /\ UNCHANGED <<arg, threads, bucket_cnt, val_sz, slice_sz, max_size>>
    BY <1>8 DEF PowRound, Doubles
  <2>2. x = 2^slice_pow /\ x \in PowersOf2 /\ x <= slice_sz BY <2>1 DEF PowLoop
  <2>3. 2 * x < Word /\ 2 * x \in Nat BY <2>1, <2>2, <1>a, <1>c, SliceHalf
  <2>4. x' = 2 * x /\ x' \in PowersOf2
    BY <2>1, <2>2, <2>3, <1>a, <1>c, PowersDouble, U32Fits
  <2>5. x' = 2^slice_pow'
    <3>1. 2^(slice_pow + 1) = 2 * 2^slice_pow BY <1>a, PowStep
    <3> QED BY <3>1, <2>1, <2>2, <2>4
  <2>6. PowLoop' BY <2>1, <2>4, <2>5 DEF PowLoop
  <2>7. Space' = Space BY <2>1, SameSizes
  <2>8. SliceFound' BY <2>1, <2>7 DEF SliceFound
  <2>9. TypeOK' BY <2>1, <2>4, <2>3, <1>a DEF TypeOK
  <2> QED BY <2>1, <2>6, <2>8, <2>9
    DEF ThreadsLoop, BucketLoop, ValueFits, SliceLoop, MaxLoop,
        EveryQueueReached, BucketsFit, LimitFound, Died
<1>9. CASE PowKnown
  <2>1. /\ pc = "pow" /\ pc' = "max" /\ ~(U32(2 * x) <= slice_sz) /\ SliceBufLen # 0
        /\ x' = Expected \div SliceBufLen /\ UNCHANGED <<arg, geometry>>
    BY <1>9 DEF PowKnown, Doubles
  <2>2. x = 2^slice_pow /\ x \in PowersOf2 /\ x <= slice_sz BY <2>1 DEF PowLoop
  <2>3. 2 * x < Word /\ 2 * x \in Nat BY <2>1, <2>2, <1>a, <1>c, SliceHalf
  <2>4. ~(2 * x <= slice_sz) BY <2>1, <2>3, U32Fits
  <2>5. slice_sz \in PowersOf2 BY <2>1 DEF SliceFound
  <2>6. x = slice_sz
    <3> SUFFICES ASSUME x < slice_sz PROVE FALSE BY <2>2, <1>a
    <3> QED BY <2>2, <2>4, <2>5, PowersApart
  <2>7. /\ Space' = Space /\ Expected' = Expected
        /\ SliceBufLen' = SliceBufLen /\ Divides' = Divides
    BY <2>1, SameSizes DEF geometry
  <2>8. PowLoop' BY <2>1, <2>2, <2>6, <2>7 DEF PowLoop, geometry
  <2>9. SliceFound' BY <2>1, <2>7 DEF SliceFound, geometry
  <2>10. MaxLoop' BY <2>1, <2>7 DEF MaxLoop
  <2>11. x' \in Nat BY <2>1, <1>d, DivMod
  <2>12. TypeOK' BY <2>1, <2>11, <1>a DEF TypeOK, geometry
  <2> QED BY <2>1, <2>8, <2>9, <2>10, <2>12
    DEF ThreadsLoop, BucketLoop, ValueFits, SliceLoop,
        EveryQueueReached, BucketsFit, LimitFound, Died, geometry
<1>10. CASE PowCrashes
  <2>1. /\ pc = "pow" /\ pc' = "crashed" /\ x' = 0 /\ SliceBufLen = 0
        /\ UNCHANGED <<arg, geometry>>
    BY <1>10 DEF PowCrashes, Over
  <2>2. TypeOK' BY <2>1, <1>a DEF TypeOK, geometry
  <2>3. Space' = Space /\ SliceBufLen' = SliceBufLen BY <2>1, SameSizes DEF geometry
  <2>4. SliceFound' BY <2>1, <2>3 DEF SliceFound, geometry
  <2>5. Died' BY <2>1, <2>3 DEF Died
  <2>6. ValueFits' /\ EveryQueueReached' /\ BucketsFit'
    BY <2>1 DEF ValueFits, EveryQueueReached, BucketsFit, geometry
  <2> QED BY <2>1, <2>2, <2>4, <2>5, <2>6
    DEF ThreadsLoop, BucketLoop, SliceLoop, PowLoop, MaxLoop, LimitFound
<1>11. CASE MaxRound
  <2>1. /\ pc = "max" /\ pc' = "max" /\ ~Divides /\ U32(x * SliceBufLen) < Expected
        /\ x' = U32(x + 1) /\ UNCHANGED <<arg, geometry>>
    BY <1>11 DEF MaxRound, Below
  <2>2. /\ Space' = Space /\ Expected' = Expected
        /\ SliceBufLen' = SliceBufLen /\ Divides' = Divides
    BY <2>1, SameSizes DEF geometry
  <2>3. MaxLoop'
    <3> SUFFICES ASSUME Expected + SliceBufLen <= Word
                 PROVE  x' = (Expected \div SliceBufLen) + 1
      BY <2>2 DEF MaxLoop
    <3> DEFINE q == Expected \div SliceBufLen
    <3>1. SliceBufLen > 0 /\ Expected % SliceBufLen # 0
      BY <2>1, <1>d DEF PowLoop, Divides
    <3>2. /\ U32(q + 1) = q + 1 /\ Expected < (q + 1) * SliceBufLen
          /\ U32((q + 1) * SliceBufLen) = (q + 1) * SliceBufLen /\ q \in Nat
      BY <3>1, <1>d, NextMultiple
    <3>3. x = q \/ x = q + 1 BY <2>1 DEF MaxLoop
    <3> HIDE DEF q
    <3>4. x # q + 1
      <4> SUFFICES ASSUME x = q + 1 PROVE FALSE OBVIOUS
      <4>1. (q + 1) * SliceBufLen < Expected BY <2>1, <3>2
      <4>2. (q + 1) * SliceBufLen \in Nat BY <3>2, <1>d
      <4> QED BY <4>1, <4>2, <3>2, <1>d
    <3>5. x' = q + 1 BY <2>1, <3>2, <3>3, <3>4
    <3> QED BY <3>5 DEF q
  <2>4. PowLoop' BY <2>1, <2>2 DEF PowLoop, geometry
  <2>5. SliceFound' BY <2>1, <2>2 DEF SliceFound, geometry
  <2>6. x' \in Nat
    <3>1. x + 1 \in Nat BY <1>a
    <3> QED BY <3>1, <2>1, <1>c, U32Type
  <2>7. TypeOK' BY <2>1, <2>6, <1>a DEF TypeOK, geometry
  <2> QED BY <2>1, <2>3, <2>4, <2>5, <2>7
    DEF ThreadsLoop, BucketLoop, ValueFits, SliceLoop,
        EveryQueueReached, BucketsFit, LimitFound, Died, geometry
<1>12. CASE MaxDivides
  <2>1. /\ pc = "max" /\ pc' = "map" /\ Divides /\ max_size' = Expected
        /\ UNCHANGED <<arg, x, threads, bucket_cnt, val_sz, slice_sz, slice_pow>>
    BY <1>12 DEF MaxDivides
  <2>2. /\ Space' = Space /\ Expected' = Expected
        /\ SliceBufLen' = SliceBufLen /\ Divides' = Divides
    BY <2>1, SameSizes
  <2>3. LimitFound' BY <2>1, <2>2 DEF LimitFound
  <2>4. PowLoop' BY <2>1, <2>2 DEF PowLoop
  <2>5. SliceFound' BY <2>1, <2>2 DEF SliceFound
  <2>6. TypeOK' BY <2>1, <1>a, <1>d DEF TypeOK
  <2> QED BY <2>1, <2>3, <2>4, <2>5, <2>6
    DEF ThreadsLoop, BucketLoop, ValueFits, SliceLoop, MaxLoop,
        EveryQueueReached, BucketsFit, Died
<1>13. CASE MaxKnown
  <2>1. /\ pc = "max" /\ pc' = "map" /\ ~Divides /\ ~(U32(x * SliceBufLen) < Expected)
        /\ max_size' = U32(x * SliceBufLen) \div Mega
        /\ UNCHANGED <<arg, x, threads, bucket_cnt, val_sz, slice_sz, slice_pow>>
    BY <1>13 DEF MaxKnown, Below, InMega
  <2>2. /\ Space' = Space /\ Expected' = Expected /\ Asked' = Asked
        /\ SliceBufLen' = SliceBufLen /\ Divides' = Divides
    BY <2>1, SameSizes
  <2>3. Mega \in Nat /\ Mega > 0 BY Constants, PowersRange
  <2>4. LimitFound'
    <3> SUFFICES ASSUME Asked + SliceBufLen <= Word
                 PROVE  MaxBytes' < Asked + SliceBufLen /\ MaxBytes' > Asked - Mega
      BY <2>1, <2>2 DEF LimitFound
    <3>a. Asked = Expected
      <4>1. SliceBufLen > 0 BY <2>1, <1>d DEF PowLoop
      <4>2. Asked < Word BY <4>1, <1>c, <1>d
      <4> QED BY <4>2, <1>d, U32Fits DEF Expected
    <3> DEFINE q == Expected \div SliceBufLen
               e == Expected
               b == SliceBufLen
               m == (q + 1) * b
    <3>1. SliceBufLen > 0 /\ Expected % SliceBufLen # 0
      BY <2>1, <1>d DEF PowLoop, Divides
    <3>2. /\ q \in Nat /\ U32(q * b) < e /\ U32(m) = m /\ e < m /\ m < e + b
      BY <3>1, <3>a, <1>d, NextMultiple
    <3>3. x = q \/ x = q + 1 BY <2>1, <3>a DEF MaxLoop
    <3>4. x = q + 1 BY <2>1, <3>2, <3>3
    <3>5. max_size' = m \div Mega BY <2>1, <3>2, <3>4
    <3>6. m \in Nat /\ e \in Nat /\ b \in Nat BY <3>2, <1>d
    <3> HIDE DEF q, e, b, m
    <3>7. /\ m \div Mega \in Nat /\ m % Mega \in 0..(Mega - 1)
          /\ m = Mega * (m \div Mega) + (m % Mega)
      BY <3>6, <2>3, DivMod
    <3>8. (m \div Mega) * Mega < e + b /\ (m \div Mega) * Mega > e - Mega
      BY <3>2, <3>6, <3>7, <2>3
    <3>9. e + b <= Word BY <3>a DEF e, b
    <3>10. (m \div Mega) * Mega \in Nat /\ (m \div Mega) * Mega < Word
      BY <3>6, <3>7, <3>8, <3>9, <2>3, <1>c
    <3>11. MaxBytes' = (m \div Mega) * Mega
      <4>1. MaxBytes' = U32((m \div Mega) * Mega) BY <3>5 DEF MaxBytes, U32
      <4> QED BY <4>1, <3>10, U32Fits
    <3> QED BY <3>8, <3>11, <3>a DEF e, b
  <2>5. PowLoop' BY <2>1, <2>2 DEF PowLoop
  <2>6. SliceFound' BY <2>1, <2>2 DEF SliceFound
  <2>7. max_size' \in Nat
    <3>1. x * SliceBufLen \in Nat BY <1>a, <1>d
    <3>2. U32(x * SliceBufLen) \in Nat BY <3>1, <1>c, U32Type
    <3> QED BY <3>2, <2>1, <2>3, DivMod
  <2>8. TypeOK' BY <2>1, <2>7, <1>a DEF TypeOK
  <2> QED BY <2>1, <2>4, <2>5, <2>6, <2>8
    DEF ThreadsLoop, BucketLoop, ValueFits, SliceLoop, MaxLoop,
        EveryQueueReached, BucketsFit, Died
<1>14. CASE SliceMapped \/ MapCrashes
  <2>1. /\ pc = "map" /\ UNCHANGED <<arg, x, geometry>>
        /\ pc' = "done" \/ (pc' = "crashed" /\ TooLong)
    BY <1>14 DEF SliceMapped, MapCrashes
  <2>2. /\ Space' = Space /\ Asked' = Asked /\ SliceBufLen' = SliceBufLen
        /\ Divides' = Divides /\ TooLong' = TooLong
    BY <2>1, SameSizes DEF geometry
  <2>3. MaxBytes' = MaxBytes BY <2>1 DEF MaxBytes, U32, geometry
  <2>4. LimitFound' /\ Died' BY <2>1, <2>2, <2>3 DEF LimitFound, Died
  <2>5. SliceFound' /\ PowLoop'
    BY <2>1, <2>2 DEF SliceFound, PowLoop, geometry
  <2>6. TypeOK' BY <2>1, <1>a DEF TypeOK, geometry
  <2> QED BY <2>1, <2>4, <2>5, <2>6
    DEF ThreadsLoop, BucketLoop, ValueFits, SliceLoop, MaxLoop, EveryQueueReached,
        BucketsFit, geometry
<1>15. CASE UNCHANGED vars
  <2>1. UNCHANGED <<pc, arg, x, threads, bucket_cnt, val_sz, slice_sz, slice_pow, max_size>>
    BY <1>15 DEF vars, geometry
  <2>2. /\ Space' = Space /\ Expected' = Expected /\ Asked' = Asked
        /\ SliceBufLen' = SliceBufLen /\ Divides' = Divides /\ TooLong' = TooLong
    BY <2>1, SameSizes
  <2>3. MaxBytes' = MaxBytes BY <2>1 DEF MaxBytes, U32
  <2> QED BY <2>1, <2>2, <2>3
    DEF TypeOK, ThreadsLoop, BucketLoop, ValueFits, SliceLoop, SliceFound, PowLoop, MaxLoop,
        EveryQueueReached, BucketsFit, LimitFound, Died, TooSmall
<1> QED
  BY <1>1, <1>2, <1>3, <1>4, <1>5, <1>6, <1>7, <1>8, <1>9, <1>10, <1>11, <1>12, <1>13, <1>14, <1>15
  DEF Next

-----------------------------------------------------------------------------
\* Every reachable state of the rounding satisfies the invariant: where each
\* loop is, which is out of reach of wrapping for the threads, the buckets and
\* a value below MAX_VAL_LEN, and what the loops before it have found.
THEOREM Invariance == Spec => []IInv
BY InitInv, NextInv, PTL DEF Spec

\* A hash masked with the number of threads less one reaches every queue, for
\* every number of threads asked for up to half of a u_short.
THEOREM QueuesReached == Spec => []EveryQueueReached
<1>1. IInv => EveryQueueReached BY DEF IInv
<1> QED BY <1>1, Invariance, PTL

\* The bucket array is a power of two and whole pages, whatever was asked for.
THEOREM BucketsAlwaysFit == Spec => []BucketsFit
<1>1. IInv => BucketsFit BY DEF IInv
<1> QED BY <1>1, Invariance, PTL

\* The limit put_val knows is less than a slice above and a megabyte below what
\* was asked for, where that and a slice fit a u32 and no number of slices is
\* exactly that.
THEOREM LimitIsNear == Spec => []MaxSizeNear
<1>1. IInv => MaxSizeNear BY DEF IInv, LimitFound, MaxSizeNear
<1> QED BY <1>1, Invariance, PTL

\* get_slice_sz returns the least whole number of pages that is enough.
THEOREM SlicesAreMinimal == Spec => []SliceMinimal
<1>1. IInv => SliceMinimal
  <2> SUFFICES ASSUME IInv, pc \in Sliced
               PROVE  /\ slice_sz * val_sz >= Space /\ slice_sz % PageMin = 0
                      /\ slice_sz > PageMin => (slice_sz \div 2) * val_sz < Space
    BY DEF SliceMinimal
  <2>1. /\ slice_sz \in PowersOf2 /\ slice_sz >= PageMin /\ slice_sz * val_sz >= Space
        /\ slice_sz = PageMin \/ (slice_sz \div 2) * val_sz < Space
    BY DEF IInv, SliceFound
  <2>2. PICK d \in Nat : slice_sz = PageMin * d BY <2>1, Constants, PowersDivide
  <2>3. (PageMin * d) % PageMin = 0 BY Constants, PowersRange, MultipleRest
  <2>4. slice_sz \in Nat /\ PageMin \in Nat BY <2>1, Constants, PowersRange
  <2> QED BY <2>1, <2>2, <2>3, <2>4
<1> QED BY <1>1, Invariance, PTL

\* For the ordinary value sizes the length of a slice does not wrap, and it is
\* at most four times the space for its values unless it is a page of chunks.
LEMMA SliceBytes ==
  ASSUME IInv, pc \in Sliced, Ordinary
  PROVE  /\ SliceBufLen = slice_sz * ChunkLen
         /\ slice_sz = PageMin \/ SliceBufLen < 4 * Space
<1> DEFINE s == slice_sz
           c == ChunkLen
           b == s * c
<1>1. /\ s \in PowersOf2 /\ s >= PageMin /\ s \in Nat
      /\ val_sz < MaxVal /\ val_sz \in Nat /\ val_sz >= 1
      /\ s = PageMin \/ (s \div 2) * val_sz < Space
  BY PowersRange DEF IInv, SliceFound, ValueFits, TypeOK
<1>2. /\ PageMin \in Nat /\ PageMin >= 2 /\ MaxVal \in Nat /\ MaxVal > 0
      /\ Word = PageMin * MaxVal /\ Word \in Nat /\ Head \in Nat
  BY Constants, PowersRange
<1>3. c \in Nat /\ c = val_sz + Head BY <1>1, <1>2 DEF ChunkLen
<1>4. Space \in Nat /\ 4 * Space <= Word BY SizesType DEF IInv
<1>5. Head <= val_sz /\ c < MaxVal BY <1>1, <1>2, <1>3 DEF Ordinary
<1>6. ASSUME s = PageMin PROVE b < Word
  <2> HIDE DEF s, c
  <2>1. PageMin * (c + 1) <= PageMin * MaxVal BY <1>5, <1>2, <1>3
  <2>2. s * c < Word BY <1>6, <2>1, <1>2, <1>3
  <2> QED BY <2>2
<1>7. ASSUME s # PageMin PROVE b < 4 * Space
  <2> DEFINE h == s \div 2
  <2>1. h \in Nat /\ s = 2 * h BY <1>1, <1>2, <1>7, PowersHalve, PowersRange
  <2>2. h * val_sz < Space BY <1>1, <1>7
  <2> HIDE DEF h, s, c
  <2>3. h * c <= h * (2 * val_sz) BY <2>1, <1>5, <1>1, <1>2, <1>3
  <2>4. h * (2 * val_sz) = 2 * (h * val_sz) /\ h * val_sz \in Nat BY <2>1, <1>1
  <2>5. s * c = 2 * (h * c) /\ h * c \in Nat BY <2>1, <1>3
  <2> QED BY <2>2, <2>3, <2>4, <2>5, <1>4
<1>8. b \in Nat /\ b < Word
  <2>1. b \in Nat BY <1>1, <1>3
  <2> HIDE DEF b
  <2> QED BY <1>2, <1>4, <1>6, <1>7, <2>1
<1>9. SliceBufLen = b BY <1>8, U32Fits DEF SliceBufLen
<1> QED BY <1>7, <1>9

\* Every offset of a u32 has bytes of its own, not those of two slices alone,
\* in slices that begin on a page.
THEOREM ChunksStayApart ==
  Spec => [](/\ ChunksApart
             /\ pc = "done" /\ Ordinary => \A o \in 0..(Word - 1) : OwnBytes(o))
<1> DEFINE s == slice_sz
           c == ChunkLen
<1>1. ASSUME IInv, pc = "done"
      PROVE  /\ s \in PowersOf2 /\ s >= PageMin /\ s = 2^slice_pow
             /\ s \in Nat /\ s > 0 /\ c \in Nat
             /\ PageMin \in Nat /\ PageMin > 0 /\ MaxVal \in Nat /\ Word \in Nat
             /\ Word = PageMin * MaxVal
  <2>1. s \in PowersOf2 /\ s >= PageMin /\ s = 2^slice_pow /\ val_sz \in Nat
    BY <1>1 DEF IInv, SliceFound, PowLoop, TypeOK, Sliced
  <2>2. /\ PageMin \in Nat /\ PageMin >= 2 /\ MaxVal \in Nat
        /\ Word = PageMin * MaxVal /\ Word \in Nat /\ Head \in Nat
    BY Constants, PowersRange
  <2>3. s \in Nat /\ s > 0 BY <2>1, PowersRange
  <2> QED BY <2>1, <2>2, <2>3 DEF ChunkLen
<1>2. ASSUME IInv, pc = "done" PROVE SliceBufLen % PageMin = 0
  <2>1. PICK d \in Nat : s = PageMin * d BY <1>1, <1>2, Constants, PowersDivide
  <2> USE <1>1, <1>2
  <2> HIDE DEF s, c
  <2>2. s * c = PageMin * (d * c) /\ d * c \in Nat BY <2>1
  <2>3. ((PageMin * (d * c)) % (PageMin * MaxVal)) % PageMin = 0
    BY <2>2, PageFactor
  <2> QED BY <2>2, <2>3 DEF SliceBufLen, U32, s, c
<1>3. ASSUME IInv, pc = "done", Ordinary, NEW o \in Nat PROVE OwnBytes(o)
  <2> DEFINE q == o \div s
             r == o % s
  <2>1. SliceBufLen = s * c /\ s * c \in Nat /\ s * c <= Word
    <3>1. pc \in Sliced BY <1>3 DEF Sliced
    <3>2. SliceBufLen \in 0..(Word - 1)
      <4>1. s * c \in Nat BY <1>1, <1>3
      <4> QED BY <4>1, U32Type DEF SliceBufLen
    <3>3. SliceBufLen = s * c BY <3>1, <1>3, SliceBytes
    <3> QED BY <3>2, <3>3, <1>1, <1>3
  <2>2. q \in Nat /\ r \in 0..(s - 1) /\ o = s * q + r
    <3> USE <1>1, <1>3
    <3> HIDE DEF s
    <3> QED BY DivMod
  <2>3. Place(o)[1] = q /\ Place(o)[2] = U32(r * c)
    <3>1. s = 2^slice_pow BY <1>1, <1>3
    <3> QED BY <3>1 DEF Place
  <2> HIDE DEF q, r, s, c
  <2>4. s \in Nat /\ c \in Nat /\ c > 0 /\ Word \in Nat
    <3>1. s \in Nat /\ c \in Nat /\ Word \in Nat BY <1>1, <1>3
    <3>2. val_sz \in 1..MaxVal /\ Head \in Nat /\ MaxVal \in Nat
      BY <1>3, Constants, PowersRange DEF IInv, ValueFits, Sliced
    <3> QED BY <3>1, <3>2 DEF c, ChunkLen
  <2>5. (r + 1) * c <= s * c /\ (r + 1) * c = r * c + c /\ r * c \in Nat
    <3>1. r + 1 <= s /\ r \in Nat BY <2>2, <2>4
    <3> QED BY <3>1, <2>4
  <2>6. r * c < Word BY <2>1, <2>4, <2>5
  <2>7. Place(o)[2] = r * c BY <2>3, <2>5, <2>6, U32Fits
  <2>8. q * (s * c) + r * c = o * c BY <2>2, <2>4
  <2> QED BY <2>1, <2>3, <2>5, <2>7, <2>8 DEF OwnBytes, c
<1>4. IInv => /\ ChunksApart
              /\ pc = "done" /\ Ordinary => \A o \in 0..(Word - 1) : OwnBytes(o)
  <2>1. \A o \in 0..(2 * slice_sz - 1) : IInv => o \in Nat BY DEF IInv, TypeOK
  <2>2. \A o \in 0..(Word - 1) : o \in Nat BY Constants
  <2>3. IInv /\ pc = "done" /\ Ordinary => \A o \in Nat : OwnBytes(o) BY <1>3
  <2> QED BY <1>2, <2>1, <2>2, <2>3 DEF ChunksApart
<1> QED BY <1>4, Invariance, PTL

\* init survives every ordinary value size whose slices are not too large.
THEOREM InitAlwaysSurvives == Spec => []InitSurvives
<1>1. IInv => InitSurvives
  <2> SUFFICES ASSUME IInv, pc = "crashed" PROVE InitSurvives BY DEF InitSurvives
  <2> DEFINE c == ChunkLen
             b == SliceBufLen
  <2>1. /\ MaxVal \in Nat /\ PageMax \in Nat /\ PageMin \in Nat /\ PageMin > 0
        /\ PageMin * MaxVal = Word /\ 4 * PageMax = Word
    BY Constants, PowersRange
  <2>2. Space \in Nat /\ b \in Nat /\ (b = 0 \/ b >= Word \div 2)
    BY SizesType DEF IInv, Died, TooLong
  <2>3. c \in Nat /\ c > 0 /\ slice_sz \in Nat /\ slice_sz >= PageMin
    <3>1. val_sz \in 1..MaxVal /\ slice_sz >= PageMin /\ slice_sz \in Nat
      BY DEF IInv, ValueFits, SliceFound, TypeOK, Sliced
    <3> QED BY <3>1, <2>1, Constants DEF ChunkLen
  <2> SUFFICES ASSUME Ordinary, 2 * c < MaxVal, 2 * Space <= PageMax PROVE FALSE
    <3> HIDE DEF c
    <3>1. ~(2 * c < MaxVal) => 2 * c >= MaxVal BY <2>1, <2>3
    <3>2. ~(2 * Space <= PageMax) => 2 * Space > PageMax BY <2>1, <2>2
    <3> QED BY <3>1, <3>2 DEF InitSurvives, c
  <2>4. b = slice_sz * c /\ (slice_sz = PageMin \/ b < 4 * Space)
    BY SliceBytes DEF Sliced
  <2> HIDE DEF b, c
  <2>5. b # 0 BY <2>1, <2>3, <2>4
  <2>6. 2 * b >= Word BY <2>1, <2>2, <2>5
  <2>7. CASE slice_sz = PageMin
    <3>1. PageMin * (2 * c + 1) <= PageMin * MaxVal BY <2>1, <2>3
    <3>2. PageMin * (2 * c + 1) = 2 * (PageMin * c) + PageMin BY <2>1, <2>3
    <3>3. b = PageMin * c /\ b \in Nat BY <2>4, <2>7, <2>2
    <3> QED BY <3>1, <3>2, <3>3, <2>1, <2>6
  <2>8. CASE b < 4 * Space BY <2>8, <2>1, <2>2, <2>6
  <2> QED BY <2>4, <2>7, <2>8
<1> QED BY <1>1, Invariance, PTL
=============================================================================
