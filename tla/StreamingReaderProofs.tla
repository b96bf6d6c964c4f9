------------------------ MODULE StreamingReaderProofs ------------------------
EXTENDS StreamingReader, FiniteSetTheorems, SequenceTheorems, WellFoundedInduction, TLAPS

(***************************************************************************)
(* The safety of the streaming reader: the inductive invariant             *)
(* StreamingInvariant of StreamingReader, and the properties that follow   *)
(* from it, for files, slices, limits and queues of every size.            *)
(*                                                                         *)
(* An operator of the model takes a Reader to the next one, and a lemma    *)
(* says of each what it keeps: Sound of the slices, Good of the types,     *)
(* Same if it leaves the queues of the downloader alone, Kept of what the  *)
(* downloader has asked for.  A step is then a chain of these lemmas.      *)
(***************************************************************************)

-----------------------------------------------------------------------------
(* Numbers and sequences                                                   *)

\* What holds for 0 and goes from each number to the next holds for all up to the last.
LEMMA Upwards ==
    ASSUME NEW n \in Nat, NEW S, 0 \in S, \A i \in 0..n : i \in S /\ i < n => i + 1 \in S
    PROVE  \A i \in 0..n : i \in S
<1> SUFFICES ASSUME ~(\A i \in 0..n : i \in S) PROVE FALSE
  OBVIOUS
<1> DEFINE T == {i \in 0..n : i \notin S}
<1>1. T \subseteq Nat /\ T # {}
  OBVIOUS
<1>2. \E x \in T : \A y \in T : ~ (<<y, x>> \in OpToRel(<, Nat))
  BY <1>1, NatLessThanWellFounded, WFMin
<1>3. PICK x \in T : \A y \in T : ~(y < x)
  BY <1>1, <1>2 DEF OpToRel
<1>4. x \in 1..n /\ x - 1 \notin T
  BY <1>3
<1> QED BY <1>4

\* A set of numbers has a least one, and a set of numbers up to n a greatest one.
LEMMA Least ==
    ASSUME NEW S, S \subseteq Nat, S # {}
    PROVE  MinOf(S) \in S /\ \A e \in S : MinOf(S) <= e
<1>1. \E x \in S : \A y \in S : ~ (<<y, x>> \in OpToRel(<, Nat))
  BY NatLessThanWellFounded, WFMin
<1>2. PICK x \in S : \A y \in S : ~(y < x)
  BY <1>1 DEF OpToRel
<1>3. \A y \in S : x <= y
  <2> TAKE y \in S
  <2>1. x \in Nat /\ y \in Nat /\ ~(y < x)
    BY <1>2
  <2> QED BY <2>1
<1> QED BY <1>2, <1>3 DEF MinOf

\* The greatest of some numbers up to a limit is one of them.
LEMMA Greatest ==
    ASSUME NEW n \in Nat, NEW S, S \subseteq 0..n, S # {}
    PROVE  MaxOf(S) \in S /\ \A e \in S : MaxOf(S) >= e
<1> DEFINE T == {n - e : e \in S}
<1>0. \A e \in S : n - e \in Nat
  OBVIOUS
<1>1. T \subseteq Nat /\ T # {}
  BY <1>0
<1>2. MinOf(T) \in T /\ \A x \in T : MinOf(T) <= x
  BY <1>1, Least
<1>3. PICK e \in S : MinOf(T) = n - e
  BY <1>2
<1>4. \A f \in S : e >= f
  <2> TAKE f \in S
  <2>1. n - f \in T
    OBVIOUS
  <2>2. n - e <= n - f
    BY <1>2, <1>3, <2>1
  <2>3. f \in 0..n /\ e \in 0..n
    OBVIOUS
  <2>4. n \in Int /\ f \in Int /\ e \in Int
    BY <2>3
  <2> QED BY <2>2, <2>4
<1> QED BY <1>4 DEF MaxOf

\* A finite set of numbers can be put in order ...
LEMMA OrderExists ==
    ASSUME NEW n \in Nat, NEW S, S \subseteq 0..n
    PROVE  /\ IsFiniteSet(S)
           /\ \E s \in [1..Cardinality(S) -> S] : \A i, j \in DOMAIN s : i < j => s[i] < s[j]
<1> DEFINE Ordered(R) ==
             /\ IsFiniteSet(R)
             /\ \E s \in [1..Cardinality(R) -> R] : \A i, j \in DOMAIN s : i < j => s[i] < s[j]
           T == {k \in 0..(n + 1) : \A R \in SUBSET Nat : (\A e \in R : e < k) => Ordered(R)}
<1>1. 0 \in T
  <2> SUFFICES ASSUME NEW R \in SUBSET Nat, \A e \in R : e < 0 PROVE Ordered(R)
    OBVIOUS
  <2>1. R = {}
    OBVIOUS
  <2>2. IsFiniteSet({}) /\ Cardinality({}) = 0
    BY FS_EmptySet
  <2>3. [i \in 1..0 |-> 0] \in [1..0 -> {}]
    OBVIOUS
  <2> QED BY <2>1, <2>2, <2>3
<1>2. ASSUME NEW k \in 0..(n + 1), k \in T, k < n + 1 PROVE k + 1 \in T
  <2> SUFFICES ASSUME NEW R \in SUBSET Nat, \A e \in R : e < k + 1 PROVE Ordered(R)
    BY <1>2
  <2> DEFINE P == R \ {k}
  <2>1. P \in SUBSET Nat /\ \A e \in P : e < k
    OBVIOUS
  <2>2. Ordered(P)
    BY <1>2, <2>1
  <2>3. CASE k \notin R
    <3>1. P = R
      BY <2>3
    <3> QED BY <2>2, <3>1
  <2>4. CASE k \in R
    <3> DEFINE c == Cardinality(P)
    <3>1. R = P \cup {k} /\ k \notin P /\ IsFiniteSet(P)
      BY <2>2, <2>4
    <3> HIDE DEF P
    <3>2. IsFiniteSet(R) /\ Cardinality(R) = c + 1 /\ c \in Nat
      BY <3>1, FS_AddElement, FS_CardinalityType
    <3>3. PICK s \in [1..c -> P] : \A i, j \in DOMAIN s : i < j => s[i] < s[j]
      BY <2>2
    <3> HIDE DEF c
    <3> DEFINE t == [i \in 1..(c + 1) |-> IF i = c + 1 THEN k ELSE s[i]]
    <3>4. \A i \in 1..(c + 1) : i = c + 1 \/ i \in 1..c
      BY <3>2
    <3>5. t \in [1..(c + 1) -> R]
      BY <3>1, <3>3, <3>4
    <3>6. \A i, j \in 1..(c + 1) : i < j => t[i] < t[j]
      <4> SUFFICES ASSUME NEW i \in 1..(c + 1), NEW j \in 1..(c + 1), i < j PROVE t[i] < t[j]
        OBVIOUS
      <4>1. i \in 1..c
        BY <3>2
      <4>2. t[i] = s[i] /\ s[i] \in P
        BY <3>2, <3>3, <4>1
      <4>3. CASE j = c + 1
        BY <2>1, <4>2, <4>3
      <4>4. CASE j \in 1..c
        <5>1. t[j] = s[j]
          BY <3>2, <4>4
        <5> QED BY <3>3, <4>1, <4>2, <4>4, <5>1
      <4> QED BY <3>4, <4>3, <4>4
    <3> QED BY <3>2, <3>5, <3>6
  <2> QED BY <2>3, <2>4
<1> HIDE DEF Ordered, T
<1>3. \A i \in 0..(n + 1) : i \in T
  BY <1>1, <1>2, Upwards
<1>4. n + 1 \in T /\ S \in SUBSET Nat /\ \A e \in S : e < n + 1
  BY <1>3
<1>5. Ordered(S)
  BY <1>4 DEF T
<1> QED BY <1>5 DEF Ordered

\* ... and InOrder() does it: each number is there once.
LEMMA InOrderIs ==
    ASSUME NEW n \in Nat, NEW S, S \subseteq 0..n
    PROVE  /\ InOrder(S) \in Seq(S) /\ Increasing(InOrder(S))
           /\ \A e \in S : \E i \in DOMAIN InOrder(S) : InOrder(S)[i] = e
<1> DEFINE c == Cardinality(S)
<1>1. IsFiniteSet(S) /\ c \in Nat
  BY OrderExists, FS_CardinalityType
<1>2. PICK s : s = InOrder(S)
  OBVIOUS
<1>3. s \in [1..c -> S] /\ \A i, j \in DOMAIN s : i < j => s[i] < s[j]
  BY <1>2, OrderExists DEF InOrder
<1> HIDE DEF c
<1>4. \A i, j \in 1..c : s[i] = s[j] => i = j
  <2> SUFFICES ASSUME NEW i \in 1..c, NEW j \in 1..c, s[i] = s[j], i # j PROVE FALSE
    OBVIOUS
  <2>a. s[i] \in S /\ s[j] \in S
    BY <1>3
  <2>b. s[i] \in 0..n /\ s[j] \in 0..n
    BY <2>a
  <2>1. i \in Nat /\ j \in Nat /\ s[i] \in Nat /\ s[j] \in Nat
    BY <1>1, <2>b
  <2>2. i < j \/ j < i
    BY <2>1
  <2>3. s[i] < s[j] \/ s[j] < s[i]
    BY <1>3, <2>2
  <2> QED BY <2>1, <2>3
<1>5. s \in Injection(1..c, S)
  BY <1>3, <1>4 DEF Injection, IsInjective
<1>6. IsFiniteSet(1..c) /\ Cardinality(1..c) = c
  BY <1>1, FS_Interval
<1>7. s \in Surjection(1..c, S)
  BY <1>1, <1>5, <1>6, FS_Injection DEF c
<1>8. \A e \in S : \E i \in 1..c : s[i] = e
  BY <1>7 DEF Surjection
<1>9. s \in Seq(S) /\ DOMAIN s = 1..c
  BY <1>1, <1>3
<1> QED BY <1>2, <1>3, <1>8, <1>9 DEF Increasing

\* A sequence behind another one.
LEMMA ConcatIs ==
    ASSUME NEW S, NEW s \in Seq(S), NEW t \in Seq(S)
    PROVE  /\ s \o t \in Seq(S) /\ ToSet(s \o t) = ToSet(s) \cup ToSet(t)
           /\ S \subseteq Nat => (Increasing(s \o t) <=>
                 Increasing(s) /\ Increasing(t) /\ \A p \in ToSet(s), q \in ToSet(t) : p < q)
<1> DEFINE m == Len(s)
           n == Len(t)
<1>1. PICK u : u = s \o t
  OBVIOUS
<1>2. /\ u \in Seq(S) /\ Len(u) = m + n
      /\ \A i \in 1..(m + n) : u[i] = IF i <= m THEN s[i] ELSE t[i - m]
  BY <1>1, ConcatProperties
<1>3. /\ m \in Nat /\ n \in Nat /\ DOMAIN s = 1..m /\ DOMAIN t = 1..n
      /\ DOMAIN u = 1..(m + n)
  BY <1>2, LenProperties
<1> HIDE DEF m, n
<1>4. \A i \in 1..m : i \in 1..(m + n) /\ u[i] = s[i]
  BY <1>2, <1>3
<1>5. \A i \in 1..n : i + m \in 1..(m + n) /\ u[i + m] = t[i]
  <2> TAKE i \in 1..n
  <2>1. i + m \in 1..(m + n) /\ ~(i + m <= m) /\ (i + m) - m = i
    BY <1>3
  <2> QED BY <1>2, <2>1
<1>6. \A i \in 1..(m + n) : i \in 1..m \/ \E j \in 1..n : i = j + m
  <2> TAKE i \in 1..(m + n)
  <2>1. CASE i <= m
    BY <1>3, <2>1
  <2>2. CASE ~(i <= m)
    <3>1. i - m \in 1..n /\ i = (i - m) + m
      BY <1>3, <2>2
    <3> QED BY <3>1
  <2> QED BY <2>1, <2>2
<1>7. ToSet(u) = ToSet(s) \cup ToSet(t)
  <2>1. \A e \in ToSet(u) : e \in ToSet(s) \cup ToSet(t)
    <3> SUFFICES ASSUME NEW i \in 1..(m + n) PROVE u[i] \in ToSet(s) \cup ToSet(t)
      BY <1>3 DEF ToSet
    <3>1. CASE i \in 1..m
      BY <1>3, <1>4, <3>1 DEF ToSet
    <3>2. CASE \E j \in 1..n : i = j + m
      BY <1>3, <1>5, <3>2 DEF ToSet
    <3> QED BY <1>6, <3>1, <3>2
  <2>2. ToSet(s) \subseteq ToSet(u)
    BY <1>3, <1>4 DEF ToSet
  <2>3. ToSet(t) \subseteq ToSet(u)
    BY <1>3, <1>5 DEF ToSet
  <2> QED BY <2>1, <2>2, <2>3
<1>8. ASSUME S \subseteq Nat, Increasing(u)
      PROVE  Increasing(s) /\ Increasing(t) /\ \A p \in ToSet(s), q \in ToSet(t) : p < q
  <2>1. Increasing(s)
    BY <1>3, <1>4, <1>8 DEF Increasing
  <2>2. Increasing(t)
    <3> SUFFICES ASSUME NEW i \in 1..n, NEW j \in 1..n, i < j PROVE t[i] < t[j]
      BY <1>3 DEF Increasing
    <3>1. i + m < j + m
      BY <1>3
    <3> QED BY <1>3, <1>5, <1>8, <3>1 DEF Increasing
  <2>3. ASSUME NEW i \in 1..m, NEW j \in 1..n PROVE s[i] < t[j]
    <3>1. i < j + m
      BY <1>3
    <3> QED BY <1>3, <1>4, <1>5, <1>8, <3>1 DEF Increasing
  <2> QED BY <1>3, <2>1, <2>2, <2>3 DEF ToSet
<1>9. ASSUME S \subseteq Nat, Increasing(s), Increasing(t),
             \A p \in ToSet(s), q \in ToSet(t) : p < q
      PROVE  Increasing(u)
  <2> SUFFICES ASSUME NEW i \in 1..(m + n), NEW j \in 1..(m + n), i < j PROVE u[i] < u[j]
    BY <1>3 DEF Increasing
  <2>1. CASE i \in 1..m /\ j \in 1..m
    BY <1>3, <1>4, <1>9, <2>1 DEF Increasing
  <2>2. CASE i \in 1..m /\ \E k \in 1..n : j = k + m
    BY <1>3, <1>4, <1>5, <1>9, <2>2 DEF ToSet
  <2>3. CASE \E k \in 1..n : i = k + m /\ \E l \in 1..n : j = l + m
    <3>1. PICK k \in 1..n, l \in 1..n : i = k + m /\ j = l + m
      BY <2>3
    <3>2. k < l
      BY <1>3, <3>1
    <3> QED BY <1>3, <1>5, <1>9, <3>1, <3>2 DEF Increasing
  <2>4. CASE (\E k \in 1..n : i = k + m) /\ j \in 1..m
    BY <1>3, <2>4
  <2> QED BY <1>6, <2>1, <2>2, <2>3, <2>4
<1> QED BY <1>1, <1>2, <1>7, <1>8, <1>9

\* The first elements of a sequence, and the others.
LEMMA CutIs ==
    ASSUME NEW S, NEW s \in Seq(S), NEW n \in 0..Len(s)
    PROVE  LET a == SubSeq(s, 1, n)
               b == SubSeq(s, n + 1, Len(s))
           IN  /\ a \in Seq(S) /\ b \in Seq(S) /\ ToSet(a) \cup ToSet(b) = ToSet(s)
               /\ Len(a) = n /\ \A i \in 1..n : a[i] = s[i]
               /\ Increasing(s) => Increasing(a) /\ Increasing(b)
<1> DEFINE m == Len(s)
<1>0. PICK a, b : a = SubSeq(s, 1, n) /\ b = SubSeq(s, n + 1, Len(s))
  OBVIOUS
<1>1. m \in Nat /\ DOMAIN s = 1..m /\ \A i \in 1..m : s[i] \in S
  BY LenProperties, ElementOfSeq
<1> HIDE DEF m
<1>2. n \in 0..m /\ n \in Int /\ m \in Int /\ n + 1 \in Int
  BY <1>1 DEF m
<1>a. \A i \in 1..n : i \in 1..m
  BY <1>2
<1>b. \A i \in (n + 1)..m : i \in 1..m
  BY <1>2
<1>3. /\ a \in Seq(S) /\ Len(a) = IF 1 <= n THEN n - 1 + 1 ELSE 0
      /\ \A i \in 1..(n - 1 + 1) : a[i] = s[1 + i - 1]
  <2>1. \A i \in 1..n : s[i] \in S
    BY <1>1, <1>a
  <2> QED BY <1>0, <1>2, <2>1, SubSeqProperties
<1>4. /\ b \in Seq(S) /\ Len(b) = IF n + 1 <= m THEN m - (n + 1) + 1 ELSE 0
      /\ \A i \in 1..(m - (n + 1) + 1) : b[i] = s[(n + 1) + i - 1]
  <2>1. \A i \in (n + 1)..m : s[i] \in S
    BY <1>1, <1>b
  <2> QED BY <1>0, <1>2, <2>1, SubSeqProperties DEF m
<1>5. Len(a) = n /\ DOMAIN a = 1..n /\ \A i \in 1..n : a[i] = s[i]
  <2>1. Len(a) = n
    BY <1>2, <1>3
  <2>2. n - 1 + 1 = n /\ \A i \in 1..n : 1 + i - 1 = i
    BY <1>2
  <2> QED BY <1>3, <2>1, <2>2, LenProperties
<1>6. DOMAIN b = 1..(m - n) /\ \A i \in 1..(m - n) : b[i] = s[n + i] /\ n + i \in 1..m
  <2>1. Len(b) = m - n /\ m - (n + 1) + 1 = m - n
    BY <1>2, <1>4
  <2>2. \A i \in 1..(m - n) : (n + 1) + i - 1 = n + i /\ n + i \in 1..m
    BY <1>2
  <2> QED BY <1>4, <2>1, <2>2, LenProperties
<1>7. \A i \in 1..m : i \in 1..n \/ \E j \in 1..(m - n) : i = n + j
  <2> TAKE i \in 1..m
  <2>1. CASE i <= n
    BY <1>2, <2>1
  <2>2. CASE ~(i <= n)
    <3>1. i - n \in 1..(m - n) /\ i = n + (i - n)
      BY <1>2, <2>2
    <3> QED BY <3>1
  <2> QED BY <2>1, <2>2
<1>8. ToSet(a) \cup ToSet(b) = ToSet(s)
  <2>1. ToSet(a) \subseteq ToSet(s) /\ ToSet(b) \subseteq ToSet(s)
    BY <1>1, <1>5, <1>6, <1>a DEF ToSet
  <2>2. ASSUME NEW i \in 1..m PROVE s[i] \in ToSet(a) \cup ToSet(b)
    <3>1. CASE i \in 1..n
      BY <1>5, <3>1 DEF ToSet
    <3>2. CASE \E j \in 1..(m - n) : i = n + j
      BY <1>6, <3>2 DEF ToSet
    <3> QED BY <1>7, <3>1, <3>2
  <2> QED BY <1>1, <2>1, <2>2 DEF ToSet
<1>9. ASSUME Increasing(s) PROVE Increasing(a) /\ Increasing(b)
  <2>1. Increasing(a)
    BY <1>1, <1>5, <1>9, <1>a DEF Increasing
  <2>2. ASSUME NEW i \in 1..(m - n), NEW j \in 1..(m - n), i < j PROVE b[i] < b[j]
    <3>1. n + i < n + j
      BY <1>2, <2>2
    <3> QED BY <1>1, <1>6, <1>9, <2>2, <3>1 DEF Increasing
  <2> QED BY <1>6, <2>1, <2>2 DEF Increasing
<1> QED BY <1>0, <1>3, <1>4, <1>5, <1>8, <1>9

\* What is left of a sequence stays in order.
LEMMA WithoutIs ==
    ASSUME NEW T, NEW s \in Seq(T), NEW S
    PROVE  /\ Without(s, S) \in Seq(T) /\ ToSet(Without(s, S)) = ToSet(s) \ S
           /\ Increasing(s) => Increasing(Without(s, S))
<1>1. Len(s) \in Nat /\ DOMAIN s = 1..Len(s) /\ \A i \in DOMAIN s : s[i] \in T
  BY LenProperties, ElementOfSeq
<1> DEFINE K == {i \in DOMAIN s : s[i] \notin S}
<1>2. K \subseteq 0..Len(s)
  BY <1>1
<1>3. PICK k : k = InOrder(K)
  OBVIOUS
<1>4. k \in Seq(K) /\ Increasing(k) /\ \A e \in K : \E i \in DOMAIN k : k[i] = e
  BY <1>1, <1>2, <1>3, InOrderIs
<1>5. Len(k) \in Nat /\ DOMAIN k = 1..Len(k) /\ \A i \in DOMAIN k : k[i] \in K
  BY <1>4, LenProperties, ElementOfSeq
<1>6. PICK w : w = [i \in DOMAIN k |-> s[k[i]]]
  OBVIOUS
<1>7. Without(s, S) = w
  BY <1>3, <1>6 DEF Without
<1>8. w \in Seq(T)
  BY <1>1, <1>5, <1>6
<1>9. ToSet(w) = ToSet(s) \ S
  BY <1>4, <1>5, <1>6 DEF ToSet
<1>10. Increasing(s) => Increasing(w)
  BY <1>4, <1>5, <1>6 DEF Increasing
<1> QED BY <1>7, <1>8, <1>9, <1>10

-----------------------------------------------------------------------------
(* The slices                                                              *)

\* There is a first slice, and every part is in one.
LEMMA SlicesAre ==
    /\ NumParts \in Nat \ {0} /\ PartsInSlice \in Nat \ {0} /\ SlicesInMemory \in Nat \ {0}
    /\ 1 \in SliceNumbers /\ SliceNumbers \subseteq Nat \ {0}
    /\ \A p \in Parts : p \in Nat \ {0} /\ SliceOf(p) \in SliceNumbers
<1>1. NumParts \in Nat \ {0} /\ PartsInSlice \in Nat \ {0} /\ SlicesInMemory \in Nat \ {0}
  BY FileAssumption
<1>2. \A p \in 1..NumParts : p - 1 \in Nat /\ p - 1 <= NumParts - 1 /\ NumParts - 1 \in Nat
  BY <1>1
<1>3. ASSUME NEW p \in 1..NumParts
      PROVE  /\ (p - 1) \div PartsInSlice \in Nat
             /\ (p - 1) \div PartsInSlice <= (NumParts - 1) \div PartsInSlice
             /\ (NumParts - 1) \div PartsInSlice \in Nat
  BY <1>1, <1>2
<1>4. ASSUME NEW p \in 1..NumParts PROVE SliceOf(p) \in 1..SliceOf(NumParts)
  BY <1>3 DEF SliceOf
<1>5. 1 \in 1..NumParts /\ NumParts \in 1..NumParts
  BY <1>1
<1>6. 1 \in SliceNumbers /\ SliceNumbers \subseteq Nat \ {0}
  BY <1>3, <1>5 DEF SliceNumbers, SliceOf
<1> QED BY <1>1, <1>4, <1>6 DEF Parts, SliceNumbers

\* What the properties rest on, of some slices.
Sound(s) ==
    /\ s \in Slices
    /\ Loading(s.header) => ~Loaded(s.header) /\ ~Changed(s.header)
    /\ s.mode = "Good" => ~FullInHeader
    /\ s.mode = "Good" /\ Changed(s.header) => Loaded(s.data[1])
    /\ \A n \in SliceNumbers : Changed(s.data[n]) => s.data[n].parts # {}

\* addPart() and processCacheData() of one slice.
LEMMA AddPartsIs ==
    ASSUME NEW a \in Slice, NEW parts \in SUBSET Parts
    PROVE  LET b == AddParts(a, parts)
           IN  /\ b \in Slice /\ Loading(b) = Loading(a) /\ Loaded(b) = Loaded(a)
               /\ a.parts \subseteq b.parts
               /\ Changed(b) => Changed(a) \/ (Loaded(a) /\ parts # {} /\ b.parts # {})
BY DEF AddParts, Slice, Flags, Loading, Loaded, Changed

\* An entry of the cache ends the wait for it and changes nothing that was there.
LEMMA CacheDataIs ==
    ASSUME NEW a \in Slice, NEW parts \in SUBSET Parts
    PROVE  LET b == ProcessCacheData(a, parts)
           IN  /\ b \in Slice /\ ~Loading(b) /\ Loaded(b) /\ a.parts \subseteq b.parts
               /\ Changed(b) = Changed(a)
BY DEF ProcessCacheData, Slice, Flags, Loading, Loaded, Changed

\* A flag that says nothing of changes.
LEMMA FlaggedIs ==
    ASSUME NEW a \in Slice, NEW f \in {"LoadingFromCache", "LoadedFromCache"}
    PROVE  LET b == [a EXCEPT !.flags = @ \cup {f}]
           IN  /\ b \in Slice /\ b.parts = a.parts /\ Changed(b) = Changed(a)
               /\ Loaded(a) => Loaded(b)
               /\ f = "LoadedFromCache" => Loaded(b) /\ Loading(b) = Loading(a)
BY DEF Slice, Flags, Loading, Loaded, Changed

\* A slice that is out of memory has no changes.
LEMMA UnloadedIs == Unloaded \in Slice /\ ~Changed(Unloaded) /\ ~Loading(Unloaded)
BY DEF Unloaded, Slice, Changed, Loading

\* A change of the data only.
LEMMA DataSound ==
    ASSUME NEW s, Sound(s), NEW t, t \in Slices,
           t.header = s.header, t.mode = s.mode,
           s.mode = "Good" /\ Loaded(s.data[1]) => Loaded(t.data[1]),
           \A n \in SliceNumbers : Changed(t.data[n]) => t.data[n].parts # {}
    PROVE  Sound(t)
BY DEF Sound

\* The start: the cache is asked for the header.
LEMMA InitSound == Sound(InitSlices)
<1>1. InitSlices \in Slices
  BY UnloadedIs DEF InitSlices, Slices, Slice, Flags, Modes
<1>2. \A n \in SliceNumbers : ~Changed(InitSlices.data[n])
  BY UnloadedIs DEF InitSlices
<1>3. /\ InitSlices.mode # "Good"
      /\ ~Loaded(InitSlices.header) /\ ~Changed(InitSlices.header)
  BY DEF InitSlices, Loaded, Changed
<1> QED BY <1>1, <1>2, <1>3 DEF Sound

\* headerDone(), when the header has just come from the cache, or is read whole.
LEMMA HeaderDoneSound ==
    ASSUME NEW s, Sound(s), NEW fromCache \in BOOLEAN, fromCache => ~Changed(s.header)
    PROVE  Sound(HeaderDone(s, fromCache))
<1>1. CASE s.mode # "Unknown"
  BY <1>1 DEF HeaderDone
<1>2. CASE s.mode = "Unknown"
  <2> DEFINE mode == CASE FullInHeader -> "Full"
                       [] ComputeIsGoodHeader(s.header.parts) -> "Good"
                       [] OTHER -> "Small"
             read == [n \in SliceNumbers |->
                        [s.data[n] EXCEPT !.flags = @ \cup {"LoadedFromCache"}]]
             data == IF fromCache THEN s.data ELSE read
             t == [s EXCEPT !.mode = mode, !.data = data]
  <2>1. HeaderDone(s, fromCache) = t
    BY <1>2 DEF HeaderDone
  <2>2. mode \in Modes /\ (mode = "Good" => ~FullInHeader)
    BY DEF Modes, ComputeIsGoodHeader
  <2>3. \A n \in SliceNumbers : s.data[n] \in Slice
    BY DEF Sound, Slices
  <2>4. /\ read \in [SliceNumbers -> Slice] /\ Loaded(read[1])
        /\ \A n \in SliceNumbers : Changed(read[n]) => read[n].parts # {}
    BY <2>3, SlicesAre, FlaggedIs DEF Sound
  <2> HIDE DEF mode, read
  <2>5. /\ data \in [SliceNumbers -> Slice]
        /\ ~fromCache => Loaded(data[1])
        /\ \A n \in SliceNumbers : Changed(data[n]) => data[n].parts # {}
    BY <2>4 DEF Sound, Slices
  <2> HIDE DEF data
  <2>6. t \in Slices /\ t.header = s.header /\ t.mode = mode /\ t.data = data
    BY <2>2, <2>5 DEF Sound, Slices
  <2> HIDE DEF t
  <2> QED BY <2>1, <2>2, <2>5, <2>6 DEF Sound
<1> QED BY <1>1, <1>2

\* processPart(), for parts that are loaded.
LEMMA PartsSound ==
    ASSUME NEW s, Sound(s), NEW parts \in SUBSET Parts
    PROVE  Sound(ProcessParts(s, parts))
<1>1. CASE FullInHeader
  <2>1. PICK t : t = ProcessParts(s, parts)
    OBVIOUS
  <2>2. s.header \in Slice
    BY DEF Sound, Slices
  <2>3. PICK h : h = AddParts(s.header, parts)
    OBVIOUS
  <2>4. h \in Slice /\ Loading(h) = Loading(s.header) /\ Loaded(h) = Loaded(s.header)
        /\ (Changed(h) => Changed(s.header) \/ Loaded(s.header))
    BY <2>2, <2>3, AddPartsIs
  <2>5. t \in Slices /\ t.header = h /\ t.mode = s.mode /\ t.data = s.data
    BY <1>1, <2>1, <2>3, <2>4 DEF ProcessParts, Sound, Slices
  <2> QED BY <1>1, <2>1, <2>4, <2>5 DEF Sound
<1>2. CASE ~FullInHeader
  <2>1. PICK t : t = ProcessParts(s, parts)
    OBVIOUS
  <2> DEFINE data == [n \in SliceNumbers |-> AddParts(s.data[n], parts \cap InSlice(n))]
  <2>2. \A n \in SliceNumbers : s.data[n] \in Slice /\ parts \cap InSlice(n) \in SUBSET Parts
    BY DEF Sound, Slices
  <2>3. \A n \in SliceNumbers : /\ data[n] \in Slice /\ Loaded(data[n]) = Loaded(s.data[n])
                                /\ Changed(data[n]) => data[n].parts # {}
    <3> TAKE n \in SliceNumbers
    <3>1. s.data[n] \in Slice /\ parts \cap InSlice(n) \in SUBSET Parts
      BY <2>2
    <3>2. Changed(s.data[n]) => s.data[n].parts # {}
      BY DEF Sound
    <3> QED BY <3>1, <3>2, AddPartsIs
  <2>4. data \in [SliceNumbers -> Slice]
    BY <2>3
  <2> HIDE DEF data
  <2>5. t \in Slices /\ t.header = s.header /\ t.mode = s.mode /\ t.data = data
    BY <1>2, <2>1, <2>4 DEF ProcessParts, Sound, Slices, data
  <2> QED BY <2>1, <2>3, <2>5, DataSound, SlicesAre
<1> QED BY <1>1, <1>2

\* One slice is changed.
LEMMA OneSound ==
    ASSUME NEW s, Sound(s), NEW n \in SliceNumbers, NEW a \in Slice,
           Changed(a) => a.parts # {}, Loaded(s.data[n]) => Loaded(a)
    PROVE  Sound([s EXCEPT !.data[n] = a])
<1>1. PICK t : t = [s EXCEPT !.data[n] = a]
  OBVIOUS
<1>2. /\ t \in Slices /\ t.header = s.header /\ t.mode = s.mode
      /\ t.data = [s.data EXCEPT ![n] = a]
  BY <1>1 DEF Sound, Slices
<1>3. \A k \in SliceNumbers : t.data[k] = IF k = n THEN a ELSE s.data[k]
  BY <1>2 DEF Sound, Slices
<1>4. \A k \in SliceNumbers : Changed(t.data[k]) => t.data[k].parts # {}
  BY <1>3 DEF Sound
<1>5. Loaded(s.data[1]) => Loaded(t.data[1])
  BY <1>3, SlicesAre
<1> QED BY <1>1, <1>2, <1>4, <1>5, DataSound

\* The parts of each slice that the header has.
LEMMA SplitSound ==
    ASSUME NEW s, Sound(s)
    PROVE  LET t == [s EXCEPT !.data = [n \in SliceNumbers |->
                        AddParts(s.data[n], HeaderOf(s, n))]]
           IN  Sound(t) /\ t.header = s.header /\ t.mode = s.mode
<1> DEFINE data == [n \in SliceNumbers |-> AddParts(s.data[n], HeaderOf(s, n))]
           t == [s EXCEPT !.data = data]
<1>1. \A n \in SliceNumbers : s.data[n] \in Slice /\ HeaderOf(s, n) \in SUBSET Parts
  BY DEF Sound, Slices, Slice, HeaderOf
<1>2. \A n \in SliceNumbers : /\ data[n] \in Slice /\ Loaded(data[n]) = Loaded(s.data[n])
                              /\ Changed(data[n]) => data[n].parts # {}
  <2> TAKE n \in SliceNumbers
  <2>1. s.data[n] \in Slice /\ HeaderOf(s, n) \in SUBSET Parts
    BY <1>1
  <2>2. Changed(s.data[n]) => s.data[n].parts # {}
    BY DEF Sound
  <2> QED BY <2>1, <2>2, AddPartsIs
<1>3. data \in [SliceNumbers -> Slice]
  BY <1>2
<1> HIDE DEF data
<1>4. t \in Slices /\ t.header = s.header /\ t.mode = s.mode /\ t.data = data
  BY <1>3 DEF Sound, Slices
<1>5. Sound(t)
  BY <1>2, <1>4, DataSound, SlicesAre
<1> QED BY <1>4, <1>5 DEF data

\* applyHeaderCacheData(): the header from the cache goes to the slices.
LEMMA ApplyHeaderSound ==
    ASSUME NEW s, Sound(s), s.mode = "Unknown" => ~Changed(s.header)
    PROVE  Sound(ApplyHeaderCacheData(s))
<1>1. CASE s.header.parts = {} \/ s.mode \in {"Small", "Full", "NoCache"}
  BY <1>1 DEF ApplyHeaderCacheData
<1>2. CASE s.header.parts # {} /\ s.mode = "Good"
  <2>1. PICK a : a = AddParts(s.data[1], HeaderOf(s, 1))
    OBVIOUS
  <2>2. s.data[1] \in Slice /\ HeaderOf(s, 1) \in SUBSET Parts
    BY SlicesAre DEF Sound, Slices, Slice, HeaderOf
  <2>3. a \in Slice /\ Loaded(a) = Loaded(s.data[1]) /\ (Changed(a) => a.parts # {})
    BY <2>1, <2>2, AddPartsIs, SlicesAre DEF Sound
  <2>4. ApplyHeaderCacheData(s) = [s EXCEPT !.data[1] = a]
    BY <1>2, <2>1 DEF ApplyHeaderCacheData
  <2> QED BY <2>3, <2>4, OneSound, SlicesAre
<1>3. CASE s.header.parts # {} /\ s.mode = "Unknown" /\ FullInHeader
  <2>1. ApplyHeaderCacheData(s) = HeaderDone(s, TRUE)
    BY <1>3 DEF ApplyHeaderCacheData
  <2> QED BY <1>3, <2>1, HeaderDoneSound
<1>4. CASE s.header.parts # {} /\ s.mode = "Unknown" /\ ~FullInHeader
  <2> DEFINE t == [s EXCEPT !.data = [n \in SliceNumbers |->
                        AddParts(s.data[n], HeaderOf(s, n))]]
  <2>1. ApplyHeaderCacheData(s) = HeaderDone(t, TRUE)
    BY <1>4 DEF ApplyHeaderCacheData
  <2>2. Sound(t) /\ t.header = s.header
    BY SplitSound
  <2> HIDE DEF t
  <2> QED BY <1>4, <2>1, <2>2, HeaderDoneSound
<1>5. s.mode \in Modes
  BY DEF Sound, Slices
<1> QED BY <1>1, <1>2, <1>3, <1>4, <1>5 DEF Modes

\* processCacheResult(), of the header and of a slice.
LEMMA HeaderResultSound ==
    ASSUME NEW s, Sound(s), NEW parts \in SUBSET Parts
    PROVE  Sound(ProcessHeaderResult(s, parts))
<1>1. CASE IF s.mode = "Good" THEN ~Loading(s.data[1]) ELSE ~Loading(s.header)
  BY <1>1 DEF ProcessHeaderResult
<1>2. CASE ~(IF s.mode = "Good" THEN ~Loading(s.data[1]) ELSE ~Loading(s.header))
  <2>1. PICK h : h = ProcessCacheData(s.header, parts)
    OBVIOUS
  <2>2. PICK r : r = [s EXCEPT !.header = h]
    OBVIOUS
  <2>3. h \in Slice /\ ~Loading(h) /\ Changed(h) = Changed(s.header)
    <3>1. s.header \in Slice
      BY DEF Sound, Slices
    <3> QED BY <2>1, <3>1, CacheDataIs
  <2>4. r \in Slices /\ r.header = h /\ r.mode = s.mode /\ r.data = s.data
    BY <2>2, <2>3 DEF Sound, Slices
  <2>5. Sound(r)
    BY <2>3, <2>4 DEF Sound
  <2>6. r.mode = "Unknown" => ~Changed(r.header)
    BY <1>2, <2>3, <2>4 DEF Sound
  <2>7. PICK t : t = ApplyHeaderCacheData(r)
    OBVIOUS
  <2>8. Sound(t)
    BY <2>5, <2>6, <2>7, ApplyHeaderSound
  <2>9. ProcessHeaderResult(s, parts) =
          IF t.mode # "Good" THEN t ELSE [t EXCEPT !.data[1].flags = @ \cup {"LoadingFromCache"}]
    BY <1>2, <2>1, <2>2, <2>7 DEF ProcessHeaderResult
  <2>10. PICK a : a = [t.data[1] EXCEPT !.flags = @ \cup {"LoadingFromCache"}]
    OBVIOUS
  <2>11. t.data[1] \in Slice
    BY <2>8, SlicesAre DEF Sound, Slices
  <2>12. a \in Slice /\ a.parts = t.data[1].parts /\ Changed(a) = Changed(t.data[1])
         /\ (Loaded(t.data[1]) => Loaded(a))
    BY <2>10, <2>11, FlaggedIs
  <2>13. Changed(a) => a.parts # {}
    BY <2>8, <2>12, SlicesAre DEF Sound
  <2>14. Sound([t EXCEPT !.data[1] = a])
    BY <2>8, <2>12, <2>13, OneSound, SlicesAre
  <2>15. [t EXCEPT !.data[1].flags = @ \cup {"LoadingFromCache"}] = [t EXCEPT !.data[1] = a]
    BY <2>10
  <2> QED BY <2>8, <2>9, <2>14, <2>15
<1> QED BY <1>1, <1>2

\* All the results of the cache that have come.
LEMMA ResultsSound ==
    ASSUME NEW s, Sound(s), NEW results \in Cached
    PROVE  Sound(ProcessResults(s, results))
<1>1. \A n \in DOMAIN results : results[n] \in SUBSET Parts
  BY DEF Cached
<1>2. PICK t : t = IF 0 \in DOMAIN results THEN ProcessHeaderResult(s, results[0]) ELSE s
  OBVIOUS
<1>3. Sound(t)
  BY <1>1, <1>2, HeaderResultSound
<1> DEFINE data == [n \in SliceNumbers |->
                IF n \in DOMAIN results THEN ProcessSliceResult(t.data[n], results[n])
                ELSE t.data[n]]
<1>4. \A n \in SliceNumbers : /\ data[n] \in Slice /\ (Loaded(t.data[n]) => Loaded(data[n]))
                              /\ Changed(data[n]) => data[n].parts # {}
  <2> TAKE n \in SliceNumbers
  <2>1. t.data[n] \in Slice /\ (Changed(t.data[n]) => t.data[n].parts # {})
    BY <1>3 DEF Sound, Slices
  <2>2. CASE n \in DOMAIN results /\ Loading(t.data[n])
    <3>1. data[n] = ProcessCacheData(t.data[n], results[n])
      BY <2>2 DEF ProcessSliceResult
    <3> QED BY <1>1, <2>1, <2>2, <3>1, CacheDataIs
  <2>3. CASE ~(n \in DOMAIN results /\ Loading(t.data[n]))
    <3>1. data[n] = t.data[n]
      BY <2>3 DEF ProcessSliceResult
    <3> QED BY <2>1, <3>1
  <2> QED BY <2>2, <2>3
<1>5. data \in [SliceNumbers -> Slice]
  BY <1>4
<1>6. ProcessResults(s, results) = [t EXCEPT !.data = data]
  BY <1>2 DEF ProcessResults
<1> HIDE DEF data
<1>7. PICK u : u = [t EXCEPT !.data = data]
  OBVIOUS
<1>8. u \in Slices /\ u.header = t.header /\ u.mode = t.mode /\ u.data = data
  BY <1>3, <1>5, <1>7 DEF Sound, Slices
<1> QED BY <1>3, <1>4, <1>6, <1>7, <1>8, DataSound, SlicesAre

-----------------------------------------------------------------------------
(* Reading from the slices                                                 *)

\* Some parts in order are those parts.
LEMMA PartsInOrder ==
    ASSUME NEW S, S \subseteq Parts
    PROVE  InOrder(S) \in Seq(S) /\ ToSet(InOrder(S)) = S /\ Increasing(InOrder(S))
<1>1. NumParts \in Nat /\ S \subseteq 0..NumParts
  BY SlicesAre DEF Parts
<1>2. PICK s : s = InOrder(S)
  OBVIOUS
<1>3. s \in Seq(S) /\ Increasing(s) /\ \A e \in S : \E i \in DOMAIN s : s[i] = e
  BY <1>1, <1>2, InOrderIs
<1>4. \A i \in DOMAIN s : s[i] \in S
  BY <1>3, ElementOfSeq, LenProperties
<1>5. ToSet(s) = S
  BY <1>3, <1>4 DEF ToSet
<1> QED BY <1>2, <1>3, <1>5

\* Some slices in order are slices.
LEMMA SlicesInOrder ==
    ASSUME NEW S, S \subseteq SliceNumbers
    PROVE  InOrder(S) \in Seq(S)
<1>0. NumParts \in Parts
  BY SlicesAre DEF Parts
<1>1. PICK n \in Nat : n = SliceOf(NumParts)
  BY <1>0, SlicesAre
<1>2. S \subseteq 0..n
  BY <1>1 DEF SliceNumbers
<1> QED BY <1>2, InOrderIs

\* A sequence over a set is one over a larger set.
LEMMA WiderSeq ==
    ASSUME NEW S, NEW T, S \subseteq T, NEW s \in Seq(S)
    PROVE  s \in Seq(T)
<1>1. Len(s) \in Nat /\ s \in [1..Len(s) -> S]
  BY SeqDef, LenProperties
<1>2. s \in [1..Len(s) -> T]
  BY <1>1
<1> QED BY <1>1, <1>2, SeqDef

\* markSliceUsed().
LEMMA MarkUsedIs ==
    ASSUME NEW used \in Seq(SliceNumbers), NEW ns \in SUBSET SliceNumbers
    PROVE  MarkUsed(used, ns) \in Seq(SliceNumbers)
<1>1. Without(used, ns) \in Seq(SliceNumbers)
  BY WithoutIs
<1>2. InOrder(ns) \in Seq(SliceNumbers)
  BY SlicesInOrder, WiderSeq
<1> QED BY <1>1, <1>2, ConcatIs DEF MarkUsed

Entries == [number : EntryNumbers, parts : SUBSET Parts, first : SUBSET Parts]

\* Only the order of use changes.
LEMMA UsedSound ==
    ASSUME NEW s, Sound(s), NEW used \in Seq(SliceNumbers)
    PROVE  LET t == [s EXCEPT !.used = used]
           IN  /\ Sound(t) /\ t.header = s.header /\ t.data = s.data /\ t.mode = s.mode
               /\ t.used = used
<1>1. PICK t : t = [s EXCEPT !.used = used]
  OBVIOUS
<1>2. /\ t \in Slices /\ t.header = s.header /\ t.data = s.data /\ t.mode = s.mode
      /\ t.used = used
  BY <1>1 DEF Sound, Slices
<1>3. Sound(t)
  BY <1>2, DataSound DEF Sound
<1> QED BY <1>1, <1>2, <1>3

\* serializeAndUnloadSlice(): a changed header goes with its slice.
LEMMA UnloadSound ==
    ASSUME NEW s, Sound(s), NEW n \in SliceNumbers
    PROVE  /\ Sound(Unload(s, n))
           /\ (s.mode = "Good" /\ n = 1 => ~Changed(s.header))
                => Sound([s EXCEPT !.data[n] = Unloaded])
<1> DEFINE u == [s EXCEPT !.data[n] = Unloaded]
<1>1. /\ u \in Slices /\ u.header = s.header /\ u.mode = s.mode
      /\ u.data = [s.data EXCEPT ![n] = Unloaded]
  BY UnloadedIs DEF Sound, Slices
<1>2. \A k \in SliceNumbers : u.data[k] = IF k = n THEN Unloaded ELSE s.data[k]
  BY <1>1 DEF Sound, Slices
<1>3. \A k \in SliceNumbers : Changed(u.data[k]) => u.data[k].parts # {}
  BY <1>2, UnloadedIs DEF Sound
<1>4. ASSUME s.mode = "Good" /\ n = 1 => ~Changed(s.header)
      PROVE  Sound(u)
  BY <1>1, <1>2, <1>3, <1>4, SlicesAre DEF Sound
<1>5. CASE ~WithHeader(s, n)
  <2>1. Unload(s, n) = u
    BY <1>5 DEF Unload
  <2>2. ~(s.mode = "Good" /\ n = 1)
    BY <1>5 DEF WithHeader
  <2> QED BY <1>4, <2>1, <2>2
<1>6. CASE WithHeader(s, n)
  <2>1. n = 1 /\ s.mode = "Good"
    BY <1>6, SlicesAre DEF WithHeader
  <2>2. PICK h : h = [s.header EXCEPT !.flags = @ \ {"ChangedSinceCache"}]
    OBVIOUS
  <2>3. h \in Slice /\ ~Changed(h) /\ (Loading(h) => Loading(s.header))
        /\ (Loaded(h) => Loaded(s.header))
    BY <2>2 DEF Sound, Slices, Slice, Changed, Loading, Loaded
  <2>4. PICK t : t = Unload(s, n)
    OBVIOUS
  <2>5. t = [s EXCEPT !.header = h, !.data[1] = Unloaded]
    BY <1>6, <2>1, <2>2, <2>4 DEF Unload
  <2>6. t \in Slices /\ t.header = h /\ t.mode = s.mode /\ t.data = u.data
    BY <1>1, <2>1, <2>3, <2>5, UnloadedIs DEF Sound, Slices
  <2>7. \A k \in SliceNumbers : Changed(t.data[k]) => t.data[k].parts # {}
    BY <1>3, <2>6
  <2> HIDE DEF u
  <2>8. Sound(t)
    BY <2>3, <2>6, <2>7 DEF Sound
  <2>9. ~(s.mode = "Good" /\ n = 1 => ~Changed(s.header)) \/ Sound(u)
    BY <1>4
  <2> QED BY <2>1, <2>4, <2>8, <2>9 DEF u
<1> QED BY <1>4, <1>5, <1>6

\* What serializeAndUnloadSlice() makes of a slice is an entry.
LEMMA SerializedIs ==
    ASSUME NEW s, Sound(s), NEW n \in SliceNumbers
    PROVE  Serialized(s, n) \in Entries /\ NoEntry \in Entries
<1>1. /\ s.header.parts \in SUBSET Parts /\ s.data[n].parts \in SUBSET Parts
      /\ s.data[1].parts \in SUBSET Parts
  BY SlicesAre DEF Sound, Slices, Slice
<1>2. 0 \in EntryNumbers /\ n \in EntryNumbers
  BY DEF EntryNumbers
<1> QED BY <1>1, <1>2 DEF Serialized, NoEntry, Entries

\* serializeAndUnloadUnused().
LEMMA UnusedSound ==
    ASSUME NEW s, Sound(s)
    PROVE  LET u == UnloadUnused(s)
           IN  Sound(u.slices) /\ u.save \in BOOLEAN /\ u.entry \in Entries
<1>1. PICK n, t, u : /\ n = Head(s.used) /\ t = [s EXCEPT !.used = Tail(s.used)]
                     /\ u = UnloadUnused(s)
  OBVIOUS
<1>2. NoEntry \in Entries
  BY SerializedIs, SlicesAre
<1>3. CASE s.mode = "Unknown" \/ Len(s.used) <= SlicesInMemory
  <2>0. Len(s.used) \in Nat
    BY LenProperties DEF Sound, Slices
  <2>1. u = [slices |-> s, save |-> FALSE, entry |-> NoEntry]
    BY <1>1, <1>3, <2>0, SlicesAre DEF UnloadUnused
  <2> QED BY <1>1, <1>2, <2>1
<1>4. CASE s.mode # "Unknown" /\ ~(Len(s.used) <= SlicesInMemory)
  <2>1. s.used \in Seq(SliceNumbers)
    BY DEF Sound, Slices
  <2>2. Len(s.used) \in Nat /\ Len(s.used) > SlicesInMemory /\ s.used # <<>>
    BY <1>4, <2>1, SlicesAre, EmptySeq, LenProperties
  <2>3. n \in SliceNumbers /\ Tail(s.used) \in Seq(SliceNumbers)
    BY <1>1, <2>1, <2>2, HeadTailProperties
  <2>4. Sound(t) /\ t.header = s.header /\ t.data = s.data /\ t.mode = s.mode
    BY <1>1, <2>3, UsedSound
  <2>5. CASE ~Loaded(s.data[n])
    <3>1. u = [slices |-> t, save |-> FALSE, entry |-> NoEntry]
      BY <1>1, <1>4, <2>2, <2>5 DEF UnloadUnused
    <3> QED BY <1>1, <1>2, <2>4, <3>1
  <2>6. CASE Loaded(s.data[n]) /\ NeedToSave(s, n)
    <3>1. u = [slices |-> Unload(t, n), save |-> TRUE, entry |-> Serialized(s, n)]
      BY <1>1, <1>4, <2>2, <2>6 DEF UnloadUnused
    <3>2. Sound(Unload(t, n)) /\ Serialized(s, n) \in Entries
      BY <2>3, <2>4, UnloadSound, SerializedIs
    <3> QED BY <1>1, <3>1, <3>2
  <2>7. CASE Loaded(s.data[n]) /\ ~NeedToSave(s, n)
    <3>1. u = [slices |-> [t EXCEPT !.data[n] = Unloaded], save |-> FALSE, entry |-> NoEntry]
      BY <1>1, <1>4, <2>2, <2>7 DEF UnloadUnused
    <3>2. t.mode = "Good" /\ n = 1 => ~Changed(t.header)
      BY <2>4, <2>7 DEF NeedToSave
    <3>3. Sound([t EXCEPT !.data[n] = Unloaded])
      BY <2>3, <2>4, <3>2, UnloadSound
    <3> QED BY <1>1, <1>2, <3>1, <3>3
  <2> QED BY <2>5, <2>6, <2>7
<1> QED BY <1>3, <1>4

\* addToHeader(): only while nothing is known of the header.
LEMMA AddToHeaderSound ==
    ASSUME NEW s, Sound(s), NEW want \in SUBSET Parts
    PROVE  Sound(AddToHeader(s, want))
<1>1. CASE s.mode # "Unknown"
  BY <1>1 DEF AddToHeader
<1>2. CASE s.mode = "Unknown"
  <2> DEFINE fresh == want \ s.header.parts
             room == MaxPartsInHeader - Cardinality(s.header.parts)
  <2>1. PICK some : some = {p \in fresh : Cardinality({q \in fresh : q < p}) < room}
    OBVIOUS
  <2>2. some \in SUBSET Parts
    BY <2>1
  <2>3. PICK h : h = AddParts(s.header, some)
    OBVIOUS
  <2>4. s.header \in Slice
    BY DEF Sound, Slices
  <2>5. h \in Slice /\ Loading(h) = Loading(s.header) /\ Loaded(h) = Loaded(s.header)
        /\ (Changed(h) => Changed(s.header) \/ Loaded(s.header))
    BY <2>2, <2>3, <2>4, AddPartsIs
  <2>6. AddToHeader(s, want) = [s EXCEPT !.header = h]
    BY <1>2, <2>1, <2>3 DEF AddToHeader
  <2>7. PICK t : t = [s EXCEPT !.header = h]
    OBVIOUS
  <2>8. t \in Slices /\ t.header = h /\ t.mode = s.mode /\ t.data = s.data
    BY <2>5, <2>7 DEF Sound, Slices
  <2>9. Sound(t)
    BY <1>2, <2>5, <2>8 DEF Sound
  <2> QED BY <2>6, <2>7, <2>9
<1> QED BY <1>1, <1>2

\* prepareFill() asks for parts of the file.
LEMMA ToLoadIs ==
    ASSUME NEW have, NEW want, NEW within \in SUBSET Parts
    PROVE  ToLoad(have, want, within) \in SUBSET Parts
BY DEF ToLoad

\* Slices::fill(): the slices stay sound, and what it says is of their kind.
LEMMA FillSound ==
    ASSUME NEW s, Sound(s), NEW want \in SUBSET Parts
    PROVE  LET f == Fill(s, want)
           IN  /\ Sound(f.slices) /\ f.read \in SUBSET SliceNumbers
               /\ f.save \in BOOLEAN /\ f.entry \in Entries /\ f.load \in SUBSET Parts
<1> DEFINE Fine(f) ==
             /\ Sound(f.slices) /\ f.read \in SUBSET SliceNumbers
             /\ f.save \in BOOLEAN /\ f.entry \in Entries /\ f.load \in SUBSET Parts
<1>1. ASSUME NEW t, Sound(t), NEW state, NEW read \in SUBSET SliceNumbers,
             NEW unused, unused.save \in BOOLEAN, unused.entry \in Entries,
             NEW load \in SUBSET Parts
      PROVE  Fine(Filled(t, state, read, unused, load))
  BY <1>1 DEF Filled
<1>2. /\ NothingUnused(s).save \in BOOLEAN /\ NothingUnused(s).entry \in Entries
  BY SerializedIs, SlicesAre DEF NothingUnused
<1>3. PICK slices : slices = Touched(want)
  OBVIOUS
<1>4. slices \in SUBSET SliceNumbers
  BY <1>3, SlicesAre DEF Touched
<1>5. PICK have : have = UNION {s.data[n].parts : n \in slices}
  OBVIOUS
<1>6. PICK unread : unread = {n \in slices : CacheNotLoaded(s, n)}
  OBVIOUS
<1>7. PICK read : read = {n \in unread : ~Loading(s.data[n])}
  OBVIOUS
<1>8. PICK load : load = UNION {ToLoad(have, want \cap InSlice(n), InSlice(n)) :
                                   n \in slices \ unread}
  OBVIOUS
<1>9. read \in SUBSET SliceNumbers
  BY <1>4, <1>6, <1>7
<1>10. load \in SUBSET Parts
  <2>1. \A n \in slices \ unread : ToLoad(have, want \cap InSlice(n), InSlice(n)) \in SUBSET Parts
    BY ToLoadIs DEF InSlice
  <2> QED BY <1>8, <2>1
<1>11. PICK used : used = MarkUsed(s.used, slices)
  OBVIOUS
<1>12. used \in Seq(SliceNumbers)
  BY <1>4, <1>11, MarkUsedIs DEF Sound, Slices
<1>13. PICK marked : marked = AddToHeader([s EXCEPT !.used = used], want)
  OBVIOUS
<1>14. Sound(marked)
  BY <1>12, <1>13, UsedSound, AddToHeaderSound
<1>15. PICK unused : unused = UnloadUnused(marked)
  OBVIOUS
<1>16. Sound(unused.slices) /\ unused.save \in BOOLEAN /\ unused.entry \in Entries
  BY <1>14, <1>15, UnusedSound
<1>17. PICK data : data = [n \in SliceNumbers |->
               IF n \in read THEN [s.data[n] EXCEPT !.flags = @ \cup {"LoadingFromCache"}]
               ELSE s.data[n]]
  OBVIOUS
<1>18. Sound([s EXCEPT !.data = data])
  <2>1. \A n \in SliceNumbers : /\ data[n] \in Slice
                                /\ (Loaded(s.data[n]) => Loaded(data[n]))
                                /\ (Changed(data[n]) => data[n].parts # {})
    <3> TAKE n \in SliceNumbers
    <3>1. s.data[n] \in Slice /\ (Changed(s.data[n]) => s.data[n].parts # {})
      BY DEF Sound, Slices
    <3>2. CASE n \in read
      BY <1>17, <3>1, <3>2, FlaggedIs
    <3>3. CASE n \notin read
      BY <1>17, <3>1, <3>3
    <3> QED BY <3>2, <3>3
  <2>2. data \in [SliceNumbers -> Slice]
    BY <1>17, <2>1
  <2>3. PICK t : t = [s EXCEPT !.data = data]
    OBVIOUS
  <2>4. t \in Slices /\ t.header = s.header /\ t.mode = s.mode /\ t.data = data
    BY <2>2, <2>3 DEF Sound, Slices
  <2> QED BY <2>1, <2>3, <2>4, DataSound, SlicesAre
<1>19. CASE s.mode # "NoCache" /\ ~Loaded(s.header)
  <2>1. Fill(s, want) = Filled(s, "WaitingRemote", {}, NothingUnused(s), {})
    BY <1>19 DEF Fill
  <2> HIDE DEF Fine
  <2>2. Fine(Filled(s, "WaitingRemote", {}, NothingUnused(s), {}))
    BY <1>1, <1>2
  <2> QED BY <2>1, <2>2 DEF Fine
<1>20. CASE FullInHeader /\ (s.mode = "NoCache" \/ Loaded(s.header))
  <2>1. Fill(s, want) = FillFromHeader(s, want)
    BY <1>20 DEF Fill
  <2>2. ToLoad(s.header.parts, want, Parts) \in SUBSET Parts
    BY ToLoadIs
  <2>3. Fine(FillFromHeader(s, want))
    <3> HIDE DEF Fine
    <3> QED BY <1>1, <1>2, <2>2 DEF FillFromHeader
  <2> QED BY <2>1, <2>3
<1>21. CASE ~FullInHeader /\ (s.mode = "NoCache" \/ Loaded(s.header))
  <2>1. Fill(s, want) =
          IF want \subseteq have THEN Filled(unused.slices, "Success", {}, unused, load)
          ELSE Filled([s EXCEPT !.data = data],
                      IF unread = {} THEN "WaitingRemote" ELSE "WaitingCache",
                      read, NothingUnused(s), load)
    BY <1>3, <1>5, <1>6, <1>7, <1>8, <1>11, <1>13, <1>15, <1>17, <1>21 DEF Fill
  <2>2. Fine(Fill(s, want))
    <3> HIDE DEF Fine
    <3> QED BY <1>1, <1>2, <1>9, <1>10, <1>16, <1>18, <2>1
  <2> QED BY <2>2
<1>22. FullInHeader \in BOOLEAN
  BY FileAssumption
<1> QED BY <1>19, <1>20, <1>21, <1>22

-----------------------------------------------------------------------------
(* The Reader                                                              *)

Good(r) == r \in Readers /\ Sound(r.slices)

\* What a Reader has of a downloader's wishes, and of the end of streaming.
Alone(r, d) ==
    /\ ~r.downloaded =>
          ~d.on /\ r.requests = <<>> /\ r.offsets = <<>> /\ r.acks = {}
    /\ d.first =>
          LET all == r.offsets \o r.requests
          IN  /\ d.on /\ r.downloaded /\ r.acks \subseteq d.saved
              /\ Increasing(all) /\ \A i \in DOMAIN all : all[i] < d.next

AskedBut(r, d, got) ==
    d.first => \A p \in 1..d.next - 1 :
                  p \in Parts \ (d.saved \cup got) =>
                      \/ p \in ToSet(r.requests) \cup ToSet(r.offsets)
                      \/ <<"part", p>> \in ToSet(r.calls)

Kept(r, d) == Alone(r, d) /\ AskedBut(r, d, {})

Steady(r, s) == s.active = r.active /\ s.stopAsync = r.stopAsync

Same(r, s) ==
    /\ Steady(r, s) /\ s.downloaded = r.downloaded
    /\ s.requests = r.requests /\ s.offsets = r.offsets /\ s.acks = r.acks
    /\ \A p \in Parts : <<"part", p>> \in ToSet(r.calls) => <<"part", p>> \in ToSet(s.calls)

\* What keeps the queues keeps what the downloader has asked for.
LEMMA SameKept ==
    ASSUME NEW r, NEW s, Same(r, s), NEW d, NEW got
    PROVE  /\ Alone(r, d) => Alone(s, d)
           /\ AskedBut(r, d, got) => AskedBut(s, d, got)
           /\ Kept(r, d) => Kept(s, d)
<1>1. Alone(r, d) => Alone(s, d)
  BY DEF Same, Alone
<1>2. \A g : AskedBut(r, d, g) => AskedBut(s, d, g)
  BY DEF Same, AskedBut
<1> QED BY <1>1, <1>2 DEF Kept

\* One such step after another is such a step.
LEMMA SameSame ==
    ASSUME NEW r, NEW s, NEW t, Same(r, s), Same(s, t)
    PROVE  Same(r, t)
BY DEF Same, Steady

\* Entries of the cache, and what the downloader reads of it.
LEMMA CachedIs ==
    /\ \A S \in SUBSET EntryNumbers : \A f \in [S -> SUBSET Parts] : f \in Cached
    /\ \A f \in Cached : /\ DOMAIN f \in SUBSET EntryNumbers
                         /\ f \in [DOMAIN f -> SUBSET Parts]
                         /\ \A n \in DOMAIN f : f[n] \in SUBSET Parts
BY DEF Cached

\* The slices that were read for a downloader.
LEMMA ReadCachesAre ==
    LET C == [known : BOOLEAN, parts : SUBSET Parts]
    IN  /\ \A S \in SUBSET SliceNumbers : \A f \in [S -> C] : f \in ReadCaches
        /\ \A f \in ReadCaches : /\ DOMAIN f \in SUBSET SliceNumbers
                                 /\ f \in [DOMAIN f -> C]
                                 /\ \A n \in DOMAIN f : f[n] \in C
BY DEF ReadCaches

\* Nothing has come, and nothing was read.
LEMMA NothingIs == Nothing \in Cached /\ Nothing \in ReadCaches
<1>1. Nothing \in [{} -> SUBSET Parts]
  BY DEF Nothing
<1>2. Nothing \in [{} -> [known : BOOLEAN, parts : SUBSET Parts]]
  BY DEF Nothing
<1> QED BY <1>1, <1>2, CachedIs, ReadCachesAre

\* What has come before and what comes now.
LEMMA AndIs ==
    /\ \A f, g \in Cached : And(f, g) \in Cached
    /\ \A f, g \in ReadCaches : And(f, g) \in ReadCaches
<1>1. ASSUME NEW f \in Cached, NEW g \in Cached PROVE And(f, g) \in Cached
  <2>1. /\ DOMAIN f \cup DOMAIN g \in SUBSET EntryNumbers
        /\ \A n \in DOMAIN f : f[n] \in SUBSET Parts
        /\ \A n \in DOMAIN g : g[n] \in SUBSET Parts
    BY CachedIs
  <2>2. And(f, g) \in [DOMAIN f \cup DOMAIN g -> SUBSET Parts]
    BY <2>1 DEF And
  <2> QED BY <2>1, <2>2, CachedIs
<1>2. ASSUME NEW f \in ReadCaches, NEW g \in ReadCaches PROVE And(f, g) \in ReadCaches
  <2>1. /\ DOMAIN f \cup DOMAIN g \in SUBSET SliceNumbers
        /\ \A n \in DOMAIN f : f[n] \in [known : BOOLEAN, parts : SUBSET Parts]
        /\ \A n \in DOMAIN g : g[n] \in [known : BOOLEAN, parts : SUBSET Parts]
    BY ReadCachesAre
  <2>2. And(f, g) \in [DOMAIN f \cup DOMAIN g -> [known : BOOLEAN, parts : SUBSET Parts]]
    BY <2>1 DEF And
  <2> QED BY <2>1, <2>2, ReadCachesAre
<1> QED BY <1>1, <1>2

\* The database has entries under the keys of the slices.
LEMMA EntryIs ==
    ASSUME NEW d \in Disks, NEW number \in EntryNumbers
    PROVE  Entry(d, number) \in Cached
<1>1. CASE number > 0
  <2>1. number \in SliceNumbers
    BY <1>1, SlicesAre DEF EntryNumbers
  <2>2. Entry(d, number) \in [{number} -> SUBSET Parts]
    BY <1>1, <2>1 DEF Entry, Disks
  <2> QED BY <2>1, <2>2, CachedIs DEF EntryNumbers
<1>2. CASE ~(number > 0) /\ ComputeIsGoodHeader(d.header)
  <2>1. Entry(d, number) \in [{0, 1} -> SUBSET Parts]
    BY <1>2 DEF Entry, Disks
  <2>2. {0, 1} \in SUBSET EntryNumbers
    BY SlicesAre DEF EntryNumbers
  <2> QED BY <2>1, <2>2, CachedIs
<1>3. CASE ~(number > 0) /\ ~ComputeIsGoodHeader(d.header)
  <2>1. Entry(d, number) \in [{0} -> SUBSET Parts]
    BY <1>3 DEF Entry, Disks
  <2>2. {0} \in SUBSET EntryNumbers
    BY DEF EntryNumbers
  <2> QED BY <2>1, <2>2, CachedIs
<1> QED BY <1>1, <1>2, <1>3

\* A call to the main thread goes to the end of its queue.
LEMMA CallIs ==
    ASSUME NEW r, Good(r), NEW name, NEW T, NEW ps \in Seq(T),
           \A p \in T : <<name, p>> \in Calls
    PROVE  LET s == Call(r, name, ps)
           IN  /\ Good(s) /\ Same(r, s)
               /\ \A p \in ToSet(ps) : <<name, p>> \in ToSet(s.calls)
<1>1. PICK more : more = [i \in 1..Len(ps) |-> <<name, ps[i]>>]
  OBVIOUS
<1>2. Len(ps) \in Nat /\ DOMAIN ps = 1..Len(ps) /\ \A i \in 1..Len(ps) : ps[i] \in T
  BY LenProperties, ElementOfSeq
<1>3. more \in [1..Len(ps) -> Calls]
  BY <1>1, <1>2
<1>4. more \in Seq(Calls)
  BY <1>2, <1>3, SeqDef
<1>5. r.calls \in Seq(Calls)
  BY DEF Good, Readers
<1>6. r.calls \o more \in Seq(Calls)
      /\ ToSet(r.calls \o more) = ToSet(r.calls) \cup ToSet(more)
  BY <1>4, <1>5, ConcatIs
<1>7. PICK all : all = r.calls \o more
  OBVIOUS
<1>8. PICK s : s = Call(r, name, ps)
  OBVIOUS
<1>9. s = [r EXCEPT !.calls = all]
  BY <1>1, <1>7, <1>8 DEF Call
<1>10. s \in Readers
  BY <1>6, <1>7, <1>9 DEF Good, Readers
<1>11. /\ s.calls = all /\ s.slices = r.slices /\ s.active = r.active
       /\ s.stopAsync = r.stopAsync /\ s.downloaded = r.downloaded
       /\ s.requests = r.requests /\ s.offsets = r.offsets /\ s.acks = r.acks
  BY <1>9 DEF Good, Readers
<1>12. Good(s) /\ Same(r, s)
  BY <1>6, <1>7, <1>10, <1>11 DEF Good, Same, Steady
<1>13. \A p \in ToSet(ps) : <<name, p>> \in ToSet(more)
  <2> TAKE p \in ToSet(ps)
  <2>1. PICK i \in DOMAIN ps : ps[i] = p
    BY DEF ToSet
  <2>2. i \in DOMAIN more /\ more[i] = <<name, p>>
    BY <1>1, <1>2, <2>1
  <2> QED BY <2>2 DEF ToSet
<1> QED BY <1>6, <1>7, <1>8, <1>11, <1>12, <1>13

\* The semaphore and the flags of those who wait for it.
LEMMA WakesAre ==
    ASSUME NEW r, Good(r)
    PROVE  /\ Good(Release(r)) /\ Same(r, Release(r))
           /\ Good(WakeFromSleep(r)) /\ Same(r, WakeFromSleep(r))
           /\ Good(StartWaiting(r)) /\ Same(r, StartWaiting(r))
           /\ Good(ClearWaiting(r)) /\ Same(r, ClearWaiting(r))
<1>1. Good(Release(r)) /\ Same(r, Release(r))
  BY DEF Good, Readers, Release, Same, Steady
<1>2. Good(WakeFromSleep(r)) /\ Same(r, WakeFromSleep(r))
  <2>1. PICK s : s = [r EXCEPT !.sleeping = FALSE]
    OBVIOUS
  <2>2. Good(s) /\ Same(r, s)
    BY <2>1 DEF Good, Readers, Same, Steady
  <2>3. Good(Release(s)) /\ Same(s, Release(s))
    BY <2>2 DEF Good, Readers, Release, Same, Steady
  <2>4. Same(r, Release(s)) /\ Same(r, r)
    BY <2>2, <2>3 DEF Same, Steady
  <2>5. WakeFromSleep(r) = IF r.sleeping THEN Release(s) ELSE r
    BY <2>1 DEF WakeFromSleep
  <2> QED BY <2>3, <2>4, <2>5
<1>3. Good(StartWaiting(r)) /\ Same(r, StartWaiting(r))
  BY FileAssumption DEF Good, Readers, StartWaiting, Same, Steady
<1>4. Good(ClearWaiting(r)) /\ Same(r, ClearWaiting(r))
  BY DEF Good, Readers, ClearWaiting, Same, Steady
<1> QED BY <1>1, <1>2, <1>3, <1>4

\* readFromCache() asks for entries.
LEMMA ReadFromCacheIs ==
    ASSUME NEW r, Good(r), NEW d \in Disks, NEW ns \in SUBSET SliceNumbers
    PROVE  Good(ReadFromCache(r, d, ns)) /\ Same(r, ReadFromCache(r, d, ns))
<1>1. PICK numbers : numbers = InOrder(ns)
  OBVIOUS
<1>2. numbers \in Seq(SliceNumbers)
  BY <1>1, SlicesInOrder, WiderSeq
<1>3. /\ Len(numbers) \in Nat /\ DOMAIN numbers = 1..Len(numbers)
      /\ \A i \in DOMAIN numbers : numbers[i] \in SliceNumbers
  BY <1>2, LenProperties, ElementOfSeq
<1>4. PICK more : more = [i \in DOMAIN numbers |-> Entry(d, EntryNumber(r.slices, numbers[i]))]
  OBVIOUS
<1>5. \A i \in DOMAIN numbers : EntryNumber(r.slices, numbers[i]) \in EntryNumbers
  BY <1>3 DEF EntryNumber, EntryNumbers
<1>6. more \in [1..Len(numbers) -> Cached]
  BY <1>3, <1>4, <1>5, EntryIs
<1>7. more \in Seq(Cached)
  BY <1>3, <1>6, SeqDef
<1>8. r.reads \in Seq(Cached)
  BY DEF Good, Readers
<1>9. r.reads \o more \in Seq(Cached)
  BY <1>7, <1>8, ConcatIs
<1>10. PICK reads : reads = r.reads \o more
  OBVIOUS
<1>11. PICK s : s = ReadFromCache(r, d, ns)
  OBVIOUS
<1>12. s = [r EXCEPT !.reads = reads]
  BY <1>1, <1>4, <1>10, <1>11 DEF ReadFromCache
<1>13. Good(s) /\ Same(r, s)
  BY <1>9, <1>10, <1>12 DEF Good, Readers, Same, Steady
<1> QED BY <1>11, <1>13

\* processCacheResults()
LEMMA CacheResultsAre ==
    ASSUME NEW r, Good(r)
    PROVE  Good(ProcessCacheResults(r)) /\ Same(r, ProcessCacheResults(r))
<1>1. r.results \in Cached /\ r.readCache \in ReadCaches
  BY DEF Good, Readers
<1>2. PICK cache : cache = [n \in DOMAIN r.readCache |->
                IF ~r.readCache[n].known /\ n \in DOMAIN r.results
                THEN [known |-> TRUE, parts |-> r.results[n]] ELSE r.readCache[n]]
  OBVIOUS
<1>3. cache \in ReadCaches
  <2>1. /\ DOMAIN r.readCache \in SUBSET SliceNumbers
        /\ \A n \in DOMAIN r.readCache : r.readCache[n] \in [known : BOOLEAN, parts : SUBSET Parts]
        /\ \A n \in DOMAIN r.results : r.results[n] \in SUBSET Parts
    BY <1>1, ReadCachesAre, CachedIs
  <2>2. \A n \in DOMAIN r.readCache : cache[n] \in [known : BOOLEAN, parts : SUBSET Parts]
    BY <1>2, <2>1
  <2>3. cache \in [DOMAIN r.readCache -> [known : BOOLEAN, parts : SUBSET Parts]]
    BY <1>2, <2>2
  <2> QED BY <2>1, <2>3, ReadCachesAre
<1>4. PICK slices : slices = IF r.error THEN r.slices ELSE ProcessResults(r.slices, r.results)
  OBVIOUS
<1>5. Sound(slices)
  BY <1>1, <1>4, ResultsSound DEF Good
<1>6. PICK s : s = ProcessCacheResults(r)
  OBVIOUS
<1>7. s = [r EXCEPT !.results = Nothing, !.readCache = cache, !.slices = slices]
  BY <1>2, <1>4, <1>6 DEF ProcessCacheResults
<1>8. s \in Readers /\ s.slices = slices
  BY <1>3, <1>5, <1>7, NothingIs DEF Good, Readers, Sound
<1>9. Same(r, s)
  BY <1>7 DEF Good, Readers, Same, Steady
<1> QED BY <1>5, <1>6, <1>8, <1>9 DEF Good

\* processLoadedParts()
LEMMA LoadedPartsAre ==
    ASSUME NEW r, Good(r)
    PROVE  Good(ProcessLoadedParts(r)) /\ Same(r, ProcessLoadedParts(r))
<1>1. CASE r.error
  <2>1. ProcessLoadedParts(r) = r
    BY <1>1 DEF ProcessLoadedParts
  <2> QED BY <2>1 DEF Same, Steady
<1>2. CASE ~r.error
  <2>1. PICK good : good = {p \in r.loading : \E i \in DOMAIN r.loadedParts :
                    /\ r.loadedParts[i] = p
                    /\ \A j \in 1..i : r.loadedParts[j] # Failed}
    OBVIOUS
  <2>2. r.loading \in SUBSET Parts
    BY DEF Good, Readers
  <2>3. good \in SUBSET Parts
    BY <2>1, <2>2
  <2>4. PICK slices : slices = ProcessParts(r.slices, good)
    OBVIOUS
  <2>5. Sound(slices)
    BY <2>3, <2>4, PartsSound DEF Good
  <2>6. PICK s : s = ProcessLoadedParts(r)
    OBVIOUS
  <2>7. PICK error : error = (Failed \in ToSet(r.loadedParts))
    OBVIOUS
  <2>12. error \in BOOLEAN
    BY <2>7
  <2>8. s = [r EXCEPT !.loadedParts = <<>>, !.error = error,
                      !.loading = r.loading \ good, !.slices = slices]
    BY <1>2, <2>1, <2>4, <2>6, <2>7 DEF ProcessLoadedParts
  <2>9. <<>> \in Seq(Parts \cup {Failed})
    BY EmptySeq
  <2>10. s \in Readers /\ s.slices = slices
    BY <2>2, <2>5, <2>8, <2>9, <2>12 DEF Good, Readers, Sound
  <2>11. Same(r, s)
    BY <2>8 DEF Good, Readers, Same, Steady
  <2> QED BY <2>5, <2>6, <2>10, <2>11 DEF Good
<1> QED BY <1>1, <1>2

\* checkForSomethingMoreReceived() takes what has come.
LEMMA CheckedIs ==
    ASSUME NEW r, Good(r)
    PROVE  Good(Checked(r)) /\ Same(r, Checked(r))
<1>1. PICK s : s = ProcessCacheResults(r)
  OBVIOUS
<1>2. Good(s) /\ Same(r, s)
  BY <1>1, CacheResultsAre
<1>3. Good(ProcessLoadedParts(s)) /\ Same(s, ProcessLoadedParts(s))
  BY <1>2, LoadedPartsAre
<1> QED BY <1>1, <1>2, <1>3, SameSame DEF Checked

-----------------------------------------------------------------------------
(* Work for the downloader                                                 *)

\* Wishes and offsets are parts.
LEMMA QueuesAre ==
    ASSUME NEW r, Good(r)
    PROVE  /\ r.offsets \in Seq(Parts) /\ r.requests \in Seq(Parts)
           /\ r.acks \in SUBSET Parts /\ r.readCache \in ReadCaches
           /\ r.offsets \o r.requests \in Seq(Parts)
           /\ ToSet(r.offsets \o r.requests) = ToSet(r.offsets) \cup ToSet(r.requests)
<1>1. /\ r.offsets \in Seq(Parts) /\ r.requests \in Seq(Parts)
      /\ r.acks \in SUBSET Parts /\ r.readCache \in ReadCaches
  BY DEF Good, Readers
<1> QED BY <1>1, ConcatIs

\* enqueueDownloaderOffsets(): the wishes of the first downloader are in order, so that
\* none of them is given up.
LEMMA EnqueueIs ==
    ASSUME NEW r, Good(r), NEW d, Kept(r, d)
    PROVE  LET s == Enqueue(r)
           IN  Good(s) /\ Kept(s, d) /\ Steady(r, s) /\ s.requests = <<>>
<1>1. CASE r.requests = <<>>
  <2>1. Enqueue(r) = r
    BY <1>1 DEF Enqueue
  <2> QED BY <1>1, <2>1 DEF Steady
<1>2. CASE r.requests # <<>>
  <2>1. PICK all : all = r.offsets \o r.requests
    OBVIOUS
  <2>2. /\ all \in Seq(Parts) /\ r.offsets \in Seq(Parts) /\ r.requests \in Seq(Parts)
        /\ ToSet(all) = ToSet(r.offsets) \cup ToSet(r.requests)
    BY <2>1, QueuesAre
  <2>3. PICK changes : changes = {i \in Len(r.offsets)..Len(all) - 1 :
                                     i > 0 /\ all[i + 1] <= all[i]}
    OBVIOUS
  <2>4. PICK s : s = Enqueue(r)
    OBVIOUS
  <2>5. r.downloaded
    BY <1>2 DEF Kept, Alone
  <2>6. Len(all) \in Nat /\ Len(r.offsets) \in Nat /\ DOMAIN all = 1..Len(all)
        /\ \A i \in 1..Len(all) : all[i] \in Parts
    BY <2>2, LenProperties, ElementOfSeq
  <2>7. <<>> \in Seq(Parts) /\ all \o <<>> = all
    BY <2>2, EmptySeq, ConcatEmptySeq
  <2>8. CASE r.offsets = <<>> \/ changes = {}
    <3>1. s = [r EXCEPT !.offsets = all, !.requests = <<>>]
      BY <1>2, <2>1, <2>3, <2>4, <2>8 DEF Enqueue
    <3>2. /\ s \in Readers /\ s.slices = r.slices /\ s.offsets = all /\ s.requests = <<>>
          /\ s.acks = r.acks /\ s.downloaded = r.downloaded /\ s.calls = r.calls
          /\ Steady(r, s)
      BY <2>2, <2>7, <3>1 DEF Good, Readers, Steady
    <3>3. Alone(s, d)
      BY <2>1, <2>5, <2>7, <3>2 DEF Kept, Alone
    <3>4. AskedBut(s, d, {})
      BY <2>2, <3>2 DEF Kept, AskedBut
    <3> QED BY <2>4, <3>2, <3>3, <3>4 DEF Good, Kept
  <2>9. CASE ~(r.offsets = <<>> \/ changes = {})
    <3>1. PICK offsets : offsets = SubSeq(all, MinOf(changes) + 1, Len(all))
      OBVIOUS
    <3>2. s = [r EXCEPT !.offsets = offsets, !.requests = <<>>, !.readCache = Nothing, !.acks = {}]
      BY <1>2, <2>1, <2>3, <2>4, <2>9, <3>1 DEF Enqueue
    <3>3. \A i \in changes : i \in 1..Len(all) - 1 /\ all[i + 1] <= all[i]
      BY <2>3, <2>6
    <3>4. offsets \in Seq(Parts)
      <4>1. changes \subseteq Nat /\ changes # {}
        BY <2>9, <3>3
      <4>2. MinOf(changes) \in changes
        BY <4>1, Least
      <4>3. MinOf(changes) \in 0..Len(all)
        BY <2>6, <3>3, <4>2
      <4> QED BY <2>2, <3>1, <4>3, CutIs
    <3>5. ~d.first
      <4>1. SUFFICES ASSUME d.first PROVE FALSE
        OBVIOUS
      <4>2. Increasing(all)
        BY <2>1, <4>1 DEF Kept, Alone
      <4>3. PICK i \in changes : i \in 1..Len(all) - 1 /\ all[i + 1] <= all[i]
        BY <2>9, <3>3
      <4>4. i \in 1..Len(all) /\ i + 1 \in 1..Len(all) /\ i < i + 1
        BY <2>6, <4>3
      <4>5. all[i] < all[i + 1]
        BY <2>6, <4>2, <4>4 DEF Increasing
      <4>6. all[i] \in Nat /\ all[i + 1] \in Nat
        BY <2>6, <4>4, SlicesAre
      <4> QED BY <4>3, <4>5, <4>6
    <3>6. /\ s \in Readers /\ s.slices = r.slices /\ s.requests = <<>>
          /\ s.downloaded = r.downloaded /\ Steady(r, s)
      BY <2>7, <3>2, <3>4, NothingIs DEF Good, Readers, Steady
    <3> QED BY <2>4, <2>5, <3>5, <3>6 DEF Good, Kept, Alone, AskedBut
  <2> QED BY <2>8, <2>9
<1> QED BY <1>1, <1>2

\* checkForDownloaderReadyOffsets(): what is ready is on its way.
LEMMA FireReadyIs ==
    ASSUME NEW r, Good(r), NEW d, Kept(r, d), r.requests = <<>>
    PROVE  LET s == FireReady(r)
           IN  Good(s) /\ Kept(s, d) /\ Steady(r, s) /\ s.requests = <<>>
<1>1. PICK n : n = MaxOf({0} \cup {k \in 1..Len(r.offsets) :
                                     \A i \in 1..k : Ready(r, r.offsets[i])})
  OBVIOUS
<1>2. r.offsets \in Seq(Parts) /\ r.readCache \in ReadCaches /\ r.acks \in SUBSET Parts
  BY QueuesAre
<1>3. Len(r.offsets) \in Nat
  BY <1>2, LenProperties
<1>4. n \in 0..Len(r.offsets)
  <2> DEFINE T == {0} \cup {k \in 1..Len(r.offsets) : \A i \in 1..k : Ready(r, r.offsets[i])}
  <2>1. T \subseteq 0..Len(r.offsets) /\ T # {}
    BY <1>3
  <2> HIDE DEF T
  <2>2. MaxOf(T) \in T
    BY <1>3, <2>1, Greatest
  <2> QED BY <1>1, <2>1, <2>2 DEF T
<1>5. PICK ready, rest : /\ ready = SubSeq(r.offsets, 1, n)
                         /\ rest = SubSeq(r.offsets, n + 1, Len(r.offsets))
  OBVIOUS
<1>6. /\ ready \in Seq(Parts) /\ rest \in Seq(Parts)
      /\ ToSet(ready) \cup ToSet(rest) = ToSet(r.offsets)
      /\ Increasing(r.offsets) => Increasing(rest)
  BY <1>2, <1>4, <1>5, CutIs
<1>7. PICK taken : taken = {p \in ToSet(ready) : ~HasPart(r.slices, p)}
  OBVIOUS
<1>8. PICK cache : cache = [k \in DOMAIN r.readCache |->
                              [r.readCache[k] EXCEPT !.parts = @ \ taken]]
  OBVIOUS
<1>9. cache \in ReadCaches
  <2>1. /\ DOMAIN r.readCache \in SUBSET SliceNumbers
        /\ \A k \in DOMAIN r.readCache : r.readCache[k] \in [known : BOOLEAN, parts : SUBSET Parts]
    BY <1>2, ReadCachesAre
  <2>2. \A k \in DOMAIN r.readCache : cache[k] \in [known : BOOLEAN, parts : SUBSET Parts]
    BY <1>8, <2>1
  <2>3. cache \in [DOMAIN r.readCache -> [known : BOOLEAN, parts : SUBSET Parts]]
    BY <1>8, <2>2
  <2> QED BY <2>1, <2>3, ReadCachesAre
<1>10. PICK t : t = [r EXCEPT !.offsets = rest, !.readCache = cache]
  OBVIOUS
<1>11. /\ t \in Readers /\ t.slices = r.slices /\ t.offsets = rest
       /\ t.requests = <<>> /\ t.acks = r.acks /\ t.downloaded = r.downloaded
       /\ t.calls = r.calls /\ Steady(r, t)
  BY <1>6, <1>9, <1>10 DEF Good, Readers, Steady
<1>12. PICK s : s = Call(t, "part", ready)
  OBVIOUS
<1>13. s = FireReady(r)
  BY <1>1, <1>5, <1>7, <1>8, <1>10, <1>12 DEF FireReady
<1>14. \A p \in Parts : <<"part", p>> \in Calls
  BY DEF Calls
<1>15. /\ Good(s) /\ Same(t, s)
       /\ \A p \in ToSet(ready) : <<"part", p>> \in ToSet(s.calls)
  BY <1>6, <1>11, <1>12, <1>14, CallIs DEF Good
<1>16. Alone(t, d)
  <2>1. CASE ~r.downloaded
    <3>1. r.offsets = <<>> /\ r.acks = {} /\ ~d.on
      BY <2>1 DEF Kept, Alone
    <3>2. ToSet(r.offsets) = {}
      BY <3>1 DEF ToSet
    <3>3. rest = <<>>
      BY <1>5, <1>3, <1>4, <3>1
    <3> QED BY <1>11, <3>1, <3>3, <2>1 DEF Kept, Alone
  <2>2. CASE r.downloaded
    <3>1. SUFFICES ASSUME d.first
                   PROVE  LET all == t.offsets \o t.requests
                          IN  /\ d.on /\ t.downloaded /\ t.acks \subseteq d.saved
                              /\ Increasing(all) /\ \A i \in DOMAIN all : all[i] < d.next
      BY <1>11, <2>2 DEF Alone
    <3>2. rest \o <<>> = rest /\ r.offsets \o <<>> = r.offsets
      BY <1>2, <1>6, ConcatEmptySeq
    <3>3. /\ d.on /\ r.acks \subseteq d.saved /\ Increasing(r.offsets)
          /\ \A i \in DOMAIN r.offsets : r.offsets[i] < d.next
      BY <3>1, <3>2 DEF Kept, Alone
    <3>4. \A p \in ToSet(r.offsets) : p < d.next
      BY <3>3 DEF ToSet
    <3>5. \A i \in DOMAIN rest : rest[i] < d.next
      BY <1>6, <3>4 DEF ToSet
    <3> QED BY <1>6, <1>11, <2>2, <3>2, <3>3, <3>5
  <2> QED BY <2>1, <2>2
<1>17. Alone(s, d)
  BY <1>15, <1>16, SameKept
<1>18. AskedBut(s, d, {})
  <2>1. SUFFICES ASSUME d.first, NEW p \in 1..d.next - 1, p \in Parts \ d.saved
                 PROVE  \/ p \in ToSet(s.requests) \cup ToSet(s.offsets)
                        \/ <<"part", p>> \in ToSet(s.calls)
    BY DEF AskedBut
  <2>2. \/ p \in ToSet(r.requests) \cup ToSet(r.offsets)
        \/ <<"part", p>> \in ToSet(r.calls)
    BY <2>1 DEF Kept, AskedBut
  <2>3. s.requests = r.requests /\ s.offsets = rest
        /\ (<<"part", p>> \in ToSet(r.calls) => <<"part", p>> \in ToSet(s.calls))
    BY <1>11, <1>15, <2>1 DEF Same
  <2> QED BY <1>6, <1>15, <2>2, <2>3
<1> QED BY <1>11, <1>13, <1>15, <1>17, <1>18 DEF Kept, Same, Steady

\* pruneDoneDownloaderRequests(): what is done was saved.
LEMMA PruneDoneIs ==
    ASSUME NEW r, Good(r), NEW d, Kept(r, d), r.requests = <<>>
    PROVE  LET s == PruneDone(r)
           IN  Good(s) /\ Kept(s, d) /\ Steady(r, s)
<1>1. PICK rest : rest = Without(r.offsets, r.acks)
  OBVIOUS
<1>2. r.offsets \in Seq(Parts) /\ r.acks \in SUBSET Parts
  BY QueuesAre
<1>3. /\ rest \in Seq(Parts) /\ ToSet(rest) = ToSet(r.offsets) \ r.acks
      /\ Increasing(r.offsets) => Increasing(rest)
  BY <1>1, <1>2, WithoutIs
<1>4. PICK s : s = PruneDone(r)
  OBVIOUS
<1>5. s = [r EXCEPT !.acks = {}, !.requested = @ \ r.acks, !.offsets = rest]
  BY <1>1, <1>4 DEF PruneDone
<1>6. /\ s \in Readers /\ s.slices = r.slices /\ s.offsets = rest
      /\ s.requests = <<>> /\ s.acks = {} /\ s.downloaded = r.downloaded
      /\ s.calls = r.calls /\ Steady(r, s)
  BY <1>3, <1>5 DEF Good, Readers, Steady
<1>7. Alone(s, d)
  <2>1. CASE ~r.downloaded
    <3>1. r.offsets = <<>> /\ ~d.on
      BY <2>1 DEF Kept, Alone
    <3>2. ToSet(rest) = {}
      BY <1>3, <3>1 DEF ToSet
    <3>3. rest = <<>>
      <4>1. DOMAIN rest = {}
        BY <3>2 DEF ToSet
      <4>2. Len(rest) = 0
        BY <1>3, <4>1, LenProperties
      <4> QED BY <1>3, <4>2, EmptySeq
    <3> QED BY <1>6, <2>1, <3>1, <3>3 DEF Kept, Alone
  <2>2. CASE r.downloaded
    <3>1. SUFFICES ASSUME d.first
                   PROVE  LET all == s.offsets \o s.requests
                          IN  /\ d.on /\ s.downloaded /\ s.acks \subseteq d.saved
                              /\ Increasing(all) /\ \A i \in DOMAIN all : all[i] < d.next
      BY <1>6, <2>2 DEF Alone
    <3>2. rest \o <<>> = rest /\ r.offsets \o <<>> = r.offsets
      BY <1>2, <1>3, ConcatEmptySeq
    <3>3. /\ d.on /\ Increasing(r.offsets)
          /\ \A i \in DOMAIN r.offsets : r.offsets[i] < d.next
      BY <3>1, <3>2 DEF Kept, Alone
    <3>4. \A p \in ToSet(r.offsets) : p < d.next
      BY <3>3 DEF ToSet
    <3>5. \A i \in DOMAIN rest : rest[i] < d.next
      BY <1>3, <3>4 DEF ToSet
    <3> QED BY <1>3, <1>6, <2>2, <3>2, <3>3, <3>5
  <2> QED BY <2>1, <2>2
<1>8. AskedBut(s, d, {})
  <2>1. SUFFICES ASSUME d.first, NEW p \in 1..d.next - 1, p \in Parts \ d.saved
                 PROVE  \/ p \in ToSet(s.requests) \cup ToSet(s.offsets)
                        \/ <<"part", p>> \in ToSet(s.calls)
    BY DEF AskedBut
  <2>2. \/ p \in ToSet(r.requests) \cup ToSet(r.offsets)
        \/ <<"part", p>> \in ToSet(r.calls)
    BY <2>1 DEF Kept, AskedBut
  <2>3. p \notin r.acks
    BY <2>1 DEF Kept, Alone
  <2> QED BY <1>3, <1>6, <2>2, <2>3
<1> QED BY <1>4, <1>6, <1>7, <1>8 DEF Good, Kept

\* pruneDownloaderCache()
LEMMA PruneReadCacheIs ==
    ASSUME NEW r, Good(r)
    PROVE  Good(PruneReadCache(r)) /\ Same(r, PruneReadCache(r))
<1>1. PICK N : N = {k \in DOMAIN r.readCache : k >= SliceOf(r.offsets[1])}
  OBVIOUS
<1>2. PICK cache : cache = [n \in N |-> r.readCache[n]]
  OBVIOUS
<1>3. cache \in ReadCaches
  <2>1. /\ DOMAIN r.readCache \in SUBSET SliceNumbers
        /\ \A k \in DOMAIN r.readCache : r.readCache[k] \in [known : BOOLEAN, parts : SUBSET Parts]
    BY QueuesAre, ReadCachesAre
  <2>2. N \in SUBSET SliceNumbers /\ cache \in [N -> [known : BOOLEAN, parts : SUBSET Parts]]
    BY <1>1, <1>2, <2>1
  <2> QED BY <2>2, ReadCachesAre
<1>4. PICK s : s = PruneReadCache(r)
  OBVIOUS
<1>5. s = [r EXCEPT !.readCache = cache]
  BY <1>1, <1>2, <1>4 DEF PruneReadCache
<1>6. Good(s) /\ Same(r, s)
  BY <1>3, <1>5 DEF Good, Readers, Same, Steady
<1> QED BY <1>4, <1>6

\* As many as there are, up to a limit.
LEMMA TakeIs ==
    ASSUME NEW S, NEW s \in Seq(S), NEW n \in Int
    PROVE  /\ Take(s, n) \in Seq(S)
           /\ \E m \in 0..Len(s) : /\ Len(Take(s, n)) = m /\ (m < n => m = Len(s))
                                   /\ Take(s, n) = SubSeq(s, 1, m)
<1>1. Len(s) \in Nat
  BY LenProperties
<1>2. CASE n < Len(s) /\ n >= 0
  <2>1. n \in 0..Len(s) /\ Take(s, n) = SubSeq(s, 1, n)
    BY <1>1, <1>2 DEF Take
  <2>2. SubSeq(s, 1, n) \in Seq(S) /\ Len(SubSeq(s, 1, n)) = n
    BY <2>1, CutIs
  <2>3. Take(s, n) \in Seq(S) /\ Len(Take(s, n)) = n /\ ~(n < n)
    BY <2>1, <2>2
  <2> QED BY <2>1, <2>3
<1>3. CASE n < Len(s) /\ n < 0
  <2>1. Take(s, n) = SubSeq(s, 1, n) /\ n < 1 /\ 0 < 1
    BY <1>1, <1>3 DEF Take
  <2>2. SubSeq(s, 1, n) = <<>> /\ SubSeq(s, 1, 0) = <<>>
    BY <2>1, SubSeqEmpty
  <2>3. Take(s, n) = SubSeq(s, 1, 0) /\ 0 \in 0..Len(s) /\ ~(0 < n)
    BY <1>1, <1>3, <2>1, <2>2
  <2> QED BY <2>3, CutIs
<1>4. CASE ~(n < Len(s))
  <2>1. Len(s) \in 0..Len(s) /\ Take(s, n) = SubSeq(s, 1, Len(s))
    BY <1>1, <1>4 DEF Take
  <2> QED BY <2>1, CutIs
<1> QED BY <1>1, <1>2, <1>3, <1>4

\* sendDownloaderRequests()
LEMMA SendIs ==
    ASSUME NEW r, Good(r), NEW d \in Disks
    PROVE  Good(Send(r, d)) /\ Same(r, Send(r, d))
<1>1. PICK first : first = ToSet(Take(r.offsets, RequestsLimit))
  OBVIOUS
<1>2. PICK needed : needed = {p \in first : UseCache /\ ReadCacheRequired(r.slices, p)}
  OBVIOUS
<1>3. PICK fresh : fresh = {SliceOf(p) : p \in needed} \ DOMAIN r.readCache
  OBVIOUS
<1>4. PICK unknown : unknown = (r.slices.mode = "Unknown")
  OBVIOUS
<1>5. PICK cache : cache = And(r.readCache, [n \in fresh |-> [known |-> unknown, parts |-> {}]])
  OBVIOUS
<1>6. PICK send : send = {p \in first : p \in needed => cache[SliceOf(p)].known} \ r.requested
  OBVIOUS
<1>7. PICK read : read = IF unknown THEN r ELSE ReadFromCache(r, d, fresh)
  OBVIOUS
<1>8. CASE UseCache /\ Loading(r.slices.header)
  <2>1. Send(r, d) = r
    BY <1>8 DEF Send
  <2> QED BY <2>1 DEF Same, Steady
<1>9. CASE ~(UseCache /\ Loading(r.slices.header))
  <2>1. first \in SUBSET Parts
    <3>1. r.offsets \in Seq(Parts) /\ RequestsLimit \in Int
      BY QueuesAre, BoundsAssumption
    <3>2. Take(r.offsets, RequestsLimit) \in Seq(Parts)
      BY <3>1, TakeIs
    <3>3. PICK t \in Seq(Parts) : t = Take(r.offsets, RequestsLimit)
      BY <3>2
    <3>4. \A i \in DOMAIN t : t[i] \in Parts
      BY ElementOfSeq, LenProperties
    <3> QED BY <1>1, <3>3, <3>4 DEF ToSet
  <2>2. fresh \in SUBSET SliceNumbers
    BY <1>2, <1>3, <2>1, SlicesAre
  <2>3. send \in SUBSET Parts
    BY <1>6, <2>1
  <2>4. cache \in ReadCaches
    <3>1. unknown \in BOOLEAN
      BY <1>4
    <3>2. [n \in fresh |-> [known |-> unknown, parts |-> {}]]
              \in [fresh -> [known : BOOLEAN, parts : SUBSET Parts]]
      BY <3>1
    <3>3. [n \in fresh |-> [known |-> unknown, parts |-> {}]] \in ReadCaches
      BY <2>2, <3>2, ReadCachesAre
    <3> QED BY <1>5, <3>3, QueuesAre, AndIs
  <2>5. Good(read) /\ Same(r, read)
    <3>1. Same(r, r)
      BY DEF Same, Steady
    <3> QED BY <1>7, <2>2, <3>1, ReadFromCacheIs
  <2>6. PICK t : t = [read EXCEPT !.readCache = cache, !.requested = @ \cup send]
    OBVIOUS
  <2>7. Good(t) /\ Same(read, t)
    BY <2>3, <2>4, <2>5, <2>6 DEF Good, Readers, Same, Steady
  <2>8. InOrder(send) \in Seq(Parts)
    BY <2>3, PartsInOrder, WiderSeq
  <2>9. \A p \in Parts : <<"load", p>> \in Calls
    BY DEF Calls
  <2>10. PICK s : s = Call(t, "load", InOrder(send))
    OBVIOUS
  <2>11. Good(s) /\ Same(t, s)
    BY <2>7, <2>8, <2>9, <2>10, CallIs
  <2>12. Send(r, d) = s
    BY <1>1, <1>2, <1>3, <1>4, <1>5, <1>6, <1>7, <1>9, <2>6, <2>10 DEF Send
  <2> QED BY <2>5, <2>7, <2>11, <2>12, SameSame
<1> QED BY <1>8, <1>9

\* processDownloaderRequests() and continueDownloaderFromMainThread() keep what the
\* downloader has asked for.
LEMMA ProcessRequestsIs ==
    ASSUME NEW r, Good(r), NEW d \in Disks, NEW dl, Kept(r, dl)
    PROVE  LET s == ProcessDownloaderRequests(r, d)
           IN  Good(s) /\ Kept(s, dl) /\ Steady(r, s)
<1>1. PICK a : a = ProcessCacheResults(r)
  OBVIOUS
<1>2. Good(a) /\ Kept(a, dl) /\ Steady(r, a)
  BY <1>1, CacheResultsAre, SameKept DEF Same
<1>3. PICK b : b = Enqueue(a)
  OBVIOUS
<1>4. Good(b) /\ Kept(b, dl) /\ Steady(a, b) /\ b.requests = <<>>
  BY <1>2, <1>3, EnqueueIs
<1>5. PICK c : c = FireReady(b)
  OBVIOUS
<1>6. Good(c) /\ Kept(c, dl) /\ Steady(b, c) /\ c.requests = <<>>
  BY <1>4, <1>5, FireReadyIs
<1>7. PICK e : e = PruneDone(c)
  OBVIOUS
<1>8. Good(e) /\ Kept(e, dl) /\ Steady(c, e)
  BY <1>6, <1>7, PruneDoneIs
<1>9. Steady(r, e)
  BY <1>2, <1>4, <1>6, <1>8 DEF Steady
<1>10. PICK f : f = PruneReadCache(e)
  OBVIOUS
<1>11. Good(f) /\ Kept(f, dl) /\ Steady(e, f)
  BY <1>8, <1>10, PruneReadCacheIs, SameKept DEF Same
<1>12. PICK g : g = Send(f, d)
  OBVIOUS
<1>13. Good(g) /\ Kept(g, dl) /\ Steady(f, g)
  BY <1>11, <1>12, SendIs, SameKept DEF Same
<1>14. ProcessDownloaderRequests(r, d) = IF e.offsets = <<>> THEN e ELSE g
  BY <1>1, <1>3, <1>5, <1>7, <1>10, <1>12 DEF ProcessDownloaderRequests
<1>15. Steady(r, g)
  BY <1>9, <1>11, <1>13 DEF Steady
<1> QED BY <1>8, <1>9, <1>13, <1>14, <1>15

\* continueDownloaderFromMainThread(): this thread or the streaming thread does the work.
LEMMA ContinueIs ==
    ASSUME NEW r, Good(r), NEW d \in Disks, NEW dl, Kept(r, dl)
    PROVE  LET s == ContinueDownloader(r, d)
           IN  Good(s) /\ Kept(s, dl) /\ Steady(r, s)
<1>1. CASE r.active
  <2>1. Good(WakeFromSleep(r)) /\ Same(r, WakeFromSleep(r))
    BY WakesAre
  <2>2. Kept(WakeFromSleep(r), dl)
    BY <2>1, SameKept
  <2> QED BY <1>1, <2>1, <2>2 DEF ContinueDownloader, Same
<1>2. CASE ~r.active
  BY <1>2, ProcessRequestsIs DEF ContinueDownloader
<1> QED BY <1>1, <1>2

-----------------------------------------------------------------------------
(* The downloader                                                          *)

\* requestParts() asks for parts in order, and leaves none out up to where it goes on
\* the next time.
LEMMA AskIs ==
    ASSUME NEW next \in 1..(NumParts + 1), NEW saved \in SUBSET Parts, NEW asked \in Int
    PROVE  LET missing == InOrder((next..NumParts) \ saved)
               ask == Take(missing, RequestParts - asked)
               then == IF asked + Len(ask) < RequestParts THEN NumParts + 1
                       ELSE IF ask = <<>> THEN next ELSE Last(ask) + 1
           IN  /\ ask \in Seq(Parts) /\ Increasing(ask)
               /\ then \in next..(NumParts + 1) /\ asked + Len(ask) \in Int
               /\ \A q \in ToSet(ask) : next <= q /\ q < then
               /\ \A p \in next..(then - 1) : p \in saved \/ p \in ToSet(ask)
<1>a. PICK M : M = (next..NumParts) \ saved
  OBVIOUS
<1>b. PICK missing : missing = InOrder(M)
  OBVIOUS
<1>c. PICK ask : ask = Take(missing, RequestParts - asked)
  OBVIOUS
<1>d. PICK then : then = IF asked + Len(ask) < RequestParts THEN NumParts + 1
                         ELSE IF ask = <<>> THEN next ELSE Last(ask) + 1
  OBVIOUS
<1> DEFINE Goal == /\ ask \in Seq(Parts) /\ Increasing(ask)
                   /\ then \in next..(NumParts + 1) /\ asked + Len(ask) \in Int
                   /\ \A q \in ToSet(ask) : next <= q /\ q < then
                   /\ \A p \in next..(then - 1) : p \in saved \/ p \in ToSet(ask)
<1>1. NumParts \in Nat /\ RequestParts \in Nat /\ next \in Nat
  BY SlicesAre, BoundsAssumption
<1>2. M \subseteq Parts
  BY <1>1, <1>a DEF Parts
<1>3. /\ missing \in Seq(M) /\ missing \in Seq(Parts) /\ Increasing(missing)
      /\ ToSet(missing) = M
  BY <1>2, <1>b, PartsInOrder, WiderSeq
<1>4. Len(missing) \in Nat /\ DOMAIN missing = 1..Len(missing)
      /\ \A i \in 1..Len(missing) : missing[i] \in M
  BY <1>3, LenProperties, ElementOfSeq
<1>5. RequestParts - asked \in Int
  BY <1>1
<1>6. PICK m \in 0..Len(missing) :
          /\ Len(ask) = m /\ (m < RequestParts - asked => m = Len(missing))
          /\ ask = SubSeq(missing, 1, m)
  BY <1>3, <1>5, <1>c, TakeIs
<1>7. /\ ask \in Seq(Parts) /\ Increasing(ask) /\ \A i \in 1..m : ask[i] = missing[i]
  BY <1>3, <1>6, CutIs
<1>8. DOMAIN ask = 1..m /\ m \in Nat
  BY <1>4, <1>6, <1>7, LenProperties
<1>9. \A i \in 1..m : i \in 1..Len(missing)
  BY <1>4, <1>8
<1>10. ToSet(ask) \subseteq M
  BY <1>4, <1>7, <1>8, <1>9 DEF ToSet
<1>11. \A q \in M : q \in Nat /\ next <= q /\ q <= NumParts /\ q < NumParts + 1
  BY <1>1, <1>a
<1>12. asked + Len(ask) \in Int
  BY <1>6, <1>8
<1>13. ASSUME asked + Len(ask) < RequestParts
       PROVE  Goal
  <2>1. m = Len(missing)
    BY <1>1, <1>6, <1>8, <1>13
  <2>2. ask = missing
    BY <1>3, <1>6, <2>1, SubSeqFull
  <2>3. then = NumParts + 1
    BY <1>13, <1>d
  <2>4. then \in next..(NumParts + 1)
    BY <1>1, <2>3
  <2>5. \A p \in next..(then - 1) : p \in saved \/ p \in M
    BY <1>1, <1>a, <2>3
  <2> QED BY <1>3, <1>7, <1>10, <1>11, <1>12, <2>2, <2>3, <2>4, <2>5
<1>14. ASSUME ~(asked + Len(ask) < RequestParts) /\ ask = <<>>
       PROVE  Goal
  <2>1. then = next
    BY <1>14, <1>d
  <2>2. then \in next..(NumParts + 1) /\ next..(then - 1) = {}
    BY <1>1, <2>1
  <2>3. ToSet(ask) = {}
    BY <1>14 DEF ToSet
  <2> QED BY <1>7, <1>12, <2>2, <2>3
<1>15. ASSUME ~(asked + Len(ask) < RequestParts) /\ ask # <<>>
       PROVE  Goal
  <2>1. m \in 1..Len(missing)
    <3>1. Len(ask) # 0
      BY <1>7, <1>15, EmptySeq
    <3>2. m # 0
      BY <1>6, <3>1
    <3> QED BY <1>4, <1>8, <3>2
  <2>2. PICK last : last = missing[m]
    OBVIOUS
  <2>3. m \in 1..m
    BY <1>8, <2>1
  <2>4. last \in M /\ last \in Nat /\ last = ask[m]
    BY <1>4, <1>7, <1>11, <2>1, <2>2, <2>3
  <2>5. then = last + 1
    BY <1>6, <1>15, <1>d, <2>4 DEF Last
  <2>6. then \in next..(NumParts + 1)
    BY <1>1, <1>11, <2>4, <2>5
  <2>7. \A q \in ToSet(ask) : q < then
    <3> TAKE q \in ToSet(ask)
    <3>1. PICK i \in 1..m : q = ask[i]
      BY <1>8 DEF ToSet
    <3>2. i = m \/ i < m
      BY <1>8, <3>1
    <3>3. q \in Nat
      BY <1>10, <1>11
    <3>4. i < m => q < last
      BY <1>7, <1>8, <2>3, <2>4, <3>1 DEF Increasing
    <3> QED BY <2>4, <2>5, <3>1, <3>2, <3>3, <3>4
  <2>8. \A p \in next..(then - 1) : p \in saved \/ p \in ToSet(ask)
    <3> SUFFICES ASSUME NEW p \in next..(then - 1), p \notin saved PROVE p \in ToSet(ask)
      OBVIOUS
    <3>1. p \in M /\ p \in Nat /\ p <= last
      BY <1>1, <1>a, <1>11, <2>4, <2>5, <2>6
    <3>2. PICK i \in 1..Len(missing) : missing[i] = p
      BY <1>3, <1>4, <3>1 DEF ToSet
    <3>3. ~(m < i)
      <4>1. m < i => last < p
        BY <1>3, <1>4, <2>1, <2>2, <3>2 DEF Increasing
      <4> QED BY <2>4, <3>1, <4>1
    <3>4. i \in 1..m
      BY <1>4, <1>8, <3>2, <3>3
    <3> QED BY <1>7, <1>8, <3>2, <3>4 DEF ToSet
  <2> QED BY <1>7, <1>10, <1>11, <1>12, <2>6, <2>7, <2>8
<1>16. Goal
  BY <1>13, <1>14, <1>15
<1> QED BY <1>16, <1>a, <1>b, <1>c, <1>d

\* A Reader and its downloader.
Both(rd) == rd = [r |-> rd.r, d |-> rd.d]

\* Wishes that are put behind others stay in their order.
LEMMA ThreeInARow ==
    ASSUME NEW a \in Seq(Parts), NEW b \in Seq(Parts), NEW c \in Seq(Parts)
    PROVE  a \o (b \o c) = (a \o b) \o c
BY SMTT(30), ConcatAssociative

\* requestParts(): what is asked for is in the queue of wishes.
LEMMA AskForPartsIs ==
    ASSUME NEW rd, Good(rd.r), rd.d \in Downloaders, rd.d.on, rd.r.downloaded,
           Kept(rd.r, rd.d), disk \in Disks
    PROVE  LET to == AskForParts(rd)
           IN  /\ Good(to.r) /\ to.d \in Downloaders /\ Kept(to.r, to.d)
               /\ Steady(rd.r, to.r) /\ Both(to)
<1>1. PICK r, d : r = rd.r /\ d = rd.d
  OBVIOUS
<1>2. /\ Good(r) /\ d \in Downloaders /\ d.on /\ r.downloaded /\ Kept(r, d)
  BY <1>1
<1>3. d.next \in 1..(NumParts + 1) /\ d.saved \in SUBSET Parts /\ d.asked \in Int
  BY <1>2 DEF Downloaders
<1>4. PICK ask : ask = Take(InOrder((d.next..NumParts) \ d.saved), RequestParts - d.asked)
  OBVIOUS
<1>5. PICK then : then = IF d.asked + Len(ask) < RequestParts THEN NumParts + 1
                         ELSE IF ask = <<>> THEN d.next ELSE Last(ask) + 1
  OBVIOUS
<1>6. /\ ask \in Seq(Parts) /\ Increasing(ask)
      /\ then \in d.next..(NumParts + 1) /\ d.asked + Len(ask) \in Int
      /\ \A q \in ToSet(ask) : d.next <= q /\ q < then
      /\ \A p \in d.next..(then - 1) : p \in d.saved \/ p \in ToSet(ask)
  BY <1>3, <1>4, <1>5, AskIs
<1>7. NumParts \in Nat /\ d.next \in Nat /\ then \in 1..(NumParts + 1) /\ d.next <= then
  BY <1>3, <1>6, SlicesAre
<1>8. PICK e : e = [d EXCEPT !.asked = d.asked + Len(ask), !.next = then]
  OBVIOUS
<1>9. /\ e \in Downloaders /\ e.on = d.on /\ e.first = d.first /\ e.saved = d.saved
      /\ e.next = then
  BY <1>2, <1>6, <1>7, <1>8 DEF Downloaders
<1>10. PICK requests : requests = r.requests \o ask
  OBVIOUS
<1>11. r.requests \in Seq(Parts) /\ r.offsets \in Seq(Parts)
  BY <1>2, QueuesAre
<1>12. requests \in Seq(Parts) /\ ToSet(requests) = ToSet(r.requests) \cup ToSet(ask)
  BY <1>6, <1>10, <1>11, ConcatIs
<1>a. PICK attached : attached = (r.attached \/ ask # <<>>)
  OBVIOUS
<1>b. attached \in BOOLEAN
  BY <1>a
<1>13. PICK s : s = [r EXCEPT !.attached = attached, !.requests = requests]
  OBVIOUS
<1>14. /\ s \in Readers /\ s.slices = r.slices /\ s.requests = requests
       /\ s.offsets = r.offsets /\ s.acks = r.acks /\ s.calls = r.calls
       /\ s.downloaded = r.downloaded /\ Steady(r, s)
  BY <1>2, <1>12, <1>13, <1>b DEF Good, Readers, Steady
<1>15. Good(s)
  BY <1>2, <1>14 DEF Good
<1>16. Alone(s, e)
  <2>1. SUFFICES ASSUME d.first
                 PROVE  LET all == s.offsets \o s.requests
                        IN  /\ s.acks \subseteq d.saved /\ Increasing(all)
                            /\ \A i \in DOMAIN all : all[i] < then
    BY <1>2, <1>9, <1>14 DEF Alone
  <2>2. PICK all : all = r.offsets \o r.requests
    OBVIOUS
  <2>3. PICK more : more = s.offsets \o s.requests
    OBVIOUS
  <2>4. /\ r.acks \subseteq d.saved /\ Increasing(all)
        /\ \A i \in DOMAIN all : all[i] < d.next
    BY <1>2, <2>1, <2>2 DEF Kept, Alone
  <2>5. \A p \in ToSet(all) : p < d.next
    BY <2>4 DEF ToSet
  <2>6. all \in Seq(Parts)
    BY <1>2, <2>2, QueuesAre
  <2>7. more = all \o ask
    <3>0. ask \in Seq(Parts)
      BY <1>6
    <3>1. r.offsets \o (r.requests \o ask) = (r.offsets \o r.requests) \o ask
      BY <1>11, <3>0, ThreeInARow
    <3>2. more = r.offsets \o (r.requests \o ask)
      BY Zenon, <1>10, <1>14, <2>3
    <3> QED BY Zenon, <2>2, <3>1, <3>2
  <2>8. /\ \A p \in ToSet(all) : p \in Nat
        /\ \A q \in ToSet(ask) : q \in Nat
    <3>1. \A i \in DOMAIN all : all[i] \in Parts
      BY <2>6, ElementOfSeq, LenProperties
    <3>2. \A i \in DOMAIN ask : ask[i] \in Parts
      BY <1>6, ElementOfSeq, LenProperties
    <3> QED BY <3>1, <3>2, SlicesAre DEF ToSet
  <2>9. \A p \in ToSet(all), q \in ToSet(ask) : p < q
    BY <1>6, <1>7, <2>5, <2>8
  <2>10. Parts \subseteq Nat
    BY SlicesAre
  <2>11. Increasing(more) /\ ToSet(more) = ToSet(all) \cup ToSet(ask)
    BY <1>6, <2>4, <2>6, <2>7, <2>9, <2>10, ConcatIs
  <2>12. \A p \in ToSet(more) : p < then
    <3>1. \A p \in ToSet(all) : p < then
      BY <1>7, <2>5, <2>8
    <3> QED BY <1>6, <2>11, <3>1
  <2>13. \A i \in DOMAIN more : more[i] < then
    BY <2>12 DEF ToSet
  <2> QED BY <1>14, <2>3, <2>4, <2>11, <2>13
<1>17. AskedBut(s, e, {})
  <2>1. SUFFICES ASSUME d.first, NEW p \in 1..then - 1, p \in Parts \ d.saved
                 PROVE  \/ p \in ToSet(requests) \cup ToSet(r.offsets)
                        \/ <<"part", p>> \in ToSet(r.calls)
    BY <1>9, <1>14 DEF AskedBut
  <2>2. CASE p < d.next
    <3>1. p \in 1..d.next - 1
      BY <1>7, <2>1, <2>2
    <3>2. \/ p \in ToSet(r.requests) \cup ToSet(r.offsets)
          \/ <<"part", p>> \in ToSet(r.calls)
      BY <1>2, <2>1, <3>1 DEF Kept, AskedBut
    <3> QED BY <1>12, <3>2
  <2>3. CASE ~(p < d.next)
    <3>1. p \in d.next..(then - 1)
      BY <1>7, <2>1, <2>3
    <3>2. p \in ToSet(ask)
      BY <1>6, <2>1, <3>1
    <3> QED BY <1>12, <3>2
  <2> QED BY <2>2, <2>3
<1>18. PICK t : t = ContinueDownloader(s, disk)
  OBVIOUS
<1>19. Good(t) /\ Kept(t, e) /\ Steady(s, t)
  BY <1>15, <1>16, <1>17, <1>18, ContinueIs DEF Kept
<1>20. AskForParts(rd) = [r |-> t, d |-> e]
  BY <1>1, <1>4, <1>5, <1>8, <1>10, <1>13, <1>18, <1>a DEF AskForParts
<1>21. Steady(rd.r, t)
  BY <1>1, <1>14, <1>19 DEF Steady
<1> QED BY <1>9, <1>19, <1>20, <1>21 DEF Both

\* The end of a download.
LEMMA DetachedIs ==
    ASSUME NEW r, Good(r), NEW d, Alone(r, d)
    PROVE  /\ Good(Detached(r)) /\ NoDownloader \in Downloaders
           /\ Kept(Detached(r), NoDownloader) /\ Steady(r, Detached(r))
<1>1. PICK s : s = Detached(r)
  OBVIOUS
<1>2. s = [r EXCEPT !.requests = <<>>, !.attached = FALSE]
  BY <1>1 DEF Detached
<1>3. <<>> \in Seq(Parts)
  BY EmptySeq
<1>4. /\ Good(s) /\ Steady(r, s) /\ s.requests = <<>> /\ s.downloaded = r.downloaded
      /\ s.offsets = r.offsets /\ s.acks = r.acks
  BY <1>2, <1>3 DEF Good, Readers, Steady
<1>5. 1 \in 1..(NumParts + 1)
  BY SlicesAre
<1>6. NoDownloader \in Downloaders /\ ~NoDownloader.first /\ ~NoDownloader.on
  BY <1>5 DEF NoDownloader, Downloaders
<1>7. Kept(s, NoDownloader)
  BY <1>4, <1>6 DEF Kept, Alone, AskedBut
<1> QED BY <1>1, <1>4, <1>6, <1>7

\* savePart(): what was on its way is saved, and more is asked for.
LEMMA SaveIs ==
    ASSUME NEW rd, Good(rd.r), rd.d \in Downloaders, Alone(rd.r, rd.d), disk \in Disks,
           NEW p \in Parts, AskedBut(rd.r, rd.d, {p}), Both(rd)
    PROVE  LET to == Save(rd, p)
           IN  /\ Good(to.r) /\ to.d \in Downloaders /\ Kept(to.r, to.d)
               /\ Steady(rd.r, to.r) /\ Both(to)
<1>1. PICK d : d = [rd.d EXCEPT !.saved = @ \cup {p},
                                !.asked = IF p < rd.d.next THEN @ - 1 ELSE @]
  OBVIOUS
<1>2. PICK r : r = [rd.r EXCEPT !.acks = @ \cup {p}]
  OBVIOUS
<1>3. CASE ~rd.d.on \/ p \in rd.d.saved
  <2>1. Save(rd, p) = rd
    BY <1>3 DEF Save
  <2>2. AskedBut(rd.r, rd.d, {})
    BY <1>3 DEF AskedBut, Alone
  <2> QED BY <2>1, <2>2 DEF Kept, Steady
<1>4. CASE ~(~rd.d.on \/ p \in rd.d.saved)
  <2>1. rd.r.downloaded
    BY <1>4 DEF Alone
  <2>2. /\ d \in Downloaders /\ d.on = rd.d.on /\ d.first = rd.d.first
        /\ d.saved = rd.d.saved \cup {p} /\ d.next = rd.d.next
    <3>1. rd.d.asked \in Int /\ rd.d.saved \in SUBSET Parts
      BY DEF Downloaders
    <3>2. PICK asked : asked = IF p < rd.d.next THEN rd.d.asked - 1 ELSE rd.d.asked
      OBVIOUS
    <3>3. asked \in Int
      BY <3>1, <3>2
    <3>4. PICK saved : saved = rd.d.saved \cup {p}
      OBVIOUS
    <3>5. d = [rd.d EXCEPT !.saved = saved, !.asked = asked]
      BY <1>1, <3>2, <3>4
    <3>6. saved \in SUBSET Parts
      BY <3>1, <3>4
    <3> QED BY <3>3, <3>4, <3>5, <3>6 DEF Downloaders
  <2>3. /\ r \in Readers /\ r.slices = rd.r.slices /\ r.requests = rd.r.requests
        /\ r.offsets = rd.r.offsets /\ r.acks = rd.r.acks \cup {p} /\ r.calls = rd.r.calls
        /\ r.downloaded = rd.r.downloaded /\ Steady(rd.r, r)
    BY <1>2 DEF Good, Readers, Steady
  <2>4. Good(r)
    BY <2>3 DEF Good
  <2>5. Alone(r, d)
    BY <2>1, <2>2, <2>3 DEF Alone
  <2>6. AskedBut(r, d, {})
    BY <2>2, <2>3 DEF AskedBut
  <2>7. CASE d.saved = Parts
    <3>1. Save(rd, p) = [r |-> Detached(r), d |-> NoDownloader]
      BY <1>1, <1>2, <1>4, <2>7 DEF Save
    <3>2. /\ Good(Detached(r)) /\ NoDownloader \in Downloaders
          /\ Kept(Detached(r), NoDownloader) /\ Steady(r, Detached(r))
      BY <2>1, <2>3, <2>4, <2>5, DetachedIs
    <3> QED BY <2>3, <3>1, <3>2 DEF Steady, Both
  <2>8. CASE d.saved # Parts
    <3>1. PICK n : n = [r |-> r, d |-> d]
      OBVIOUS
    <3>2. n.r = r /\ n.d = d
      BY <3>1
    <3>3. Save(rd, p) = AskForParts(n)
      BY <1>1, <1>2, <1>4, <2>8, <3>1 DEF Save
    <3>4. PICK to : to = AskForParts(n)
      OBVIOUS
    <3>5. /\ Good(to.r) /\ to.d \in Downloaders /\ Kept(to.r, to.d) /\ Steady(r, to.r)
          /\ Both(to)
      <4>1. Good(n.r) /\ n.d \in Downloaders /\ n.d.on /\ n.r.downloaded /\ Kept(n.r, n.d)
        BY <1>4, <2>1, <2>2, <2>3, <2>4, <2>5, <2>6, <3>2 DEF Kept
      <4> QED BY <3>2, <3>4, <4>1, AskForPartsIs
    <3> QED BY <2>3, <3>3, <3>4, <3>5 DEF Steady
  <2> QED BY <2>7, <2>8
<1> QED BY <1>3, <1>4

\* cancelForDownloader(): nobody has asked for anything any more.
LEMMA CancelledIs ==
    ASSUME NEW rd, Good(rd.r), Alone(rd.r, rd.d)
    PROVE  LET to == Cancelled(rd)
           IN  /\ Good(to.r) /\ to.d \in Downloaders /\ Kept(to.r, to.d)
               /\ Steady(rd.r, to.r) /\ Both(to)
BY DetachedIs DEF Cancelled, Both

\* What the Reader does when a part has come, or has failed.
LEMMA OnPartIs ==
    ASSUME NEW rd, Good(rd.r), rd.d \in Downloaders, Kept(rd.r, rd.d), disk \in Disks,
           NEW p \in Parts \cup {Failed}, Both(rd)
    PROVE  LET to == OnPart(rd, p)
           IN  /\ Good(to.r) /\ to.d \in Downloaders /\ Kept(to.r, to.d)
               /\ Steady(rd.r, to.r) /\ Both(to)
<1>1. PICK told : told = CASE ~rd.r.attached -> rd
                           [] rd.r.attached /\ p = Failed -> Cancelled(rd)
                           [] OTHER -> Save(rd, p)
  OBVIOUS
<1>2. /\ Good(told.r) /\ told.d \in Downloaders /\ Kept(told.r, told.d)
      /\ Steady(rd.r, told.r) /\ Both(told)
  <2>1. CASE ~rd.r.attached
    <3>1. told = rd
      BY <1>1, <2>1
    <3> QED BY <3>1 DEF Steady
  <2>2. CASE rd.r.attached /\ p = Failed
    <3>1. told = Cancelled(rd)
      BY <1>1, <2>2
    <3> QED BY <3>1, CancelledIs DEF Kept
  <2>3. CASE rd.r.attached /\ p # Failed
    <3>1. told = Save(rd, p)
      BY <1>1, <2>3
    <3>2. p \in Parts /\ Alone(rd.r, rd.d) /\ AskedBut(rd.r, rd.d, {p})
      BY <2>3 DEF Kept, AskedBut
    <3> QED BY <3>1, <3>2, SaveIs
  <2> QED BY <2>1, <2>2, <2>3
<1>3. PICK r : r = IF told.r.active
                   THEN [told.r EXCEPT !.loadedParts = Append(@, p)] ELSE told.r
  OBVIOUS
<1>4. Good(r) /\ Same(told.r, r)
  <2>1. told.r.loadedParts \in Seq(Parts \cup {Failed})
    BY <1>2 DEF Good, Readers
  <2>2. PICK queue : queue = Append(told.r.loadedParts, p)
    OBVIOUS
  <2>3. queue \in Seq(Parts \cup {Failed})
    BY <2>1, <2>2, AppendProperties
  <2>4. r = IF told.r.active THEN [told.r EXCEPT !.loadedParts = queue] ELSE told.r
    BY <1>3, <2>2
  <2> QED BY <1>2, <2>3, <2>4 DEF Good, Readers, Same, Steady
<1>5. PICK s : s = IF r.waiting THEN Release([r EXCEPT !.waiting = FALSE]) ELSE r
  OBVIOUS
<1>6. Good(s) /\ Same(r, s)
  BY <1>4, <1>5 DEF Good, Readers, Release, Same, Steady
<1>7. Kept(s, told.d) /\ Steady(rd.r, s)
  BY <1>2, <1>4, <1>6, SameKept DEF Same, Steady
<1>8. PICK to : to = OnPart(rd, p)
  OBVIOUS
<1>9. to = [told EXCEPT !.r = s]
  BY <1>1, <1>3, <1>5, <1>8 DEF OnPart
<1>10. told = [r |-> told.r, d |-> told.d]
  BY <1>2 DEF Both
<1>11. to.r = s /\ to.d = told.d /\ Both(to)
  BY <1>9, <1>10 DEF Both
<1> QED BY <1>2, <1>6, <1>7, <1>8, <1>11

-----------------------------------------------------------------------------
(* The steps                                                               *)

Holds ==
    /\ Good(reader) /\ downloader \in Downloaders /\ Kept(reader, downloader)
    /\ thread \in Threads /\ joining \in {"none", "play", "stop"}
    /\ loader \in Loaders /\ disk \in Disks /\ events \in 0..MaxEvents
    /\ StreamingGoesOn

\* The invariant, put together for the proof.
LEMMA InvariantIs == StreamingInvariant <=> Holds
<1>1. Sound(reader.slices) <=> reader.slices \in Slices /\ HeaderReadOnce /\ HeaderCanBeSaved
  BY DEF Sound, HeaderReadOnce, HeaderCanBeSaved
<1>2. Kept(reader, downloader) <=> FirstIsAlone /\ AskedIsKept
  <2>1. Alone(reader, downloader) <=> FirstIsAlone
    BY DEF Alone, FirstIsAlone
  <2>2. AskedBut(reader, downloader, {}) <=> AskedIsKept
    BY DEF AskedBut, AskedIsKept
  <2> QED BY <2>1, <2>2 DEF Kept
<1>3. reader \in Readers => reader.slices \in Slices
  BY DEF Readers
<1> QED BY <1>1, <1>2, <1>3 DEF StreamingInvariant, Holds, TypeOK, Good

\* A step of a thread that reads or waits, or of the main thread for it.
LEMMA GoesOn ==
    ASSUME Holds, Good(reader'), Steady(reader, reader'), Kept(reader', downloader'),
           downloader' \in Downloaders, thread' \in Threads,
           thread'.pc \notin {"none", "ended"} => thread.pc \notin {"none", "ended"},
           joining' \in {"none", "play", "stop"}, loader' \in Loaders, disk' \in Disks,
           events' \in 0..MaxEvents
    PROVE  Holds'
<1>1. StreamingGoesOn'
  BY DEF Holds, StreamingGoesOn, Steady
<1> QED BY <1>1 DEF Holds

\* fill() begins with what has come.
LEMMA BeginFillKeeps ==
    ASSUME Holds, NEW r, Good(r), Kept(r, downloader), Steady(reader, r),
           NEW want \in SUBSET Parts, BeginFill(r, want),
           thread.pc \notin {"none", "ended"},
           UNCHANGED <<joining, downloader, loader, disk, events>>
    PROVE  Holds'
<1>1. reader' = Checked(r)
  BY DEF BeginFill
<1>2. PICK s : s = Checked(r)
  OBVIOUS
<1>3. Good(s) /\ Kept(s, downloader) /\ Steady(r, s)
  BY <1>2, CheckedIs, SameKept DEF Same
<1>4. Good(reader') /\ Kept(reader', downloader') /\ Steady(reader, reader')
  BY <1>1, <1>2, <1>3 DEF Steady
<1>5. thread' \in Threads
  BY DEF BeginFill, Holds, Threads
<1> QED BY <1>4, <1>5, GoesOn DEF Holds

\* The streaming thread reads.
LEMMA ReadKeeps ==
    ASSUME Holds, Read
    PROVE  Holds'
<1>1. PICK want \in Wants : BeginFill(reader, want)
  BY DEF Read
<1>2. want \in SUBSET Parts
  BY DEF Wants
<1>3. /\ thread.pc \notin {"none", "ended"}
      /\ UNCHANGED <<joining, downloader, loader, disk, events>>
  BY DEF Read
<1>4. Good(reader) /\ Kept(reader, downloader) /\ Steady(reader, reader)
  BY DEF Holds, Steady
<1> QED BY <1>1, <1>2, <1>3, <1>4, BeginFillKeeps

\* What is put into the cache is parts.
LEMMA PutIs ==
    ASSUME NEW d \in Disks, NEW entry \in Entries
    PROVE  Put(d, entry) \in Disks
<1>1. CASE entry.number = 0
  BY <1>1 DEF Put, Disks, Entries
<1>2. CASE entry.number # 0
  <2>1. entry.number \in SliceNumbers /\ entry.parts \in SUBSET Parts
    BY <1>2 DEF Entries, EntryNumbers
  <2>2. PICK slices : slices = [d.slices EXCEPT ![entry.number] = entry.parts]
    OBVIOUS
  <2>3. slices \in [SliceNumbers -> SUBSET Parts]
    BY <2>1, <2>2 DEF Disks
  <2>4. Put(d, entry) = [d EXCEPT !.slices = slices]
    BY <1>2, <2>2 DEF Put
  <2> QED BY <2>3, <2>4 DEF Disks
<1> QED BY <1>1, <1>2

\* What unloadToCache() puts into the cache is parts.
LEMMA PutAllIs ==
    ASSUME NEW d \in Disks, NEW s, Sound(s)
    PROVE  PutAll(d, s) \in Disks
<1>1. /\ s.header.parts \in SUBSET Parts
      /\ \A n \in SliceNumbers : s.data[n].parts \in SUBSET Parts
      /\ s.data[1].parts \in SUBSET Parts
  BY SlicesAre DEF Sound, Slices, Slice
<1>2. /\ d.header \in SUBSET Parts /\ d.first \in SUBSET Parts
      /\ \A n \in SliceNumbers : d.slices[n] \in SUBSET Parts
  BY DEF Disks
<1> QED BY <1>1, <1>2 DEF PutAll, Disks

\* fillFromSlices(): what goes into the cache is loaded no more, the queues stay.
LEMMA FillKeeps ==
    ASSUME Holds, FillFromSlices
    PROVE  Holds'
<1>1. PICK f : f = Fill(reader.slices, thread.want)
  OBVIOUS
<1>2. /\ Sound(f.slices) /\ f.read \in SUBSET SliceNumbers
      /\ f.save \in BOOLEAN /\ f.entry \in Entries /\ f.load \in SUBSET Parts
  <2>1. Sound(reader.slices) /\ thread.want \in SUBSET Parts
    BY DEF Holds, Good, Threads
  <2> QED BY <1>1, <2>1, FillSound
<1>3. PICK r : r = [reader EXCEPT !.slices = f.slices]
  OBVIOUS
<1>4. Good(r) /\ Same(reader, r)
  BY <1>2, <1>3 DEF Holds, Good, Readers, Sound, Same, Steady
<1>5. PICK gone : gone = IF ~f.save THEN {}
              ELSE reader.loading \cap InSlice(IF f.entry.number = 0 THEN 1 ELSE f.entry.number)
  OBVIOUS
<1>6. reader.loading \in SUBSET Parts /\ gone \in SUBSET Parts
  BY <1>5 DEF Holds, Good, Readers
<1>7. PICK kept : kept = reader.loading \ gone
  OBVIOUS
<1>8. PICK reading : reading = ReadFromCache(r, disk, f.read)
  OBVIOUS
<1>9. Good(reading) /\ Same(r, reading)
  BY <1>2, <1>4, <1>8, ReadFromCacheIs DEF Holds
<1>10. PICK s : s = [reading EXCEPT !.loading = kept \cup f.load]
  OBVIOUS
<1>11. Good(s) /\ Same(reading, s)
  BY <1>2, <1>6, <1>7, <1>9, <1>10 DEF Good, Readers, Same, Steady
<1>12. PICK cancelled : cancelled = Call(s, "cancel", InOrder(gone \ reader.requested))
  OBVIOUS
<1>13. /\ \A p \in Parts : <<"cancel", p>> \in Calls
       /\ \A p \in Parts : <<"load", p>> \in Calls
  BY DEF Calls
<1>14. /\ InOrder(gone \ reader.requested) \in Seq(Parts)
       /\ InOrder(f.load \ kept) \in Seq(Parts)
  <2>1. gone \ reader.requested \subseteq Parts /\ f.load \ kept \subseteq Parts
    BY <1>2, <1>6
  <2> QED BY <2>1, PartsInOrder, WiderSeq
<1>15. Good(cancelled) /\ Same(s, cancelled)
  BY <1>11, <1>12, <1>13, <1>14, CallIs
<1>16. PICK loads : loads = Call(cancelled, "load", InOrder(f.load \ kept))
  OBVIOUS
<1>17. Good(loads) /\ Same(cancelled, loads)
  BY <1>13, <1>14, <1>15, <1>16, CallIs
<1>18. Same(reader, loads)
  BY <1>4, <1>9, <1>11, <1>15, <1>17, SameSame
<1>19. PICK failed : failed = [r EXCEPT !.error = TRUE]
  OBVIOUS
<1>20. Good(failed) /\ Same(r, failed)
  BY <1>4, <1>19 DEF Good, Readers, Same, Steady
<1>21. reader' \in {StartWaiting(failed), ClearWaiting(loads), StartWaiting(loads)}
  BY <1>1, <1>3, <1>5, <1>7, <1>8, <1>10, <1>12, <1>16, <1>19 DEF FillFromSlices
<1>22. PICK to \in {StartWaiting(failed), ClearWaiting(loads), StartWaiting(loads)} : to = reader'
  BY <1>21
<1>23. Good(to) /\ Same(reader, to)
  <2>1. Good(StartWaiting(failed)) /\ Same(failed, StartWaiting(failed))
    BY <1>20, WakesAre
  <2>2. /\ Good(StartWaiting(loads)) /\ Same(loads, StartWaiting(loads))
        /\ Good(ClearWaiting(loads)) /\ Same(loads, ClearWaiting(loads))
    BY <1>17, WakesAre
  <2>3. Same(reader, failed)
    BY <1>4, <1>20, SameSame
  <2> QED BY <1>18, <1>22, <2>1, <2>2, <2>3, SameSame
<1>24. Good(reader') /\ Kept(reader', downloader) /\ Steady(reader, reader')
  BY <1>22, <1>23, SameKept DEF Holds, Same
<1>25. disk' \in Disks
  <2>1. Put(disk, f.entry) \in Disks /\ disk \in Disks
    BY <1>2, PutIs DEF Holds
  <2> QED BY <1>1, <2>1 DEF FillFromSlices
<1>26. /\ thread' \in Threads /\ thread.pc \notin {"none", "ended"}
       /\ UNCHANGED <<joining, downloader, loader, events>>
  BY DEF FillFromSlices, Holds, Threads
<1> QED BY <1>24, <1>25, <1>26, GoesOn DEF Holds

\* A look at what has come before the wait.
LEMMA RecheckKeeps ==
    ASSUME Holds, Recheck
    PROVE  Holds'
<1>1. PICK r : r = Checked(reader)
  OBVIOUS
<1>2. Good(r) /\ Same(reader, r)
  BY <1>1, CheckedIs DEF Holds
<1>3. Good(ClearWaiting(r)) /\ Same(r, ClearWaiting(r))
  BY <1>2, WakesAre
<1>4. Good(Release(ClearWaiting(r))) /\ Same(ClearWaiting(r), Release(ClearWaiting(r)))
  BY <1>3, WakesAre
<1>5. reader' \in {r, Release(ClearWaiting(r))}
  BY <1>1 DEF Recheck
<1>6. Good(reader') /\ Same(reader, reader')
  <2>1. Same(reader, Release(ClearWaiting(r)))
    BY <1>2, <1>3, <1>4, SameSame
  <2> QED BY <1>2, <1>4, <1>5, <2>1
<1>7. Kept(reader', downloader) /\ Steady(reader, reader')
  BY <1>6, SameKept DEF Holds, Same
<1>8. /\ thread' \in Threads /\ thread.pc \notin {"none", "ended"}
      /\ UNCHANGED <<joining, downloader, loader, disk, events>>
  BY DEF Recheck, Holds, Threads
<1> QED BY <1>6, <1>7, <1>8, GoesOn DEF Holds

\* A call without a part.
LEMMA CallZero ==
    ASSUME NEW r, Good(r), NEW name \in {"check", "stop"}
    PROVE  Good(Call(r, name, <<0>>)) /\ Same(r, Call(r, name, <<0>>))
<1>1. PICK T, ps : T = {0} /\ ps = <<0>>
  OBVIOUS
<1>2. ps \in Seq(T) /\ \A p \in T : <<name, p>> \in Calls
  BY <1>1 DEF Calls
<1>3. Good(Call(r, name, ps)) /\ Same(r, Call(r, name, ps))
  BY <1>2, CallIs
<1> QED BY <1>1, <1>3

\* The end of the streaming thread only asks for the end of streaming.
LEMMA EndThreadKeeps ==
    ASSUME Holds, NEW r, Good(r), Kept(r, downloader), EndThread(r),
           UNCHANGED <<joining, downloader, loader, disk, events>>
    PROVE  Holds'
<1>1. PICK s : s = [r EXCEPT !.stopAsync = TRUE]
  OBVIOUS
<1>2. /\ Good(s) /\ s.downloaded = r.downloaded /\ s.requests = r.requests
      /\ s.offsets = r.offsets /\ s.acks = r.acks /\ s.calls = r.calls
  BY <1>1 DEF Good, Readers
<1>3. Kept(s, downloader)
  BY <1>2 DEF Kept, Alone, AskedBut
<1>4. PICK t : t = Call(s, "stop", <<0>>)
  OBVIOUS
<1>6. Good(t) /\ Same(s, t)
  BY <1>2, <1>4, CallZero
<1>7. Kept(t, downloader)
  BY <1>3, <1>6, SameKept
<1>8. reader' \in {r, t}
  BY <1>1, <1>4 DEF EndThread
<1>9. Good(reader') /\ Kept(reader', downloader')
  BY <1>3, <1>6, <1>7, <1>8
<1>10. thread' \in Threads /\ thread'.pc = "ended"
  BY DEF EndThread, Holds, Threads
<1>11. StreamingGoesOn'
  BY <1>10 DEF StreamingGoesOn
<1> QED BY <1>9, <1>10, <1>11 DEF Holds

\* The semaphore is acquired.
LEMMA AcquiredIs ==
    ASSUME Holds
    PROVE  Good(Acquired) /\ Kept(Acquired, downloader) /\ Steady(reader, Acquired)
<1>1. Good(Acquired) /\ Same(reader, Acquired)
  BY DEF Holds, Good, Readers, Acquired, Same, Steady
<1> QED BY <1>1, SameKept DEF Holds, Same

\* The streaming thread is woken, to read or to end.
LEMMA WaitKeeps ==
    ASSUME Holds, Wait
    PROVE  Holds'
<1>1. /\ thread.pc = "wait" /\ UNCHANGED <<joining, downloader, loader, disk, events>>
      /\ EndThread(Acquired) \/ BeginFill(Acquired, thread.want)
  BY DEF Wait
<1>2. thread.want \in SUBSET Parts
  BY DEF Holds, Threads
<1>3. CASE EndThread(Acquired)
  BY <1>1, <1>3, AcquiredIs, EndThreadKeeps
<1>4. CASE BeginFill(Acquired, thread.want)
  BY <1>1, <1>2, <1>4, AcquiredIs, BeginFillKeeps
<1> QED BY <1>1, <1>3, <1>4

\* headerDone(), when the file is understood.
LEMMA FileReadyKeeps ==
    ASSUME Holds, FileReady
    PROVE  Holds'
<1>1. PICK slices : slices = HeaderDone(reader.slices, FALSE)
  OBVIOUS
<1>2. Sound(slices)
  BY <1>1, HeaderDoneSound DEF Holds, Good
<1>3. PICK r : r = [reader EXCEPT !.slices = slices]
  OBVIOUS
<1>4. Good(r) /\ Same(reader, r)
  BY <1>2, <1>3 DEF Holds, Good, Readers, Sound, Same, Steady
<1>5. reader' = r
  BY <1>1, <1>3 DEF FileReady
<1>6. Good(reader') /\ Kept(reader', downloader) /\ Steady(reader, reader')
  BY <1>4, <1>5, SameKept DEF Holds, Same
<1> QED BY <1>6, GoesOn DEF FileReady, Holds

\* startSleep() does the work that was asked for meanwhile.
LEMMA StartSleepKeeps ==
    ASSUME Holds, NEW r, Good(r), Kept(r, downloader), Steady(reader, r), StartSleep(r),
           thread.pc \notin {"none", "ended"},
           UNCHANGED <<joining, downloader, loader, disk, events>>
    PROVE  Holds'
<1>1. PICK s : s = [r EXCEPT !.sleeping = TRUE]
  OBVIOUS
<1>2. Good(s) /\ Same(r, s)
  BY <1>1 DEF Good, Readers, Same, Steady
<1>3. Kept(s, downloader)
  BY <1>2, SameKept
<1>4. PICK t : t = ProcessDownloaderRequests(s, disk)
  OBVIOUS
<1>5. Good(t) /\ Kept(t, downloader) /\ Steady(s, t)
  BY <1>2, <1>3, <1>4, ProcessRequestsIs DEF Holds
<1>6. reader' = t
  BY <1>1, <1>4 DEF StartSleep
<1>7. Good(reader') /\ Kept(reader', downloader') /\ Steady(reader, reader')
  BY <1>2, <1>5, <1>6 DEF Same, Steady
<1>8. thread' \in Threads
  BY DEF StartSleep, Holds, Threads
<1> QED BY <1>7, <1>8, GoesOn DEF Holds

\* The streaming thread falls asleep.
LEMMA SleepKeeps ==
    ASSUME Holds, Sleep
    PROVE  Holds'
<1>1. /\ thread.pc \notin {"none", "ended"} /\ StartSleep(reader)
      /\ UNCHANGED <<joining, downloader, loader, disk, events>>
  BY DEF Sleep
<1>2. Good(reader) /\ Kept(reader, downloader) /\ Steady(reader, reader)
  BY DEF Holds, Steady
<1> QED BY <1>1, <1>2, StartSleepKeeps

\* It is woken, to sleep on, to read or to end.
LEMMA AwakeKeeps ==
    ASSUME Holds, Awake
    PROVE  Holds'
<1>1. PICK r : r = [Acquired EXCEPT !.sleeping = FALSE]
  OBVIOUS
<1>2. Good(r) /\ Same(Acquired, r)
  BY <1>1, AcquiredIs DEF Good, Readers, Same, Steady
<1>3. Kept(r, downloader) /\ Steady(reader, r)
  BY <1>2, AcquiredIs, SameKept DEF Same, Steady
<1>4. /\ thread.pc = "sleep" /\ UNCHANGED <<joining, downloader, loader, disk, events>>
      /\ \/ EndThread(r) \/ StartSleep(r)
         \/ reader' = r /\ thread' = [thread EXCEPT !.pc = "run"]
  BY <1>1 DEF Awake
<1>5. CASE EndThread(r)
  BY <1>2, <1>3, <1>4, <1>5, EndThreadKeeps
<1>6. CASE StartSleep(r)
  BY <1>2, <1>3, <1>4, <1>6, StartSleepKeeps
<1>7. CASE reader' = r /\ thread' = [thread EXCEPT !.pc = "run"]
  <2>1. thread' \in Threads
    BY <1>7 DEF Holds, Threads
  <2> QED BY <1>2, <1>3, <1>4, <1>7, <2>1, GoesOn DEF Holds
<1> QED BY <1>4, <1>5, <1>6, <1>7

\* It has read all that it wants.
LEMMA FinishKeeps ==
    ASSUME Holds, Finish
    PROVE  Holds'
<1>1. /\ EndThread(reader) /\ UNCHANGED <<joining, downloader, loader, disk, events>>
  BY DEF Finish
<1>2. Good(reader) /\ Kept(reader, downloader)
  BY DEF Holds
<1> QED BY <1>1, <1>2, EndThreadKeeps

-----------------------------------------------------------------------------
(* The main thread                                                         *)

\* File::start() and File::stop() interrupt the thread.
LEMMA InterruptKeeps ==
    ASSUME Holds, NEW why \in {"play", "stop"}, Interrupt(why), events' \in 0..MaxEvents
    PROVE  Holds'
<1>1. Good(Release(reader)) /\ Same(reader, Release(reader))
  BY WakesAre DEF Holds
<1>2. Kept(Release(reader), downloader)
  BY <1>1, SameKept DEF Holds
<1>3. reader' \in {reader, Release(reader)}
  BY DEF Interrupt
<1>4. Good(reader') /\ Kept(reader', downloader) /\ Steady(reader, reader')
  BY <1>1, <1>2, <1>3 DEF Holds, Same, Steady
<1>5. thread' \in Threads /\ thread'.pc = thread.pc
  BY DEF Interrupt, Holds, Threads
<1>6. joining' \in {"none", "play", "stop"} /\ UNCHANGED <<downloader, loader, disk>>
  BY DEF Interrupt
<1> QED BY <1>4, <1>5, <1>6, GoesOn DEF Holds

\* stopStreaming()
LEMMA StopStreamingIs ==
    ASSUME NEW r, Good(r), NEW d, Kept(r, d), disk \in Disks
    PROVE  Good(StopStreaming(r)) /\ Kept(StopStreaming(r), d)
<1>1. PICK s : s = [Stopped(r) EXCEPT !.active = FALSE, !.loading = {}]
  OBVIOUS
<1>2. /\ Good(s) /\ s.downloaded = r.downloaded /\ s.requests = r.requests
      /\ s.offsets = r.offsets /\ s.acks = r.acks /\ s.calls = r.calls
  BY <1>1 DEF Stopped, Good, Readers
<1>3. Kept(s, d)
  BY <1>2 DEF Kept, Alone, AskedBut
<1> QED BY <1>1, <1>2, <1>3, ProcessRequestsIs DEF StopStreaming

\* The thread is joined: a new one finds no wish to stop, and without one streaming is over.
LEMMA JoinedKeeps ==
    ASSUME Holds, Joined
    PROVE  Holds'
<1>1. PICK r : r = [reader EXCEPT !.token = FALSE]
  OBVIOUS
<1>2. Good(r) /\ Same(reader, r)
  BY <1>1 DEF Holds, Good, Readers, Same, Steady
<1>3. Kept(r, downloader)
  BY <1>2, SameKept DEF Holds
<1>4. PICK s : s = [Stopped(r) EXCEPT !.active = TRUE]
  OBVIOUS
<1>5. /\ Good(s) /\ s.active /\ ~s.stopAsync /\ s.downloaded = r.downloaded
      /\ s.requests = r.requests /\ s.offsets = r.offsets /\ s.acks = r.acks
      /\ s.calls = r.calls
  BY <1>2, <1>4 DEF Stopped, Good, Readers
<1>6. Kept(s, downloader)
  BY <1>3, <1>5 DEF Kept, Alone, AskedBut
<1>7. /\ joining' = "none" /\ UNCHANGED <<downloader, loader, disk, events>>
      /\ \/ reader' = s /\ thread' = [NoThread EXCEPT !.pc = "run"]
         \/ reader' = StopStreaming(r) /\ thread' = NoThread
  BY <1>1, <1>4 DEF Joined
<1>8. CASE reader' = s /\ thread' = [NoThread EXCEPT !.pc = "run"]
  <2>1. thread' \in Threads
    BY <1>8 DEF NoThread, Threads
  <2>2. StreamingGoesOn'
    BY <1>5, <1>8 DEF StreamingGoesOn
  <2> QED BY <1>5, <1>6, <1>7, <1>8, <2>1, <2>2 DEF Holds
<1>9. CASE reader' = StopStreaming(r) /\ thread' = NoThread
  <2>1. thread' \in Threads /\ thread'.pc = "none"
    BY <1>9 DEF NoThread, Threads
  <2>2. StreamingGoesOn'
    BY <2>1 DEF StreamingGoesOn
  <2>3. Good(reader') /\ Kept(reader', downloader')
    BY <1>2, <1>3, <1>7, <1>9, StopStreamingIs DEF Holds
  <2> QED BY <1>7, <2>1, <2>2, <2>3 DEF Holds
<1> QED BY <1>7, <1>8, <1>9

\* The events are bounded.
LEMMA HappensIs ==
    ASSUME Holds, Happens
    PROVE  events' \in 0..MaxEvents
<1>1. MaxEvents \in Nat /\ events \in Nat
  BY BoundsAssumption DEF Holds
<1> QED BY <1>1 DEF Holds, Happens

\* File::wake()
LEMMA WakeKeeps ==
    ASSUME Holds, Wake
    PROVE  Holds'
<1>1. Good(Release(reader)) /\ Same(reader, Release(reader))
  BY WakesAre DEF Holds
<1>2. Kept(Release(reader), downloader)
  BY <1>1, SameKept DEF Holds
<1>3. /\ reader' = Release(reader)
      /\ UNCHANGED <<thread, joining, downloader, loader, disk, events>>
  BY DEF Wake
<1>4. Good(reader') /\ Kept(reader', downloader') /\ Steady(reader, reader')
  BY <1>1, <1>2, <1>3 DEF Same
<1> QED BY <1>3, <1>4, GoesOn DEF Holds

\* A Reader and its downloader are replaced, on the main thread.
LEMMA BecomeKeeps ==
    ASSUME Holds, NEW rd, Good(rd.r), rd.d \in Downloaders, Kept(rd.r, rd.d),
           Steady(reader, rd.r), Become(rd), loader' \in Loaders,
           events' \in 0..MaxEvents, UNCHANGED <<thread, joining, disk>>
    PROVE  Holds'
<1>1. reader' = rd.r /\ downloader' = rd.d
  BY DEF Become
<1>2. /\ Good(reader') /\ downloader' \in Downloaders /\ Kept(reader', downloader')
      /\ Steady(reader, reader')
  BY <1>1
<1> QED BY <1>2, GoesOn DEF Holds

\* A downloader begins: the first one finds empty queues.
LEMMA StartDownloadKeeps ==
    ASSUME Holds, StartDownload
    PROVE  Holds'
<1>1. PICK r, d : /\ r = [reader EXCEPT !.downloaded = TRUE]
                  /\ d = [NoDownloader EXCEPT !.on = TRUE, !.first = ~reader.downloaded]
  OBVIOUS
<1>2. PICK rd : rd = [r |-> r, d |-> d]
  OBVIOUS
<1>3. /\ Good(r) /\ r.downloaded /\ r.requests = reader.requests /\ r.offsets = reader.offsets
      /\ r.acks = reader.acks /\ r.calls = reader.calls /\ Steady(reader, r)
  BY <1>1 DEF Holds, Good, Readers, Steady
<1>4. reader.downloaded \in BOOLEAN
  BY DEF Holds, Good, Readers
<1>5. 1 \in 1..(NumParts + 1)
  BY SlicesAre
<1>6. /\ d \in Downloaders /\ d.on /\ d.first = ~reader.downloaded /\ d.saved = {}
      /\ d.next = 1
  <2>1. PICK first : first = ~reader.downloaded
    OBVIOUS
  <2>2. first \in BOOLEAN
    BY <1>4, <2>1
  <2>3. d = [on |-> TRUE, first |-> first, saved |-> {}, next |-> 1, asked |-> 0]
    BY <1>1, <2>1 DEF NoDownloader
  <2> QED BY <1>5, <2>1, <2>2, <2>3 DEF Downloaders
<1>7. Alone(r, d)
  <2>1. SUFFICES ASSUME ~reader.downloaded
                 PROVE  LET all == r.offsets \o r.requests
                        IN  /\ r.acks \subseteq d.saved
                            /\ Increasing(all) /\ \A i \in DOMAIN all : all[i] < d.next
    BY <1>3, <1>6 DEF Alone
  <2>2. reader.requests = <<>> /\ reader.offsets = <<>> /\ reader.acks = {}
    BY <2>1 DEF Holds, Kept, Alone
  <2>3. r.offsets \o r.requests = <<>> /\ r.acks = {}
    BY <1>3, <2>2
  <2> QED BY <2>3 DEF Increasing
<1>8. AskedBut(r, d, {})
  BY <1>6 DEF AskedBut
<1>9. rd.r = r /\ rd.d = d
  BY <1>2
<1>10. PICK to : to = AskForParts(rd)
  OBVIOUS
<1>11. /\ Good(to.r) /\ to.d \in Downloaders /\ Kept(to.r, to.d) /\ Steady(r, to.r)
  <2>1. Good(rd.r) /\ rd.d \in Downloaders /\ rd.d.on /\ rd.r.downloaded /\ Kept(rd.r, rd.d)
    BY <1>3, <1>6, <1>7, <1>8, <1>9 DEF Kept
  <2> QED BY <1>9, <1>10, <2>1, AskForPartsIs DEF Holds
<1>12. Become(to)
  BY <1>1, <1>2, <1>10 DEF StartDownload
<1>13. /\ loader' \in Loaders /\ events' \in 0..MaxEvents
       /\ UNCHANGED <<thread, joining, disk>>
  BY HappensIs DEF StartDownload, Holds
<1>14. Steady(reader, to.r)
  BY <1>3, <1>11 DEF Steady
<1> QED BY <1>11, <1>12, <1>13, <1>14, BecomeKeeps

\* A downloader is cancelled.
LEMMA CancelDownloadKeeps ==
    ASSUME Holds, CancelDownload
    PROVE  Holds'
<1>1. PICK rd : rd = Now
  OBVIOUS
<1>2. rd.r = reader /\ rd.d = downloader
  BY <1>1 DEF Now
<1>3. PICK to : to = Cancelled(rd)
  OBVIOUS
<1>4. Good(to.r) /\ to.d \in Downloaders /\ Kept(to.r, to.d) /\ Steady(reader, to.r)
  <2>1. Good(rd.r) /\ Alone(rd.r, rd.d)
    BY <1>2 DEF Holds, Kept
  <2> QED BY <1>2, <1>3, <2>1, CancelledIs
<1>5. /\ Become(to) /\ loader' \in Loaders /\ events' \in 0..MaxEvents
      /\ UNCHANGED <<thread, joining, disk>>
  BY <1>1, <1>3, HappensIs DEF CancelDownload, Holds
<1> QED BY <1>4, <1>5, BecomeKeeps

\* A new Reader has nothing of a downloader.
LEMMA NewReaderIs ==
    ASSUME NEW d \in Disks
    PROVE  /\ Good(NewReader(d)) /\ ~NewReader(d).downloaded
           /\ NewReader(d).requests = <<>> /\ NewReader(d).offsets = <<>>
           /\ NewReader(d).acks = {}
<1>1. Entry(d, 0) \in Cached
  BY EntryIs DEF EntryNumbers
<1>2. PICK reads : reads = IF UseCache THEN <<Entry(d, 0)>> ELSE <<>>
  OBVIOUS
<1>3. reads \in Seq(Cached)
  <2>1. PICK entry \in Cached : entry = Entry(d, 0)
    BY <1>1
  <2>2. <<entry>> \in Seq(Cached) /\ <<>> \in Seq(Cached)
    OBVIOUS
  <2> QED BY <1>2, <2>1, <2>2
<1>4. PICK slices : slices = InitSlices
  OBVIOUS
<1>5. Sound(slices)
  BY <1>4, InitSound
<1>6. /\ <<>> \in Seq(Parts \cup {Failed}) /\ <<>> \in Seq(Parts) /\ <<>> \in Seq(Calls)
  OBVIOUS
<1>7. slices \in Slices /\ Nothing \in Cached /\ Nothing \in ReadCaches
  BY <1>5, NothingIs DEF Sound
<1>8. PICK r : r = NewReader(d)
  OBVIOUS
<1>9. /\ r \in Readers /\ r.slices = slices /\ ~r.downloaded /\ r.requests = <<>>
      /\ r.offsets = <<>> /\ r.acks = {}
  BY <1>2, <1>3, <1>4, <1>6, <1>7, <1>8 DEF NewReader, Readers
<1> QED BY <1>5, <1>8, <1>9 DEF Good

\* The Reader goes, with its slices into the cache, and a new one comes.
LEMMA ReopenReaderKeeps ==
    ASSUME Holds, ReopenReader
    PROVE  Holds'
<1>1. PICK d : d = PutAll(disk, reader.slices)
  OBVIOUS
<1>2. d \in Disks
  BY <1>1, PutAllIs DEF Holds, Good
<1>3. disk' = d /\ reader' = NewReader(d)
  BY <1>1 DEF ReopenReader
<1>4. /\ thread.pc = "none" /\ ~downloader.on /\ loader' = [asked |-> {}, broken |-> {}]
      /\ UNCHANGED <<thread, joining, downloader, events>>
  BY DEF ReopenReader
<1>5. ~downloader.first
  BY <1>4 DEF Holds, Kept, Alone
<1>6. Good(reader') /\ Kept(reader', downloader')
  BY <1>2, <1>3, <1>4, <1>5, NewReaderIs DEF Kept, Alone, AskedBut
<1>7. loader' \in Loaders /\ StreamingGoesOn'
  BY <1>4 DEF Loaders, StreamingGoesOn
<1> QED BY <1>2, <1>3, <1>4, <1>6, <1>7 DEF Holds

\* The next call of the queue.
LEMMA RestIs ==
    ASSUME Holds, reader.calls # <<>>
    PROVE  LET call == Head(reader.calls)
               rest == [reader EXCEPT !.calls = Tail(@)]
           IN  /\ call \in Calls /\ Good(rest) /\ Steady(reader, rest)
               /\ rest.active = reader.active /\ Alone(rest, downloader)
               /\ AskedBut(rest, downloader, {call[2]})
               /\ call[1] # "part" => AskedBut(rest, downloader, {})
<1>1. PICK calls, call, tail : calls = reader.calls /\ call = Head(calls) /\ tail = Tail(calls)
  OBVIOUS
<1>2. calls \in Seq(Calls) /\ calls # <<>>
  BY <1>1 DEF Holds, Good, Readers
<1>3. /\ call \in Calls /\ tail \in Seq(Calls) /\ Len(tail) = Len(calls) - 1
      /\ \A i \in 1..Len(tail) : tail[i] = calls[i + 1]
  BY <1>1, <1>2, HeadTailProperties
<1>4. PICK rest : rest = [reader EXCEPT !.calls = tail]
  OBVIOUS
<1>5. /\ Good(rest) /\ Steady(reader, rest) /\ rest.downloaded = reader.downloaded
      /\ rest.requests = reader.requests /\ rest.offsets = reader.offsets
      /\ rest.acks = reader.acks /\ rest.calls = tail
  BY <1>3, <1>4 DEF Holds, Good, Readers, Steady
<1>6. ToSet(calls) \subseteq {call} \cup ToSet(tail)
  <2>1. SUFFICES ASSUME NEW i \in DOMAIN calls PROVE calls[i] \in {call} \cup ToSet(tail)
    BY DEF ToSet
  <2>2. Len(calls) \in Nat /\ DOMAIN calls = 1..Len(calls) /\ DOMAIN tail = 1..Len(tail)
    BY <1>2, <1>3, LenProperties
  <2>3. CASE i = 1
    BY <1>1, <1>2, <2>3
  <2>4. CASE i # 1
    <3>1. i \in Nat /\ i - 1 \in 1..Len(tail) /\ (i - 1) + 1 = i
      BY <1>3, <2>2, <2>4
    <3>2. tail[i - 1] = calls[i]
      BY <1>3, <3>1
    <3> QED BY <2>2, <3>1, <3>2 DEF ToSet
  <2> QED BY <2>3, <2>4
<1>7. Alone(rest, downloader)
  BY <1>5 DEF Holds, Kept, Alone
<1>8. ASSUME NEW got, \A p \in Parts : <<"part", p>> = call => p \in got
      PROVE  AskedBut(rest, downloader, got)
  <2>1. SUFFICES ASSUME downloader.first, NEW p \in 1..downloader.next - 1,
                        p \in Parts \ (downloader.saved \cup got)
                 PROVE  \/ p \in ToSet(rest.requests) \cup ToSet(rest.offsets)
                        \/ <<"part", p>> \in ToSet(rest.calls)
    BY DEF AskedBut
  <2>2. \/ p \in ToSet(reader.requests) \cup ToSet(reader.offsets)
        \/ <<"part", p>> \in ToSet(calls)
    BY <1>1, <2>1 DEF Holds, Kept, AskedBut
  <2>3. <<"part", p>> # call
    BY <1>8, <2>1
  <2> QED BY <1>5, <1>6, <2>2, <2>3
<1>9. AskedBut(rest, downloader, {call[2]})
  <2>1. \A p \in Parts : <<"part", p>> = call => p \in {call[2]}
    OBVIOUS
  <2> QED BY <1>8, <2>1
<1>10. call[1] # "part" => AskedBut(rest, downloader, {})
  <2>1. ASSUME call[1] # "part" PROVE \A p \in Parts : <<"part", p>> = call => p \in {}
    BY <2>1
  <2> QED BY <1>8, <2>1
<1> QED BY <1>1, <1>3, <1>4, <1>5, <1>7, <1>9, <1>10 DEF Steady

\* The main thread runs the next call: streaming stops only when its thread has ended.
LEMMA RunCallKeeps ==
    ASSUME Holds, RunCall
    PROVE  Holds'
<1>1. PICK call, rest : call = Head(reader.calls) /\ rest = [reader EXCEPT !.calls = Tail(@)]
  OBVIOUS
<1>2. reader.calls # <<>> /\ UNCHANGED <<thread, joining, disk, events>>
  BY DEF RunCall
<1>3. /\ call \in Calls /\ Good(rest) /\ Steady(reader, rest) /\ Alone(rest, downloader)
      /\ AskedBut(rest, downloader, {call[2]})
      /\ call[1] # "part" => Kept(rest, downloader)
  BY <1>1, <1>2, RestIs DEF Kept
<1>4. PICK rd : rd = [r |-> rest, d |-> downloader]
  OBVIOUS
<1>5. rd.r = rest /\ rd.d = downloader /\ Both(rd) /\ downloader \in Downloaders
  BY <1>4 DEF Both, Holds
<1>6. rd = [Now EXCEPT !.r = rest]
  BY <1>4 DEF Now
<1>7. /\ events' \in 0..MaxEvents /\ disk \in Disks
      /\ loader.asked \in SUBSET Parts /\ loader.broken \in SUBSET Parts
  BY <1>2 DEF Holds, Loaders
<1>8. call[1] \in {"load", "cancel", "part"} => call[2] \in Parts
  BY <1>3 DEF Calls
<1>9. CASE call[1] = "load" /\ Load(call[2])
  <2>1. PICK p : p = call[2]
    OBVIOUS
  <2>2. p \in Parts /\ Kept(rd.r, rd.d)
    BY <1>3, <1>5, <1>8, <1>9, <2>1
  <2>3. [Now EXCEPT !.r.calls = Tail(@)] = rd
    <3>1. PICK now : now = [r |-> reader, d |-> downloader]
      OBVIOUS
    <3>2. now.r = reader
      BY <3>1
    <3>3. [now EXCEPT !.r.calls = Tail(@)] = [now EXCEPT !.r = rest]
      BY <1>1, <3>2
    <3>4. [now EXCEPT !.r = rest] = rd
      BY <1>4, <3>1
    <3> QED BY <3>1, <3>3, <3>4 DEF Now
  <2>4. CASE reader.attached /\ p \in downloader.saved
    <3>1. /\ loader' = [asked |-> loader.asked \ {p}, broken |-> loader.broken \ {p}]
          /\ Become(OnPart(rd, p))
      BY <1>9, <2>1, <2>3, <2>4 DEF Load
    <3>2. PICK to : to = OnPart(rd, p)
      OBVIOUS
    <3>3. /\ Good(to.r) /\ to.d \in Downloaders /\ Kept(to.r, to.d) /\ Steady(rest, to.r)
      BY <1>3, <1>5, <1>7, <2>2, <3>2, OnPartIs
    <3>4. loader' \in Loaders /\ Steady(reader, to.r)
      BY <1>3, <1>7, <3>1, <3>3 DEF Loaders, Steady
    <3> QED BY <1>2, <1>7, <3>1, <3>2, <3>3, <3>4, BecomeKeeps
  <2>5. CASE ~(reader.attached /\ p \in downloader.saved)
    <3>1. loader' = [loader EXCEPT !.asked = @ \cup {p}] /\ Become(rd)
      BY <1>9, <2>1, <2>3, <2>5 DEF Load
    <3>2. loader' \in Loaders
      BY <2>2, <3>1 DEF Holds, Loaders
    <3> QED BY <1>2, <1>3, <1>5, <1>7, <2>2, <3>1, <3>2, BecomeKeeps
  <2> QED BY <2>4, <2>5
<1>10. CASE /\ call[1] = "cancel" /\ Become(rd)
            /\ loader' = [asked |-> loader.asked \ {call[2]},
                          broken |-> loader.broken \ {call[2]}]
  <2>1. loader' \in Loaders
    BY <1>7, <1>10 DEF Loaders
  <2> QED BY <1>2, <1>3, <1>5, <1>7, <1>10, <2>1, BecomeKeeps
<1>11. CASE call[1] = "part" /\ Become(Save(rd, call[2])) /\ UNCHANGED loader
  <2>1. PICK to : to = Save(rd, call[2])
    OBVIOUS
  <2>2. Good(to.r) /\ to.d \in Downloaders /\ Kept(to.r, to.d) /\ Steady(rest, to.r)
    BY <1>3, <1>5, <1>7, <1>8, <1>11, <2>1, SaveIs
  <2>3. loader' \in Loaders /\ Steady(reader, to.r)
    BY <1>3, <1>11, <2>2 DEF Holds, Steady
  <2> QED BY <1>2, <1>7, <1>11, <2>1, <2>2, <2>3, BecomeKeeps
<1>12. CASE /\ call[1] = "check" /\ UNCHANGED loader
            /\ Become([Now EXCEPT !.r = ContinueDownloader(rest, disk)])
  <2>1. PICK r : r = ContinueDownloader(rest, disk)
    OBVIOUS
  <2>2. PICK to : to = [Now EXCEPT !.r = r]
    OBVIOUS
  <2>3. to.r = r /\ to.d = downloader
    BY <2>2 DEF Now
  <2>4. Good(r) /\ Kept(r, downloader) /\ Steady(rest, r)
    BY <1>3, <1>7, <1>12, <2>1, ContinueIs
  <2>5. Become(to)
    BY <1>12, <2>1, <2>2
  <2>6. loader' \in Loaders /\ Steady(reader, to.r)
    BY <1>3, <1>12, <2>3, <2>4 DEF Holds, Steady
  <2> QED BY <1>2, <1>5, <1>7, <2>3, <2>4, <2>5, <2>6, BecomeKeeps
<1>13. CASE /\ call[1] = "stop" /\ UNCHANGED loader
            /\ Become([Now EXCEPT !.r = IF reader.stopAsync THEN StopStreaming(rest) ELSE rest])
  <2>1. PICK r : r = IF reader.stopAsync THEN StopStreaming(rest) ELSE rest
    OBVIOUS
  <2>2. reader' = r /\ downloader' = downloader
    BY <1>13, <2>1 DEF Become, Now
  <2>3. Good(r) /\ Kept(r, downloader)
    BY <1>3, <1>7, <1>13, <2>1, StopStreamingIs
  <2>4. StreamingGoesOn'
    <3>1. CASE reader.stopAsync
      BY <1>2, <3>1 DEF Holds, StreamingGoesOn
    <3>2. CASE ~reader.stopAsync
      BY <1>2, <1>3, <2>1, <2>2, <3>2 DEF Holds, StreamingGoesOn, Steady
    <3> QED BY <3>1, <3>2
  <2> QED BY <1>2, <1>5, <1>7, <1>13, <2>2, <2>3, <2>4 DEF Holds
<1>14. \/ call[1] = "load" /\ Load(call[2])
       \/ /\ call[1] = "cancel" /\ Become(rd)
          /\ loader' = [asked |-> loader.asked \ {call[2]},
                        broken |-> loader.broken \ {call[2]}]
       \/ call[1] = "part" /\ Become(Save(rd, call[2])) /\ UNCHANGED loader
       \/ /\ call[1] = "check" /\ UNCHANGED loader
          /\ Become([Now EXCEPT !.r = ContinueDownloader(rest, disk)])
       \/ /\ call[1] = "stop" /\ UNCHANGED loader
          /\ Become([Now EXCEPT !.r = IF reader.stopAsync THEN StopStreaming(rest) ELSE rest])
  BY <1>1, <1>6 DEF RunCall
<1> QED BY <1>9, <1>10, <1>11, <1>12, <1>13, <1>14

-----------------------------------------------------------------------------
(* The network and the cache                                               *)

\* A part that has come, or that has failed.
LEMMA AnswerKeeps ==
    ASSUME Holds, NEW p \in Parts \cup {Failed}, Become(OnPart(Now, p)),
           loader' \in Loaders, events' \in 0..MaxEvents, UNCHANGED <<thread, joining, disk>>
    PROVE  Holds'
<1>1. PICK rd : rd = Now
  OBVIOUS
<1>2. rd.r = reader /\ rd.d = downloader /\ Both(rd)
  BY <1>1 DEF Now, Both
<1>3. PICK to : to = OnPart(rd, p)
  OBVIOUS
<1>4. Good(to.r) /\ to.d \in Downloaders /\ Kept(to.r, to.d) /\ Steady(reader, to.r)
  <2>1. /\ Good(rd.r) /\ rd.d \in Downloaders /\ Kept(rd.r, rd.d) /\ disk \in Disks
    BY <1>2 DEF Holds
  <2> QED BY <1>2, <1>3, <2>1, OnPartIs
<1>5. Become(to)
  BY <1>1, <1>3
<1> QED BY <1>4, <1>5, BecomeKeeps

\* A part has come from the network.
LEMMA PartLoadedKeeps ==
    ASSUME Holds, NEW p \in Parts, PartLoaded(p)
    PROVE  Holds'
<1>1. loader' \in Loaders
  BY DEF PartLoaded, Holds, Loaders
<1>2. /\ Become(OnPart(Now, p)) /\ UNCHANGED <<thread, joining, disk>>
      /\ events' \in 0..MaxEvents
  BY DEF PartLoaded, Holds
<1> QED BY <1>1, <1>2, AnswerKeeps

\* A request for a part has failed.
LEMMA LoadFailsKeeps ==
    ASSUME Holds, NEW p \in Parts, LoadFails(p)
    PROVE  Holds'
<1>1. loader' \in Loaders
  BY DEF LoadFails, Holds, Loaders
<1>2. /\ Become(OnPart(Now, Failed)) /\ UNCHANGED <<thread, joining, disk>>
      /\ events' \in 0..MaxEvents
  BY HappensIs DEF LoadFails
<1> QED BY <1>1, <1>2, AnswerKeeps

\* The cache answers, in any order.
LEMMA DeliverKeeps ==
    ASSUME Holds, NEW i \in DOMAIN reader.reads, Deliver(i)
    PROVE  Holds'
<1>1. reader.reads \in Seq(Cached) /\ reader.results \in Cached
  BY DEF Holds, Good, Readers
<1>2. PICK reads : reads = RemoveAt(reader.reads, i)
  OBVIOUS
<1>3. reads \in Seq(Cached) /\ reader.reads[i] \in Cached
  <2>1. PICK s : s = reader.reads
    OBVIOUS
  <2>2. s \in Seq(Cached) /\ i \in DOMAIN s
    BY <1>1, <2>1
  <2>3. Len(s) \in Nat /\ i \in 1..Len(s) /\ i \in Nat
    BY <2>2, LenProperties
  <2>4. i \in 0..Len(s) /\ i - 1 \in 0..Len(s)
    BY <2>3
  <2>5. SubSeq(s, 1, i - 1) \in Seq(Cached)
    BY <2>2, <2>4, CutIs
  <2>6. SubSeq(s, i + 1, Len(s)) \in Seq(Cached)
    BY <2>2, <2>4, CutIs
  <2>7. SubSeq(s, 1, i - 1) \o SubSeq(s, i + 1, Len(s)) \in Seq(Cached)
    BY <2>5, <2>6, ConcatIs
  <2>8. reads \in Seq(Cached)
    BY <1>2, <2>1, <2>7 DEF RemoveAt
  <2> QED BY <2>1, <2>2, <2>3, <2>8, ElementOfSeq
<1>4. PICK results : results = And(reader.results, reader.reads[i])
  OBVIOUS
<1>5. results \in Cached
  BY <1>1, <1>3, <1>4, AndIs
<1>6. PICK r : r = [reader EXCEPT !.reads = reads, !.results = results]
  OBVIOUS
<1>7. Good(r) /\ Same(reader, r)
  BY <1>3, <1>5, <1>6 DEF Holds, Good, Readers, Same, Steady
<1>8. PICK s : s = Release([r EXCEPT !.cacheWaiting = FALSE])
  OBVIOUS
<1>9. Good(s) /\ Same(r, s)
  BY <1>7, <1>8 DEF Good, Readers, Release, Same, Steady
<1>10. PICK t : t = Call(r, "check", <<0>>)
  OBVIOUS
<1>11. Good(t) /\ Same(r, t)
  BY <1>7, <1>10, CallZero
<1>12. reader' \in {s, t} /\ UNCHANGED <<thread, joining, downloader, loader, disk, events>>
  BY <1>2, <1>4, <1>6, <1>8, <1>10 DEF Deliver
<1>13. Good(reader') /\ Same(reader, reader')
  BY <1>7, <1>9, <1>11, <1>12, SameSame
<1>14. Kept(reader', downloader') /\ Steady(reader, reader')
  BY <1>12, <1>13, SameKept DEF Holds, Same
<1> QED BY <1>12, <1>13, <1>14, GoesOn DEF Holds

-----------------------------------------------------------------------------
(* The theorems                                                            *)

\* The invariant holds at the start,
LEMMA InitHolds == Init => Holds
<1> SUFFICES ASSUME Init PROVE Holds
  OBVIOUS
<1>1. EmptyDisk \in Disks
  BY DEF EmptyDisk, Disks
<1>2. /\ Good(reader) /\ ~reader.downloaded /\ reader.requests = <<>>
      /\ reader.offsets = <<>> /\ reader.acks = {}
  BY <1>1, NewReaderIs DEF Init
<1>3. 1 \in 1..(NumParts + 1)
  BY SlicesAre
<1>4. downloader \in Downloaders /\ ~downloader.on /\ ~downloader.first
  BY <1>3 DEF Init, NoDownloader, Downloaders
<1>5. Kept(reader, downloader)
  BY <1>2, <1>4 DEF Kept, Alone, AskedBut
<1>6. thread \in Threads /\ StreamingGoesOn
  BY DEF Init, NoThread, Threads, StreamingGoesOn
<1>7. /\ joining \in {"none", "play", "stop"} /\ loader \in Loaders /\ disk \in Disks
      /\ events \in 0..MaxEvents
  BY <1>1, BoundsAssumption DEF Init, Loaders
<1> QED BY <1>2, <1>4, <1>5, <1>6, <1>7 DEF Holds

\* and every step keeps it.
LEMMA NextHolds == Holds /\ [Next]_vars => Holds'
<1> SUFFICES ASSUME Holds, [Next]_vars PROVE Holds'
  OBVIOUS
<1>1. CASE Read
  BY <1>1, ReadKeeps
<1>2. CASE FillFromSlices
  BY <1>2, FillKeeps
<1>3. CASE Recheck
  BY <1>3, RecheckKeeps
<1>4. CASE Wait
  BY <1>4, WaitKeeps
<1>5. CASE FileReady
  BY <1>5, FileReadyKeeps
<1>6. CASE Sleep
  BY <1>6, SleepKeeps
<1>7. CASE Awake
  BY <1>7, AwakeKeeps
<1>8. CASE Finish
  BY <1>8, FinishKeeps
<1>9. CASE Play
  <2>1. Interrupt("play") /\ events' \in 0..MaxEvents
    BY <1>9, HappensIs DEF Play
  <2> QED BY <2>1, InterruptKeeps
<1>10. CASE Stop
  <2>1. Interrupt("stop") /\ events' \in 0..MaxEvents
    BY <1>10 DEF Stop, Holds
  <2> QED BY <2>1, InterruptKeeps
<1>11. CASE Wake
  BY <1>11, WakeKeeps
<1>12. CASE StartDownload
  BY <1>12, StartDownloadKeeps
<1>13. CASE CancelDownload
  BY <1>13, CancelDownloadKeeps
<1>14. CASE ReopenReader
  BY <1>14, ReopenReaderKeeps
<1>15. CASE Joined
  BY <1>15, JoinedKeeps
<1>16. CASE RunCall
  BY <1>16, RunCallKeeps
<1>17. ASSUME NEW p \in Parts, PartLoaded(p) \/ LoadFails(p) PROVE Holds'
  BY <1>17, PartLoadedKeeps, LoadFailsKeeps
<1>18. ASSUME NEW i \in DOMAIN reader.reads, Deliver(i) PROVE Holds'
  BY <1>18, DeliverKeeps
<1>19. CASE UNCHANGED vars
  BY <1>19, GoesOn DEF vars, Holds, Steady
<1> QED BY <1>1, <1>2, <1>3, <1>4, <1>5, <1>6, <1>7, <1>8, <1>9, <1>10, <1>11, <1>12,
           <1>13, <1>14, <1>15, <1>16, <1>17, <1>18, <1>19
        DEF Next, ThreadStep, UserStep, MainStep

\* Every state keeps the types, sound slices, and what the first downloader has asked for.
THEOREM StreamingInvariantHolds == Spec => []StreamingInvariant
<1>1. Spec => []Holds
  BY InitHolds, NextHolds, PTL DEF Spec
<1>2. []StreamingInvariant <=> []Holds
  BY InvariantIs, PTL
<1> QED BY <1>1, <1>2, PTL

\* Every state is of the types that the model gives to the Reader and its users.
THEOREM StreamingTypeCorrect == Spec => []TypeOK
<1>1. StreamingInvariant => TypeOK
  BY DEF StreamingInvariant
<1> QED BY <1>1, StreamingInvariantHolds, PTL

\* The changes of a slice, of the header and of what is in memory agree.
THEOREM HeaderIsSaved == Spec => []HeaderCanBeSaved
<1>1. StreamingInvariant => HeaderCanBeSaved
  BY DEF StreamingInvariant
<1> QED BY <1>1, StreamingInvariantHolds, PTL

\* While the streaming thread runs streaming is active.
THEOREM MainIsAside == Spec => []MainLeavesItAlone
<1>1. StreamingInvariant => MainLeavesItAlone
  BY DEF StreamingInvariant, StreamingGoesOn, MainLeavesItAlone
<1> QED BY <1>1, StreamingInvariantHolds, PTL

\* No part that the first downloader has asked for is lost between the queues.
THEOREM NothingAskedIsLost == Spec => []AskedIsKept
<1>1. StreamingInvariant => AskedIsKept
  BY DEF StreamingInvariant
<1> QED BY <1>1, StreamingInvariantHolds, PTL
=============================================================================
