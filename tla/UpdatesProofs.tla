---------------------------- MODULE UpdatesProofs ----------------------------
EXTENDS Updates, FiniteSetTheorems, SequenceTheorems, WellFoundedInduction, TLAPS

(***************************************************************************)
(* That UpdatesInvariant is inductive, and what follows from it: types,    *)
(* nothing applied ahead of the position, a timer for every known gap, one *)
(* request, answer or timer while pushes are ignored, and that Updates     *)
(* implements UpdateFeed.                                                  *)
(*                                                                         *)
(* The argument is about a counted set.  PtsWaiter keeps two numbers, the  *)
(* highest pts it was told of and a count; the invariant says that `count' *)
(* is the size of a set of numbers that were counted, so that when the two *)
(* meet the set has every number up to the highest, and every event among  *)
(* them is applied.  Events that are still to be told, by messages under   *)
(* way or by blocks put aside, are not in the set, so that nothing is      *)
(* counted twice.                                                          *)
(*                                                                         *)
(* The operators of PtsWaiter come first, then what a client does with one *)
(* message, then the client together with all the messages under way, and  *)
(* last one lemma for each action.                                         *)
(***************************************************************************)

-----------------------------------------------------------------------------
(* Numbers, sequences and what is computed step by step                    *)

\* What holds for 0 and goes from each number to the next holds for all up to the last.
LEMMA Upwards ==
    ASSUME NEW n \in Nat, NEW S, 0 \in S, \A i \in 0..n : i \in S /\ i < n => i + 1 \in S
    PROVE  \A i \in 0..n : i \in S
<1> SUFFICES ASSUME ~(\A i \in 0..n : i \in S) PROVE FALSE
  OBVIOUS
<1> DEFINE T == {i \in 0..n : i \notin S}
<1>1. T \subseteq Nat /\ T # {}
  OBVIOUS
<1>2. \E x \in T : \A y \in T : ~ (<<y, x>> \in OpToRel(<, Nat))
  BY <1>1, NatLessThanWellFounded, WFMin
<1>3. PICK x \in T : \A y \in T : ~(y < x)
  BY <1>1, <1>2 DEF OpToRel
<1>4. x \in 1..n /\ x - 1 \notin T
  BY <1>3
<1> QED BY <1>4

\* The same downwards: a set of numbers up to n has a greatest one.
LEMMA Greatest ==
    ASSUME NEW n \in Nat, NEW S, S \subseteq 0..n, S # {}
    PROVE  Max(S) \in S /\ \A e \in S : e <= Max(S)
<1> DEFINE T == {n - e : e \in S}
<1>1. T \subseteq Nat /\ T # {}
  OBVIOUS
<1>2. \E x \in T : \A y \in T : ~ (<<y, x>> \in OpToRel(<, Nat))
  BY <1>1, NatLessThanWellFounded, WFMin
<1>3. PICK x \in T : \A y \in T : ~(y < x)
  BY <1>1, <1>2 DEF OpToRel
<1>4. PICK e \in S : x = n - e
  BY <1>3
<1>5. \A f \in S : e >= f
  <2> TAKE f \in S
  <2>1. n - f \in T /\ n - f \in Nat
    OBVIOUS
  <2>2. ~(n - f < n - e)
    BY <1>3, <1>4, <2>1
  <2>3. f \in 0..n /\ e \in 0..n
    OBVIOUS
  <2>4. n \in Int /\ f \in Int /\ e \in Int
    BY <2>3
  <2> QED BY <2>2, <2>4
<1>6. Max(S) \in S /\ \A f \in S : Max(S) >= f
  BY <1>5 DEF Max
<1> QED BY <1>6

\* The position of the server.
LEMMA ServerPosition ==
    ASSUME log \subseteq Pts, LogStarts
    PROVE  Position \in log /\ Position \in Pts \ {0} /\ \A e \in log : e <= Position
BY Greatest, BoundsAssumption DEF Pts, LogStarts, Position

\* A message is taken out.
LEMMA Removed ==
    ASSUME NEW S, NEW s \in Seq(S), NEW i \in DOMAIN s
    PROVE  /\ RemoveAt(s, i) \in Seq(S)
           /\ DOMAIN RemoveAt(s, i) = 1..(Len(s) - 1)
           /\ \A j \in 1..(Len(s) - 1) :
                 RemoveAt(s, i)[j] = IF j < i THEN s[j] ELSE s[j + 1]
<1> DEFINE a == SubSeq(s, 1, i - 1)
           b == SubSeq(s, i + 1, Len(s))
<1>0. i \in 1..Len(s) /\ Len(s) \in Nat
  BY LenProperties
<1>1. \A j \in 1..Len(s) : s[j] \in S
  BY ElementOfSeq
<1>2. a \in Seq(S) /\ Len(a) = i - 1 /\ \A j \in 1..(i - 1) : a[j] = s[j]
  BY <1>0, <1>1, SubSeqProperties
<1>3. b \in Seq(S) /\ Len(b) = Len(s) - i
  BY <1>0, <1>1, SubSeqProperties
<1>4. \A j \in 1..(Len(s) - i) : b[j] = s[i + j]
  <2>1. \A j \in 1..(Len(s) - (i + 1) + 1) : b[j] = s[i + 1 + j - 1]
    BY <1>0, <1>1, SubSeqProperties
  <2> TAKE j \in 1..(Len(s) - i)
  <2>2. i + 1 + j - 1 = i + j /\ j \in 1..(Len(s) - (i + 1) + 1)
    BY <1>0
  <2> QED BY <2>1, <2>2
<1> HIDE DEF a, b
<1>5. /\ a \o b \in Seq(S) /\ Len(a \o b) = Len(s) - 1
      /\ \A j \in 1..(Len(s) - 1) : (a \o b)[j] = IF j <= i - 1 THEN a[j] ELSE b[j - (i - 1)]
  <2>1. Len(a) + Len(b) = Len(s) - 1
    BY <1>0, <1>2, <1>3
  <2>2. /\ a \o b \in Seq(S) /\ Len(a \o b) = Len(a) + Len(b)
        /\ \A j \in 1..(Len(a) + Len(b)) :
              (a \o b)[j] = IF j <= Len(a) THEN a[j] ELSE b[j - Len(a)]
    BY <1>2, <1>3, ConcatProperties
  <2> QED BY <1>2, <2>1, <2>2
<1>6. \A j \in 1..(Len(s) - 1) : (a \o b)[j] = IF j < i THEN s[j] ELSE s[j + 1]
  <2> TAKE j \in 1..(Len(s) - 1)
  <2>1. CASE j < i
    BY <1>0, <1>2, <1>5, <2>1
  <2>2. CASE ~(j < i)
    <3>1. j - (i - 1) \in 1..(Len(s) - i) /\ i + (j - (i - 1)) = j + 1 /\ ~(j <= i - 1)
      BY <1>0, <2>2
    <3> QED BY <1>4, <1>5, <2>2, <3>1
  <2> QED BY <2>1, <2>2
<1>7. RemoveAt(s, i) = a \o b
  BY DEF RemoveAt, a, b
<1>8. DOMAIN (a \o b) = 1..(Len(s) - 1)
  BY <1>5, LenProperties
<1> QED BY <1>5, <1>6, <1>7, <1>8

\* One step of Late().
LateStep(s, now, i) ==
    IF s[i].kind \in {"result", "affected"} THEN Append(now, s[i]) ELSE now

\* What is kept is some of the messages, each once.
Some(late, s) ==
    \E at \in [1..Len(late) -> DOMAIN s] :
        /\ \A i, j \in 1..Len(late) : at[i] = at[j] => i = j
        /\ \A i \in 1..Len(late) : late[i] = s[at[i]]

\* Late() is computed message by message.
LEMMA LateRuns ==
    ASSUME NEW S, NEW s \in Seq(S)
    PROVE  \E f : /\ f[0] = <<>> /\ f[Len(s)] = Late(s)
                  /\ \A i \in 1..Len(s) : f[i] = LateStep(s, f[i - 1], i)
<1> DEFINE n == Len(s)
           Runs(f, k) == f = [i \in 0..k |-> IF i = 0 THEN <<>> ELSE LateStep(s, f[i - 1], i)]
           T == {k \in 0..n : \E f : Runs(f, k)}
<1>0. n \in Nat
  BY LenProperties
<1>1. 0 \in T
  <2>1. Runs([i \in 0..0 |-> <<>>], 0)
    OBVIOUS
  <2> HIDE DEF Runs
  <2> QED BY <1>0, <2>1
<1>2. ASSUME NEW k \in 0..n, k \in T, k < n PROVE k + 1 \in T
  <2>1. PICK f : Runs(f, k)
    BY <1>2
  <2> DEFINE g == [i \in 0..(k + 1) |-> IF i <= k THEN f[i] ELSE LateStep(s, f[k], k + 1)]
  <2>2. \A i \in 0..k : g[i] = f[i]
    BY <1>0
  <2>3. \A i \in 0..(k + 1) : g[i] = IF i = 0 THEN <<>> ELSE LateStep(s, g[i - 1], i)
    <3> TAKE i \in 0..(k + 1)
    <3>1. CASE i <= k
      <4>1. f[i] = IF i = 0 THEN <<>> ELSE LateStep(s, f[i - 1], i)
        BY <2>1, <3>1
      <4> HIDE DEF g
      <4> QED BY <1>0, <2>2, <3>1, <4>1
    <3>2. CASE i = k + 1
      <4>1. g[i] = LateStep(s, f[k], k + 1) /\ i # 0 /\ i - 1 = k /\ k \in 0..k
        BY <1>0, <3>2
      <4> HIDE DEF g
      <4> QED BY <2>2, <3>2, <4>1
    <3> QED BY <1>0, <3>1, <3>2
  <2>4. Runs(g, k + 1)
    <3>1. g = [i \in 0..(k + 1) |-> g[i]]
      OBVIOUS
    <3> HIDE DEF g
    <3> QED BY <2>3, <3>1
  <2> HIDE DEF Runs, g
  <2> QED BY <1>0, <1>2, <2>4
<1>3. n \in T
  <2> HIDE DEF T
  <2>1. \A k \in 0..n : k \in T /\ k < n => k + 1 \in T
    BY <1>2
  <2>2. \A k \in 0..n : k \in T
    BY <1>0, <1>1, <2>1, Upwards
  <2> QED BY <1>0, <2>2
<1> DEFINE f == CHOOSE f : Runs(f, n)
<1>4. Runs(f, n)
  BY <1>3 DEF T
<1>5. Late(s) = f[n]
  BY DEF Late, LateStep
<1> HIDE DEF f
<1>6. f[0] = <<>> /\ \A i \in 1..n : f[i] = LateStep(s, f[i - 1], i)
  BY <1>0, <1>4
<1> QED BY <1>5, <1>6

\* feedUpdateVector() feeds one update after the other.
LEMMA FedRuns ==
    ASSUME NEW c, NEW updates, Len(updates) \in Nat
    PROVE  \E f : /\ f[0] = c /\ f[Len(updates)] = FeedUpdateVector(c, updates)
                  /\ \A i \in 1..Len(updates) : f[i] = FeedUpdate(f[i - 1], updates[i])
<1> DEFINE n == Len(updates)
           Runs(f, k) == f = [i \in 0..k |-> IF i = 0 THEN c ELSE FeedUpdate(f[i - 1], updates[i])]
           T == {k \in 0..n : \E f : Runs(f, k)}
<1>0. n \in Nat
  OBVIOUS
<1>1. 0 \in T
  <2>1. Runs([i \in 0..0 |-> c], 0)
    OBVIOUS
  <2> HIDE DEF Runs
  <2> QED BY <1>0, <2>1
<1>2. ASSUME NEW k \in 0..n, k \in T, k < n PROVE k + 1 \in T
  <2>1. PICK f : Runs(f, k)
    BY <1>2
  <2> DEFINE g == [i \in 0..(k + 1) |-> IF i <= k THEN f[i] ELSE FeedUpdate(f[k], updates[k + 1])]
  <2>2. \A i \in 0..k : g[i] = f[i]
    BY <1>0
  <2>3. \A i \in 0..(k + 1) : g[i] = IF i = 0 THEN c ELSE FeedUpdate(g[i - 1], updates[i])
    <3> TAKE i \in 0..(k + 1)
    <3>1. CASE i <= k
      <4>1. f[i] = IF i = 0 THEN c ELSE FeedUpdate(f[i - 1], updates[i])
        BY <2>1, <3>1
      <4> HIDE DEF g
      <4> QED BY <1>0, <2>2, <3>1, <4>1
    <3>2. CASE i = k + 1
      <4>1. g[i] = FeedUpdate(f[k], updates[k + 1]) /\ i # 0 /\ i - 1 = k /\ k \in 0..k
        BY <1>0, <3>2
      <4> HIDE DEF g
      <4> QED BY <2>2, <3>2, <4>1
    <3> QED BY <1>0, <3>1, <3>2
  <2>4. Runs(g, k + 1)
    <3>1. g = [i \in 0..(k + 1) |-> g[i]]
      OBVIOUS
    <3> HIDE DEF g
    <3> QED BY <2>3, <3>1
  <2> HIDE DEF Runs, g
  <2> QED BY <1>0, <1>2, <2>4
<1>3. n \in T
  <2> HIDE DEF T
  <2>1. \A k \in 0..n : k \in T /\ k < n => k + 1 \in T
    BY <1>2
  <2>2. \A k \in 0..n : k \in T
    BY <1>0, <1>1, <2>1, Upwards
  <2> QED BY <1>0, <2>2
<1> DEFINE f == CHOOSE f : Runs(f, n)
<1>4. Runs(f, n)
  BY <1>3 DEF T
<1>5. FeedUpdateVector(c, updates) = f[n]
  BY DEF FeedUpdateVector
<1> HIDE DEF f
<1>6. f[0] = c /\ \A i \in 1..n : f[i] = FeedUpdate(f[i - 1], updates[i])
  BY <1>0, <1>4
<1> QED BY <1>5, <1>6

\* The blocks that setState() takes out of its queue.
Taken(c, seq) ==
    LET taken[first \in 0..MaxSeq] ==
            IF first = 0 THEN [c EXCEPT !.seq = seq] ELSE TakeBlock(taken[first - 1], first)
    IN  taken[MaxSeq]

\* They are taken one after the other.
LEMMA TakenRuns ==
    ASSUME NEW c, NEW seq
    PROVE  \E f : /\ f[0] = [c EXCEPT !.seq = seq] /\ f[MaxSeq] = Taken(c, seq)
                  /\ \A i \in 1..MaxSeq : f[i] = TakeBlock(f[i - 1], i)
<1> DEFINE n == MaxSeq
           Runs(f, k) == f = [i \in 0..k |-> IF i = 0 THEN [c EXCEPT !.seq = seq] ELSE TakeBlock(f[i - 1], i)]
           T == {k \in 0..n : \E f : Runs(f, k)}
<1>0. n \in Nat
  BY BoundsAssumption
<1>1. 0 \in T
  <2>1. Runs([i \in 0..0 |-> [c EXCEPT !.seq = seq]], 0)
    OBVIOUS
  <2> HIDE DEF Runs
  <2> QED BY <1>0, <2>1
<1>2. ASSUME NEW k \in 0..n, k \in T, k < n PROVE k + 1 \in T
  <2>1. PICK f : Runs(f, k)
    BY <1>2
  <2> DEFINE g == [i \in 0..(k + 1) |-> IF i <= k THEN f[i] ELSE TakeBlock(f[k], k + 1)]
  <2>2. \A i \in 0..k : g[i] = f[i]
    BY <1>0
  <2>3. \A i \in 0..(k + 1) : g[i] = IF i = 0 THEN [c EXCEPT !.seq = seq] ELSE TakeBlock(g[i - 1], i)
    <3> TAKE i \in 0..(k + 1)
    <3>1. CASE i <= k
      <4>1. f[i] = IF i = 0 THEN [c EXCEPT !.seq = seq] ELSE TakeBlock(f[i - 1], i)
        BY <2>1, <3>1
      <4> HIDE DEF g
      <4> QED BY <1>0, <2>2, <3>1, <4>1
    <3>2. CASE i = k + 1
      <4>1. g[i] = TakeBlock(f[k], k + 1) /\ i # 0 /\ i - 1 = k /\ k \in 0..k
        BY <1>0, <3>2
      <4> HIDE DEF g
      <4> QED BY <2>2, <3>2, <4>1
    <3> QED BY <1>0, <3>1, <3>2
  <2>4. Runs(g, k + 1)
    <3>1. g = [i \in 0..(k + 1) |-> g[i]]
      OBVIOUS
    <3> HIDE DEF g
    <3> QED BY <2>3, <3>1
  <2> HIDE DEF Runs, g
  <2> QED BY <1>0, <1>2, <2>4
<1>3. n \in T
  <2> HIDE DEF T
  <2>1. \A k \in 0..n : k \in T /\ k < n => k + 1 \in T
    BY <1>2
  <2>2. \A k \in 0..n : k \in T
    BY <1>0, <1>1, <2>1, Upwards
  <2> QED BY <1>0, <2>2
<1> DEFINE f == CHOOSE f : Runs(f, n)
<1>4. Runs(f, n)
  BY <1>3 DEF T
<1>5. Taken(c, seq) = f[n]
  BY DEF Taken
<1> HIDE DEF f
<1>6. f[0] = [c EXCEPT !.seq = seq] /\ \A i \in 1..n : f[i] = TakeBlock(f[i - 1], i)
  BY <1>0, <1>4
<1> QED BY <1>5, <1>6

\* setState(), by what it takes out.
LEMMA SetSeqTakes ==
    ASSUME NEW c, NEW seq
    PROVE  SetSeq(c, seq) = IF seq = 0 \/ seq = c.seq THEN c
                            ELSE [Taken(c, seq) EXCEPT !.seqTimer = Taken(c, seq).bySeq # {}]
BY DEF SetSeq, Taken

\* Late() keeps answers of other requests, each once.
LEMMA LateKeeps ==
    ASSUME NEW S, NEW s \in Seq(S)
    PROVE  /\ Late(s) \in Seq(S) /\ Some(Late(s), s)
           /\ \A i \in DOMAIN Late(s) : Late(s)[i].kind \in {"result", "affected"}
<1> DEFINE n == Len(s)
<1>0. n \in Nat /\ DOMAIN s = 1..n /\ \A i \in 1..n : s[i] \in S
  BY LenProperties, ElementOfSeq
<1>1. PICK f : /\ f[0] = <<>> /\ f[n] = Late(s)
               /\ \A i \in 1..n : f[i] = LateStep(s, f[i - 1], i)
  BY LateRuns
<1> DEFINE At(late, k, at) == /\ at \in [1..Len(late) -> 1..k]
                              /\ \A i, j \in 1..Len(late) : at[i] = at[j] => i = j
                              /\ \A i \in 1..Len(late) : late[i] = s[at[i]]
           Good(late, k) == /\ late \in Seq(S) /\ \E at : At(late, k, at)
                            /\ \A i \in 1..Len(late) : late[i].kind \in {"result", "affected"}
           T == {k \in 0..n : Good(f[k], k)}
<1>2. 0 \in T
  <2>1. <<>> \in Seq(S) /\ Len(<<>>) = 0
    BY EmptySeq
  <2>2. At(<<>>, 0, <<>>)
    BY <2>1
  <2>3. Good(<<>>, 0)
    <3> HIDE DEF At
    <3> QED BY <2>1, <2>2
  <2> HIDE DEF Good
  <2> QED BY <1>0, <1>1, <2>3
<1>3. ASSUME NEW k \in 0..n, k \in T, k < n PROVE k + 1 \in T
  <2> DEFINE late == f[k]
             m == s[k + 1]
             next == f[k + 1]
  <2>1. next = LateStep(s, late, k + 1)
    <3>1. k + 1 \in 1..n /\ k + 1 - 1 = k
      BY <1>0, <1>3
    <3> QED BY <1>1, <3>1
  <2>2. Good(late, k) /\ m \in S
    BY <1>0, <1>3
  <2> HIDE DEF late, next
  <2>3. Len(late) \in Nat
    BY <2>2, LenProperties
  <2>4. PICK at : At(late, k, at)
    BY <2>2
  <2>5. CASE m.kind \in {"result", "affected"}
    <3>1. next = Append(late, m)
      BY <2>1, <2>5 DEF LateStep
    <3>2. /\ next \in Seq(S) /\ Len(next) = Len(late) + 1
          /\ \A i \in 1..Len(late) : next[i] = late[i]
          /\ next[Len(late) + 1] = m
      BY <2>2, <3>1, AppendProperties
    <3> DEFINE to == [i \in 1..(Len(late) + 1) |-> IF i <= Len(late) THEN at[i] ELSE k + 1]
    <3> HIDE DEF m
    <3>3. /\ to \in [1..(Len(late) + 1) -> 1..(k + 1)]
          /\ \A i \in 1..Len(late) : to[i] = at[i] /\ to[i] \in 1..k
          /\ to[Len(late) + 1] = k + 1
      <4>1. k \in Nat /\ at \in [1..Len(late) -> 1..k]
        BY <1>0, <2>4
      <4>2. \A i \in 1..Len(late) : /\ i \in 1..(Len(late) + 1) /\ i <= Len(late)
                                     /\ at[i] \in 1..k /\ at[i] \in 1..(k + 1)
        BY <2>3, <4>1
      <4>3. /\ Len(late) + 1 \in 1..(Len(late) + 1) /\ ~(Len(late) + 1 <= Len(late))
            /\ k + 1 \in 1..(k + 1)
        BY <2>3, <4>1
      <4>4. \A i \in 1..(Len(late) + 1) : i <= Len(late) => at[i] \in 1..(k + 1)
        BY <2>3, <4>2
      <4> QED BY <4>2, <4>3, <4>4
    <3> HIDE DEF to
    <3>4. \A i \in 1..(Len(late) + 1) : i \in 1..Len(late) \/ i = Len(late) + 1
      BY <2>3
    <3>5. \A i, j \in 1..Len(next) : to[i] = to[j] => i = j
      BY <2>4, <3>2, <3>3, <3>4
    <3>6. \A i \in 1..Len(next) : next[i] = s[to[i]]
      BY <2>4, <3>2, <3>3, <3>4 DEF m
    <3>7. \A i \in 1..Len(next) : next[i].kind \in {"result", "affected"}
      BY <2>2, <2>5, <3>2, <3>4
    <3>8. Good(next, k + 1)
      BY <3>2, <3>3, <3>5, <3>6, <3>7
    <3> HIDE DEF Good
    <3> QED BY <1>0, <1>3, <3>8 DEF next
  <2>6. CASE m.kind \notin {"result", "affected"}
    <3>1. next = late
      BY <2>1, <2>6 DEF LateStep
    <3>2. At(late, k + 1, at)
      BY <2>4, <1>0
    <3> HIDE DEF At
    <3>3. Good(next, k + 1)
      BY <2>2, <3>1, <3>2
    <3> HIDE DEF Good
    <3> QED BY <1>0, <1>3, <3>3 DEF next
  <2> QED BY <2>5, <2>6
<1>4. n \in T
  <2> HIDE DEF T
  <2>1. \A k \in 0..n : k \in T /\ k < n => k + 1 \in T
    BY <1>3
  <2>2. \A k \in 0..n : k \in T
    BY <1>0, <1>2, <2>1, Upwards
  <2> QED BY <1>0, <2>2
<1>5. Good(Late(s), n)
  BY <1>1, <1>4
<1> QED BY <1>0, <1>5, LenProperties DEF Some

-----------------------------------------------------------------------------
(* The counter: nothing is counted twice                                   *)

\* The size of a span of numbers.
LEMMA SpanSize ==
    /\ \A n \in Nat : IsFiniteSet(1..n) /\ Cardinality(1..n) = n
    /\ \A e, n \in Nat : n <= e => /\ IsFiniteSet((e - n + 1)..e)
                                   /\ Cardinality((e - n + 1)..e) = n
<1>1. \A n \in Nat : IsFiniteSet(1..n) /\ Cardinality(1..n) = n
  BY FS_Interval
<1>2. ASSUME NEW e \in Nat, NEW n \in Nat, n <= e
      PROVE  IsFiniteSet((e - n + 1)..e) /\ Cardinality((e - n + 1)..e) = n
  <2>1. Cardinality((e - n + 1)..e) = IF e - n + 1 > e THEN 0 ELSE e - (e - n + 1) + 1
    BY FS_Interval
  <2>2. IsFiniteSet((e - n + 1)..e)
    BY FS_Interval
  <2> QED BY <1>2, <2>1, <2>2
<1> QED BY <1>1, <1>2

\* Some of a finite set is all of it if it is as many.
LEMMA PartOf ==
    ASSUME NEW n \in Nat, NEW K \in SUBSET (1..n)
    PROVE  /\ IsFiniteSet(K) /\ Cardinality(K) \in 0..n
           /\ Cardinality(K) = n => K = 1..n
<1>1. IsFiniteSet(1..n) /\ Cardinality(1..n) = n
  BY SpanSize
<1>2. /\ IsFiniteSet(K) /\ Cardinality(K) <= Cardinality(1..n)
      /\ Cardinality(1..n) = Cardinality(K) => 1..n = K
  BY <1>1, FS_Subset
<1>3. Cardinality(K) \in Nat
  BY <1>2, FS_CardinalityType
<1> QED BY <1>1, <1>2, <1>3

\* Sets that have nothing in common add up.
LEMMA AddsUp ==
    ASSUME NEW K, NEW D, IsFiniteSet(K), IsFiniteSet(D), K \cap D = {}
    PROVE  IsFiniteSet(K \cup D) /\ Cardinality(K \cup D) = Cardinality(K) + Cardinality(D)
<1>1. Cardinality(K \cap D) = 0
  BY FS_EmptySet
<1>2. Cardinality(K) \in Nat /\ Cardinality(D) \in Nat
  BY FS_CardinalityType
<1>3. /\ IsFiniteSet(K \cup D)
      /\ Cardinality(K \cup D) = Cardinality(K) + Cardinality(D) - Cardinality(K \cap D)
  BY FS_Union
<1> QED BY <1>1, <1>2, <1>3

\* Counting is about fewer events once some were told of.
LEMMA CountedLess ==
    ASSUME NEW w, NEW more, NEW told, Counted(w, more), told \subseteq more
    PROVE  Counted(w, told)
BY DEF Counted, Counts

\* Where the last event is the position follows from what was counted.
Later(w, e) == IF e > w.last THEN e ELSE w.last

\* An event, with all that it stands for, is counted once, and never runs over.
LEMMA CountMore ==
    ASSUME log \subseteq Nat, NEW w, w.last \in Nat, w.good \in Nat, w.good <= w.last,
           w.last \in log,
           NEW told, told \subseteq log, NEW e, NEW n, Whole(e, n), e \notin told,
           e > w.good, Counted(w, told \cup {e}),
           NEW v, v.last = Later(w, e), v.count = w.count + n,
           v.good = IF v.last = v.count THEN v.last ELSE w.good,
           w.applied \cup w.skipped \subseteq v.applied \cup v.skipped,
           e \in v.applied \cup v.skipped \cup own
    PROVE  Counted(v, told) /\ v.count \in 0..v.last /\ w.count \in Nat
<1>a. e \in Nat /\ n \in Nat /\ n >= 1 /\ n <= e /\ e - n \in Nat /\ e \in log
  <2>1. e \in log /\ n \in 1..e
    BY DEF Whole
  <2>2. e \in Nat
    BY <2>1
  <2> QED BY <2>1, <2>2
<1>0. v.last \in Nat /\ v.last >= w.last /\ v.last >= e /\ v.last \in log
  BY <1>a DEF Later
<1>1. PICK K \in SUBSET (1..w.last) : Counts(w, K, told \cup {e})
  BY DEF Counted
<1> DEFINE D == (e - n + 1)..e
           L == K \cup D
<1>2. IsFiniteSet(D) /\ Cardinality(D) = n
  BY <1>a, SpanSize
<1>b. IsFiniteSet(K) /\ Cardinality(K) = w.count /\ Cardinality(K) \in Nat
  BY <1>1, PartOf DEF Counts
<1>3. \A k \in D : k = e \/ k \notin log
  <2> SUFFICES ASSUME NEW k \in D, k # e PROVE k \notin log
    OBVIOUS
  <2>1. k \in (e - n + 1)..(e - 1)
    BY <1>a
  <2> QED BY <2>1 DEF Whole
<1>4. K \cap D = {}
  <2> SUFFICES ASSUME NEW k \in K, k \in D PROVE FALSE
    OBVIOUS
  <2>1. k <= e /\ \A j \in k..(e - 1) : j \notin log
    BY <1>a DEF Whole
  <2>2. e \in log /\ e \in K
    BY <1>1, <2>1 DEF Counts, Whole
  <2> QED BY <1>1, <2>2 DEF Counts
<1>5. IsFiniteSet(L) /\ Cardinality(L) = v.count
  BY <1>2, <1>b, <1>4, AddsUp
<1>6. L \in SUBSET (1..v.last)
  <2>1. ASSUME NEW k \in K PROVE k \in 1..v.last
    BY <1>0
  <2>2. ASSUME NEW k \in D PROVE k \in 1..v.last
    BY <1>0, <1>a
  <2> QED BY <2>1, <2>2
<1> HIDE DEF L
<1>7. v.count \in 0..v.last /\ (v.count = v.last => L = 1..v.last)
  BY <1>0, <1>5, <1>6, PartOf
<1>8. Counts(v, L, told)
  <2>1. Cardinality(L) = v.count
    BY <1>5
  <2>2. 1..v.good \subseteq L
    BY <1>1, <1>7 DEF Counts, L
  <2>3. ASSUME NEW f \in log, NEW k \in L, k <= f, \A j \in k..(f - 1) : j \notin log
        PROVE  f \in L
    <3>1. CASE k \in K
      BY <1>1, <2>3, <3>1 DEF Counts, L
    <3>2. CASE k \in D
      <4>1. k <= e /\ e \in log /\ e \in D /\ f \in Nat
        BY <1>a, <3>2
      <4>2. ~(e < f)
        <5>1. e < f => e \in k..(f - 1)
          BY <1>0, <3>2, <4>1
        <5> QED BY <2>3, <4>1, <5>1
      <4>3. f \in D
        BY <1>a, <2>3, <3>2, <4>1, <4>2
      <4> QED BY <4>3 DEF L
    <3> QED BY <3>1, <3>2 DEF L
  <2>4. \A f \in log \cap L : f \in v.applied \cup v.skipped \cup own
    BY <1>1, <1>3 DEF Counts, L
  <2>5. ASSUME NEW f \in told, f > v.good PROVE f \notin L
    <3>1. CASE v.last = v.count
      <4>1. f \in Nat /\ f > v.last
        BY <2>5, <3>1
      <4>2. f \notin 1..v.last
        BY <1>0, <4>1
      <4> QED BY <1>6, <4>2
    <3>2. CASE v.last # v.count
      <4>1. f \notin K
        BY <1>1, <2>5, <3>2 DEF Counts
      <4>2. f \notin D
        BY <1>3
      <4> QED BY <4>1, <4>2 DEF L
    <3> QED BY <3>1, <3>2
  <2> QED BY <2>1, <2>2, <2>3, <2>4, <2>5 DEF Counts
<1>9. w.count \in Nat
  BY <1>b
<1> QED BY <1>6, <1>7, <1>8, <1>9 DEF Counted

\* An answer that counts nothing changes nothing of what was counted.
LEMMA CountNone ==
    ASSUME log \subseteq Nat, NEW w, w.last \in Nat, w.good \in Nat, w.good <= w.last,
           NEW told, Counted(w, told), NEW e \in log,
           NEW v, v.last = Later(w, e), v.count = w.count,
           v.good = IF v.last = v.count THEN v.last ELSE w.good,
           w.applied \cup w.skipped \subseteq v.applied \cup v.skipped
    PROVE  Counted(v, told) /\ v.count \in 0..v.last
<1>0. e \in Nat /\ v.last \in Nat /\ v.last >= w.last
  BY DEF Later
<1>1. PICK K \in SUBSET (1..w.last) : Counts(w, K, told)
  BY DEF Counted
<1>3. v.count \in 0..w.last /\ (v.count = w.last => K = 1..w.last)
  BY <1>1, PartOf DEF Counts
<1>4. v.last = v.count => v.last = w.last /\ v.good = w.last /\ K = 1..w.last
  BY <1>0, <1>3
<1>5. K \in SUBSET (1..v.last)
  BY <1>0
<1>6. Counts(v, K, told)
  <2>1. 1..v.good \subseteq K
    BY <1>1, <1>4 DEF Counts
  <2>2. \A f \in told : f > v.good => f \notin K
    <3> TAKE f \in told
    <3>1. CASE v.last = v.count
      BY <1>4, <3>1
    <3>2. CASE v.last # v.count
      BY <1>1, <3>2 DEF Counts
    <3> QED BY <3>1, <3>2
  <2>3. \A f \in log \cap K : f \in v.applied \cup v.skipped \cup own
    BY <1>1 DEF Counts
  <2> HIDE DEF Later
  <2> QED BY <1>1, <2>1, <2>2, <2>3 DEF Counts
<1> QED BY <1>0, <1>3, <1>5, <1>6 DEF Counted

\* Nothing is counted beyond the position at first, and after a difference.
LEMMA CountedAt ==
    ASSUME log \subseteq Nat, NEW w, w.last \in log, w.good = w.last, w.count = w.last,
           \A e \in log : e <= w.good => e \in w.applied \cup own, NEW told
    PROVE  Counted(w, told)
<1> DEFINE n == w.last
<1>0. n \in Nat /\ n \in log /\ w.good = n /\ w.count = n
  OBVIOUS
<1> HIDE DEF n
<1>1. Cardinality(1..n) = w.count
  BY <1>0, SpanSize
<1>2. ASSUME NEW e \in log, NEW k \in 1..n, k <= e, \A j \in k..(e - 1) : j \notin log
      PROVE  e \in 1..n
  <2>1. e \in Nat
    OBVIOUS
  <2>2. n < e => n \in k..(e - 1)
    BY <1>0, <2>1
  <2> QED BY <1>0, <1>2, <2>1, <2>2
<1>3. \A e \in log \cap (1..n) : e \in w.applied \cup w.skipped \cup own
  BY <1>0
<1>4. \A e \in told : e > w.good => e \notin 1..n
  BY <1>0
<1>5. Counts(w, 1..n, told)
  BY <1>0, <1>1, <1>2, <1>3, <1>4 DEF Counts
<1>6. 1..n \in SUBSET (1..w.last)
  BY DEF n
<1> QED BY <1>5, <1>6 DEF Counted

-----------------------------------------------------------------------------
(* The waiter                                                              *)

\* What becomes of a waiter when nothing is missing any more ...
Closed(w, v, e, n, put) ==
    /\ v.last = Later(w, e) /\ v.last = w.count + n /\ v.count = v.last /\ v.good = v.last
    /\ v.skipped = {} /\ v.applied = w.applied \cup w.skipped \cup put
    /\ ~v.requesting

\* ... when something is ...
Gap(w, v, e, n, put) ==
    /\ v.last = Later(w, e) /\ v.count = w.count + n /\ v.last # v.count /\ v.good = w.good
    /\ v.skipped = w.skipped \cup put /\ v.applied = w.applied
    /\ v.waiting /\ v.timer /\ ~v.requesting

\* ... and when nothing was counted.
Uncounted(w, v, e) ==
    /\ v.last = Later(w, e) /\ v.count = w.count
    /\ v.good = IF v.last = v.count THEN v.last ELSE w.good
    /\ v.skipped = {} /\ v.applied = w.applied \cup w.skipped
    /\ ~v.requesting

\* check(), of a waiter that has its position.
LEMMA CheckedIs ==
    ASSUME NEW w \in Waiters(Nat), w.good # 0, ~w.requesting, NEW e \in Nat, NEW n \in Nat,
           NEW v, v = Checked(w, e, n)
    PROVE  /\ v \in Waiters(Nat) /\ ~v.requesting
           /\ v.last = Later(w, e) /\ v.skipped = w.skipped /\ v.applied = w.applied
           /\ \/ /\ v.last = w.count + n /\ v.count = v.last /\ v.good = v.last
                 /\ v.waiting = w.waiting /\ CheckPasses(w, e, n)
              \/ /\ v.last # w.count + n /\ v.count = w.count + n /\ v.good = w.good
                 /\ v.waiting /\ v.timer /\ (CheckPasses(w, e, n) <=> n = 0)
<1> DEFINE last == IF e > w.last THEN e ELSE w.last
           p == [w EXCEPT !.last = last, !.count = last, !.good = last]
           g == [w EXCEPT !.last = last, !.count = @ + n, !.waiting = TRUE, !.timer = TRUE]
<1>1. w.good > 0 /\ last \in Nat /\ w.count + n \in Nat /\ last = Later(w, e)
  BY DEF Waiters, Later
<1>2. Checked(w, e, n) = IF last = w.count + n THEN p ELSE g
  BY <1>1 DEF Checked, Inited
<1>3. CheckPasses(w, e, n) <=> v.last = v.count \/ n = 0
  BY <1>1 DEF CheckPasses, Inited
<1> HIDE DEF last
<1>4. CASE last = w.count + n
  <2>1. v = p
    BY <1>2, <1>4
  <2> QED BY <1>1, <1>3, <1>4, <2>1 DEF Waiters
<1>5. CASE last # w.count + n
  <2>1. v = g
    BY <1>2, <1>5
  <2>2. /\ v \in Waiters(Nat) /\ v.requesting = w.requesting
        /\ v.last = last /\ v.skipped = w.skipped /\ v.applied = w.applied
        /\ v.count = w.count + n /\ v.good = w.good /\ v.waiting = TRUE /\ v.timer = TRUE
    BY <1>1, <2>1 DEF Waiters
  <2>3. v.last # v.count
    BY <1>5, <2>2
  <2> QED BY <1>1, <1>3, <1>5, <2>2, <2>3
<1> QED BY <1>4, <1>5

\* applySkippedUpdates(): whatever was put aside is applied.
LEMMA SkippedApplied ==
    ASSUME NEW u \in Waiters(Nat), u.skipped # {} => u.waiting, NEW v, v = ApplySkipped(u)
    PROVE  /\ v \in Waiters(Nat)
           /\ v.skipped = {} /\ v.applied = u.applied \cup u.skipped
           /\ v.last = u.last /\ v.count = u.count /\ v.good = u.good
           /\ v.requesting = u.requesting
BY DEF Waiters, ApplySkipped, ApplyAll, StopWaiting

\* An update, of one event or several.
LEMMA UpdateIs ==
    ASSUME NEW w \in Waiters(Nat), w.good # 0, ~w.requesting, NEW e \in Nat, NEW n \in Nat,
           n # 0, w.skipped # {} => w.waiting, NEW v, v = UpdateAndApply(w, e, n)
    PROVE  \/ e <= w.good /\ v = w
           \/ e > w.good /\ v \in Waiters(Nat) /\ (Closed(w, v, e, n, {e}) \/ Gap(w, v, e, n, {e}))
<1> DEFINE u == Checked(w, e, n)
<1>0. w.good \in Nat
  BY DEF Waiters
<1>1. CASE e <= w.good
  <2>1. Known(w, e, n)
    BY <1>1 DEF Known
  <2>2. ~Passes(w, e, n)
    BY <2>1 DEF Passes
  <2>3. v = w
    BY <2>1, <2>2 DEF UpdateAndApply
  <2> QED BY <1>1, <2>3
<1>2. CASE ~(e <= w.good)
  <2>1. ~Known(w, e, n) /\ Updated(w, e, n) = u
    BY <1>2 DEF Known, Updated
  <2>2. Passes(w, e, n) <=> CheckPasses(w, e, n)
    BY <2>1 DEF Passes
  <2>3. /\ u \in Waiters(Nat) /\ ~u.requesting
        /\ u.last = Later(w, e) /\ u.skipped = w.skipped /\ u.applied = w.applied
        /\ \/ /\ u.last = w.count + n /\ u.count = u.last /\ u.good = u.last
              /\ u.waiting = w.waiting /\ CheckPasses(w, e, n)
           \/ /\ u.last # w.count + n /\ u.count = w.count + n /\ u.good = w.good
              /\ u.waiting /\ u.timer /\ ~CheckPasses(w, e, n)
    BY CheckedIs
  <2> HIDE DEF u
  <2>4. CASE ~CheckPasses(w, e, n)
    <3>1. v = [u EXCEPT !.skipped = @ \cup {e}]
      BY <2>1, <2>2, <2>4 DEF UpdateAndApply
    <3>2. v \in Waiters(Nat) /\ Gap(w, v, e, n, {e})
      BY <2>3, <2>4, <3>1 DEF Gap, Waiters
    <3> QED BY <1>0, <1>2, <3>2
  <2>5. CASE CheckPasses(w, e, n) /\ (~u.waiting \/ u.skipped = {})
    <3>1. v = ApplyAll(u, {e})
      BY <2>1, <2>2, <2>5 DEF UpdateAndApply
    <3>2. u.skipped = {}
      BY <2>3, <2>5
    <3>3. v \in Waiters(Nat) /\ Closed(w, v, e, n, {e})
      BY <2>3, <2>5, <3>1, <3>2 DEF Closed, Waiters, ApplyAll
    <3> QED BY <1>0, <1>2, <3>3
  <2>6. CASE CheckPasses(w, e, n) /\ ~(~u.waiting \/ u.skipped = {})
    <3> DEFINE x == [u EXCEPT !.skipped = @ \cup {e}]
    <3>1. v = ApplySkipped(x)
      BY <2>1, <2>2, <2>6 DEF UpdateAndApply
    <3>2. /\ x \in Waiters(Nat) /\ x.waiting /\ x.skipped = u.skipped \cup {e}
          /\ x.applied = u.applied /\ x.last = u.last /\ x.count = u.count /\ x.good = u.good
          /\ x.requesting = u.requesting
      BY <2>3, <2>6 DEF Waiters
    <3> HIDE DEF x
    <3>3. /\ v \in Waiters(Nat)
          /\ v.skipped = {} /\ v.applied = x.applied \cup x.skipped
          /\ v.last = x.last /\ v.count = x.count /\ v.good = x.good
          /\ v.requesting = x.requesting
      BY <3>1, <3>2, SkippedApplied
    <3>4. Closed(w, v, e, n, {e})
      BY <2>3, <2>6, <3>2, <3>3 DEF Closed
    <3> QED BY <1>0, <1>2, <3>3, <3>4
  <2> QED BY <2>4, <2>5, <2>6
<1> QED BY <1>1, <1>2

\* An answer to a request of the account.
LEMMA AffectedIs ==
    ASSUME NEW w \in Waiters(Nat), w.good # 0, ~w.requesting, NEW e \in Nat, NEW n \in Nat,
           w.skipped # {} => w.waiting, NEW v, v = UpdateAffected(w, e, n)
    PROVE  \/ n = 0 /\ v \in Waiters(Nat) /\ Uncounted(w, v, e)
           \/ n # 0 /\ e > w.good /\ v \in Waiters(Nat)
              /\ (Closed(w, v, e, n, {}) \/ Gap(w, v, e, n, {}))
           \/ n # 0 /\ e <= w.good /\ v = w
<1> DEFINE u == Checked(w, e, n)
<1>0. w.good \in Nat
  BY DEF Waiters
<1>1. CASE e <= w.good /\ n # 0
  <2>1. Known(w, e, n) /\ ~Passes(w, e, n)
    BY <1>1 DEF Known, Passes
  <2>2. v = w
    BY <2>1 DEF UpdateAffected, Updated
  <2> QED BY <1>1, <2>2
<1>2. CASE ~(e <= w.good) \/ n = 0
  <2>1. ~Known(w, e, n) /\ Updated(w, e, n) = u
    BY <1>2 DEF Known, Updated
  <2>2. Passes(w, e, n) <=> CheckPasses(w, e, n)
    BY <2>1 DEF Passes
  <2>3. /\ u \in Waiters(Nat) /\ ~u.requesting
        /\ u.last = Later(w, e) /\ u.skipped = w.skipped /\ u.applied = w.applied
        /\ \/ /\ u.last = w.count + n /\ u.count = u.last /\ u.good = u.last
              /\ u.waiting = w.waiting /\ CheckPasses(w, e, n)
           \/ /\ u.last # w.count + n /\ u.count = w.count + n /\ u.good = w.good
              /\ u.waiting /\ u.timer /\ (CheckPasses(w, e, n) <=> n = 0)
    BY CheckedIs
  <2> HIDE DEF u
  <2>4. CASE ~CheckPasses(w, e, n)
    <3>1. v = u /\ n # 0
      BY <2>1, <2>2, <2>3, <2>4 DEF UpdateAffected
    <3>2. Gap(w, v, e, n, {})
      BY <2>3, <2>4, <3>1 DEF Gap
    <3> QED BY <1>0, <1>2, <2>3, <3>1, <3>2
  <2>5. CASE CheckPasses(w, e, n)
    <3>1. v = ApplySkipped(u)
      BY <2>1, <2>2, <2>5 DEF UpdateAffected
    <3>2. u.skipped # {} => u.waiting
      BY <2>3
    <3>3. /\ v \in Waiters(Nat)
          /\ v.skipped = {} /\ v.applied = u.applied \cup u.skipped
          /\ v.last = u.last /\ v.count = u.count /\ v.good = u.good
          /\ v.requesting = u.requesting
      BY <2>3, <3>1, <3>2, SkippedApplied
    <3>4. CASE n = 0
      <4>1. w.count \in Nat /\ w.count + n = w.count
        BY <3>4 DEF Waiters
      <4>2. Uncounted(w, v, e)
        BY <2>3, <3>3, <4>1 DEF Uncounted
      <4> QED BY <3>3, <3>4, <4>2
    <3>5. CASE n # 0
      <4>1. Closed(w, v, e, n, {})
        BY <2>3, <2>5, <3>3, <3>5 DEF Closed
      <4> QED BY <1>0, <1>2, <3>3, <3>5, <4>1
    <3> QED BY <3>4, <3>5
  <2> QED BY <2>4, <2>5
<1> QED BY <1>1, <1>2

\* A waiter never goes back, and nothing that was applied is taken back.
Onwards(w, v) == w.good <= v.good /\ w.applied \subseteq v.applied

\* The server has events, and numbers for them.
Logged == log \subseteq Pts /\ LogStarts /\ own \subseteq log

\* Events are numbered from one.
LEMMA LoggedNat == Logged => log \subseteq Nat /\ \A e \in log : e >= 1
BY BoundsAssumption DEF Logged, LogStarts, Pts

\* What is known of a waiter that follows.
LEMMA FollowsIs ==
    ASSUME NEW w, ~w.requesting, NEW told, WaiterSound(w, told)
    PROVE  Follows(w, told)
BY DEF WaiterSound

\* Its numbers are within the bounds.
LEMMA WithinBounds ==
    ASSUME Logged, NEW v \in Waiters(Nat), NEW told, WaiterSound(v, told), ~v.requesting,
           v.count \in 0..v.last
    PROVE  v \in Waiters(Pts)
<1>1. v.good \in Pts /\ v.last \in Pts
  BY DEF WaiterSound, Follows, Logged
<1>2. v.count \in Pts
  BY <1>1, BoundsAssumption DEF Pts
<1>3. v.skipped \subseteq Pts /\ v.applied \subseteq Pts
  BY DEF WaiterSound, Follows, Logged
<1> QED BY <1>1, <1>2, <1>3 DEF Waiters

\* A waiter whose counting is right, and to which nothing is missing, has applied everything.
LEMMA ClosedSound ==
    ASSUME Logged, NEW v \in Waiters(Nat), ~v.requesting, NEW told, Counted(v, told),
           v.last \in log, v.good = v.last, v.skipped = {}, v.applied \subseteq log,
           ~ZeroCounts => (v.last = v.count \/ v.timer) /\ \A e \in v.applied : e <= v.good
    PROVE  WaiterSound(v, told)
<1>1. PICK K \in SUBSET (1..v.last) : Counts(v, K, told)
  BY DEF Counted
<1>2. \A e \in log : e <= v.good => e \in v.applied \cup own
  <2> TAKE e \in log
  <2> HAVE e <= v.good
  <2>1. v.good \in Nat /\ e \in Nat /\ e >= 1
    BY LoggedNat DEF Waiters
  <2>2. e \in 1..v.good
    BY <2>1
  <2> QED BY <1>1, <2>2 DEF Counts
<1>3. v.good # 0 /\ v.good <= v.last
  BY LoggedNat
<1> QED BY <1>2, <1>3 DEF WaiterSound, Follows

\* Counting an event keeps a waiter sound, whether it closes the gap or not.
LEMMA CountingSound ==
    ASSUME Logged, NEW w \in Waiters(Pts), ~w.requesting, NEW told, told \subseteq log,
           NEW e, NEW n, Whole(e, n), e \notin told, WaiterSound(w, told \cup {e}),
           e > w.good, NEW v \in Waiters(Nat), NEW put, put \subseteq {e}, e \in put \cup own,
           Closed(w, v, e, n, put) \/ Gap(w, v, e, n, put)
    PROVE  v \in Waiters(Pts) /\ WaiterSound(v, told) /\ Onwards(w, v) /\ ~v.requesting
<1>0. /\ Follows(w, told \cup {e})
      /\ log \subseteq Nat /\ e \in log /\ w.last \in log /\ w.good <= w.last
  BY FollowsIs, LoggedNat DEF Whole, Follows
<1>1. w.good \in Nat /\ w.last \in Nat /\ w.count \in Nat /\ e \in Nat
  BY <1>0, BoundsAssumption DEF Waiters, Pts
<1>2. /\ v.last = Later(w, e) /\ v.count = w.count + n /\ ~v.requesting
      /\ v.good = IF v.last = v.count THEN v.last ELSE w.good
      /\ w.applied \cup w.skipped \cup put \subseteq v.applied \cup v.skipped
  BY DEF Closed, Gap
<1>3. Counted(v, told) /\ v.count \in 0..v.last
  BY <1>0, <1>1, <1>2, CountMore DEF Follows
<1>4. v.last \in log /\ w.last <= v.last /\ e <= v.last /\ v.last \in Nat
  BY <1>0, <1>1, <1>2 DEF Later
<1>5. CASE Closed(w, v, e, n, put)
  <2>1. /\ v.skipped = {} /\ v.applied = w.applied \cup w.skipped \cup put
        /\ v.good = v.last /\ v.last = v.count
    BY <1>5 DEF Closed
  <2>2. v.applied \subseteq log
    BY <1>0, <2>1 DEF WaiterSound, Follows
  <2>3. ~ZeroCounts => \A f \in v.applied : f <= v.good
    <3> SUFFICES ASSUME ~ZeroCounts, NEW f \in v.applied PROVE f <= v.last
      BY <2>1
    <3>1. f <= w.last \/ f = e
      <4>1. f \in w.applied => f <= w.good
        BY <1>0 DEF Follows
      <4>2. f \in w.skipped => f <= w.last
        BY <1>0 DEF Follows
      <4>3. f \in Nat
        BY <1>0, <2>2
      <4> QED BY <1>0, <1>1, <2>1, <4>1, <4>2, <4>3
    <3>2. f \in Nat
      BY <1>0, <2>2
    <3> QED BY <1>1, <1>4, <3>1, <3>2
  <2>4. WaiterSound(v, told)
    BY <1>2, <1>3, <1>4, <2>1, <2>2, <2>3, ClosedSound
  <2>5. Onwards(w, v)
    BY <1>0, <1>1, <1>4, <2>1 DEF Onwards
  <2> QED BY <1>2, <1>3, <2>4, <2>5, WithinBounds
<1>6. CASE Gap(w, v, e, n, put)
  <2>1. /\ v.skipped = w.skipped \cup put /\ v.applied = w.applied /\ v.good = w.good
        /\ v.waiting /\ v.timer
    BY <1>6 DEF Gap
  <2>2. \A f \in v.skipped : f \in log /\ f <= v.last
    <3> TAKE f \in v.skipped
    <3>1. f \in w.skipped => f \in log /\ f <= w.last
      BY <1>0 DEF Follows
    <3>2. f \in log /\ f \in Nat /\ (f <= w.last \/ f = e)
      BY <1>0, <2>1, <3>1
    <3> QED BY <1>1, <1>4, <3>2
  <2>3. Follows(v, told)
    BY <1>0, <1>1, <1>3, <1>4, <2>1, <2>2 DEF Follows
  <2>4. WaiterSound(v, told)
    BY <1>2, <2>1, <2>3 DEF WaiterSound
  <2>5. Onwards(w, v)
    BY <1>1, <2>1 DEF Onwards
  <2> QED BY <1>2, <1>3, <2>4, <2>5, WithinBounds
<1> QED BY <1>5, <1>6

\* So does knowing of less that is still to be told.
LEMMA SoundLess ==
    ASSUME NEW w, NEW more, NEW told, WaiterSound(w, more), told \subseteq more
    PROVE  WaiterSound(w, told)
<1>1. Counted(w, more) => Counted(w, told)
  BY CountedLess
<1> QED BY <1>1 DEF WaiterSound, Follows

\* An update keeps it sound.
LEMMA UpdateSound ==
    ASSUME Logged, NEW w \in Waiters(Pts), ~w.requesting, NEW told, told \subseteq log,
           NEW e, NEW n, Whole(e, n), e \notin told, WaiterSound(w, told \cup {e}),
           NEW v, v = UpdateAndApply(w, e, n)
    PROVE  v \in Waiters(Pts) /\ WaiterSound(v, told) /\ Onwards(w, v) /\ ~v.requesting
<1>1. e \in Nat /\ n \in Nat /\ n # 0
  BY LoggedNat DEF Whole
<1>2. w \in Waiters(Nat)
  BY BoundsAssumption DEF Waiters, Pts
<1>3. w.good # 0 /\ (w.skipped # {} => w.waiting)
  BY FollowsIs DEF Follows
<1>4. CASE v = w
  <2>1. WaiterSound(v, told)
    BY <1>4, SoundLess
  <2> QED BY <1>2, <1>4, <2>1 DEF Onwards, Waiters
<1>5. CASE e > w.good /\ v \in Waiters(Nat) /\ (Closed(w, v, e, n, {e}) \/ Gap(w, v, e, n, {e}))
  BY <1>5, CountingSound
<1> QED BY <1>1, <1>2, <1>3, <1>4, <1>5, UpdateIs

\* So does an answer to a request of the account.
LEMMA AffectedSound ==
    ASSUME Logged, NEW w \in Waiters(Pts), ~w.requesting, NEW told, told \subseteq log,
           NEW e, NEW n, Whole(e, n), e \notin told, WaiterSound(w, told \cup {e}), e \in own,
           NEW v, v = UpdateAffected(w, e, n)
    PROVE  v \in Waiters(Pts) /\ WaiterSound(v, told) /\ Onwards(w, v) /\ ~v.requesting
<1>1. e \in Nat /\ n \in Nat /\ n # 0
  BY LoggedNat DEF Whole
<1>2. w \in Waiters(Nat)
  BY BoundsAssumption DEF Waiters, Pts
<1>3. w.good # 0 /\ (w.skipped # {} => w.waiting)
  BY FollowsIs DEF Follows
<1>4. CASE v = w
  <2>1. WaiterSound(v, told)
    BY <1>4, SoundLess
  <2> QED BY <1>2, <1>4, <2>1 DEF Onwards, Waiters
<1>5. CASE e > w.good /\ v \in Waiters(Nat) /\ (Closed(w, v, e, n, {}) \/ Gap(w, v, e, n, {}))
  BY <1>5, CountingSound
<1> QED BY <1>1, <1>2, <1>3, <1>4, <1>5, AffectedIs

\* One that counts nothing may leave a gap with no timer, and events that were applied ahead.
LEMMA UncountedSound ==
    ASSUME Logged, ZeroCounts, NEW w \in Waiters(Pts), ~w.requesting, NEW told,
           told \subseteq log, NEW e \in log, WaiterSound(w, told),
           NEW v, v = UpdateAffected(w, e, 0)
    PROVE  v \in Waiters(Pts) /\ WaiterSound(v, told) /\ Onwards(w, v) /\ ~v.requesting
<1>1. e \in Nat /\ log \subseteq Nat
  BY LoggedNat
<1>2. w \in Waiters(Nat) /\ w.good \in Nat /\ w.last \in Nat /\ w.count \in Nat
  BY BoundsAssumption DEF Waiters, Pts
<1>3. Follows(w, told)
  BY FollowsIs
<1>4. v \in Waiters(Nat) /\ Uncounted(w, v, e)
  <2>1. w.good # 0 /\ (w.skipped # {} => w.waiting)
    BY <1>3 DEF Follows
  <2> QED BY <1>1, <1>2, <2>1, AffectedIs
<1>5. /\ v.last = Later(w, e) /\ v.count = w.count
      /\ v.good = IF v.last = v.count THEN v.last ELSE w.good
      /\ v.skipped = {} /\ v.applied = w.applied \cup w.skipped /\ ~v.requesting
  BY <1>4 DEF Uncounted
<1>6. v.last \in log /\ w.last <= v.last /\ v.last \in Nat /\ w.good <= w.last
  BY <1>1, <1>2, <1>3, <1>5 DEF Later, Follows
<1>7. Counted(v, told) /\ v.count \in 0..v.last
  BY <1>1, <1>2, <1>3, <1>5, <1>6, CountNone DEF Follows
<1>8. v.applied \subseteq log
  BY <1>3, <1>5 DEF WaiterSound, Follows
<1>9. WaiterSound(v, told)
  <2>1. CASE v.last = v.count
    BY <1>4, <1>5, <1>6, <1>7, <1>8, <2>1, ClosedSound
  <2>2. CASE v.last # v.count
    <3>1. v.good = w.good
      BY <1>5, <2>2
    <3>2. Follows(v, told)
      BY <1>2, <1>3, <1>5, <1>6, <1>7, <3>1 DEF Follows
    <3>3. \A f \in log : f <= v.good => f \in v.applied \cup own
      BY <1>5, <3>1 DEF WaiterSound
    <3> QED BY <1>5, <1>8, <3>1, <3>2, <3>3 DEF WaiterSound
  <2> QED BY <2>1, <2>2
<1>10. Onwards(w, v)
  BY <1>2, <1>5, <1>6 DEF Onwards
<1> QED BY <1>4, <1>5, <1>7, <1>9, <1>10, WithinBounds

-----------------------------------------------------------------------------
(* The client                                                              *)

\* What a callback leaves of the client: it never goes back, and a request that was made is
\* still the request, from the same position, while only what was told is applied.
Keeps(c, d, told) ==
    LET w == c.waiter
        v == d.waiter
    IN  /\ Onwards(w, v)
        /\ w.requesting => /\ v.requesting /\ v.good = w.good
                           /\ d.request = c.request /\ d.failTimer = c.failTimer
                           /\ v.applied \subseteq w.applied \cup told
        /\ ~w.requesting /\ v.requesting => d.request.kind = "difference"

\* One after the other.
LEMMA KeepsTransitive ==
    ASSUME NEW a \in Clients, NEW b \in Clients, NEW c \in Clients, NEW s, NEW t, NEW u,
           Keeps(a, b, s), Keeps(b, c, t), s \cup t \subseteq u
    PROVE  Keeps(a, c, u)
<1>1. a.waiter.good \in Nat /\ b.waiter.good \in Nat /\ c.waiter.good \in Nat
  BY BoundsAssumption DEF Clients, Waiters, Pts
<1>2. Onwards(a.waiter, c.waiter)
  BY <1>1 DEF Keeps, Onwards
<1> QED BY <1>2 DEF Keeps

\* Nothing is done.
LEMMA KeepsItself ==
    ASSUME NEW c \in Clients, NEW told
    PROVE  Keeps(c, c, told)
BY BoundsAssumption DEF Keeps, Onwards, Clients, Waiters, Pts

\* What a client must have to ask for the difference.
Asks(c) ==
    LET w == c.waiter
    IN  /\ c \in Clients /\ ~w.requesting /\ w.good # 0 /\ w.good \in log
        /\ w.applied \subseteq log
        /\ \A e \in log : e <= w.good => e \in w.applied \cup own

\* A sound one that does not ask has it.
LEMMA SoundAsks ==
    ASSUME NEW c, NEW told, Sound(c, told), ~c.waiter.requesting
    PROVE  Asks(c)
BY DEF Sound, WaiterSound, Follows, Asks

\* getDifference(), without a request.
LEMMA AskingSound ==
    ASSUME NEW c, Asks(c), NEW told, NEW d, d = GetDifference(c)
    PROVE  /\ Sound(d, told) /\ Keeps(c, d, {})
           /\ d.waiter.requesting /\ d.request.kind = "difference" /\ d.bySeq = {}
           /\ ~d.failTimer /\ d.seq = c.seq
           /\ d.waiter.good = c.waiter.good /\ d.waiter.applied = c.waiter.applied
<1> DEFINE w == c.waiter
           v == [w EXCEPT !.requesting = TRUE, !.skipped = {}, !.timer = FALSE]
<1>1. c \in Clients /\ w \in Waiters(Pts) /\ w.good \in Pts /\ w.good \in Nat
  BY BoundsAssumption DEF Asks, Clients, Waiters, Pts
<1>2. v \in Waiters(Pts) /\ v.good = w.good /\ v.applied = w.applied /\ v.requesting
      /\ v.skipped = {}
  BY <1>1 DEF Waiters
<1>3. [SetRequesting(w, TRUE) EXCEPT !.timer = FALSE] = v
  BY <1>1 DEF SetRequesting, Waiters
<1>4. d = [c EXCEPT !.bySeq = {}, !.seqTimer = FALSE, !.failTimer = FALSE, !.waiter = v,
                    !.request = [kind |-> "difference", from |-> w.good]]
  BY <1>3 DEF GetDifference, Asks
<1> HIDE DEF v
<1>5. /\ d \in Clients /\ d.waiter = v /\ d.bySeq = {} /\ ~d.failTimer /\ d.seq = c.seq
      /\ d.request = [kind |-> "difference", from |-> w.good]
  <2> DEFINE r == [kind |-> "difference", from |-> w.good]
  <2>1. r \in Requests
    BY <1>1 DEF Requests
  <2> HIDE DEF r
  <2>2. d = [c EXCEPT !.bySeq = {}, !.seqTimer = FALSE, !.failTimer = FALSE, !.waiter = v,
                      !.request = r]
    BY <1>4 DEF r
  <2>3. /\ d.waiter = v /\ d.bySeq = {} /\ d.failTimer = FALSE /\ d.seq = c.seq
        /\ d.request = r
    BY <1>1, <2>2 DEF Clients
  <2>4. d \in Clients
    BY <1>1, <1>2, <2>1, <2>2 DEF Clients
  <2> QED BY <2>3, <2>4 DEF r
<1>6. WaiterSound(v, told \cup PutAside({}))
  BY <1>2 DEF Asks, WaiterSound
<1>7. RequestRight(d)
  BY <1>2, <1>5 DEF RequestRight, Asks
<1>8. Sound(d, told)
  BY <1>5, <1>6, <1>7 DEF Sound, BlocksApart
<1>9. Keeps(c, d, {})
  BY <1>1, <1>2, <1>5 DEF Keeps, Onwards, Asks
<1> QED BY <1>2, <1>5, <1>8, <1>9

\* getDifference(), in any case.
LEMMA GetDifferenceSound ==
    ASSUME NEW c, NEW told, Sound(c, told), NEW d, d = GetDifference(c)
    PROVE  /\ Sound(d, told) /\ Keeps(c, d, {}) /\ d.waiter.requesting
           /\ ~c.waiter.requesting => d.request.kind = "difference"
<1>1. CASE ~c.waiter.requesting
  BY <1>1, SoundAsks, AskingSound
<1>2. CASE c.waiter.requesting
  <2> DEFINE w == c.waiter
             v == [w EXCEPT !.timer = FALSE]
  <2>1. c \in Clients /\ w \in Waiters(Pts) /\ w.good \in Nat
    BY BoundsAssumption DEF Sound, Clients, Waiters, Pts
  <2>2. v \in Waiters(Pts) /\ v.good = w.good /\ v.applied = w.applied /\ v.requesting
        /\ v.skipped = w.skipped
    BY <1>2, <2>1 DEF Waiters
  <2>3. d = [c EXCEPT !.waiter = v]
    BY <1>2 DEF GetDifference
  <2> HIDE DEF v
  <2>4. /\ d \in Clients /\ d.waiter = v /\ d.bySeq = c.bySeq /\ d.failTimer = c.failTimer
        /\ d.request = c.request
    BY <2>1, <2>2, <2>3 DEF Clients
  <2>5. WaiterSound(v, told \cup PutAside(d.bySeq))
    BY <1>2, <2>2 DEF Sound, WaiterSound
  <2>6. c.bySeq = {}
    BY <1>2 DEF Sound
  <2>7. RequestRight(d)
    BY <1>2, <2>2, <2>4 DEF Sound, RequestRight
  <2>8. Sound(d, told)
    BY <2>4, <2>5, <2>6, <2>7 DEF Sound, BlocksApart
  <2>9. Keeps(c, d, {})
    BY <1>2, <2>1, <2>2, <2>4 DEF Keeps, Onwards
  <2> QED BY <1>2, <2>2, <2>4, <2>8, <2>9
<1> QED BY <1>1, <1>2

\* The blocks put aside stay apart when less is told of, or fewer are left.
LEMMA ApartLess ==
    ASSUME NEW blocks, NEW some, NEW more, NEW told, BlocksApart(blocks, more),
           some \subseteq blocks, told \subseteq more
    PROVE  BlocksApart(some, told)
<1>1. \A b \in some : PutAside(some \ {b}) \subseteq PutAside(blocks \ {b})
  BY DEF PutAside
<1> QED BY <1>1 DEF BlocksApart

\* They are about events of the log.
LEMMA PutAsideLogged ==
    ASSUME NEW blocks, NEW told, BlocksApart(blocks, told)
    PROVE  PutAside(blocks) \subseteq log
BY DEF BlocksApart, PutAside, EventsOf, RightUpdates, Whole

\* The waiter of a client is replaced, by one that follows as the one before did.
LEMMA FollowingSound ==
    ASSUME NEW c, NEW more, Sound(c, more), ~c.waiter.requesting, NEW told, told \subseteq more,
           NEW v \in Waiters(Pts), WaiterSound(v, told \cup PutAside(c.bySeq)), ~v.requesting,
           Onwards(c.waiter, v), NEW d, d = [c EXCEPT !.waiter = v], NEW any
    PROVE  Sound(d, told) /\ Keeps(c, d, any) /\ d.bySeq = c.bySeq /\ d.seq = c.seq
<1>1. /\ d \in Clients /\ d.waiter = v /\ d.bySeq = c.bySeq /\ d.failTimer = c.failTimer
      /\ d.request = c.request /\ d.seqTimer = c.seqTimer /\ d.seq = c.seq
  BY DEF Sound, Clients
<1>2. RequestRight(d)
  BY <1>1 DEF Sound, RequestRight
<1>3. BlocksApart(d.bySeq, told)
  BY <1>1, ApartLess DEF Sound
<1>4. Sound(d, told)
  BY <1>1, <1>2, <1>3 DEF Sound
<1>5. Keeps(c, d, any)
  BY <1>1 DEF Keeps
<1> QED BY <1>1, <1>4, <1>5

\* While the difference is requested updates are only applied.
LEMMA RequestingSound ==
    ASSUME NEW c, NEW more, Sound(c, more), c.waiter.requesting, NEW told, told \subseteq more,
           NEW events, events \subseteq log, NEW v \in Waiters(Pts),
           v.good = c.waiter.good, v.requesting, v.skipped = {},
           v.applied = c.waiter.applied \cup events, NEW d, d = [c EXCEPT !.waiter = v]
    PROVE  Sound(d, told) /\ Keeps(c, d, events) /\ d.bySeq = c.bySeq /\ d.seq = c.seq
<1>1. /\ d \in Clients /\ d.waiter = v /\ d.bySeq = c.bySeq /\ d.failTimer = c.failTimer
      /\ d.request = c.request /\ d.seqTimer = c.seqTimer /\ d.seq = c.seq
  BY DEF Sound, Clients
<1>2. RequestRight(d)
  BY <1>1 DEF Sound, RequestRight
<1>3. BlocksApart(d.bySeq, told)
  BY <1>1, ApartLess DEF Sound
<1>4. WaiterSound(v, told \cup PutAside(d.bySeq))
  BY DEF Sound, WaiterSound
<1>5. Sound(d, told)
  BY <1>1, <1>2, <1>3, <1>4 DEF Sound
<1>6. v.good \in Nat
  BY BoundsAssumption DEF Waiters, Pts
<1>7. Keeps(c, d, events)
  BY <1>1, <1>6 DEF Keeps, Onwards
<1> QED BY <1>1, <1>5, <1>7

\* feedUpdate()
LEMMA FeedSound ==
    ASSUME Logged, NEW c, NEW told, told \subseteq log, NEW u, Whole(u.pts, u.count),
           u.pts \notin told, u.pts \notin PutAside(c.bySeq), Sound(c, told \cup {u.pts}),
           NEW d, d = FeedUpdate(c, u)
    PROVE  /\ Sound(d, told) /\ Keeps(c, d, {u.pts})
           /\ d.bySeq \in {c.bySeq, {}} /\ d.seq = c.seq
<1> DEFINE w == c.waiter
           e == u.pts
           v == UpdateAndApply(w, e, u.count)
           aside == PutAside(c.bySeq)
<1>1. c \in Clients /\ w \in Waiters(Pts)
  BY DEF Sound, Clients
<1>2. e \in log /\ e \in Nat
  BY LoggedNat DEF Whole
<1>3. aside \subseteq log
  BY PutAsideLogged DEF Sound
<1>4. WaiterSound(w, (told \cup aside) \cup {e})
  <2>1. WaiterSound(w, (told \cup {e}) \cup aside)
    BY DEF Sound
  <2> QED BY <2>1, SoundLess
<1>5. CASE u.stranger /\ ~w.requesting
  <2>1. d = GetDifference(c)
    BY <1>5 DEF FeedUpdate
  <2>2. Asks(c)
    BY <1>5, SoundAsks
  <2>3. /\ Sound(d, told) /\ Keeps(c, d, {}) /\ d.bySeq = {} /\ d.seq = c.seq
    BY <2>1, <2>2, AskingSound
  <2>4. Keeps(c, d, {e})
    BY <2>3 DEF Keeps
  <2> QED BY <2>3, <2>4
<1>6. CASE ~u.stranger /\ ~w.requesting
  <2>1. d = [c EXCEPT !.waiter = v]
    BY <1>6 DEF FeedUpdate
  <2>2. v \in Waiters(Pts) /\ WaiterSound(v, told \cup aside) /\ Onwards(w, v) /\ ~v.requesting
    <3>1. told \cup aside \subseteq log /\ e \notin told \cup aside
      BY <1>3
    <3> QED BY <1>1, <1>4, <1>6, <3>1, UpdateSound
  <2> HIDE DEF v
  <2> QED BY <1>6, <2>1, <2>2, FollowingSound
<1>7. CASE w.requesting
  <2>1. d = [c EXCEPT !.waiter = v]
    BY <1>7 DEF FeedUpdate
  <2>2. w.skipped = {}
    BY <1>7 DEF Sound, WaiterSound
  <2>3. v = ApplyAll(w, {e})
    <3>1. ~Known(w, e, u.count) /\ Passes(w, e, u.count) /\ Updated(w, e, u.count) = w
      BY <1>7 DEF Known, Passes, Updated
    <3> QED BY <2>2, <3>1 DEF UpdateAndApply
  <2> HIDE DEF v
  <2>4. /\ v \in Waiters(Pts) /\ v.good = w.good /\ v.requesting /\ v.skipped = {}
        /\ v.applied = w.applied \cup {e}
    <3>1. e \in Pts
      BY <1>2 DEF Logged
    <3> QED BY <1>1, <1>7, <2>2, <2>3, <3>1 DEF ApplyAll, Waiters
  <2> QED BY SMTT(30), <1>2, <1>7, <2>1, <2>4, RequestingSound
<1> QED BY <1>5, <1>6, <1>7

\* feedUpdateVector()
LEMMA FeedVectorSound ==
    ASSUME Logged, NEW c, NEW told, told \subseteq log, NEW updates \in Seq(PtsUpdates),
           RightUpdates(updates), EventsOf(updates) \cap told = {},
           EventsOf(updates) \cap PutAside(c.bySeq) = {},
           Sound(c, told \cup EventsOf(updates)), NEW d, d = FeedUpdateVector(c, updates)
    PROVE  Sound(d, told) /\ Keeps(c, d, EventsOf(updates)) /\ d.bySeq \in {c.bySeq, {}}
<1> DEFINE n == Len(updates)
           ev == EventsOf(updates)
           Rest(i) == {updates[j].pts : j \in (i + 1)..n}
<1>0. n \in Nat /\ DOMAIN updates = 1..n
  BY LenProperties
<1>1. PICK f : /\ f[0] = c /\ f[n] = d
               /\ \A i \in 1..n : f[i] = FeedUpdate(f[i - 1], updates[i])
  BY <1>0, FedRuns
<1> DEFINE Good(b, i) == Sound(b, told \cup Rest(i)) /\ Keeps(c, b, ev) /\ b.bySeq \in {c.bySeq, {}}
           T == {i \in 0..n : Good(f[i], i)}
<1>2. c \in Clients
  BY DEF Sound
<1>3. 0 \in T
  <2>1. Rest(0) = ev
    BY <1>0 DEF EventsOf
  <2>2. Good(c, 0)
    <3> HIDE DEF Rest
    <3> QED BY <1>2, <2>1, KeepsItself
  <2> HIDE DEF Good
  <2> QED BY <1>0, <1>1, <2>2
<1>4. ASSUME NEW i \in 0..n, i \in T, i < n PROVE i + 1 \in T
  <2> DEFINE u == updates[i + 1]
             e == u.pts
             a == f[i]
             b == f[i + 1]
             more == told \cup Rest(i + 1)
  <2>0. i + 1 \in 1..n /\ i + 1 - 1 = i /\ i + 1 \in 0..n
    BY <1>0, <1>4
  <2>1. b = FeedUpdate(a, u)
    BY <1>1, <2>0
  <2>2. Good(a, i)
    BY <1>4
  <2>3. Whole(e, u.count) /\ e \in ev
    BY <1>0, <2>0 DEF RightUpdates, EventsOf
  <2>4. \A j \in (i + 2)..n : j \in 1..n /\ j # i + 1 /\ updates[j].pts \in ev /\ updates[j].pts # e
    <3> TAKE j \in (i + 2)..n
    <3>1. j \in 1..n /\ j # i + 1
      BY <1>0, <2>0
    <3> QED BY <1>0, <2>0, <3>1 DEF RightUpdates, EventsOf
  <2>5. Rest(i + 1) \subseteq ev /\ e \notin Rest(i + 1)
    <3>1. i + 1 + 1 = i + 2
      BY <1>0
    <3> QED BY <2>4, <3>1
  <2>6. ev \subseteq log
    BY DEF RightUpdates, EventsOf, Whole
  <2>7. Rest(i) \subseteq Rest(i + 1) \cup {e} /\ more \cup {e} \subseteq told \cup Rest(i)
    <3>1. \A j \in (i + 1)..n : j = i + 1 \/ j \in (i + 1 + 1)..n
      BY <1>0
    <3>2. i + 1 \in (i + 1)..n /\ \A j \in (i + 1 + 1)..n : j \in (i + 1)..n
      BY <1>0, <2>0
    <3> QED BY <3>1, <3>2
  <2> HIDE DEF Rest
  <2>8. more \subseteq log /\ e \notin more
    BY <2>3, <2>5, <2>6
  <2>9. e \notin PutAside(a.bySeq)
    <3>1. PutAside({}) = {}
      BY DEF PutAside
    <3> QED BY <2>2, <2>3, <3>1
  <2>10. Sound(a, more \cup {e})
    <3>1. more \cup {e} = told \cup Rest(i)
      BY <2>7
    <3> QED BY <2>2, <3>1
  <2> HIDE DEF more, u, a, b
  <2>11. Sound(b, more) /\ Keeps(a, b, {e}) /\ b.bySeq \in {a.bySeq, {}}
    BY <2>1, <2>3, <2>8, <2>9, <2>10, FeedSound
  <2>12. Keeps(c, b, ev)
    <3>1. a \in Clients /\ b \in Clients
      BY <2>2, <2>11 DEF Sound
    <3>2. ev \cup {e} \subseteq ev
      BY <2>3
    <3> QED BY <1>2, <2>2, <2>11, <3>1, <3>2, KeepsTransitive
  <2>13. Good(b, i + 1)
    BY <2>2, <2>11, <2>12 DEF more
  <2> HIDE DEF Good
  <2> QED BY <2>0, <2>13 DEF b
<1>5. n \in T
  <2> HIDE DEF T
  <2>1. \A k \in 0..n : k \in T /\ k < n => k + 1 \in T
    BY <1>4
  <2>2. \A k \in 0..n : k \in T
    BY <1>0, <1>3, <2>1, Upwards
  <2> QED BY <1>0, <2>2
<1>6. Good(d, n)
  BY <1>1, <1>5
<1>7. Rest(n) = {}
  BY <1>0
<1> HIDE DEF Rest
<1> QED BY <1>6, <1>7

\* Nothing else of the client matters to it than its fields say: the seq is one of them.
LEMMA SeqSound ==
    ASSUME NEW c, NEW told, Sound(c, told), NEW seq \in Seqs,
           NEW d, d = [c EXCEPT !.seq = seq], NEW any
    PROVE  Sound(d, told) /\ Keeps(c, d, any) /\ d.bySeq = c.bySeq /\ d.waiter = c.waiter
<1>1. /\ d \in Clients /\ d.waiter = c.waiter /\ d.bySeq = c.bySeq /\ d.failTimer = c.failTimer
      /\ d.request = c.request /\ d.seqTimer = c.seqTimer
  BY DEF Sound, Clients
<1>2. RequestRight(d)
  BY <1>1 DEF Sound, RequestRight
<1>3. Sound(d, told)
  BY <1>1, <1>2 DEF Sound
<1>4. Keeps(c, d, any)
  <2>1. Keeps(c, c, any)
    BY KeepsItself DEF Sound
  <2> QED BY <1>1, <2>1 DEF Keeps
<1> QED BY <1>1, <1>3, <1>4

\* Some blocks are taken out of the queue.  What one of them tells of is still to be told.
LEMMA TakeOutSound ==
    ASSUME NEW c, NEW told, told \subseteq log, Sound(c, told), NEW b \in c.bySeq,
           NEW d \in Clients, d.waiter = c.waiter, d.bySeq \subseteq c.bySeq \ {b},
           d.failTimer = c.failTimer, d.request = c.request, d.seqTimer = c.seqTimer
    PROVE  /\ Sound(d, told \cup EventsOf(b.updates))
           /\ EventsOf(b.updates) \cap told = {}
           /\ EventsOf(b.updates) \cap PutAside(d.bySeq) = {}
           /\ RightUpdates(b.updates)
<1> DEFINE ev == EventsOf(b.updates)
<1>1. d.bySeq \subseteq c.bySeq /\ b \notin d.bySeq
  OBVIOUS
<1>2. BlocksApart(c.bySeq, told)
  BY DEF Sound
<1>3. ev \cap told = {} /\ RightUpdates(b.updates) /\ ev \cap PutAside(c.bySeq \ {b}) = {}
  BY <1>2 DEF BlocksApart
<1>4. PutAside(d.bySeq) \subseteq PutAside(c.bySeq \ {b})
  BY <1>1 DEF PutAside
<1>5. ev \subseteq PutAside(c.bySeq) /\ PutAside(d.bySeq) \subseteq PutAside(c.bySeq)
  BY <1>1, <1>2 DEF PutAside
<1>6. WaiterSound(d.waiter, (told \cup ev) \cup PutAside(d.bySeq))
  <2>1. WaiterSound(c.waiter, told \cup PutAside(c.bySeq))
    BY DEF Sound
  <2>2. (told \cup ev) \cup PutAside(d.bySeq) \subseteq told \cup PutAside(c.bySeq)
    BY <1>5
  <2> QED BY <1>1, <2>1, <2>2, SoundLess
<1>7. BlocksApart(d.bySeq, told \cup ev)
  <2>1. BlocksApart(d.bySeq, told)
    BY <1>1, <1>2, ApartLess
  <2>2. \A a \in d.bySeq : EventsOf(a.updates) \cap ev = {}
    <3> TAKE a \in d.bySeq
    <3>1. EventsOf(a.updates) \subseteq PutAside(d.bySeq)
      BY DEF PutAside
    <3> QED BY <1>3, <1>4, <3>1
  <2> QED BY <2>1, <2>2 DEF BlocksApart
<1>8. RequestRight(d)
  BY <1>1 DEF Sound, RequestRight
<1>9. Sound(d, told \cup ev)
  BY <1>1, <1>6, <1>7, <1>8 DEF Sound
<1> QED BY <1>1, <1>3, <1>4, <1>9

\* The next block of setState(), if there is one.
LEMMA TakeBlockSound ==
    ASSUME Logged, NEW c, NEW told, told \subseteq log, Sound(c, told), NEW first \in Nat,
           NEW d, d = TakeBlock(c, first)
    PROVE  Sound(d, told) /\ Keeps(c, d, {})
<1> DEFINE next == {b \in c.bySeq : b.first = first}
           rest == [c EXCEPT !.bySeq = @ \ next]
           b == CHOOSE b \in next : TRUE
           fed == FeedUpdateVector(rest, b.updates)
           to == [fed EXCEPT !.seq = b.seq]
<1>0. c \in Clients /\ next \subseteq c.bySeq /\ c.seq \in Nat
  BY BoundsAssumption DEF Sound, Clients, Seqs
<1>1. CASE next = {} \/ first > c.seq + 1
  <2>1. d = c
    <3> HIDE DEF next, rest, to
    <3>1. d = CASE next = {} \/ first > c.seq + 1 -> c
                [] next # {} /\ first <= c.seq -> rest
                [] OTHER -> to
      BY DEF TakeBlock, next, rest, to, fed, b
    <3>2. ~(next # {} /\ first <= c.seq)
      BY <1>0, <1>1
    <3> QED BY <1>1, <3>1, <3>2
  <2> QED BY <1>0, <2>1, KeepsItself
<1>2. CASE next # {} /\ ~(first > c.seq + 1)
  <2>1. b \in next /\ b \in c.bySeq
    BY <1>2
  <2>2. d = rest \/ d = to
    BY <1>2 DEF TakeBlock
  <2> HIDE DEF next, b
  <2>3. b \in Blocks /\ b.updates \in Seq(PtsUpdates) /\ b.seq \in Seqs
    BY <1>0, <2>1 DEF Clients, Blocks
  <2>a. /\ rest \in Clients /\ rest.waiter = c.waiter /\ rest.bySeq = c.bySeq \ next
        /\ rest.failTimer = c.failTimer /\ rest.request = c.request
        /\ rest.seqTimer = c.seqTimer
    BY <1>0 DEF Clients
  <2> HIDE DEF rest
  <2>b. rest.bySeq \subseteq c.bySeq \ {b}
    BY <2>1, <2>a
  <2>4. /\ Sound(rest, told \cup EventsOf(b.updates))
        /\ EventsOf(b.updates) \cap told = {}
        /\ EventsOf(b.updates) \cap PutAside(rest.bySeq) = {}
        /\ RightUpdates(b.updates)
    BY <2>1, <2>a, <2>b, TakeOutSound
  <2>5. Keeps(c, rest, {})
    <3>1. Keeps(c, c, {})
      BY <1>0, KeepsItself
    <3> QED BY <2>a, <3>1 DEF Keeps
  <2>6. Sound(rest, told)
    <3>1. WaiterSound(rest.waiter, told \cup PutAside(rest.bySeq))
      <4>1. WaiterSound(rest.waiter, (told \cup EventsOf(b.updates)) \cup PutAside(rest.bySeq))
        BY <2>4 DEF Sound
      <4>2. told \cup PutAside(rest.bySeq)
              \subseteq (told \cup EventsOf(b.updates)) \cup PutAside(rest.bySeq)
        OBVIOUS
      <4> QED BY <4>1, <4>2, SoundLess
    <3>2. BlocksApart(rest.bySeq, told)
      <4>1. BlocksApart(rest.bySeq, told \cup EventsOf(b.updates))
        BY <2>4 DEF Sound
      <4>2. told \subseteq told \cup EventsOf(b.updates)
        OBVIOUS
      <4> QED BY <4>1, <4>2, ApartLess
    <3> QED BY <2>4, <3>1, <3>2 DEF Sound
  <2>7. Sound(fed, told) /\ Keeps(rest, fed, EventsOf(b.updates))
    BY <2>3, <2>4, FeedVectorSound
  <2> HIDE DEF fed
  <2>8. Sound(to, told) /\ Keeps(fed, to, {}) /\ to.waiter = fed.waiter
    BY <2>3, <2>7, SeqSound
  <2> HIDE DEF to
  <2>9. ~c.waiter.requesting
    BY <2>1 DEF Sound
  <2>10. Keeps(c, to, {})
    <3>1. Keeps(c, to, EventsOf(b.updates))
      <4>1. rest \in Clients /\ fed \in Clients /\ to \in Clients
        BY <2>6, <2>7, <2>8 DEF Sound
      <4>2. Keeps(c, fed, EventsOf(b.updates))
        BY <1>0, <2>5, <2>7, <4>1, KeepsTransitive
      <4> QED BY <1>0, <2>8, <4>1, <4>2, KeepsTransitive
    <3> QED BY <2>9, <3>1 DEF Keeps
  <2> QED BY <2>2, <2>5, <2>6, <2>8, <2>10
<1> QED BY <1>1, <1>2

\* The part of setState() about seq.
LEMMA SetSeqSound ==
    ASSUME Logged, NEW c, NEW told, told \subseteq log, Sound(c, told), NEW seq \in Seqs,
           NEW d, d = SetSeq(c, seq)
    PROVE  Sound(d, told) /\ Keeps(c, d, {})
<1>0. c \in Clients /\ MaxSeq \in Nat
  BY BoundsAssumption DEF Sound
<1>1. CASE seq = 0 \/ seq = c.seq
  <2>1. d = c
    BY <1>1, SetSeqTakes
  <2> QED BY <1>0, <2>1, KeepsItself
<1>2. CASE ~(seq = 0 \/ seq = c.seq)
  <2> DEFINE s == [c EXCEPT !.seq = seq]
             taken == Taken(c, seq)
  <2>1. d = [taken EXCEPT !.seqTimer = taken.bySeq # {}]
    BY <1>2, SetSeqTakes
  <2>2. PICK f : /\ f[0] = s /\ f[MaxSeq] = taken
                 /\ \A i \in 1..MaxSeq : f[i] = TakeBlock(f[i - 1], i)
    BY TakenRuns
  <2>3. Sound(s, told) /\ Keeps(c, s, {})
    BY SeqSound
  <2> HIDE DEF s, taken
  <2> DEFINE T == {i \in 0..MaxSeq : Sound(f[i], told) /\ Keeps(c, f[i], {})}
  <2>4. 0 \in T
    BY <1>0, <2>2, <2>3
  <2>5. ASSUME NEW i \in 0..MaxSeq, i \in T, i < MaxSeq PROVE i + 1 \in T
    <3>1. i + 1 \in 1..MaxSeq /\ i + 1 - 1 = i /\ i + 1 \in 0..MaxSeq
      BY <1>0, <2>5
    <3>2. f[i + 1] = TakeBlock(f[i], i + 1) /\ i + 1 \in Nat
      BY <2>2, <3>1
    <3>3. Sound(f[i], told) /\ Keeps(c, f[i], {})
      BY <2>5
    <3>4. Sound(f[i + 1], told) /\ Keeps(f[i], f[i + 1], {})
      BY <3>2, <3>3, TakeBlockSound
    <3>5. f[i] \in Clients /\ f[i + 1] \in Clients
      BY <3>3, <3>4 DEF Sound
    <3>6. Keeps(c, f[i + 1], {})
      BY <1>0, <3>3, <3>4, <3>5, KeepsTransitive
    <3> QED BY <3>1, <3>4, <3>6
  <2>6. MaxSeq \in T
    <3> HIDE DEF T
    <3>1. \A k \in 0..MaxSeq : k \in T /\ k < MaxSeq => k + 1 \in T
      BY <2>5
    <3>2. \A k \in 0..MaxSeq : k \in T
      BY <1>0, <2>4, <3>1, Upwards
    <3> QED BY <1>0, <3>2
  <2>7. Sound(taken, told) /\ Keeps(c, taken, {})
    BY <2>2, <2>6
  <2>8. /\ d \in Clients /\ d.waiter = taken.waiter /\ d.bySeq = taken.bySeq
        /\ d.failTimer = taken.failTimer /\ d.request = taken.request
        /\ d.seqTimer = (taken.bySeq # {})
    BY <2>1, <2>7 DEF Sound, Clients
  <2>9. RequestRight(d)
    BY <2>7, <2>8 DEF Sound, RequestRight
  <2>10. Sound(d, told)
    BY <2>7, <2>8, <2>9 DEF Sound
  <2>11. Keeps(c, d, {})
    BY <2>7, <2>8 DEF Keeps
  <2> QED BY <2>10, <2>11
<1> QED BY <1>1, <1>2

\* A numbered block is put aside.
LEMMA PutAsideSound ==
    ASSUME NEW c, NEW told, NEW b \in Blocks, ~c.waiter.requesting,
           RightUpdates(b.updates), EventsOf(b.updates) \cap told = {},
           Sound(c, told \cup EventsOf(b.updates)),
           NEW d, d = [c EXCEPT !.bySeq = @ \cup {b}, !.seqTimer = TRUE], NEW any
    PROVE  Sound(d, told) /\ Keeps(c, d, any)
<1> DEFINE ev == EventsOf(b.updates)
<1>1. /\ d \in Clients /\ d.waiter = c.waiter /\ d.bySeq = c.bySeq \cup {b}
      /\ d.failTimer = c.failTimer /\ d.request = c.request /\ d.seqTimer = TRUE
  BY DEF Sound, Clients
<1>2. PutAside(d.bySeq) = PutAside(c.bySeq) \cup ev
  BY <1>1 DEF PutAside
<1>3. BlocksApart(c.bySeq, told \cup ev)
  BY DEF Sound
<1>4. BlocksApart(d.bySeq, told)
  <2>1. ASSUME NEW a \in c.bySeq, a # b
        PROVE  /\ RightUpdates(a.updates)
               /\ EventsOf(a.updates) \cap told = {}
               /\ EventsOf(a.updates) \cap PutAside(d.bySeq \ {a}) = {}
    <3>1. /\ RightUpdates(a.updates)
          /\ EventsOf(a.updates) \cap (told \cup ev) = {}
          /\ EventsOf(a.updates) \cap PutAside(c.bySeq \ {a}) = {}
      BY <1>3 DEF BlocksApart
    <3>2. PutAside(d.bySeq \ {a}) \subseteq PutAside(c.bySeq \ {a}) \cup ev
      BY <1>1 DEF PutAside
    <3> QED BY <3>1, <3>2
  <2>2. ev \cap PutAside(d.bySeq \ {b}) = {}
    <3>1. \A a \in c.bySeq : EventsOf(a.updates) \cap ev = {}
      BY <1>3 DEF BlocksApart
    <3>2. d.bySeq \ {b} \subseteq c.bySeq
      BY <1>1
    <3> QED BY <3>1, <3>2 DEF PutAside
  <2> QED BY <1>1, <2>1, <2>2 DEF BlocksApart
<1>5. WaiterSound(d.waiter, told \cup PutAside(d.bySeq))
  <2>1. WaiterSound(c.waiter, (told \cup ev) \cup PutAside(c.bySeq))
    BY DEF Sound
  <2>2. told \cup PutAside(d.bySeq) = (told \cup ev) \cup PutAside(c.bySeq)
    BY <1>2
  <2> QED BY <1>1, <2>1, <2>2
<1>6. RequestRight(d)
  BY <1>1 DEF Sound, RequestRight
<1>7. Sound(d, told)
  BY <1>1, <1>4, <1>5, <1>6 DEF Sound
<1>8. Keeps(c, d, any)
  <2>1. Keeps(c, c, any)
    BY KeepsItself DEF Sound
  <2> QED BY <1>1, <2>1 DEF Keeps
<1> QED BY <1>7, <1>8

\* The client knows of less that is to come.
LEMMA ClientLess ==
    ASSUME NEW c, NEW more, NEW told, Sound(c, more), told \subseteq more
    PROVE  Sound(c, told)
<1>1. WaiterSound(c.waiter, told \cup PutAside(c.bySeq))
  <2>1. told \cup PutAside(c.bySeq) \subseteq more \cup PutAside(c.bySeq)
    OBVIOUS
  <2> QED BY <2>1, SoundLess DEF Sound
<1>2. BlocksApart(c.bySeq, told)
  BY ApartLess DEF Sound
<1> QED BY <1>1, <1>2 DEF Sound

\* applyUpdates(): dropped, put aside, or applied with the blocks that follow.
LEMMA ApplySound ==
    ASSUME Logged, NEW c, NEW told, told \subseteq log, NEW b \in Blocks,
           RightUpdates(b.updates), EventsOf(b.updates) \cap told = {},
           Sound(c, told \cup EventsOf(b.updates)),
           c.waiter.requesting => b.first = 0, NEW d, d = ApplyUpdates(c, b)
    PROVE  Sound(d, told) /\ Keeps(c, d, EventsOf(b.updates))
<1> DEFINE ev == EventsOf(b.updates)
           fed == FeedUpdateVector(c, b.updates)
<1>0. c \in Clients /\ b.updates \in Seq(PtsUpdates) /\ b.seq \in Seqs /\ b.first \in Nat
      /\ c.seq \in Nat
  BY BoundsAssumption DEF Sound, Clients, Blocks, Seqs
<1>1. CASE b.seq # 0 /\ b.first <= c.seq
  <2>1. d = c
    <3>1. ~(b.first > c.seq + 1)
      BY <1>0, <1>1
    <3> QED BY <1>1, <3>1 DEF ApplyUpdates
  <2>2. Sound(c, told)
    <3>1. told \subseteq told \cup ev
      OBVIOUS
    <3> QED BY <3>1, ClientLess
  <2> QED BY <1>0, <2>1, <2>2, KeepsItself
<1>2. CASE ~(b.seq # 0 /\ b.first <= c.seq) /\ b.first > c.seq + 1
  <2>1. d = [c EXCEPT !.bySeq = @ \cup {b}, !.seqTimer = TRUE]
    BY <1>2 DEF ApplyUpdates
  <2>2. ~c.waiter.requesting
    BY <1>0, <1>2
  <2> QED BY <2>1, <2>2, PutAsideSound
<1>3. CASE ~(b.seq # 0 /\ b.first <= c.seq) /\ ~(b.first > c.seq + 1)
  <2>1. d = SetSeq(fed, b.seq)
    BY <1>3 DEF ApplyUpdates, SetState
  <2>2. Sound(fed, told) /\ Keeps(c, fed, ev)
    <3>1. ev \cap PutAside(c.bySeq) = {}
      <4>1. BlocksApart(c.bySeq, told \cup ev)
        BY DEF Sound
      <4>2. \A a \in c.bySeq : EventsOf(a.updates) \cap ev = {}
        BY <4>1 DEF BlocksApart
      <4> QED BY <4>2 DEF PutAside
    <3> QED BY <1>0, <3>1, FeedVectorSound
  <2> HIDE DEF fed
  <2>3. Sound(d, told) /\ Keeps(fed, d, {})
    BY <1>0, <2>1, <2>2, SetSeqSound
  <2>4. fed \in Clients /\ d \in Clients
    BY <2>2, <2>3 DEF Sound
  <2>5. Keeps(c, d, ev)
    BY <1>0, <2>2, <2>3, <2>4, KeepsTransitive
  <2> QED BY <2>3, <2>5
<1> QED BY <1>1, <1>2, <1>3

-----------------------------------------------------------------------------
(* What the client makes of a message                                      *)

\* A message has what its kind says.
LEMMA MessageTypes ==
    ASSUME NEW m \in Messages
    PROVE  /\ m.kind \in {"push", "result"} => m.block \in Blocks
           /\ m.kind = "affected" => m.pts \in Pts /\ m.count \in Pts
           /\ m.kind \in Gives => m.pts \in Pts /\ m.seq \in Seqs /\ m.updates \in SUBSET Pts
           /\ m.kind \in {"push", "result", "affected", "newSession", "tooLong"} \cup Answers
BY DEF Messages, Gives, Ends, Answers

\* setState() sets the seq and nothing else if no block was put aside.
LEMMA SetSeqAlone ==
    ASSUME NEW c \in Clients, c.bySeq = {}, NEW seq \in Seqs, NEW d, d = SetSeq(c, seq)
    PROVE  /\ d \in Clients /\ d.bySeq = {} /\ d.waiter = c.waiter
           /\ d.request = c.request /\ d.failTimer = c.failTimer
<1>1. CASE seq = 0 \/ seq = c.seq
  BY <1>1, SetSeqTakes
<1>2. CASE ~(seq = 0 \/ seq = c.seq)
  <2> DEFINE s == [c EXCEPT !.seq = seq]
             taken == Taken(c, seq)
  <2>1. d = [taken EXCEPT !.seqTimer = taken.bySeq # {}]
    BY <1>2, SetSeqTakes
  <2>2. PICK f : /\ f[0] = s /\ f[MaxSeq] = taken
                 /\ \A i \in 1..MaxSeq : f[i] = TakeBlock(f[i - 1], i)
    BY TakenRuns
  <2>3. /\ s \in Clients /\ s.bySeq = {} /\ s.waiter = c.waiter
        /\ s.request = c.request /\ s.failTimer = c.failTimer /\ s.seq \in Nat
    BY DEF Clients, Seqs
  <2> HIDE DEF s, taken
  <2> DEFINE T == {i \in 0..MaxSeq : f[i] = s}
  <2>4. ASSUME NEW i \in 0..MaxSeq, i \in T, i < MaxSeq PROVE i + 1 \in T
    <3>1. i + 1 \in 1..MaxSeq /\ i + 1 - 1 = i /\ i + 1 \in 0..MaxSeq
      BY <2>4, BoundsAssumption
    <3>2. f[i + 1] = TakeBlock(s, i + 1)
      BY <2>2, <2>4, <3>1
    <3>3. {b \in s.bySeq : b.first = i + 1} = {}
      BY <2>3
    <3>4. TakeBlock(s, i + 1) = s
      BY <3>3 DEF TakeBlock
    <3> QED BY <3>1, <3>2, <3>4
  <2>5. MaxSeq \in T
    <3>1. 0 \in T
      BY <2>2, BoundsAssumption
    <3> HIDE DEF T
    <3>2. \A k \in 0..MaxSeq : k \in T /\ k < MaxSeq => k + 1 \in T
      BY <2>4
    <3>3. \A k \in 0..MaxSeq : k \in T
      BY <3>1, <3>2, Upwards, BoundsAssumption
    <3> QED BY <3>3, BoundsAssumption
  <2>6. taken = s
    BY <2>2, <2>5
  <2> QED BY <2>1, <2>3, <2>6 DEF Clients
<1> QED BY <1>1, <1>2

\* stateDone(), of a state or of a difference that has been applied.
LEMMA StateDoneSound ==
    ASSUME Logged, NEW c, NEW more, Sound(c, more), c.waiter.requesting,
           c.request = NoRequest, ~c.failTimer, NEW m, m.pts \in log, m.seq \in Seqs,
           c.waiter.good <= m.pts,
           m.updates = {e \in log : c.waiter.good < e /\ e <= m.pts},
           NEW told, told \subseteq log,
           NEW d, d = StateDone(FeedDifference(c, m), m)
    PROVE  /\ Asks(d) /\ d.waiter.good = m.pts
           /\ d.waiter.applied = c.waiter.applied \cup m.updates
           /\ (\A e \in c.waiter.applied : e <= m.pts) => Sound(d, told)
<1> DEFINE w == c.waiter
           v == [w EXCEPT !.good = m.pts, !.last = m.pts, !.count = m.pts, !.skipped = {},
                          !.applied = @ \cup m.updates]
           u == [v EXCEPT !.requesting = FALSE]
           a == [c EXCEPT !.waiter = v]
           s == SetSeq(a, m.seq)
<1>1. c \in Clients /\ w \in Waiters(Pts) /\ m.pts \in Pts /\ m.updates \subseteq Pts
      /\ m.pts \in Nat /\ m.pts # 0 /\ w.skipped = {} /\ c.bySeq = {}
  BY LoggedNat DEF Sound, Clients, Logged, WaiterSound
<1>2. v \in Waiters(Pts) /\ u \in Waiters(Pts)
  BY <1>1 DEF Waiters
<1>3. /\ u.good = m.pts /\ u.last = m.pts /\ u.count = m.pts /\ u.skipped = {} /\ ~u.requesting
      /\ u.applied = w.applied \cup m.updates
  BY <1>1 DEF Waiters
<1>4. SetState(FeedDifference(c, m), m.pts, m.seq) = s
  <2>1. FeedDifference(c, m) = [c EXCEPT !.waiter = [w EXCEPT !.applied = @ \cup m.updates]]
    BY DEF FeedDifference, ApplyAll
  <2>2. InitAt([w EXCEPT !.applied = @ \cup m.updates], m.pts) = v
    BY <1>1 DEF InitAt, Waiters
  <2>3. [FeedDifference(c, m) EXCEPT !.waiter = InitAt(@, m.pts)] = a
    BY <1>1, <2>1, <2>2 DEF Clients
  <2> HIDE DEF v, a
  <2> QED BY <1>1, <2>3 DEF SetState
<1>5. d = [s EXCEPT !.waiter = SetRequesting(@, FALSE)]
  BY <1>4 DEF StateDone, SetRequestingOf
<1>6. /\ a \in Clients /\ a.bySeq = {} /\ a.waiter = v /\ a.request = c.request
      /\ a.failTimer = c.failTimer
  BY <1>1, <1>2 DEF Clients
<1>7. SetRequesting(v, FALSE) = u
  BY <1>1 DEF SetRequesting, Waiters
<1> HIDE DEF v, u, a, s
<1>8. /\ s \in Clients /\ s.bySeq = {} /\ s.waiter = v /\ s.request = c.request
      /\ s.failTimer = c.failTimer
  <2>1. s = SetSeq(a, m.seq)
    BY DEF s
  <2> QED BY <1>6, <2>1, SetSeqAlone
<1>9. /\ d \in Clients /\ d.bySeq = {} /\ d.waiter = u /\ d.request = NoRequest /\ ~d.failTimer
  BY <1>2, <1>5, <1>7, <1>8 DEF Clients
<1>10. u.applied \subseteq log /\ \A e \in log : e <= u.good => e \in u.applied \cup own
  <2>1. w.applied \subseteq log /\ \A e \in log : e <= w.good => e \in w.applied \cup own
    BY DEF Sound, WaiterSound
  <2>2. \A e \in log : e <= u.good => e <= w.good \/ e \in m.updates
    <3> TAKE e \in log
    <3>1. e \in Nat /\ w.good \in Nat
      BY <1>1, LoggedNat, BoundsAssumption DEF Waiters, Pts
    <3> QED BY <1>3, <3>1
  <2> QED BY <1>3, <2>1, <2>2
<1>11. Asks(d)
  BY <1>1, <1>3, <1>9, <1>10 DEF Asks
<1>12. ASSUME \A e \in c.waiter.applied : e <= m.pts PROVE Sound(d, told)
  <2>1. Counted(u, told \cup PutAside({}))
    <3>1. log \subseteq Nat /\ u.last \in log /\ u.good = u.last /\ u.count = u.last
      BY <1>3, LoggedNat
    <3> QED BY <1>10, <3>1, CountedAt
  <2>2. Follows(u, told \cup PutAside({}))
    <3>1. \A e \in u.applied : e <= u.good
      BY <1>3, <1>12
    <3> QED BY <1>1, <1>3, <2>1, <3>1 DEF Follows
  <2>3. WaiterSound(u, told \cup PutAside({}))
    BY <1>3, <1>10, <2>2 DEF WaiterSound
  <2>4. RequestRight(d)
    BY <1>9 DEF RequestRight, NoRequest
  <2> QED BY <1>9, <2>3, <2>4 DEF Sound, BlocksApart
<1> QED BY <1>3, <1>9, <1>11, <1>12

\* The answer to a request of the account, whatever it counts.
LEMMA ApplyAffectedSound ==
    ASSUME Logged, NEW c, NEW told, told \subseteq log, NEW m \in Messages,
           m.kind = "affected", RightMessage(m, c.waiter.good),
           Sound(c, told \cup Told(m)), Told(m) \cap told = {},
           NEW d, d = ApplyAffected(c, m)
    PROVE  Sound(d, told) /\ Keeps(c, d, {})
<1> DEFINE w == c.waiter
           v == UpdateAffected(w, m.pts, m.count)
           aside == PutAside(c.bySeq)
<1>1. c \in Clients /\ w \in Waiters(Pts) /\ d = [c EXCEPT !.waiter = v]
  BY DEF Sound, Clients, ApplyAffected
<1>2. Told(m) = IF m.count = 0 THEN {} ELSE {m.pts}
  BY DEF Told
<1>3. IF m.count = 0 THEN ZeroCounts /\ m.pts \in log ELSE Whole(m.pts, m.count) /\ m.pts \in own
  BY DEF RightMessage
<1>4. aside \subseteq log
  BY PutAsideLogged DEF Sound
<1>5. Told(m) \cap aside = {}
  <2>1. \A b \in c.bySeq : EventsOf(b.updates) \cap (told \cup Told(m)) = {}
    BY DEF Sound, BlocksApart
  <2> QED BY <2>1 DEF PutAside
<1>6. CASE w.requesting
  <2>1. w.skipped = {}
    BY <1>6 DEF Sound, WaiterSound
  <2>2. v = ApplySkipped(w)
    <3>1. Passes(w, m.pts, m.count) /\ Updated(w, m.pts, m.count) = w
      BY <1>6 DEF Passes, Updated
    <3> QED BY <3>1 DEF UpdateAffected
  <2> HIDE DEF v
  <2>3. /\ v \in Waiters(Pts) /\ v.good = w.good /\ v.requesting /\ v.skipped = {}
        /\ v.applied = w.applied \cup {}
    BY <1>1, <1>6, <2>1, <2>2 DEF ApplySkipped, ApplyAll, StopWaiting, Waiters
  <2>4. told \subseteq told \cup Told(m)
    OBVIOUS
  <2> QED BY <1>1, <1>6, <2>3, <2>4, RequestingSound
<1>7. CASE ~w.requesting
  <2>1. v \in Waiters(Pts) /\ WaiterSound(v, told \cup aside) /\ Onwards(w, v) /\ ~v.requesting
    <3>1. told \cup aside \subseteq log
      BY <1>4
    <3>2. WaiterSound(w, (told \cup aside) \cup Told(m))
      <4>1. WaiterSound(w, (told \cup Told(m)) \cup aside)
        BY DEF Sound
      <4> QED BY <4>1, SoundLess
    <3>3. CASE m.count = 0
      <4>1. WaiterSound(w, told \cup aside)
        BY <3>2, SoundLess
      <4>2. v = UpdateAffected(w, m.pts, 0)
        BY <3>3
      <4> HIDE DEF v
      <4> QED BY <1>1, <1>3, <1>7, <3>1, <3>3, <4>1, <4>2, UncountedSound
    <3>4. CASE m.count # 0
      <4>1. Told(m) = {m.pts} /\ m.pts \notin told \cup aside
        BY <1>2, <1>5, <3>4
      <4>2. WaiterSound(w, (told \cup aside) \cup {m.pts})
        BY <3>2, <4>1
      <4> QED BY <1>1, <1>3, <1>7, <3>1, <3>4, <4>1, <4>2, AffectedSound
    <3> QED BY <3>3, <3>4
  <2>2. told \subseteq told \cup Told(m)
    OBVIOUS
  <2> HIDE DEF v
  <2> QED BY <1>1, <1>7, <2>1, <2>2, FollowingSound
<1> QED BY <1>6, <1>7

\* A message that answers no difference: what it tells of is applied while the difference is
\* requested only if it is the answer to another request.
LEMMA NoAnswerSound ==
    ASSUME Logged, NEW c, NEW told, told \subseteq log, NEW m \in Messages,
           m.kind \notin Answers, RightMessage(m, c.waiter.good),
           Sound(c, told \cup Told(m)), Told(m) \cap told = {},
           NEW d, d = Handled(c, m)
    PROVE  Sound(d, told) /\ Keeps(c, d, IF m.kind = "result" THEN Told(m) ELSE {})
<1>0. c \in Clients /\ Sound(c, told)
  <2>1. told \subseteq told \cup Told(m)
    OBVIOUS
  <2> QED BY <2>1, ClientLess DEF Sound
<1>1. CASE m.kind = "push"
  <2>1. d = UpdateReceived(c, m.block)
    BY <1>1 DEF Handled
  <2>2. m.block \in Blocks /\ RightUpdates(m.block.updates) /\ Told(m) = EventsOf(m.block.updates)
    BY <1>1, MessageTypes DEF RightMessage, Told
  <2>3. CASE c.waiter.requesting
    <3>1. d = c
      BY <2>1, <2>3 DEF UpdateReceived
    <3> QED BY <1>0, <3>1, KeepsItself
  <2>4. CASE ~c.waiter.requesting
    <3>1. d = ApplyUpdates(c, m.block)
      BY <2>1, <2>4 DEF UpdateReceived
    <3>2. Sound(d, told) /\ Keeps(c, d, EventsOf(m.block.updates))
      BY <2>2, <2>4, <3>1, ApplySound
    <3>3. Keeps(c, d, {})
      BY <2>4, <3>2 DEF Keeps
    <3> QED BY <1>1, <3>2, <3>3
  <2> QED BY <2>3, <2>4
<1>2. CASE m.kind = "result"
  <2>1. d = ApplyUpdates(c, m.block)
    BY <1>2 DEF Handled
  <2>2. m.block \in Blocks /\ RightUpdates(m.block.updates) /\ Told(m) = EventsOf(m.block.updates)
        /\ m.block.first = 0
    BY <1>2, MessageTypes DEF RightMessage, Told
  <2>3. Sound(d, told) /\ Keeps(c, d, EventsOf(m.block.updates))
    BY <2>1, <2>2, ApplySound
  <2> QED BY <1>2, <2>2, <2>3
<1>3. CASE m.kind = "affected"
  <2>1. d = ApplyAffected(c, m)
    BY <1>3 DEF Handled
  <2> QED BY <1>3, <2>1, ApplyAffectedSound
<1>4. CASE m.kind = "newSession"
  <2> DEFINE s == [c EXCEPT !.seq = 0]
  <2>1. d = GetDifference(s)
    BY <1>4 DEF Handled
  <2>2. Sound(s, told) /\ Keeps(c, s, {})
    <3>1. 0 \in Seqs
      BY BoundsAssumption DEF Seqs
    <3> HIDE DEF s
    <3>2. s = [c EXCEPT !.seq = 0]
      BY DEF s
    <3> QED BY <1>0, <3>1, <3>2, SeqSound
  <2> HIDE DEF s
  <2>3. Sound(d, told) /\ Keeps(s, d, {})
    BY <2>1, <2>2, GetDifferenceSound
  <2>4. Keeps(c, d, {})
    <3>1. s \in Clients /\ d \in Clients
      BY <2>2, <2>3 DEF Sound
    <3> QED BY <1>0, <2>2, <2>3, <3>1, KeepsTransitive
  <2> QED BY <1>4, <2>3, <2>4
<1>5. CASE m.kind = "tooLong"
  <2>1. d = IF c.waiter.requesting THEN c ELSE GetDifference(c)
    BY <1>5 DEF Handled
  <2>2. CASE c.waiter.requesting
    BY <1>0, <1>5, <2>1, <2>2, KeepsItself
  <2>3. CASE ~c.waiter.requesting
    BY <1>0, <1>5, <2>1, <2>3, GetDifferenceSound
  <2> QED BY <2>2, <2>3
<1> QED BY <1>1, <1>2, <1>3, <1>4, <1>5, MessageTypes

\* An answer that ends the request, and the first part of a difference, which is followed by
\* the request for the next.
LEMMA AnswerSound ==
    ASSUME Logged, NEW c, NEW told, told \subseteq log, NEW m \in Messages,
           m.kind \in Gives, RightMessage(m, c.waiter.good), Sound(c, told),
           c.waiter.requesting, c.request = NoRequest, ~c.failTimer,
           m.kind \in Ends => \A e \in c.waiter.applied : e <= m.pts,
           NEW d, d = Handled(c, m)
    PROVE  /\ Sound(d, told) /\ Onwards(c.waiter, d.waiter)
           /\ m.kind \in Ends => ~d.waiter.requesting
           /\ m.kind = "slice" => /\ d.waiter.requesting /\ d.request.kind = "difference"
                                  /\ ~d.failTimer
<1> DEFINE w == c.waiter
           s == StateDone(FeedDifference(c, m), m)
<1>1. /\ m.pts \in log /\ w.good <= m.pts /\ m.seq \in Seqs
      /\ m.updates = {e \in log : w.good < e /\ e <= m.pts}
  BY MessageTypes DEF RightMessage
<1>2. /\ Asks(s) /\ s.waiter.good = m.pts
      /\ s.waiter.applied = w.applied \cup m.updates
      /\ (\A e \in w.applied : e <= m.pts) => Sound(s, told)
  BY <1>1, StateDoneSound
<1>3. Onwards(w, s.waiter)
  BY <1>1, <1>2 DEF Onwards
<1>4. CASE m.kind = "empty"
  <2>1. m.pts = w.good /\ m.updates = {}
    <3>1. m.pts = w.good
      BY <1>4 DEF RightMessage
    <3>2. \A e \in log : ~(w.good < e /\ e <= w.good)
      <4>1. w.good \in Nat
        BY <1>1, <3>1, LoggedNat
      <4> QED BY <4>1, LoggedNat
    <3> QED BY <1>1, <3>1, <3>2
  <2>2. FeedDifference(c, m) = c
    <3>1. c \in Clients /\ w \in Waiters(Pts)
      BY DEF Sound, Clients
    <3>2. ApplyAll(w, {}) = w
      BY <3>1 DEF ApplyAll, Waiters
    <3> QED BY <2>1, <3>1, <3>2 DEF FeedDifference, Clients
  <2>3. d = s
    <3>1. d = SetRequestingOf(SetState(c, w.good, m.seq), FALSE)
      BY <1>4 DEF Handled, DifferenceDone
    <3> QED BY <2>1, <2>2, <3>1 DEF StateDone
  <2> HIDE DEF s
  <2> QED BY <1>2, <1>3, <1>4, <2>3 DEF Ends, Asks
<1>5. CASE m.kind \in {"state", "final"}
  <2>1. d = s
    BY <1>5 DEF Handled, DifferenceDone
  <2> HIDE DEF s
  <2> QED BY <1>2, <1>3, <1>5, <2>1 DEF Ends, Asks
<1>6. CASE m.kind = "slice"
  <2>1. d = GetDifference(s)
    BY <1>6 DEF Handled, DifferenceDone
  <2> HIDE DEF s
  <2>2. /\ Sound(d, told) /\ Keeps(s, d, {})
        /\ d.waiter.requesting /\ d.request.kind = "difference" /\ ~d.failTimer
        /\ d.waiter.good = s.waiter.good /\ d.waiter.applied = s.waiter.applied
    BY <1>2, <2>1, AskingSound
  <2>3. Onwards(w, d.waiter)
    BY <1>3, <2>2 DEF Onwards
  <2> QED BY <1>6, <2>2, <2>3 DEF Ends
<1> QED BY <1>4, <1>5, <1>6 DEF Gives, Ends

\* A request that failed is waited out.
LEMMA FailedSound ==
    ASSUME NEW c, NEW told, NEW m \in Messages, m.kind = "failed",
           RightMessage(m, c.waiter.good), Sound(c, told),
           c.waiter.requesting, c.request = NoRequest, NEW d, d = Handled(c, m)
    PROVE  Sound(d, told) /\ d.waiter = c.waiter /\ d.failTimer /\ d.request = NoRequest
<1>1. d = [c EXCEPT !.failTimer = TRUE]
  BY DEF Handled
<1>2. /\ d \in Clients /\ d.waiter = c.waiter /\ d.bySeq = c.bySeq /\ d.failTimer
      /\ d.request = NoRequest /\ d.seqTimer = c.seqTimer
  BY <1>1 DEF Sound, Clients
<1>3. c.waiter.good # 0
  BY DEF RightMessage, Answers, Gives, Ends
<1>4. RequestRight(d)
  BY <1>2, <1>3 DEF RequestRight, NoRequest
<1>5. Sound(d, told)
  BY <1>2, <1>4 DEF Sound
<1> QED BY <1>2, <1>5

-----------------------------------------------------------------------------
(* The messages under way                                                  *)

\* Some of the messages tell of no event twice either.
LEMMA SomeTold ==
    ASSUME NEW s, DOMAIN s = 1..Len(s), NEW r, DOMAIN r = 1..Len(r), Some(r, s), ToldOnce(s)
    PROVE  ToldOnce(r) /\ ToldBy(r) \subseteq ToldBy(s)
<1>1. PICK at \in [1..Len(r) -> DOMAIN s] :
          /\ \A i, j \in 1..Len(r) : at[i] = at[j] => i = j
          /\ \A i \in 1..Len(r) : r[i] = s[at[i]]
  BY DEF Some
<1>2. \A i \in 1..Len(r) : at[i] \in DOMAIN s
  BY <1>1
<1>3. ToldOnce(r)
  <2> SUFFICES ASSUME NEW i \in DOMAIN r, NEW j \in DOMAIN r, i # j
               PROVE  Told(r[i]) \cap Told(r[j]) = {}
    BY DEF ToldOnce
  <2>1. at[i] # at[j] /\ at[i] \in DOMAIN s /\ at[j] \in DOMAIN s
    BY <1>1, <1>2
  <2> QED BY <1>1, <2>1 DEF ToldOnce
<1>4. ToldBy(r) \subseteq ToldBy(s)
  <2> SUFFICES ASSUME NEW i \in DOMAIN r PROVE Told(r[i]) \subseteq ToldBy(s)
    BY DEF ToldBy
  <2> QED BY <1>1, <1>2 DEF ToldBy
<1> QED BY <1>3, <1>4

\* The place in the wire before a message was taken out.
Before(i, j) == IF j < i THEN j ELSE j + 1

\* A message is taken out: what it tells of the others do not.
LEMMA TakenOut ==
    ASSUME NEW s \in Seq(Messages), NEW i \in DOMAIN s, ToldOnce(s),
           NEW r, r = RemoveAt(s, i)
    PROVE  /\ r \in Seq(Messages) /\ ToldOnce(r) /\ ToldBy(r) \cap Told(s[i]) = {}
           /\ ToldBy(r) \cup Told(s[i]) \subseteq ToldBy(s)
           /\ \A j \in DOMAIN r : /\ Before(i, j) \in DOMAIN s \ {i} /\ r[j] = s[Before(i, j)]
                                  /\ \A k \in DOMAIN r : k < j => Before(i, k) < Before(i, j)
           /\ \A k \in DOMAIN s \ {i} : \E j \in DOMAIN r : k = Before(i, j)
<1>1. /\ r \in Seq(Messages) /\ DOMAIN r = 1..(Len(s) - 1)
      /\ \A j \in 1..(Len(s) - 1) : r[j] = IF j < i THEN s[j] ELSE s[j + 1]
  BY Removed
<1>2. Len(s) \in Nat /\ DOMAIN s = 1..Len(s) /\ DOMAIN r = 1..Len(r) /\ Len(r) \in Nat
  BY <1>1, LenProperties
<1>3. \A j \in DOMAIN r : /\ Before(i, j) \in DOMAIN s \ {i} /\ r[j] = s[Before(i, j)]
                          /\ \A k \in DOMAIN r : k < j => Before(i, k) < Before(i, j)
  BY <1>1, <1>2 DEF Before
<1>4. Some(r, s)
  <2> DEFINE at == [j \in 1..Len(r) |-> Before(i, j)]
  <2>1. at \in [1..Len(r) -> DOMAIN s]
    BY <1>2, <1>3
  <2>2. \A j, k \in 1..Len(r) : at[j] = at[k] => j = k
    BY <1>2 DEF Before
  <2>3. \A j \in 1..Len(r) : r[j] = s[at[j]]
    BY <1>2, <1>3
  <2> HIDE DEF at
  <2> QED BY <2>1, <2>2, <2>3 DEF Some
<1>5. ToldOnce(r) /\ ToldBy(r) \subseteq ToldBy(s)
  BY <1>2, <1>4, SomeTold
<1>6. ToldBy(r) \cap Told(s[i]) = {}
  <2> SUFFICES ASSUME NEW j \in DOMAIN r PROVE Told(r[j]) \cap Told(s[i]) = {}
    BY DEF ToldBy
  <2> QED BY <1>3 DEF ToldOnce
<1>7. Told(s[i]) \subseteq ToldBy(s)
  BY DEF ToldBy
<1>8. \A k \in DOMAIN s \ {i} : \E j \in DOMAIN r : k = Before(i, j)
  <2> TAKE k \in DOMAIN s \ {i}
  <2>1. CASE k < i
    <3>1. k \in DOMAIN r /\ k = Before(i, k)
      BY <1>1, <1>2, <2>1 DEF Before
    <3> QED BY <3>1
  <2>2. CASE k > i
    <3>1. k - 1 \in DOMAIN r /\ k = Before(i, k - 1)
      BY <1>1, <1>2, <2>2 DEF Before
    <3> QED BY <3>1
  <2> QED BY <1>2, <2>1, <2>2
<1> QED BY <1>1, <1>3, <1>5, <1>6, <1>7, <1>8

\* A message is sent, of events none tells of yet.
LEMMA SentToo ==
    ASSUME NEW s \in Seq(Messages), NEW m \in Messages, ToldOnce(s), ToldBy(s) \cap Told(m) = {},
           NEW r \in Seq(Messages), Len(r) = Len(s) + 1, r[Len(s) + 1] = m,
           \A i \in 1..Len(s) : r[i] = s[i]
    PROVE  /\ ToldOnce(r) /\ ToldBy(r) = ToldBy(s) \cup Told(m)
           /\ Len(s) \in Nat /\ DOMAIN s = 1..Len(s) /\ DOMAIN r = 1..(Len(s) + 1)
           /\ \A i \in DOMAIN s : r[i] = s[i]
           /\ r[Len(s) + 1] = m
           /\ \A i \in DOMAIN r : i \in DOMAIN s \/ i = Len(s) + 1
<1>1. /\ \A i \in 1..Len(s) : r[i] = s[i]
      /\ r[Len(s) + 1] = m
  OBVIOUS
<1>2. Len(s) \in Nat /\ DOMAIN s = 1..Len(s) /\ DOMAIN r = 1..(Len(s) + 1)
  BY LenProperties
<1>3. \A i \in DOMAIN r : i \in DOMAIN s \/ i = Len(s) + 1
  BY <1>2
<1>4. \A i \in DOMAIN s : Told(s[i]) \cap Told(m) = {}
  BY DEF ToldBy
<1>5. ToldOnce(r)
  BY <1>1, <1>2, <1>3, <1>4 DEF ToldOnce
<1>6. ToldBy(r) = ToldBy(s) \cup Told(m)
  <2>1. Len(s) + 1 \in DOMAIN r /\ \A i \in DOMAIN s : i \in DOMAIN r
    BY <1>2
  <2> QED BY <1>1, <1>2, <1>3, <2>1 DEF ToldBy
<1> QED BY <1>1, <1>2, <1>3, <1>5, <1>6

\* A message is put before others.
LEMMA PutBefore ==
    ASSUME NEW S, NEW m \in S, NEW late \in Seq(S), NEW r, r = <<m>> \o late
    PROVE  /\ r \in Seq(S) /\ Len(late) \in Nat
           /\ DOMAIN late = 1..Len(late) /\ DOMAIN r = 1..(Len(late) + 1)
           /\ \A i \in DOMAIN r : r[i] = m \/ (i - 1 \in DOMAIN late /\ r[i] = late[i - 1])
<1> DEFINE first == <<m>>
<1>1. first \in Seq(S) /\ Len(first) = 1 /\ first[1] = m
  OBVIOUS
<1>2. Len(late) \in Nat /\ DOMAIN late = 1..Len(late)
  BY LenProperties
<1> HIDE DEF first
<1>3. r = first \o late
  BY DEF first
<1>4. /\ r \in Seq(S) /\ Len(r) = Len(first) + Len(late)
      /\ \A i \in 1..(Len(first) + Len(late)) :
            r[i] = IF i <= Len(first) THEN first[i] ELSE late[i - Len(first)]
  BY <1>1, <1>3, ConcatProperties
<1>5. DOMAIN r = 1..(Len(late) + 1)
  BY <1>1, <1>2, <1>4, LenProperties
<1>6. \A i \in DOMAIN r : r[i] = m \/ (i - 1 \in DOMAIN late /\ r[i] = late[i - 1])
  <2> TAKE i \in DOMAIN r
  <2>1. i = 1 \/ (i - 1 \in 1..Len(late) /\ ~(i <= 1))
    BY <1>2, <1>5
  <2>2. i \in 1..(1 + Len(late))
    BY <1>2, <1>5
  <2> QED BY <1>1, <1>2, <1>4, <2>1, <2>2
<1> QED BY <1>2, <1>4, <1>5, <1>6

-----------------------------------------------------------------------------
(* The client and the messages under way together                          *)

\* OneSource, of a client and the messages under way.
Single(c, s) ==
    LET answers == {i \in DOMAIN s : s[i].kind \in Answers}
        asked == c.request.kind # "none"
    IN  /\ \A i, j \in answers : i = j
        /\ answers # {} => c.waiter.requesting /\ ~asked /\ ~c.failTimer
        /\ c.waiter.requesting => answers # {} \/ asked \/ c.failTimer

\* AnswerCovers, of a client and the messages under way.
Covers(c, s) ==
    \A j \in DOMAIN s : s[j].kind \in Ends =>
        /\ \A e \in c.waiter.applied : e <= s[j].pts
        /\ \A i \in 1..(j - 1) : s[i].kind = "result" => \A e \in Told(s[i]) : e <= s[j].pts

\* What the messages say is so, for the client that gets them.
AllRight(c, s) == \A i \in DOMAIN s : RightMessage(s[i], c.waiter.good)

\* The invariant, of a client and the messages under way.
Holds(c, s) ==
    /\ s \in Seq(Messages)
    /\ AllRight(c, s) /\ ToldOnce(s) /\ Sound(c, ToldBy(s))
    /\ Single(c, s) /\ Covers(c, s)

\* It is the invariant when they are those of the state.
LEMMA HoldsNow ==
    UpdatesInvariant <=> Logged /\ serverSeq \in Seqs /\ Holds(client, wire)
<1>1. OneSource <=> Single(client, wire)
  BY DEF OneSource, Single
<1>2. AnswerCovers <=> Covers(client, wire)
  BY DEF AnswerCovers, Covers
<1>3. (\A i \in DOMAIN wire : RightMessage(wire[i], client.waiter.good)) <=> AllRight(client, wire)
  BY DEF AllRight
<1>4. Sound(client, ToldBy(wire)) => client \in Clients
  BY DEF Sound
<1> QED BY <1>1, <1>2, <1>3, <1>4 DEF UpdatesInvariant, TypeOK, Logged, Holds

\* A message tells of events of the log.
LEMMA ToldLogged ==
    ASSUME NEW m \in Messages, NEW good, RightMessage(m, good), own \subseteq log
    PROVE  Told(m) \subseteq log
<1>1. CASE m.kind \in {"push", "result"}
  <2>1. RightUpdates(m.block.updates) /\ Told(m) = EventsOf(m.block.updates)
    BY <1>1 DEF RightMessage, Told
  <2> QED BY <2>1 DEF RightUpdates, EventsOf, Whole
<1>2. CASE m.kind = "affected"
  <2>1. Told(m) \subseteq {m.pts} /\ (m.count = 0 \/ m.pts \in own)
    BY <1>2 DEF RightMessage, Told
  <2>2. m.count = 0 => Told(m) = {}
    BY <1>2 DEF Told
  <2> QED BY <2>1, <2>2
<1>3. CASE m.kind \notin {"push", "result", "affected"}
  BY <1>3 DEF Told
<1> QED BY <1>1, <1>2, <1>3

\* So do all of them.
LEMMA AllLogged ==
    ASSUME NEW c, NEW s \in Seq(Messages), AllRight(c, s), own \subseteq log
    PROVE  ToldBy(s) \subseteq log
<1> SUFFICES ASSUME NEW i \in DOMAIN s PROVE Told(s[i]) \subseteq log
  BY DEF ToldBy
<1>1. s[i] \in Messages
  BY ElementOfSeq, LenProperties
<1> QED BY <1>1, ToldLogged DEF AllRight

-----------------------------------------------------------------------------
(* The log grows                                                           *)

\* What the server adds comes after everything before.
Grows(news) ==
    /\ log' = log \cup news
    /\ \A e \in news : e \in Pts /\ \A f \in log : f < e
    /\ own \subseteq own' /\ own' \subseteq log'

\* Its numbers stay numbers.
LEMMA LoggedGrows ==
    ASSUME Logged, NEW news, Grows(news)
    PROVE  Logged'
<1>1. 0 \notin news
  BY LoggedNat DEF Grows, Logged, LogStarts
<1> QED BY <1>1 DEF Grows, Logged, LogStarts

\* A number that ended all the events up to it still does.
LEMMA WholeStays ==
    ASSUME Logged, NEW news, Grows(news), NEW e, NEW n, Whole(e, n)
    PROVE  Whole(e, n)'
<1>1. e \in log /\ n \in 1..e /\ e - n \in log \cup {0}
  BY DEF Whole
<1>2. e \in Nat /\ n \in Nat
  BY <1>1, LoggedNat
<1>3. \A k \in (e - n + 1)..(e - 1) : k \notin log
  BY DEF Whole
<1>4. \A k \in (e - n + 1)..(e - 1) : k \notin news
  BY <1>1, <1>2 DEF Grows
<1>5. e \in log' /\ e - n \in log' \cup {0}
  BY <1>1 DEF Grows
<1>6. \A k \in (e - n + 1)..(e - 1) : k \notin log'
  BY <1>3, <1>4 DEF Grows
<1> QED BY <1>1, <1>5, <1>6 DEF Whole

\* So do those of several updates.
LEMMA UpdatesStay ==
    ASSUME Logged, NEW news, Grows(news), NEW updates, RightUpdates(updates)
    PROVE  RightUpdates(updates)'
BY WholeStays DEF RightUpdates

\* What a message says stays right.
LEMMA MessageStays ==
    ASSUME Logged, NEW news, Grows(news), NEW m \in Messages, NEW good,
           RightMessage(m, good)
    PROVE  RightMessage(m, good)'
<1>1. (m.kind \in {"push", "result"} => RightUpdates(m.block.updates))'
  BY UpdatesStay DEF RightMessage
<1>2. (m.kind = "affected" =>
          IF m.count = 0 THEN ZeroCounts /\ m.pts \in log
          ELSE Whole(m.pts, m.count) /\ m.pts \in own)'
  BY WholeStays DEF RightMessage, Grows
<1>3. (m.kind \in Gives =>
          /\ m.pts \in log /\ good <= m.pts
          /\ m.updates = {e \in log : good < e /\ e <= m.pts})'
  <2> SUFFICES ASSUME m.kind \in Gives
               PROVE  (/\ m.pts \in log /\ good <= m.pts
                       /\ m.updates = {e \in log : good < e /\ e <= m.pts})'
    OBVIOUS
  <2>1. /\ m.pts \in log /\ good <= m.pts
        /\ m.updates = {e \in log : good < e /\ e <= m.pts}
    BY DEF RightMessage
  <2>2. \A e \in news : ~(e <= m.pts)
    BY <2>1, LoggedNat, BoundsAssumption DEF Grows, Pts
  <2>3. {e \in log \cup news : good < e /\ e <= m.pts} = {e \in log : good < e /\ e <= m.pts}
    BY <2>2
  <2> QED BY <2>1, <2>3 DEF Grows
<1> QED BY <1>1, <1>2, <1>3 DEF RightMessage

\* The counting stays right: nothing new is counted yet.
LEMMA CountedStays ==
    ASSUME Logged, NEW news, Grows(news), NEW w \in Waiters(Pts), w.last \in log,
           NEW told, Counted(w, told), NEW more, more \subseteq told \cup news
    PROVE  Counted(w, more)'
<1>1. PICK K \in SUBSET (1..w.last) : Counts(w, K, told)
  BY DEF Counted
<1>2. log \subseteq Nat /\ news \subseteq Nat /\ w.last \in Nat /\ \A e \in news : w.last < e
  BY LoggedNat, BoundsAssumption DEF Grows, Pts
<1>3. \A e \in news : e \notin K
  BY <1>2
<1>4. \A e \in log', k \in K : k <= e /\ (\A j \in k..(e - 1) : j \notin log') => e \in K
  <2> TAKE e \in log', k \in K
  <2> HAVE k <= e /\ (\A j \in k..(e - 1) : j \notin log')
  <2>1. CASE e \in log
    <3>1. \A j \in k..(e - 1) : j \notin log
      BY DEF Grows
    <3> QED BY <1>1, <2>1, <3>1 DEF Counts
  <2>2. CASE e \in news
    <3>1. w.last \in k..(e - 1) /\ w.last \in log'
      BY <1>2, <2>2 DEF Grows
    <3> QED BY <3>1
  <2> QED BY <2>1, <2>2 DEF Grows
<1>5. \A e \in log' \cap K : e \in w.applied \cup w.skipped \cup own'
  BY <1>1, <1>3 DEF Counts, Grows
<1>6. \A e \in more : e > w.good => e \notin K
  BY <1>1, <1>3 DEF Counts
<1>7. Counts(w, K, more)'
  <2>1. Cardinality(K) = w.count /\ 1..w.good \subseteq K
    BY <1>1 DEF Counts
  <2> QED BY <2>1, <1>4, <1>5, <1>6 DEF Counts
<1> QED BY <1>1, <1>7 DEF Counted

\* The waiter stays sound.
LEMMA WaiterStays ==
    ASSUME Logged, NEW news, Grows(news), NEW w \in Waiters(Pts),
           NEW told, WaiterSound(w, told), NEW more, more \subseteq told \cup news
    PROVE  WaiterSound(w, more)'
<1>1. log \subseteq Nat /\ news \subseteq Nat /\ w.good \in Nat /\ 1 \in log
  BY LoggedNat, BoundsAssumption DEF Grows, Pts, Waiters, Logged, LogStarts
<1>2. (w.good = 0 \/ w.good \in log) /\ w.applied \subseteq log
  BY DEF WaiterSound
<1>3. \A e \in news : ~(e <= w.good)
  BY <1>1, <1>2 DEF Grows
<1>4. \A e \in log' : e <= w.good => e \in w.applied \cup own'
  BY <1>3 DEF WaiterSound, Grows
<1>5. CASE w.requesting
  <2>1. w.skipped = {}
    BY <1>5 DEF WaiterSound
  <2> QED BY <1>2, <1>4, <1>5, <2>1 DEF WaiterSound, Grows
<1>6. CASE ~w.requesting
  <2>1. Follows(w, told)
    BY <1>6 DEF WaiterSound
  <2>2. Counted(w, more)'
    BY <2>1, CountedStays DEF Follows
  <2>3. Follows(w, more)'
    BY <2>1, <2>2 DEF Follows, Grows
  <2> QED BY <1>2, <1>4, <1>6, <2>3 DEF WaiterSound, Grows
<1> QED BY <1>5, <1>6

\* So does the client.
LEMMA ClientStays ==
    ASSUME Logged, NEW news, Grows(news), NEW c, NEW told, Sound(c, told),
           NEW more, more \subseteq told \cup news
    PROVE  Sound(c, more)'
<1>1. c \in Clients /\ c.waiter \in Waiters(Pts) /\ BlocksApart(c.bySeq, told)
  BY DEF Sound, Clients
<1>2. PutAside(c.bySeq) \subseteq log
  BY <1>1, PutAsideLogged
<1>3. WaiterSound(c.waiter, more \cup PutAside(c.bySeq))'
  <2>1. WaiterSound(c.waiter, told \cup PutAside(c.bySeq))
    BY DEF Sound
  <2>2. more \cup PutAside(c.bySeq) \subseteq told \cup PutAside(c.bySeq) \cup news
    OBVIOUS
  <2>3. WaiterSound(c.waiter, more \cup PutAside(c.bySeq))'
    BY <1>1, <2>1, <2>2, WaiterStays
  <2> QED BY <2>3 DEF PutAside, EventsOf
<1>4. BlocksApart(c.bySeq, more)'
  <2> SUFFICES ASSUME NEW b \in c.bySeq
               PROVE  /\ RightUpdates(b.updates)'
                      /\ EventsOf(b.updates) \cap more = {}
                      /\ EventsOf(b.updates) \cap PutAside(c.bySeq \ {b}) = {}
    BY DEF BlocksApart, PutAside, EventsOf
  <2>1. /\ RightUpdates(b.updates) /\ EventsOf(b.updates) \cap told = {}
        /\ EventsOf(b.updates) \cap PutAside(c.bySeq \ {b}) = {}
    BY <1>1 DEF BlocksApart
  <2>2. RightUpdates(b.updates)'
    BY <2>1, UpdatesStay
  <2>3. EventsOf(b.updates) \subseteq log
    BY <1>2 DEF PutAside
  <2>4. news \cap log = {}
    BY LoggedNat DEF Grows
  <2> QED BY <2>1, <2>2, <2>3, <2>4
<1>5. RequestRight(c)'
  BY DEF Sound, RequestRight
<1> QED BY <1>1, <1>3, <1>4, <1>5 DEF Sound

\* Nothing changes for the server.
LEMMA NoNews ==
    ASSUME Logged, UNCHANGED <<log, own>>
    PROVE  Grows({})
BY DEF Grows, Logged

\* So do the messages under way, with the client that waits for them.
LEMMA HoldsStays ==
    ASSUME Logged, NEW news, Grows(news), NEW c, NEW s, Holds(c, s)
    PROVE  Holds(c, s)'
<1>1. AllRight(c, s)'
  <2> SUFFICES ASSUME NEW i \in DOMAIN s PROVE RightMessage(s[i], c.waiter.good)'
    BY DEF AllRight
  <2>1. s[i] \in Messages
    BY ElementOfSeq, LenProperties DEF Holds
  <2>2. RightMessage(s[i], c.waiter.good)
    BY DEF Holds, AllRight
  <2> QED BY <2>1, <2>2, MessageStays
<1>2. Sound(c, ToldBy(s))'
  <2>1. Sound(c, ToldBy(s))
    BY DEF Holds
  <2> DEFINE told == ToldBy(s)
  <2>2. Sound(c, told)'
    <3> HIDE DEF told
    <3> QED BY <2>1, ClientStays DEF told
  <2> QED BY <2>2 DEF ToldBy, Told, EventsOf
<1> QED BY <1>1, <1>2 DEF Holds, ToldOnce, Told, EventsOf, Single, Covers

\* It is the invariant of the next state when they are those of that state.
LEMMA HoldsNext ==
    ASSUME NEW c, c = client', NEW s, s = wire', Logged', (serverSeq \in Seqs)', Holds(c, s)'
    PROVE  UpdatesInvariant'
<1>0. Holds(client, wire)'
  OBVIOUS
<1>1. OneSource' <=> Single(client, wire)'
  BY DEF OneSource, Single
<1>2. AnswerCovers' <=> Covers(client, wire)'
  BY DEF AnswerCovers, Covers
<1>3. (\A i \in DOMAIN wire : RightMessage(wire[i], client.waiter.good))' <=> AllRight(client, wire)'
  BY DEF AllRight
<1>4. Sound(client, ToldBy(wire))' => client' \in Clients
  BY DEF Sound
<1> QED BY <1>0, <1>1, <1>2, <1>3, <1>4 DEF UpdatesInvariant, TypeOK, Logged, Holds

-----------------------------------------------------------------------------
(* The server                                                              *)

\* A message is sent that answers no difference, of events that are new.
LEMMA SendingHolds ==
    ASSUME Logged, NEW news, Grows(news), NEW c, NEW s, Holds(c, s), NEW m \in Messages,
           m.kind \notin Answers, Told(m) \subseteq news, RightMessage(m, c.waiter.good)',
           NEW r, r = Append(s, m)
    PROVE  Holds(c, r)'
<1> DEFINE told == ToldBy(s)
<1>0. s \in Seq(Messages) /\ ToldOnce(s) /\ Holds(c, s)' /\ AllRight(c, s) /\ Sound(c, told)
  BY HoldsStays DEF Holds
<1>1. told \subseteq log /\ news \cap log = {}
  BY <1>0, AllLogged, LoggedNat DEF Grows, Logged
<1>2. told \cap Told(m) = {}
  BY <1>1
<1>3. /\ r \in Seq(Messages) /\ ToldOnce(r) /\ ToldBy(r) = told \cup Told(m)
      /\ Len(s) \in Nat /\ DOMAIN s = 1..Len(s) /\ DOMAIN r = 1..(Len(s) + 1)
      /\ \A i \in DOMAIN s : r[i] = s[i]
      /\ r[Len(s) + 1] = m
      /\ \A i \in DOMAIN r : i \in DOMAIN s \/ i = Len(s) + 1
  <2>1. s \in Seq(Messages) /\ ToldOnce(s)
    BY <1>0
  <2>2. ToldBy(s) \cap Told(m) = {}
    BY <1>2
  <2>3. /\ r \in Seq(Messages) /\ Len(r) = Len(s) + 1 /\ r[Len(s) + 1] = m
        /\ \A i \in 1..Len(s) : r[i] = s[i]
    BY <2>1, AppendProperties
  <2> QED BY ZenonT(30), <1>2, <2>1, <2>2, <2>3, SentToo
<1>4. AllRight(c, r)'
  <2>1. AllRight(c, s)'
    BY <1>0 DEF Holds
  <2> QED BY <1>3, <2>1 DEF AllRight
<1>5. Sound(c, ToldBy(r))'
  <2> DEFINE more == ToldBy(r)
  <2>1. more \subseteq told \cup news
    BY <1>3
  <2>2. Sound(c, more)'
    <3> HIDE DEF more, told
    <3> QED BY <1>0, <2>1, ClientStays
  <2> QED BY <2>2 DEF ToldBy, Told, EventsOf
<1>6. Single(c, r)'
  <2>1. Single(c, s)
    BY DEF Holds
  <2>2. {i \in DOMAIN r : r[i].kind \in Answers} = {i \in DOMAIN s : s[i].kind \in Answers}
    BY <1>3
  <2> QED BY <2>1, <2>2 DEF Single
<1>7. Covers(c, r)'
  <2> SUFFICES ASSUME NEW j \in DOMAIN r, r[j].kind \in Ends
               PROVE  /\ \A e \in c.waiter.applied : e <= r[j].pts
                      /\ \A i \in 1..(j - 1) : r[i].kind = "result" =>
                            \A e \in Told(r[i]) : e <= r[j].pts
    BY DEF Covers, Told, EventsOf
  <2>1. j \in DOMAIN s /\ r[j] = s[j]
    BY <1>3 DEF Answers, Gives
  <2>2. \A i \in 1..(j - 1) : r[i] = s[i]
    BY <1>3, <2>1
  <2> QED BY <2>1, <2>2 DEF Covers, Holds
<1>8. ToldOnce(r)'
  BY <1>3 DEF ToldOnce, Told, EventsOf
<1> QED BY <1>3, <1>4, <1>5, <1>6, <1>7, <1>8 DEF Holds

\* The request is answered: from where the client still is, up to where the server is if
\* that ends it.
LEMMA AnsweringHolds ==
    ASSUME Logged, NEW c, NEW s, Holds(c, s), c.request.kind # "none", NEW m \in Messages,
           m.kind \in Answers, RightMessage(m, c.waiter.good),
           m.kind \in Ends => m.pts = Position,
           NEW d, d = [c EXCEPT !.request = NoRequest], NEW r, r = Append(s, m)
    PROVE  Holds(d, r)
<1>0. /\ s \in Seq(Messages) /\ ToldOnce(s) /\ AllRight(c, s) /\ Sound(c, ToldBy(s))
      /\ c \in Clients
  BY DEF Holds, Sound
<1>1. ToldBy(s) \subseteq log
  BY <1>0, AllLogged DEF Logged
<1>2. Told(m) = {}
  BY DEF Told, Answers, Gives, Ends
<1>3. /\ r \in Seq(Messages) /\ ToldOnce(r) /\ ToldBy(r) = ToldBy(s)
      /\ Len(s) \in Nat /\ DOMAIN s = 1..Len(s) /\ DOMAIN r = 1..(Len(s) + 1)
      /\ \A i \in DOMAIN s : r[i] = s[i]
      /\ r[Len(s) + 1] = m
      /\ \A i \in DOMAIN r : i \in DOMAIN s \/ i = Len(s) + 1
  <2>1. s \in Seq(Messages) /\ ToldOnce(s)
    BY <1>0
  <2>2. ToldBy(s) \cap Told(m) = {}
    BY <1>2
  <2>3. /\ r \in Seq(Messages) /\ Len(r) = Len(s) + 1 /\ r[Len(s) + 1] = m
        /\ \A i \in 1..Len(s) : r[i] = s[i]
    BY <2>1, AppendProperties
  <2>4. /\ ToldOnce(r) /\ ToldBy(r) = ToldBy(s) \cup Told(m)
        /\ Len(s) \in Nat /\ DOMAIN s = 1..Len(s) /\ DOMAIN r = 1..(Len(s) + 1)
        /\ \A j \in DOMAIN s : r[j] = s[j]
        /\ r[Len(s) + 1] = m
        /\ \A j \in DOMAIN r : j \in DOMAIN s \/ j = Len(s) + 1
    BY ZenonT(30), <2>1, <2>2, <2>3, SentToo
  <2> QED BY <1>2, <2>3, <2>4
<1>4. /\ d \in Clients /\ d.waiter = c.waiter /\ d.bySeq = c.bySeq /\ d.seqTimer = c.seqTimer
      /\ d.failTimer = c.failTimer /\ d.request = NoRequest
  <2>1. NoRequest \in Requests
    BY BoundsAssumption DEF NoRequest, Requests, Pts
  <2> QED BY <1>0, <2>1 DEF Clients
<1>5. c.waiter.requesting /\ ~c.failTimer
  BY <1>0 DEF Sound, RequestRight
<1>6. Sound(d, ToldBy(r))
  <2>1. RequestRight(d)
    BY <1>4, <1>5 DEF RequestRight, NoRequest
  <2> QED BY <1>0, <1>3, <1>4, <2>1 DEF Sound
<1>7. AllRight(d, r)
  BY <1>0, <1>3, <1>4 DEF AllRight
<1>8. Single(d, r)
  <2>1. \A i \in DOMAIN s : s[i].kind \notin Answers
    BY DEF Holds, Single
  <2>2. {i \in DOMAIN r : r[i].kind \in Answers} = {Len(s) + 1}
    BY <1>3, <2>1
  <2> QED BY <1>4, <1>5, <2>2 DEF Single, NoRequest
<1>9. Covers(d, r)
  <2> SUFFICES ASSUME NEW j \in DOMAIN r, r[j].kind \in Ends
               PROVE  /\ \A e \in d.waiter.applied : e <= r[j].pts
                      /\ \A i \in 1..(j - 1) : r[i].kind = "result" =>
                            \A e \in Told(r[i]) : e <= r[j].pts
    BY DEF Covers
  <2>1. \A i \in DOMAIN s : s[i].kind \notin Answers
    BY DEF Holds, Single
  <2>2. j = Len(s) + 1 /\ r[j] = m /\ m.pts = Position
    BY <1>3, <2>1 DEF Answers, Gives
  <2>3. \A e \in log : e <= m.pts
    BY <2>2, ServerPosition DEF Logged
  <2>4. d.waiter.applied \subseteq log
    BY <1>0, <1>4 DEF Sound, WaiterSound
  <2>5. \A i \in 1..(j - 1) : Told(r[i]) \subseteq log
    BY <1>1, <1>3, <2>2 DEF ToldBy
  <2> QED BY <2>2, <2>3, <2>4, <2>5
<1> QED BY <1>3, <1>6, <1>7, <1>8, <1>9 DEF Holds

\* The session is created anew: the answers of other requests are left, and a request that
\* is not answered is made again.
LEMMA NewSessionHolds ==
    ASSUME Logged, NEW c, NEW s, Holds(c, s), NEW d,
           d = (IF ~c.waiter.requesting \/ c.failTimer THEN c
                ELSE [c EXCEPT !.request =
                         [kind |-> IF Inited(c.waiter) THEN "difference" ELSE "state",
                          from |-> c.waiter.good]]),
           NEW r, r = <<[kind |-> "newSession"]>> \o Late(s)
    PROVE  Holds(d, r)
<1> DEFINE n == [kind |-> "newSession"]
           late == Late(s)
<1>0. /\ s \in Seq(Messages) /\ ToldOnce(s) /\ AllRight(c, s) /\ Sound(c, ToldBy(s))
      /\ c \in Clients /\ c.waiter \in Waiters(Pts)
  BY DEF Holds, Sound, Clients
<1>1. /\ late \in Seq(Messages) /\ Some(late, s)
      /\ \A i \in DOMAIN late : late[i].kind \in {"result", "affected"}
  BY <1>0, LateKeeps
<1>2. n \in Messages
  BY DEF Messages
<1>3. /\ r \in Seq(Messages) /\ Len(late) \in Nat
      /\ DOMAIN late = 1..Len(late) /\ DOMAIN r = 1..(Len(late) + 1)
      /\ \A i \in DOMAIN r : r[i] = n \/ (i - 1 \in DOMAIN late /\ r[i] = late[i - 1])
  BY <1>1, <1>2, PutBefore
<1>4. Len(late) \in Nat /\ DOMAIN late = 1..Len(late) /\ DOMAIN r = 1..(Len(late) + 1)
  BY <1>3
<1>5. \A i \in DOMAIN r : r[i] = n \/ (i - 1 \in DOMAIN late /\ r[i] = late[i - 1])
  BY <1>3
<1>6. ToldOnce(late) /\ ToldBy(late) \subseteq ToldBy(s)
  <2>1. DOMAIN s = 1..Len(s)
    BY <1>0, LenProperties
  <2> QED BY <1>0, <1>1, <1>4, <2>1, SomeTold
<1>7. Told(n) = {}
  BY DEF Told
<1>8. ToldBy(r) \subseteq ToldBy(s)
  <2> SUFFICES ASSUME NEW i \in DOMAIN r PROVE Told(r[i]) \subseteq ToldBy(s)
    BY DEF ToldBy
  <2>1. i - 1 \in DOMAIN late => Told(late[i - 1]) \subseteq ToldBy(late)
    BY DEF ToldBy
  <2> QED BY <1>5, <1>6, <1>7, <2>1
<1>9. ToldOnce(r)
  <2> SUFFICES ASSUME NEW i \in DOMAIN r, NEW j \in DOMAIN r, i # j
               PROVE  Told(r[i]) \cap Told(r[j]) = {}
    BY DEF ToldOnce
  <2>1. i - 1 # j - 1
    BY <1>4
  <2> HIDE DEF n, late
  <2> QED BY <1>5, <1>6, <1>7, <2>1 DEF ToldOnce
<1>10. /\ d \in Clients /\ d.waiter = c.waiter /\ d.bySeq = c.bySeq /\ d.seqTimer = c.seqTimer
       /\ d.failTimer = c.failTimer
  <2>1. [kind |-> IF Inited(c.waiter) THEN "difference" ELSE "state", from |-> c.waiter.good]
           \in Requests
    BY <1>0 DEF Requests, Waiters
  <2> QED BY <1>0, <2>1 DEF Clients
<1>11. c.waiter.good \in Nat
  BY <1>0, BoundsAssumption DEF Waiters, Pts
<1>13. RequestRight(d)
  <2>1. CASE ~c.waiter.requesting \/ c.failTimer
    BY <1>0, <2>1 DEF Sound
  <2>2. CASE c.waiter.requesting /\ ~c.failTimer
    <3>1. /\ d.request.from = c.waiter.good
          /\ d.request.kind = IF c.waiter.good > 0 THEN "difference" ELSE "state"
      BY <1>0, <2>2 DEF Inited, Clients
    <3> QED BY <1>10, <1>11, <2>2, <3>1 DEF RequestRight
  <2> QED BY <2>1, <2>2
<1>14. Sound(d, ToldBy(r))
  <2>1. Sound(c, ToldBy(r))
    BY <1>0, <1>8, ClientLess
  <2> QED BY <1>10, <1>13, <2>1 DEF Sound
<1>15. AllRight(d, r)
  <2> SUFFICES ASSUME NEW i \in DOMAIN r PROVE RightMessage(r[i], d.waiter.good)
    BY DEF AllRight
  <2>1. RightMessage(n, d.waiter.good)
    BY DEF RightMessage, Answers, Gives, Ends
  <2>2. \A j \in DOMAIN late : RightMessage(late[j], d.waiter.good)
    BY <1>0, <1>1, <1>4, <1>10 DEF Some, AllRight
  <2> QED BY <1>5, <2>1, <2>2
<1>16. \A i \in DOMAIN r : r[i].kind \notin Answers
  <2>1. n.kind = "newSession"
    OBVIOUS
  <2> HIDE DEF n, late
  <2>2. \A i \in DOMAIN r : r[i].kind \in {"newSession", "result", "affected"}
    BY <1>1, <1>5, <2>1
  <2> QED BY <2>2 DEF Answers, Gives, Ends
<1>17. Single(d, r)
  <2>1. {i \in DOMAIN r : r[i].kind \in Answers} = {}
    BY <1>16
  <2>2. d.waiter.requesting => d.request.kind # "none" \/ d.failTimer
    BY <1>0 DEF Clients
  <2> QED BY <2>1, <2>2 DEF Single
<1>18. Covers(d, r)
  BY <1>16 DEF Covers, Answers, Gives
<1> QED BY <1>3, <1>9, <1>14, <1>15, <1>17, <1>18 DEF Holds

\* What happens is new, and is told of as it is.
LEMMA HappenRight ==
    ASSUME Logged, NEW updates \in News, Happen(updates), own' = own
    PROVE  /\ Grows(EventsOf(updates)) /\ updates \in Seq(PtsUpdates)
           /\ RightUpdates(updates)'
<1> PICK p : p = Position
  OBVIOUS
<1>0. p \in log /\ p \in Nat \ {0} /\ p \in Pts /\ log \subseteq Nat /\ \A e \in log : e <= p
  BY ServerPosition, LoggedNat, BoundsAssumption DEF Logged, Pts
<1>1. EventsOf(updates) \subseteq Pts
      /\ log' = log \cup EventsOf(updates)
  <2>1. \A i \in DOMAIN updates : updates[i].pts \in Nat /\ updates[i].pts <= MaxPts
    BY <1>0 DEF News, SkipLongest, Happen
  <2> QED BY <2>1 DEF EventsOf, Happen, Pts
<1>2. \A e \in EventsOf(updates) : e > p
  BY <1>0 DEF EventsOf, News, SkipLongest
<1>3. Grows(EventsOf(updates))
  <2>1. EventsOf(updates) \subseteq Nat
    BY <1>1, BoundsAssumption DEF Pts
  <2>2. \A e \in EventsOf(updates) : \A f \in log : f < e
    BY <1>0, <1>2, <2>1
  <2> QED BY <1>1, <2>2 DEF Grows, Logged
<1>4. CASE \E n \in 1..SkipLongest, x \in BOOLEAN :
              updates = <<[pts |-> p + n, count |-> n, stranger |-> x]>>
  <2> PICK n \in 1..SkipLongest, x \in BOOLEAN :
              updates = <<[pts |-> p + n, count |-> n, stranger |-> x]>>
    BY <1>4
  <2>1. n \in 1..2 /\ DOMAIN updates = {1} /\ updates[1].pts = p + n /\ updates[1].count = n
    BY DEF SkipLongest
  <2>2. p + n \in Pts
    BY <1>1, <2>1 DEF EventsOf
  <2>3. n \in Pts
    BY <1>0, <2>1, <2>2, BoundsAssumption DEF Pts
  <2>4. updates \in Seq(PtsUpdates)
    BY <2>2, <2>3 DEF PtsUpdates
  <2>5. log' = log \cup {p + n}
    BY <1>1, <2>1 DEF EventsOf
  <2>6. Whole(p + n, n)'
    <3>1. /\ (p + n) - n = p /\ n \in 1..(p + n)
          /\ \A k \in ((p + n) - n + 1)..((p + n) - 1) : k > p /\ k # p + n
      BY <1>0, <2>1
    <3> QED BY <1>0, <2>5, <3>1 DEF Whole
  <2> QED BY <1>3, <2>1, <2>4, <2>6 DEF RightUpdates
<1>5. CASE \E x \in BOOLEAN : updates = <<[pts |-> p + 1, count |-> 1, stranger |-> x],
                                          [pts |-> p + 2, count |-> 1, stranger |-> FALSE]>>
  <2> PICK x \in BOOLEAN : updates = <<[pts |-> p + 1, count |-> 1, stranger |-> x],
                                       [pts |-> p + 2, count |-> 1, stranger |-> FALSE]>>
    BY <1>5
  <2>1. DOMAIN updates = {1, 2} /\ updates[1].pts = p + 1 /\ updates[1].count = 1
        /\ updates[2].pts = p + 2 /\ updates[2].count = 1
    OBVIOUS
  <2>2. p + 1 \in Pts /\ p + 2 \in Pts
    BY <1>1, <2>1 DEF EventsOf
  <2>3. 1 \in Pts
    BY BoundsAssumption DEF Pts
  <2>4. updates \in Seq(PtsUpdates)
    BY <2>2, <2>3 DEF PtsUpdates
  <2>5. log' = log \cup {p + 1, p + 2}
    BY <1>1, <2>1 DEF EventsOf
  <2>6. Whole(p + 1, 1)' /\ Whole(p + 2, 1)'
    <3>1. /\ (p + 1) - 1 = p /\ 1 \in 1..(p + 1) /\ (p + 2) - 1 = p + 1 /\ 1 \in 1..(p + 2)
          /\ ((p + 1) - 1 + 1)..((p + 1) - 1) = {} /\ ((p + 2) - 1 + 1)..((p + 2) - 1) = {}
      BY <1>0
    <3> QED BY <1>0, <2>5, <3>1 DEF Whole
  <2>7. p + 1 # p + 2
    BY <1>0
  <2> QED BY <1>3, <2>1, <2>4, <2>6, <2>7 DEF RightUpdates
<1> QED BY <1>4, <1>5 DEF News

\* A step of the server that sends no answer to the client's own request.
LEMMA SentKeeps ==
    ASSUME UpdatesInvariant, NEW news, Grows(news), (serverSeq \in Seqs)', client' = client,
           NEW m \in Messages, m.kind \notin Answers, Told(m) \subseteq news,
           RightMessage(m, client.waiter.good)', wire' = Append(wire, m)
    PROVE  UpdatesInvariant'
<1>1. Logged /\ Holds(client, wire)
  BY HoldsNow
<1>2. Logged'
  BY <1>1, LoggedGrows
<1> PICK c : c = client
  OBVIOUS
<1> PICK s : s = wire
  OBVIOUS
<1> PICK r : r = Append(s, m)
  OBVIOUS
<1>3. c = client' /\ r = wire' /\ Holds(c, s) /\ RightMessage(m, c.waiter.good)'
  BY <1>1
<1>4. Holds(c, r)'
  BY <1>1, <1>3, SendingHolds
<1> QED BY <1>2, <1>3, <1>4, HoldsNext

\* A step of the server that answers the request.
LEMMA AnsweredKeeps ==
    ASSUME UpdatesInvariant, client.request.kind # "none", Answered, UNCHANGED serverVars,
           NEW m \in Messages, m.kind \in Answers, RightMessage(m, client.waiter.good),
           m.kind \in Ends => m.pts = Position, wire' = Append(wire, m)
    PROVE  UpdatesInvariant'
<1>1. Logged /\ serverSeq \in Seqs /\ Holds(client, wire)
  BY HoldsNow
<1>2. Grows({})
  BY <1>1, NoNews DEF serverVars
<1>3. Logged' /\ (serverSeq \in Seqs)'
  BY <1>1, <1>2, LoggedGrows DEF serverVars
<1> PICK c : c = client
  OBVIOUS
<1> PICK s : s = wire
  OBVIOUS
<1> PICK d : d = [c EXCEPT !.request = NoRequest]
  OBVIOUS
<1> PICK r : r = Append(s, m)
  OBVIOUS
<1>4. d = client' /\ r = wire'
  BY DEF Answered
<1>5. Holds(d, r)
  BY <1>1, AnsweringHolds
<1>6. Holds(d, r)'
  BY <1>1, <1>2, <1>5, HoldsStays
<1> QED BY <1>3, <1>4, <1>6, HoldsNext

\* Push
LEMMA PushKeeps ==
    ASSUME UpdatesInvariant, Push
    PROVE  UpdatesInvariant'
<1>0. Logged /\ serverSeq \in Seqs
  BY HoldsNow
<1>1. PICK updates \in News : \E b \in BlocksOf(updates) :
          /\ b.seq <= MaxSeq
          /\ Happen(updates)
          /\ Sent([kind |-> "push", block |-> b])
          /\ serverSeq' = IF b.seq = 0 THEN serverSeq ELSE b.seq
          /\ UNCHANGED <<client, own>>
  BY DEF Push
<1>2. PICK b \in BlocksOf(updates) :
          /\ b.seq <= MaxSeq
          /\ Happen(updates)
          /\ Sent([kind |-> "push", block |-> b])
          /\ serverSeq' = IF b.seq = 0 THEN serverSeq ELSE b.seq
          /\ UNCHANGED <<client, own>>
  BY <1>1
<1>3. /\ Grows(EventsOf(updates)) /\ updates \in Seq(PtsUpdates) /\ RightUpdates(updates)'
  BY <1>0, <1>2, HappenRight
<1>4. b.updates = updates /\ b \in Blocks
  <2>1. serverSeq \in Nat
    BY <1>0, BoundsAssumption DEF Seqs
  <2> QED BY <1>2, <1>3, <2>1, BoundsAssumption DEF BlocksOf, Blocks, Seqs
<1>5. (serverSeq \in Seqs)'
  BY <1>0, <1>2, <1>4 DEF Blocks
<1> DEFINE m == [kind |-> "push", block |-> b]
<1>6. m \in Messages /\ m.kind \notin Answers /\ Told(m) = EventsOf(updates)
  BY <1>4 DEF Messages, Answers, Gives, Ends, Told
<1>7. RightMessage(m, client.waiter.good)'
  BY <1>3, <1>4 DEF RightMessage, Answers, Gives, Ends
<1>8. wire' = Append(wire, m) /\ client' = client
  BY <1>2 DEF Sent
<1> HIDE DEF m
<1> QED BY <1>3, <1>5, <1>6, <1>7, <1>8, SentKeeps

\* PushLost
LEMMA PushLostKeeps ==
    ASSUME UpdatesInvariant, PushLost
    PROVE  UpdatesInvariant'
<1>0. Logged /\ serverSeq \in Seqs /\ Holds(client, wire)
  BY HoldsNow
<1>1. PICK updates \in News : Happen(updates)
  BY DEF PushLost
<1>2. Grows(EventsOf(updates))
  BY <1>0, <1>1, HappenRight DEF PushLost
<1>3. Logged' /\ (serverSeq \in Seqs)'
  BY <1>0, <1>2, LoggedGrows DEF PushLost
<1> PICK c : c = client
  OBVIOUS
<1> PICK s : s = wire
  OBVIOUS
<1>4. c = client' /\ s = wire' /\ Holds(c, s)
  BY <1>0 DEF PushLost
<1>5. Holds(c, s)'
  BY <1>0, <1>2, <1>4, HoldsStays
<1> QED BY <1>3, <1>4, <1>5, HoldsNext

\* AnswerResult
LEMMA AnswerResultKeeps ==
    ASSUME UpdatesInvariant, AnswerResult
    PROVE  UpdatesInvariant'
<1>0. Logged /\ serverSeq \in Seqs
  BY HoldsNow
<1>1. PICK updates \in News :
         /\ ~updates[1].stranger
         /\ Happen(updates)
         /\ Sent([kind |-> "result",
                  block |-> [first |-> 0, seq |-> 0, updates |-> updates]])
  BY DEF AnswerResult
<1>2. client' = client /\ own' = own /\ serverSeq' = serverSeq
  BY DEF AnswerResult
<1>3. /\ Grows(EventsOf(updates)) /\ updates \in Seq(PtsUpdates) /\ RightUpdates(updates)'
  BY <1>0, <1>1, <1>2, HappenRight
<1> DEFINE b == [first |-> 0, seq |-> 0, updates |-> updates]
           m == [kind |-> "result", block |-> b]
<1>4. b \in Blocks
  BY <1>3, BoundsAssumption DEF Blocks, Seqs
<1>5. m \in Messages /\ m.kind \notin Answers /\ Told(m) = EventsOf(updates)
  BY <1>4 DEF Messages, Answers, Gives, Ends, Told
<1>6. RightMessage(m, client.waiter.good)'
  BY <1>3 DEF RightMessage, Answers, Gives, Ends
<1>7. wire' = Append(wire, m)
  BY <1>1 DEF Sent
<1> HIDE DEF m
<1>8. (serverSeq \in Seqs)'
  BY <1>0, <1>2
<1> QED BY <1>2, <1>3, <1>5, <1>6, <1>7, <1>8, SentKeeps

\* AnswerAffected: an event of the client's own doing, or the number of the last one again.
LEMMA AnswerAffectedKeeps ==
    ASSUME UpdatesInvariant, AnswerAffected
    PROVE  UpdatesInvariant'
<1>0. Logged /\ serverSeq \in Seqs
  BY HoldsNow
<1> PICK p : p = Position
  OBVIOUS
<1>1. p \in log /\ p \in Nat \ {0} /\ p \in Pts /\ log \subseteq Nat /\ \A e \in log : e <= p
  BY <1>0, ServerPosition, LoggedNat, BoundsAssumption DEF Logged, Pts
<1>2. PICK n \in (IF ZeroCounts THEN 0 ELSE 1)..SkipLongest :
         /\ p + n <= MaxPts
         /\ log' = log \cup {p + n}
         /\ own' = IF n = 0 THEN own ELSE own \cup {p + n}
         /\ Sent([kind |-> "affected", pts |-> p + n, count |-> n])
  BY DEF AnswerAffected
<1>3. client' = client /\ serverSeq' = serverSeq
  BY DEF AnswerAffected
<1>4. n \in 0..2 /\ (n = 0 => ZeroCounts)
  BY ZeroAssumption DEF SkipLongest
<1> DEFINE news == IF n = 0 THEN {} ELSE {p + n}
           m == [kind |-> "affected", pts |-> p + n, count |-> n]
<1>5. p + n \in Pts /\ n \in Pts
  BY <1>1, <1>2, <1>4, BoundsAssumption DEF Pts
<1>6. Grows(news)
  <2>1. CASE n = 0
    <3>1. p + n = p
      BY <1>1, <2>1
    <3>2. log' = log
      BY <1>1, <1>2, <3>1
    <3> QED BY <1>0, <1>2, <2>1, <3>2 DEF Grows, Logged
  <2>2. CASE n # 0
    <3>1. \A f \in log : f < p + n
      BY <1>1, <1>4, <2>2
    <3> QED BY <1>0, <1>2, <1>5, <2>2, <3>1 DEF Grows, Logged
  <2> QED BY <2>1, <2>2
<1>7. m \in Messages /\ m.kind \notin Answers /\ Told(m) \subseteq news
  BY <1>5 DEF Messages, Answers, Gives, Ends, Told
<1>8. RightMessage(m, client.waiter.good)'
  <2>1. n = 0 => ZeroCounts /\ p + n \in log'
    BY <1>2, <1>4
  <2>2. n # 0 => p + n \in own' /\ Whole(p + n, n)'
    <3> HAVE n # 0
    <3>1. /\ (p + n) - n = p /\ n \in 1..(p + n)
          /\ \A k \in ((p + n) - n + 1)..((p + n) - 1) : k > p /\ k # p + n
      BY <1>1, <1>4
    <3> QED BY <1>1, <1>2, <3>1 DEF Whole
  <2> QED BY <2>1, <2>2 DEF RightMessage, Answers, Gives, Ends
<1>9. wire' = Append(wire, m) /\ (serverSeq \in Seqs)'
  BY <1>0, <1>2, <1>3 DEF Sent
<1> HIDE DEF m, news
<1> QED BY <1>3, <1>6, <1>7, <1>8, <1>9, SentKeeps

\* TooLong
LEMMA TooLongKeeps ==
    ASSUME UpdatesInvariant, TooLong
    PROVE  UpdatesInvariant'
<1>0. Logged /\ serverSeq \in Seqs
  BY HoldsNow
<1> DEFINE m == [kind |-> "tooLong"]
<1>1. wire' = Append(wire, m) /\ client' = client /\ Grows({}) /\ (serverSeq \in Seqs)'
  BY <1>0, NoNews DEF TooLong, Sent, serverVars
<1>2. m \in Messages /\ m.kind \notin Answers /\ Told(m) \subseteq {}
  BY DEF Messages, Answers, Gives, Ends, Told
<1>3. RightMessage(m, client.waiter.good)'
  BY DEF RightMessage, Answers, Gives, Ends
<1> HIDE DEF m
<1> QED BY <1>1, <1>2, <1>3, SentKeeps

-----------------------------------------------------------------------------
(* The server answers the request of the client                            *)

\* What the invariant says of the request.
LEMMA RequestIs ==
    ASSUME UpdatesInvariant, client.request.kind # "none"
    PROVE  /\ client.request.from = client.waiter.good
           /\ client.request.kind = "state" => client.waiter.good = 0
           /\ client.request.kind = "difference" => client.waiter.good # 0
           /\ client.waiter.good \in Nat /\ client.waiter.good \in log \cup {0}
<1>1. Sound(client, ToldBy(wire))
  BY DEF UpdatesInvariant
<1>2. client.waiter.good \in Nat
  BY <1>1, BoundsAssumption DEF Sound, Clients, Waiters, Pts
<1> QED BY <1>1, <1>2 DEF Sound, RequestRight, WaiterSound

\* A difference from where the client is, up to an event.
LEMMA DifferenceRight ==
    ASSUME UpdatesInvariant, NEW from, from = client.waiter.good, NEW upto \in log,
           from <= upto, NEW kind \in Gives, kind = "empty" => upto = from,
           kind = "state" <=> from = 0, NEW m, m = Difference(kind, upto, from)
    PROVE  /\ m \in Messages /\ m.kind = kind /\ m.pts = upto
           /\ RightMessage(m, client.waiter.good)
<1>1. log \subseteq Pts /\ serverSeq \in Seqs
  BY DEF UpdatesInvariant, TypeOK
<1>2. /\ m.kind = kind /\ m.pts = upto /\ m.seq = serverSeq
      /\ m.updates = {e \in log : from < e /\ e <= upto}
  BY DEF Difference
<1>3. m \in Messages
  BY <1>1 DEF Messages, Difference, Gives, Ends
<1>4. RightMessage(m, client.waiter.good)
  BY <1>2 DEF RightMessage, Gives, Ends
<1> QED BY <1>2, <1>3, <1>4

\* AnswerState
LEMMA AnswerStateKeeps ==
    ASSUME UpdatesInvariant, AnswerState
    PROVE  UpdatesInvariant'
<1>1. client.waiter.good = 0
  BY RequestIs DEF AnswerState
<1>2. Position \in log /\ 0 <= Position
  BY ServerPosition, BoundsAssumption DEF UpdatesInvariant, TypeOK, Pts
<1> PICK m : m = Difference("state", Position, 0)
  OBVIOUS
<1>3. /\ m \in Messages /\ m.kind = "state" /\ m.pts = Position
      /\ RightMessage(m, client.waiter.good)
  BY <1>1, <1>2, DifferenceRight DEF Gives, Ends
<1>4. /\ client.request.kind # "none" /\ Answered /\ UNCHANGED serverVars
      /\ wire' = Append(wire, m)
  BY DEF AnswerState, Sent
<1> QED BY <1>3, <1>4, AnsweredKeeps DEF Answers, Gives, Ends

\* AnswerDifference
LEMMA AnswerDifferenceKeeps ==
    ASSUME UpdatesInvariant, AnswerDifference
    PROVE  UpdatesInvariant'
<1> PICK from : from = client.waiter.good
  OBVIOUS
<1>1. /\ client.request.from = from /\ from # 0 /\ from \in Nat /\ from \in log
  BY RequestIs DEF AnswerDifference
<1>2. Position \in log /\ Position \in Nat /\ log \subseteq Nat
  BY ServerPosition, BoundsAssumption DEF UpdatesInvariant, TypeOK, Pts
<1>3. /\ client.request.kind # "none" /\ Answered /\ UNCHANGED serverVars
      /\ \/ from = Position /\ Sent(Difference("empty", from, from))
         \/ \E upto \in log : /\ from < upto /\ upto < Position
                              /\ Sent(Difference("slice", upto, from))
         \/ from < Position /\ Sent(Difference("final", Position, from))
  BY <1>1 DEF AnswerDifference
<1>4. PICK kind \in {"empty", "slice", "final"}, upto \in log :
          /\ from <= upto /\ (kind = "empty" => upto = from)
          /\ kind \in Ends => upto = Position
          /\ Sent(Difference(kind, upto, from))
  <2>1. CASE from = Position /\ Sent(Difference("empty", from, from))
    BY <1>1, <2>1 DEF Ends
  <2>2. CASE \E upto \in log : /\ from < upto /\ upto < Position
                               /\ Sent(Difference("slice", upto, from))
    BY <1>1, <1>2, <2>2 DEF Ends
  <2>3. CASE from < Position /\ Sent(Difference("final", Position, from))
    BY <1>1, <1>2, <2>3 DEF Ends
  <2> QED BY <1>3, <2>1, <2>2, <2>3
<1> PICK m : m = Difference(kind, upto, from)
  OBVIOUS
<1>5. /\ m \in Messages /\ m.kind = kind /\ m.pts = upto
      /\ RightMessage(m, client.waiter.good)
  BY <1>1, <1>4, DifferenceRight DEF Gives, Ends
<1>6. wire' = Append(wire, m)
  BY <1>4 DEF Sent
<1>7. m.kind \in Answers /\ (m.kind \in Ends => m.pts = Position)
  BY <1>4, <1>5 DEF Answers, Gives, Ends
<1> QED BY <1>3, <1>5, <1>6, <1>7, AnsweredKeeps

\* FailRequest
LEMMA FailRequestKeeps ==
    ASSUME UpdatesInvariant, FailRequest
    PROVE  UpdatesInvariant'
<1> DEFINE m == [kind |-> "failed"]
<1>1. client.waiter.good # 0
  BY RequestIs DEF FailRequest
<1>2. m \in Messages /\ m.kind \in Answers /\ m.kind \notin Ends
      /\ RightMessage(m, client.waiter.good)
  BY <1>1 DEF Messages, RightMessage, Answers, Gives, Ends
<1>3. /\ client.request.kind # "none" /\ Answered /\ UNCHANGED serverVars
      /\ wire' = Append(wire, m)
  BY DEF FailRequest, Sent
<1> HIDE DEF m
<1> QED BY <1>2, <1>3, AnsweredKeeps

\* NewSession
LEMMA NewSessionKeeps ==
    ASSUME UpdatesInvariant, NewSession
    PROVE  UpdatesInvariant'
<1>1. Logged /\ serverSeq \in Seqs /\ Holds(client, wire)
  BY HoldsNow
<1>2. Grows({}) /\ (serverSeq \in Seqs)'
  BY <1>1, NoNews DEF NewSession, serverVars
<1>3. Logged'
  BY <1>1, <1>2, LoggedGrows
<1> PICK c : c = client
  OBVIOUS
<1> PICK s : s = wire
  OBVIOUS
<1> PICK d : d = IF ~c.waiter.requesting \/ c.failTimer THEN c
                 ELSE [c EXCEPT !.request =
                         [kind |-> IF Inited(c.waiter) THEN "difference" ELSE "state",
                          from |-> c.waiter.good]]
  OBVIOUS
<1> PICK r : r = <<[kind |-> "newSession"]>> \o Late(s)
  OBVIOUS
<1>4. d = client' /\ r = wire'
  BY DEF NewSession
<1>5. Holds(d, r)
  BY <1>1, NewSessionHolds
<1>6. Holds(d, r)'
  BY <1>1, <1>2, <1>5, HoldsStays
<1> QED BY <1>2, <1>3, <1>4, <1>6, HoldsNext

-----------------------------------------------------------------------------
(* The main thread                                                         *)

\* What a message that is no answer says does not depend on where the client is.
LEMMA RightAnyway ==
    ASSUME NEW m, m.kind \notin Answers, NEW good, RightMessage(m, good), NEW other
    PROVE  RightMessage(m, other)
<1>1. m.kind \notin Gives /\ m.kind # "empty"
  BY DEF Answers, Gives, Ends
<1> QED BY <1>1 DEF RightMessage

\* Messages are under way to a client that ignores pushes as before, or asks for the
\* difference now; what it applied while it did is covered by the answer that ends the request.
LEMMA KeepsHolds ==
    ASSUME NEW c, NEW s, Holds(c, s), NEW d, Sound(d, ToldBy(s)), NEW events, Keeps(c, d, events),
           \A j \in DOMAIN s : s[j].kind \in Ends => \A e \in events : e <= s[j].pts
    PROVE  Holds(d, s)
<1>1. AllRight(d, s)
  <2> SUFFICES ASSUME NEW i \in DOMAIN s PROVE RightMessage(s[i], d.waiter.good)
    BY DEF AllRight
  <2>1. RightMessage(s[i], c.waiter.good)
    BY DEF Holds, AllRight
  <2>2. CASE s[i].kind \notin Answers
    BY <2>1, <2>2, RightAnyway
  <2>3. CASE s[i].kind \in Answers
    <3>1. c.waiter.requesting
      BY <2>3 DEF Holds, Single
    <3>2. d.waiter.good = c.waiter.good
      BY <3>1 DEF Keeps
    <3> QED BY <2>1, <3>2
  <2> QED BY <2>2, <2>3
<1>2. Single(d, s)
  BY DEF Holds, Single, Keeps
<1>3. Covers(d, s)
  <2> SUFFICES ASSUME NEW j \in DOMAIN s, s[j].kind \in Ends
               PROVE  \A e \in d.waiter.applied : e <= s[j].pts
    BY DEF Holds, Covers
  <2>1. c.waiter.requesting
    BY DEF Holds, Single, Answers, Gives
  <2>2. d.waiter.applied \subseteq c.waiter.applied \cup events
    BY <2>1 DEF Keeps
  <2> QED BY <2>2 DEF Holds, Covers
<1> QED BY <1>1, <1>2, <1>3 DEF Holds

\* A message that is no answer is taken out.
LEMMA OutHolds ==
    ASSUME NEW c, NEW s, Holds(c, s), NEW i \in DOMAIN s, s[i].kind \notin Answers,
           NEW r, r = RemoveAt(s, i)
    PROVE  Holds(c, r)
<1>0. s \in Seq(Messages) /\ ToldOnce(s) /\ AllRight(c, s) /\ Sound(c, ToldBy(s))
  BY DEF Holds
<1>1. /\ r \in Seq(Messages) /\ ToldOnce(r)
      /\ ToldBy(r) \cup Told(s[i]) \subseteq ToldBy(s)
      /\ \A j \in DOMAIN r : /\ Before(i, j) \in DOMAIN s \ {i} /\ r[j] = s[Before(i, j)]
                             /\ \A k \in DOMAIN r : k < j => Before(i, k) < Before(i, j)
      /\ \A k \in DOMAIN s \ {i} : \E j \in DOMAIN r : k = Before(i, j)
  BY <1>0, TakenOut
<1>2. DOMAIN r \subseteq Nat \ {0} /\ DOMAIN s \subseteq Nat \ {0} /\ Len(s) \in Nat
      /\ DOMAIN s = 1..Len(s) /\ Len(r) \in Nat /\ DOMAIN r = 1..Len(r)
  BY <1>0, <1>1, LenProperties
<1>3. \A j, k \in DOMAIN r : Before(i, j) = Before(i, k) => j = k
  BY <1>2 DEF Before
<1>4. AllRight(c, r)
  BY <1>0, <1>1 DEF AllRight
<1>5. Sound(c, ToldBy(r))
  <2>1. ToldBy(r) \subseteq ToldBy(s)
    BY <1>1
  <2> QED BY <1>0, <2>1, ClientLess
<1>6. Single(c, r)
  <2> DEFINE A(t) == {j \in DOMAIN t : t[j].kind \in Answers}
  <2>0. i \notin A(s) /\ Single(c, s)
    BY DEF Holds
  <2>1. \A j \in A(r) : Before(i, j) \in A(s)
    BY <1>1
  <2>2. \A k \in A(s) : \E j \in A(r) : k = Before(i, j)
    BY <1>1, <2>0
  <2>3. \A j, k \in A(r) : j = k
    <3> TAKE j, k \in A(r)
    <3>1. Before(i, j) = Before(i, k)
      BY <2>0, <2>1 DEF Single
    <3> QED BY <1>3, <3>1
  <2>4. A(r) # {} <=> A(s) # {}
    BY <2>1, <2>2
  <2> HIDE DEF A
  <2>5. /\ A(s) # {} => c.waiter.requesting /\ c.request.kind = "none" /\ ~c.failTimer
        /\ c.waiter.requesting => A(s) # {} \/ c.request.kind # "none" \/ c.failTimer
    BY <2>0 DEF Single, A
  <2> QED BY <2>3, <2>4, <2>5 DEF Single, A
<1>7. Covers(c, r)
  <2> SUFFICES ASSUME NEW j \in DOMAIN r, r[j].kind \in Ends
               PROVE  /\ \A e \in c.waiter.applied : e <= r[j].pts
                      /\ \A k \in 1..(j - 1) : r[k].kind = "result" =>
                            \A e \in Told(r[k]) : e <= r[j].pts
    BY DEF Covers
  <2>1. Before(i, j) \in DOMAIN s /\ r[j] = s[Before(i, j)]
    BY <1>1
  <2>2. Covers(c, s)
    BY DEF Holds
  <2>3. ASSUME NEW k \in 1..(j - 1), r[k].kind = "result"
        PROVE  \A e \in Told(r[k]) : e <= r[j].pts
    <3>1. k \in DOMAIN r /\ k < j
      BY <1>2
    <3>2. r[k] = s[Before(i, k)] /\ Before(i, k) \in DOMAIN s /\ Before(i, k) < Before(i, j)
      BY <1>1, <3>1
    <3>3. Before(i, k) \in 1..(Before(i, j) - 1)
      BY <1>2, <2>1, <3>2
    <3> QED BY <2>1, <2>2, <2>3, <3>2, <3>3 DEF Covers
  <2> QED BY <2>1, <2>2, <2>3 DEF Covers
<1> QED BY <1>1, <1>4, <1>5, <1>6, <1>7 DEF Holds

\* A message is handled.
LEMMA DeliverHolds ==
    ASSUME Logged, NEW c, NEW s, Holds(c, s), NEW i \in DOMAIN s,
           \A j \in 1..(i - 1) : s[j].kind = "push",
           NEW d, d = Handled(c, s[i]), NEW r, r = RemoveAt(s, i)
    PROVE  Holds(d, r) /\ Onwards(c.waiter, d.waiter)
<1> PICK m : m = s[i]
  OBVIOUS
<1>0. /\ s \in Seq(Messages) /\ ToldOnce(s) /\ AllRight(c, s) /\ Sound(c, ToldBy(s))
      /\ Single(c, s) /\ Covers(c, s)
  BY DEF Holds
<1>1. m \in Messages /\ RightMessage(m, c.waiter.good)
  BY <1>0, ElementOfSeq, LenProperties DEF AllRight
<1>2. /\ r \in Seq(Messages) /\ ToldOnce(r) /\ ToldBy(r) \cap Told(m) = {}
      /\ ToldBy(r) \cup Told(m) \subseteq ToldBy(s)
      /\ \A j \in DOMAIN r : Before(i, j) \in DOMAIN s \ {i} /\ r[j] = s[Before(i, j)]
  BY <1>0, TakenOut
<1>3. ToldBy(s) \subseteq log
  BY <1>0, AllLogged DEF Logged
<1> PICK told : told = ToldBy(r)
  OBVIOUS
<1>4. told \subseteq log /\ Sound(c, told \cup Told(m)) /\ Sound(c, told)
  <2>1. told \cup Told(m) \subseteq ToldBy(s) /\ told \subseteq ToldBy(s)
    BY <1>2
  <2> QED BY <1>0, <1>3, <2>1, ClientLess
<1>5. CASE m.kind \notin Answers
  <2> PICK events : events = IF m.kind = "result" THEN Told(m) ELSE {}
    OBVIOUS
  <2>1. Sound(d, told) /\ Keeps(c, d, events)
    BY <1>1, <1>2, <1>4, <1>5, NoAnswerSound
  <2>2. Holds(c, r)
    BY <1>5, OutHolds
  <2>3. ASSUME NEW j \in DOMAIN r, r[j].kind \in Ends, NEW e \in events
        PROVE  e <= r[j].pts
    <3>1. m.kind = "result" /\ e \in Told(m)
      BY <2>3
    <3> DEFINE k == Before(i, j)
    <3>2. k \in DOMAIN s \ {i} /\ r[j] = s[k]
      BY <1>2
    <3>3. DOMAIN s = 1..Len(s) /\ Len(s) \in Nat
      BY <1>0, LenProperties
    <3> HIDE DEF k
    <3>4. k \notin 1..(i - 1)
      BY <2>3, <3>2 DEF Ends
    <3>5. i \in 1..(k - 1)
      BY <3>2, <3>3, <3>4
    <3> QED BY <1>0, <2>3, <3>1, <3>2, <3>5 DEF Covers
  <2>4. Holds(d, r)
    BY <2>1, <2>2, <2>3, KeepsHolds
  <2> QED BY <2>1, <2>4 DEF Keeps
<1>6. CASE m.kind \in Answers
  <2>1. c.waiter.requesting /\ c.request.kind = "none" /\ ~c.failTimer
    BY <1>0, <1>6 DEF Single
  <2>2. c.request = NoRequest
    BY <1>0, <2>1 DEF Sound, RequestRight
  <2>3. \A j \in DOMAIN r : r[j].kind \notin Answers
    BY <1>0, <1>2, <1>6 DEF Single
  <2>4. AllRight(d, r)
    <3> SUFFICES ASSUME NEW j \in DOMAIN r PROVE RightMessage(r[j], d.waiter.good)
      BY DEF AllRight
    <3>1. RightMessage(r[j], c.waiter.good)
      BY <1>0, <1>2 DEF AllRight
    <3> QED BY <2>3, <3>1, RightAnyway
  <2>5. Covers(d, r)
    BY <2>3 DEF Covers, Answers, Gives
  <2>6. {j \in DOMAIN r : r[j].kind \in Answers} = {}
    BY <2>3
  <2>7. CASE m.kind \in Gives
    <3>1. m.kind \in Ends => \A e \in c.waiter.applied : e <= m.pts
      BY <1>0 DEF Covers
    <3>2. /\ Sound(d, told) /\ Onwards(c.waiter, d.waiter)
          /\ m.kind \in Ends => ~d.waiter.requesting
          /\ m.kind = "slice" => /\ d.waiter.requesting /\ d.request.kind = "difference"
                                 /\ ~d.failTimer
      BY <1>1, <1>4, <2>1, <2>2, <2>7, <3>1, AnswerSound
    <3>3. Single(d, r)
      BY <2>6, <2>7, <3>2 DEF Single, Gives
    <3> QED BY <1>2, <2>4, <2>5, <3>2, <3>3 DEF Holds
  <2>8. CASE m.kind = "failed"
    <3>1. Sound(d, told) /\ d.waiter = c.waiter /\ d.failTimer /\ d.request = NoRequest
      BY <1>1, <1>4, <2>1, <2>2, <2>8, FailedSound
    <3>2. Single(d, r)
      BY <2>6, <3>1 DEF Single
    <3>3. Onwards(c.waiter, d.waiter)
      <4>1. c.waiter.good \in Nat
        BY <1>0, BoundsAssumption DEF Sound, Clients, Waiters, Pts
      <4> QED BY <3>1, <4>1 DEF Onwards
    <3> QED BY <1>2, <2>4, <2>5, <3>1, <3>2, <3>3 DEF Holds
  <2> QED BY <1>6, <2>7, <2>8 DEF Answers
<1> QED BY <1>5, <1>6

\* _byPtsTimer asks for the difference.
LEMMA GapTimerHolds ==
    ASSUME NEW c, NEW s, Holds(c, s), NEW d, d = GetDifference(c)
    PROVE  Holds(d, s) /\ Onwards(c.waiter, d.waiter)
<1>1. Sound(d, ToldBy(s)) /\ Keeps(c, d, {})
  BY GetDifferenceSound DEF Holds
<1>2. Holds(d, s)
  BY <1>1, KeepsHolds
<1> QED BY <1>1, <1>2 DEF Keeps

\* So does _bySeqTimer.
LEMMA SeqTimerHolds ==
    ASSUME NEW c, NEW s, Holds(c, s), NEW d, d = GetDifference([c EXCEPT !.seqTimer = FALSE])
    PROVE  Holds(d, s) /\ Onwards(c.waiter, d.waiter)
<1> PICK a : a = [c EXCEPT !.seqTimer = FALSE]
  OBVIOUS
<1> PICK told : told = ToldBy(s)
  OBVIOUS
<1>0. Sound(c, told) /\ c \in Clients
  BY DEF Holds, Sound
<1>1. /\ a \in Clients /\ a.waiter = c.waiter /\ a.request = c.request
      /\ a.failTimer = c.failTimer /\ a.bySeq = c.bySeq
  BY <1>0 DEF Clients
<1>2. Sound(d, told) /\ Keeps(a, d, {})
  <2>1. CASE ~c.waiter.requesting
    <3>1. Asks(a)
      <4>1. Asks(c)
        BY <1>0, <2>1, SoundAsks
      <4> QED BY <1>1, <4>1 DEF Asks
    <3> QED BY <3>1, AskingSound
  <2>2. CASE c.waiter.requesting
    <3>1. c.bySeq = {}
      BY <1>0, <2>2 DEF Sound
    <3>2. RequestRight(a)
      BY <1>0, <1>1 DEF Sound, RequestRight
    <3>3. Sound(a, told)
      BY <1>0, <1>1, <3>1, <3>2 DEF Sound
    <3> QED BY <3>3, GetDifferenceSound
  <2> QED BY <2>1, <2>2
<1>3. Keeps(c, d, {})
  BY <1>1, <1>2 DEF Keeps
<1>4. Holds(d, s)
  BY <1>2, <1>3, KeepsHolds
<1> QED BY <1>3, <1>4 DEF Keeps

\* _failDifferenceTimer asks again, after the flag of the failed request is reset.
LEMMA FailTimerHolds ==
    ASSUME NEW c, NEW s, Holds(c, s), c.failTimer, NEW d,
           d = GetDifference(SetRequestingOf(c, FALSE))
    PROVE  Holds(d, s) /\ Onwards(c.waiter, d.waiter)
<1> PICK a : a = SetRequestingOf(c, FALSE)
  OBVIOUS
<1>0. /\ Sound(c, ToldBy(s)) /\ c \in Clients /\ c.waiter \in Waiters(Pts)
      /\ c.waiter.good # 0 /\ WaiterSound(c.waiter, ToldBy(s) \cup PutAside(c.bySeq))
  BY DEF Holds, Sound, RequestRight, Clients
<1>1. /\ a \in Clients /\ a.waiter.good = c.waiter.good
      /\ a.waiter.applied = c.waiter.applied /\ ~a.waiter.requesting
  BY <1>0 DEF SetRequestingOf, SetRequesting, Clients, Waiters
<1>2. Asks(a)
  BY <1>0, <1>1 DEF Asks, WaiterSound
<1>3. /\ Sound(d, ToldBy(s)) /\ d.waiter.requesting /\ d.request.kind = "difference"
      /\ ~d.failTimer /\ d.waiter.good = c.waiter.good /\ d.waiter.applied = c.waiter.applied
  BY <1>1, <1>2, AskingSound
<1>4. \A j \in DOMAIN s : s[j].kind \notin Answers
  BY DEF Holds, Single
<1>5. AllRight(d, s)
  BY <1>3 DEF Holds, AllRight
<1>6. Covers(d, s)
  BY <1>4 DEF Covers, Answers, Gives
<1>7. Single(d, s)
  <2>1. {j \in DOMAIN s : s[j].kind \in Answers} = {}
    BY <1>4
  <2> QED BY <1>3, <2>1 DEF Single
<1>8. Onwards(c.waiter, d.waiter)
  <2>1. c.waiter.good \in Nat
    BY <1>0, BoundsAssumption DEF Waiters, Pts
  <2>2. c.waiter.good <= c.waiter.good
    BY <2>1
  <2> QED BY <1>3, <2>2, Zenon DEF Onwards
<1> QED BY <1>3, <1>5, <1>6, <1>7, <1>8 DEF Holds

\* Each callback of the main thread keeps the invariant, and goes on.
LEMMA MainKeeps ==
    ASSUME UpdatesInvariant, UNCHANGED serverVars, NEW d, d = client', NEW r, r = wire',
           Holds(d, r)
    PROVE  UpdatesInvariant'
<1>1. Logged /\ serverSeq \in Seqs
  BY HoldsNow
<1>2. Grows({})
  BY <1>1, NoNews DEF serverVars
<1>3. Logged' /\ (serverSeq \in Seqs)'
  BY <1>1, <1>2, LoggedGrows DEF serverVars
<1>4. Holds(d, r)'
  BY <1>1, <1>2, HoldsStays
<1> QED BY <1>3, <1>4, HoldsNext

\* The steps of the main thread
MainStep == Deliver \/ GapTimerFires \/ SeqTimerFires \/ FailTimerFires

\* They keep the invariant, and the waiter goes on.
LEMMA MainStepKeeps ==
    ASSUME UpdatesInvariant, MainStep
    PROVE  UpdatesInvariant' /\ Onwards(client.waiter, client'.waiter) /\ UNCHANGED serverVars
<1>0. Logged /\ Holds(client, wire)
  BY HoldsNow
<1>1. UNCHANGED serverVars
  BY DEF MainStep, Deliver, GapTimerFires, SeqTimerFires, FailTimerFires
<1> PICK c : c = client
  OBVIOUS
<1> PICK s : s = wire
  OBVIOUS
<1>2. Holds(c, s)
  BY <1>0
<1>3. CASE Deliver
  <2>1. PICK i \in DOMAIN s : /\ \A j \in 1..(i - 1) : s[j].kind = "push"
                              /\ client' = Handled(c, s[i])
                              /\ wire' = RemoveAt(s, i)
    BY <1>3 DEF Deliver
  <2> PICK d : d = Handled(c, s[i])
    OBVIOUS
  <2> PICK r : r = RemoveAt(s, i)
    OBVIOUS
  <2>2. Holds(d, r) /\ Onwards(c.waiter, d.waiter)
    BY <1>0, <1>2, <2>1, DeliverHolds
  <2>3. d = client' /\ r = wire'
    BY <2>1
  <2>4. UpdatesInvariant'
    BY <1>1, <2>2, <2>3, MainKeeps
  <2> QED BY <1>1, <2>2, <2>3, <2>4
<1>4. CASE GapTimerFires
  <2> PICK d : d = GetDifference(c)
    OBVIOUS
  <2>1. Holds(d, s) /\ Onwards(c.waiter, d.waiter)
    BY <1>2, GapTimerHolds
  <2>2. d = client' /\ s = wire'
    BY <1>4 DEF GapTimerFires
  <2>3. UpdatesInvariant'
    BY <1>1, <2>1, <2>2, MainKeeps
  <2> QED BY <1>1, <2>1, <2>2, <2>3
<1>5. CASE SeqTimerFires
  <2> PICK d : d = GetDifference([c EXCEPT !.seqTimer = FALSE])
    OBVIOUS
  <2>1. Holds(d, s) /\ Onwards(c.waiter, d.waiter)
    BY <1>2, SeqTimerHolds
  <2>2. d = client' /\ s = wire'
    BY <1>5 DEF SeqTimerFires
  <2>3. UpdatesInvariant'
    BY <1>1, <2>1, <2>2, MainKeeps
  <2> QED BY <1>1, <2>1, <2>2, <2>3
<1>6. CASE FailTimerFires
  <2> PICK d : d = GetDifference(SetRequestingOf(c, FALSE))
    OBVIOUS
  <2>1. Holds(d, s) /\ Onwards(c.waiter, d.waiter)
    BY <1>2, <1>6, FailTimerHolds DEF FailTimerFires
  <2>2. d = client' /\ s = wire'
    BY <1>6 DEF FailTimerFires
  <2>3. UpdatesInvariant'
    BY <1>1, <2>1, <2>2, MainKeeps
  <2> QED BY <1>1, <2>1, <2>2, <2>3
<1> QED BY <1>3, <1>4, <1>5, <1>6 DEF MainStep

-----------------------------------------------------------------------------
(* The invariant                                                           *)

\* An account starts with nothing applied, and asks for the state.
LEMMA StartsRight == Init => UpdatesInvariant
<1> SUFFICES ASSUME Init PROVE UpdatesInvariant
  OBVIOUS
<1> DEFINE w == [good |-> 0, last |-> 0, count |-> 0, skipped |-> {}, requesting |-> TRUE,
                 waiting |-> FALSE, timer |-> FALSE, applied |-> {}]
<1>1. /\ log = {1} /\ own = {} /\ wire = <<>> /\ serverSeq = 0
      /\ client = [waiter |-> w, seq |-> 0, bySeq |-> {}, seqTimer |-> FALSE,
                   failTimer |-> FALSE, request |-> [kind |-> "state", from |-> 0]]
  BY DEF Init, NewWaiter, SetRequesting
<1>2. 0 \in Pts /\ 1 \in Pts /\ 0 \in Seqs
  BY BoundsAssumption DEF Pts, Seqs
<1>3. w \in Waiters(Pts)
  BY <1>2 DEF Waiters
<1>4. client \in Clients
  BY <1>1, <1>2, <1>3 DEF Clients, Requests
<1>5. ToldBy(wire) = {} /\ PutAside(client.bySeq) = {} /\ DOMAIN wire = {}
  BY <1>1 DEF ToldBy, PutAside
<1>6. WaiterSound(w, {})
  BY <1>1 DEF WaiterSound
<1>7. RequestRight(client)
  BY <1>1 DEF RequestRight
<1>8. Sound(client, ToldBy(wire))
  <2>1. BlocksApart(client.bySeq, ToldBy(wire))
    BY <1>1 DEF BlocksApart
  <2>2. WaiterSound(client.waiter, ToldBy(wire) \cup PutAside(client.bySeq))
    BY <1>1, <1>5, <1>6
  <2>3. client.bySeq = {}
    BY <1>1
  <2> QED BY <1>4, <1>7, <2>1, <2>2, <2>3 DEF Sound
<1>9. TypeOK /\ LogStarts
  BY <1>1, <1>2, <1>4 DEF TypeOK, LogStarts
<1>10. OneSource /\ AnswerCovers /\ ToldOnce(wire)
  BY <1>1, <1>5 DEF OneSource, AnswerCovers, ToldOnce
<1> QED BY <1>5, <1>8, <1>9, <1>10 DEF UpdatesInvariant

\* Every step keeps it.
LEMMA StepsKeep == UpdatesInvariant /\ [Next]_vars => UpdatesInvariant'
<1> SUFFICES ASSUME UpdatesInvariant, [Next]_vars PROVE UpdatesInvariant'
  OBVIOUS
<1>1. CASE MainStep
  BY <1>1, MainStepKeeps
<1>2. CASE Push
  BY <1>2, PushKeeps
<1>3. CASE PushLost
  BY <1>3, PushLostKeeps
<1>4. CASE AnswerResult
  BY <1>4, AnswerResultKeeps
<1>5. CASE AnswerAffected
  BY <1>5, AnswerAffectedKeeps
<1>6. CASE AnswerState
  BY <1>6, AnswerStateKeeps
<1>7. CASE AnswerDifference
  BY <1>7, AnswerDifferenceKeeps
<1>8. CASE Failure
  BY <1>8, FailRequestKeeps, NewSessionKeeps, TooLongKeeps DEF Failure
<1>9. CASE UNCHANGED vars
  <2>1. Logged /\ serverSeq \in Seqs /\ Holds(client, wire)
    BY HoldsNow
  <2> PICK d : d = client
    OBVIOUS
  <2> PICK r : r = wire
    OBVIOUS
  <2>2. Holds(d, r) /\ d = client' /\ r = wire' /\ UNCHANGED serverVars
    BY <1>9, <2>1 DEF vars, serverVars
  <2> QED BY <2>2, MainKeeps
<1> QED BY <1>1, <1>2, <1>3, <1>4, <1>5, <1>6, <1>7, <1>8, <1>9 DEF Next, MainStep

\* The client counts what it is told as the server numbered it, whatever is lost, late or
\* answered twice, and is never left without the difference it waits for.
THEOREM UpdatesInvariantHolds == Spec => []UpdatesInvariant
BY StartsRight, StepsKeep, PTL DEF Spec

\* The fields of Api::Updates, of PtsWaiter and of the messages stay what they are declared.
THEOREM UpdatesTypeCorrect == Spec => []TypeOK
<1>1. UpdatesInvariant => TypeOK
  BY DEF UpdatesInvariant
<1> QED BY <1>1, UpdatesInvariantHolds, PTL

\* Outside of a request PtsWaiter applies nothing ahead of its position, if every answer
\* counts the events it caused (messages.affectedMessages with pts_count 0 is what the run
\* with ZeroCounts shows).
THEOREM NothingGoesAhead == Spec => [](~ZeroCounts => NothingAhead)
<1>1. UpdatesInvariant => (~ZeroCounts => NothingAhead)
  BY DEF UpdatesInvariant, Sound, WaiterSound, Follows, NothingAhead
<1> QED BY <1>1, UpdatesInvariantHolds, PTL

\* Under the same condition the timer of the gap (_byPtsTimer) runs as long as the waiter
\* knows that something is missing and no difference is requested.
THEOREM GapsAreWatched == Spec => [](~ZeroCounts => GapWatched)
<1>1. UpdatesInvariant => (~ZeroCounts => GapWatched)
  BY DEF UpdatesInvariant, Sound, WaiterSound, Follows, GapWatched
<1> QED BY <1>1, UpdatesInvariantHolds, PTL

\* Blocks that setState() put aside have their timer, and do not outlive a request.
THEOREM BlocksAreWatched == Spec => []BySeqWatched
<1>1. UpdatesInvariant => BySeqWatched
  BY DEF UpdatesInvariant, Sound, BySeqWatched
<1> QED BY <1>1, UpdatesInvariantHolds, PTL

\* While the client ignores pushes exactly one thing ends that: its request, the answer to
\* it, or the timer after a failed one.
THEOREM RequestsAreAlive == Spec => []RequestIsAlive
<1>1. UpdatesInvariant => RequestIsAlive
  <2> SUFFICES ASSUME UpdatesInvariant PROVE RequestIsAlive
    OBVIOUS
  <2> DEFINE answers == {i \in DOMAIN wire : wire[i].kind \in Answers}
             asked == client.request # NoRequest
             requesting == client.waiter.requesting
             waits == client.failTimer
             n == Cardinality(answers)
  <2>1. /\ \A i, j \in answers : i = j
        /\ answers # {} => requesting /\ ~asked /\ ~waits
        /\ requesting => answers # {} \/ asked \/ waits
        /\ asked => requesting /\ ~waits
        /\ waits => requesting
    <3>1. Sound(client, ToldBy(wire)) /\ OneSource
      BY DEF UpdatesInvariant
    <3>2. asked <=> client.request.kind # "none"
      BY <3>1 DEF Sound, RequestRight, NoRequest
    <3> QED BY <3>1, <3>2 DEF Sound, RequestRight, OneSource
  <2>2. (answers = {} => n = 0) /\ (answers # {} => n = 1)
    <3>1. answers # {} => \E i : answers = {i}
      BY <2>1
    <3> HIDE DEF answers
    <3>2. answers # {} => n = 1
      BY <3>1, FS_Singleton
    <3> QED BY <3>2, FS_EmptySet
  <2>3. RequestIsAlive <=> n + (IF ~asked THEN 0 ELSE 1) + (IF waits THEN 1 ELSE 0)
                             = IF requesting THEN 1 ELSE 0
    BY DEF RequestIsAlive, Answers, Gives, Ends
  <2> HIDE DEF answers, asked, requesting, waits, n
  <2> QED BY <2>1, <2>2, <2>3
<1> QED BY <1>1, UpdatesInvariantHolds, PTL

-----------------------------------------------------------------------------
(* What is promised to the rest of the program                             *)

\* Something new is published.
LEMMA Publishes ==
    ASSUME Logged, NEW news, news # {}, news \subseteq Pts, 0 \notin news, Grows(news),
           client'.waiter = client.waiter, own' = own \/ own' = own \cup news
    PROVE  Feed!Publish
<1>1. news \in (SUBSET (1..MaxPts)) \ {{}}
  <2>1. \A e \in news : e \in 0..MaxPts /\ e # 0
    BY DEF Pts
  <2>2. \A e \in news : e \in 1..MaxPts
    BY <2>1, BoundsAssumption
  <2> QED BY <2>2
<1>2. \A e \in news, old \in log : e > old
  <2> TAKE e \in news, old \in log
  <2>1. e \in Nat /\ old \in Nat /\ old < e
    BY LoggedNat, BoundsAssumption DEF Grows, Pts
  <2> QED BY <2>1
<1>3. log' = log \cup news
  BY DEF Grows
<1> QED BY <1>1, <1>2, <1>3 DEF Feed!Publish

\* What happens is something, and has a number.
LEMMA NewsPublish ==
    ASSUME Logged, NEW updates \in News, Happen(updates), own' = own,
           client'.waiter = client.waiter
    PROVE  Feed!Publish
<1> PICK news : news = EventsOf(updates)
  OBVIOUS
<1>1. Grows(news)
  BY HappenRight
<1>2. news # {}
  BY DEF News, EventsOf, SkipLongest
<1>3. news \subseteq Pts /\ 0 \notin news
  BY <1>1, LoggedNat DEF Grows, Logged, LogStarts
<1> QED BY <1>1, <1>2, <1>3, Publishes

\* A step of the server that only changes what is under way, or asked, is none of the feed.
LEMMA Unpublished ==
    ASSUME UNCHANGED serverVars, client'.waiter = client.waiter
    PROVE  UNCHANGED Feed!feedVars
BY DEF serverVars, Feed!feedVars

\* Every step is one of the feed.
LEMMA FeedStep ==
    ASSUME UpdatesInvariant, UpdatesInvariant', [Next]_vars
    PROVE  [Feed!Publish \/ Feed!Deliver]_Feed!feedVars
<1>0. Logged /\ client \in Clients
  BY HoldsNow DEF UpdatesInvariant, Sound
<1>1. CASE MainStep
  <2>1. Onwards(client.waiter, client'.waiter) /\ UNCHANGED serverVars
    BY <1>1, MainStepKeeps
  <2>2. /\ client' \in Clients /\ client'.waiter.good \in Pts
        /\ client'.waiter.applied \subseteq log' /\ own' \subseteq log'
        /\ \A e \in log' : e <= client'.waiter.good => e \in client'.waiter.applied \cup own'
    BY DEF UpdatesInvariant, Sound, WaiterSound, TypeOK, Clients, Waiters
  <2>3. client.waiter.good \in Nat
    BY <1>0, BoundsAssumption DEF Clients, Waiters, Pts
  <2>4. Feed!Deliver
    <3>1. client'.waiter.good \in 1..MaxPts \cup {0} /\ client'.waiter.good >= client.waiter.good
      BY <2>1, <2>2, <2>3, BoundsAssumption DEF Onwards, Pts
    <3>2. client.waiter.applied \cup own \subseteq client'.waiter.applied \cup own'
          /\ client'.waiter.applied \cup own' \subseteq log
      BY <2>1, <2>2 DEF Onwards, serverVars
    <3>3. Feed!Upto(client'.waiter.good) \subseteq client'.waiter.applied \cup own'
      BY <2>1, <2>2 DEF serverVars, Feed!Upto
    <3> QED BY <2>1, <3>1, <3>2, <3>3 DEF Feed!Deliver, serverVars
  <2> QED BY <2>4
<1>2. CASE Push \/ PushLost \/ AnswerResult
  BY <1>0, <1>2, NewsPublish DEF Push, PushLost, AnswerResult
<1>3. CASE AnswerAffected
  <2> PICK p : p = Position
    OBVIOUS
  <2>1. p \in log /\ p \in Nat \ {0} /\ \A e \in log : e <= p /\ e \in Nat
    BY <1>0, ServerPosition, LoggedNat, BoundsAssumption DEF Logged, Pts
  <2>2. PICK n \in (IF ZeroCounts THEN 0 ELSE 1)..SkipLongest :
           /\ p + n <= MaxPts
           /\ log' = log \cup {p + n}
           /\ own' = IF n = 0 THEN own ELSE own \cup {p + n}
    BY <1>3 DEF AnswerAffected
  <2>3. n \in Nat /\ client' = client
    BY <1>3, ZeroAssumption DEF AnswerAffected, SkipLongest
  <2>4. CASE n = 0
    <3>1. p + n = p
      BY <2>1, <2>4
    <3> QED BY <2>1, <2>2, <2>3, <2>4, <3>1 DEF Feed!feedVars
  <2>5. CASE n # 0
    <3> PICK news : news = {p + n}
      OBVIOUS
    <3>1. news \subseteq Pts /\ 0 \notin news /\ news # {}
      BY <2>1, <2>2, <2>3, BoundsAssumption DEF Pts
    <3>2. \A f \in log : f < p + n
      BY <2>1, <2>3, <2>5
    <3>3. own' = own \cup news /\ log' = log \cup news
      BY <2>2, <2>5
    <3>4. Grows(news)
      BY <1>0, <3>1, <3>2, <3>3 DEF Grows, Logged
    <3> QED BY <1>0, <2>3, <3>1, <3>3, <3>4, Publishes
  <2> QED BY <2>4, <2>5
<1>4. CASE AnswerState \/ AnswerDifference \/ FailRequest
  <2>1. client'.waiter = client.waiter
    BY <1>0, <1>4 DEF AnswerState, AnswerDifference, FailRequest, Answered, Clients
  <2>2. UNCHANGED serverVars
    BY <1>4 DEF AnswerState, AnswerDifference, FailRequest
  <2> QED BY <2>1, <2>2, Unpublished
<1>5. CASE TooLong \/ NewSession
  <2>1. client'.waiter = client.waiter
    BY <1>0, <1>5 DEF TooLong, NewSession, Clients
  <2>2. UNCHANGED serverVars
    BY <1>5 DEF TooLong, NewSession
  <2> QED BY <2>1, <2>2, Unpublished
<1>6. CASE UNCHANGED vars
  BY <1>6, Unpublished DEF vars, serverVars
<1> QED BY <1>1, <1>2, <1>3, <1>4, <1>5, <1>6 DEF Next, MainStep, Failure

\* Api::Updates keeps what UpdateFeed promises: events are delivered up to a position that
\* never goes back and never passes an event that was not delivered, with ZeroCounts or
\* without.
THEOREM FeedIsKept == Spec => FeedPromise
<1>1. Init => Feed!FeedInit
  <2> SUFFICES ASSUME Init PROVE Feed!FeedInit
    OBVIOUS
  <2>1. log = {1} /\ own = {} /\ client.waiter.applied = {} /\ client.waiter.good = 0
    BY DEF Init, SetRequesting, NewWaiter
  <2>2. {1} \in SUBSET (1..MaxPts)
    BY BoundsAssumption
  <2> QED BY <2>1, <2>2 DEF Feed!FeedInit
<1>2. UpdatesInvariant /\ UpdatesInvariant' /\ [Next]_vars
         => [Feed!Publish \/ Feed!Deliver]_Feed!feedVars
  BY FeedStep
<1> QED BY <1>1, <1>2, UpdatesInvariantHolds, PTL DEF Spec, FeedPromise, Feed!FeedSpec
=============================================================================
