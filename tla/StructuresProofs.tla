-------------------------- MODULE StructuresProofs --------------------------
(***************************************************************************)
(* Proofs about RunningMedian, for any values, lengths of the arrays and   *)
(* width of int, and about AvlTree, for any keys and number of nodes.      *)
(***************************************************************************)
EXTENDS RunningMedian, AvlTree, FiniteSetTheorems, SequenceTheorems, WellFoundedInduction, TLAPS

\* A nonempty set of naturals has a least element, which Min is.
LEMMA MinProperties ==
  ASSUME NEW S \in SUBSET Nat, S # {}
  PROVE  Min(S) \in S /\ \A x \in S : Min(S) <= x
  <1>1. PICK x \in S : \A y \in S : <<y, x>> \notin OpToRel(<, Nat)
    BY NatLessThanWellFounded, WFMin
  <1>2. \A y \in S : ~(y < x)
    BY <1>1, Zenon DEF OpToRel
  <1>3. \A y \in S : x <= y
    BY <1>2
  <1> QED  BY <1>3 DEF Min

\* What holds of 0, and of n + 1 if it holds of n, holds of every natural number.
LEMMA AllNaturals ==
  ASSUME NEW S, 0 \in S, \A n \in Nat : n \in S => n + 1 \in S
  PROVE  \A n \in Nat : n \in S
  <1> DEFINE C == Nat \ S
  <1> SUFFICES ASSUME C # {} PROVE FALSE
    OBVIOUS
  <1> HIDE DEF C
  <1>1. C \in SUBSET Nat
    BY DEF C
  <1>2. Min(C) \in C /\ \A x \in C : Min(C) <= x
    BY <1>1, MinProperties
  <1>3. Min(C) \in Nat \ {0}
    BY <1>2 DEF C
  <1>4. Min(C) - 1 \in Nat /\ Min(C) - 1 \notin C
    BY <1>1, <1>2, <1>3
  <1>5. Min(C) - 1 \in S
    BY <1>4 DEF C
  <1>6. (Min(C) - 1) + 1 = Min(C)
    BY <1>3
  <1> QED  BY <1>2, <1>4, <1>5, <1>6 DEF C

-----------------------------------------------------------------------------
(* How many elements of a sequence are in a set.                           *)

\* How many numbers an interval has.
LEMMA IntervalSize ==
  ASSUME NEW a \in Int, NEW b \in Int, a <= b + 1
  PROVE  IsFiniteSet(a .. b) /\ Cardinality(a .. b) = b - a + 1
  <1>1. IsFiniteSet(a .. b) /\ Cardinality(a .. b) = IF a > b THEN 0 ELSE b - a + 1
    BY FS_Interval, Zenon
  <1>2. a > b => b - a + 1 = 0
    OBVIOUS
  <1> QED  BY <1>1, <1>2

\* There are n numbers from 1 to n.
LEMMA CountTo ==
  ASSUME NEW n \in Nat
  PROVE  IsFiniteSet(1 .. n) /\ Cardinality(1 .. n) = n
  BY IntervalSize

\* A one-to-one function onto a set, and the size of that set.
LEMMA BijectionBy ==
  ASSUME NEW S, NEW T, NEW f \in [S -> T], \A x, y \in S : f[x] = f[y] => x = y, \A z \in T : \E x \in S : f[x] = z
  PROVE  f \in Bijection(S, T)
  BY Zenon DEF Bijection, Injection, Surjection, IsInjective

\* A bijection keeps the size of a finite set.
LEMMA BijectionSize ==
  ASSUME NEW S, NEW T, IsFiniteSet(S), NEW f \in Bijection(S, T)
  PROVE  IsFiniteSet(T) /\ Cardinality(T) = Cardinality(S)
  <1>1. ExistsBijection(S, T)
    BY Zenon DEF ExistsBijection
  <1> QED  BY <1>1, FS_Bijection, Zenon

\* The places of the sequence s with an element of V, and how many there are.
Places(s, V) == {i \in 1 .. Len(s) : s[i] \in V}
Within(s, V) == Cardinality(Places(s, V))

\* They are at most as many as there are places.
LEMMA WithinType ==
  ASSUME NEW s, Len(s) \in Nat, NEW V
  PROVE  Within(s, V) \in Nat /\ Within(s, V) <= Len(s) /\ IsFiniteSet(Places(s, V))
  <1>1. IsFiniteSet(1 .. Len(s)) /\ Cardinality(1 .. Len(s)) = Len(s)
    BY CountTo, Zenon
  <1>2. Places(s, V) \subseteq 1 .. Len(s)
    BY DEF Places
  <1> QED  BY <1>1, <1>2, FS_Subset, FS_CardinalityType DEF Within

\* Places in an interval are at most as many as the interval is long.
LEMMA WithinInterval ==
  ASSUME NEW s, Len(s) \in Nat, NEW V, NEW a \in Int, NEW b \in Int, a <= b + 1, Places(s, V) \subseteq a .. b
  PROVE  Within(s, V) <= b - a + 1
  <1>1. IsFiniteSet(a .. b) /\ Cardinality(a .. b) = b - a + 1
    BY IntervalSize
  <1> QED  BY <1>1, FS_Subset DEF Within

\* All elements, one element and none.
LEMMA WithinAll ==
  ASSUME NEW s, Len(s) \in Nat, NEW V, \A i \in 1 .. Len(s) : s[i] \in V
  PROVE  Within(s, V) = Len(s)
  <1>1. Places(s, V) = 1 .. Len(s)
    BY DEF Places
  <1>2. Cardinality(1 .. Len(s)) = Len(s)
    BY CountTo, Zenon
  <1> QED  BY <1>1, <1>2, Zenon DEF Within

\* An element in the set is counted.
LEMMA WithinSome ==
  ASSUME NEW s, Len(s) \in Nat, NEW V, NEW i \in 1 .. Len(s), s[i] \in V
  PROVE  Within(s, V) >= 1
  <1>1. Places(s, V) # {}
    BY DEF Places
  <1> QED  BY <1>1, WithinType, FS_EmptySet DEF Within

\* Of a single element one or none is in the set.
LEMMA WithinOne ==
  ASSUME NEW e, NEW V
  PROVE  Within(<<e>>, V) = IF e \in V THEN 1 ELSE 0
  <1>1. Len(<<e>>) = 1 /\ <<e>>[1] = e
    OBVIOUS
  <1>2. CASE e \in V
    <2>1. Places(<<e>>, V) = {1}
      BY <1>1, <1>2 DEF Places
    <2> QED  BY <2>1, <1>2, FS_Singleton DEF Within
  <1>3. CASE e \notin V
    <2>1. Places(<<e>>, V) = {}
      BY <1>1, <1>3 DEF Places
    <2> QED  BY <2>1, <1>3, FS_EmptySet DEF Within
  <1> QED  BY <1>2, <1>3

\* The elements of a concatenation are those of its parts.
LEMMA WithinConcat ==
  ASSUME NEW s \in Seq(Int), NEW t \in Seq(Int), NEW V
  PROVE  Within(s \o t, V) = Within(s, V) + Within(t, V)
  <1> DEFINE P == Places(s, V)
             Q == {Len(s) + i : i \in Places(t, V)}
             f == [i \in Places(t, V) |-> Len(s) + i]
  <1>1. Len(s) \in Nat /\ Len(t) \in Nat /\ Len(s \o t) = Len(s) + Len(t)
    OBVIOUS
  <1>2. \A i \in 1 .. Len(s \o t) : (s \o t)[i] = IF i <= Len(s) THEN s[i] ELSE t[i - Len(s)]
    OBVIOUS
  <1>3. Places(s \o t, V) = P \cup Q
    <2>1. ASSUME NEW i \in Places(s \o t, V) PROVE i \in P \cup Q
      <3>1. i \in 1 .. Len(s) + Len(t) /\ (s \o t)[i] \in V
        BY <1>1, <2>1 DEF Places
      <3>2. CASE i <= Len(s)
        BY <3>1, <3>2, <1>1, <1>2 DEF Places
      <3>3. CASE i > Len(s)
        <4>1. i - Len(s) \in 1 .. Len(t) /\ t[i - Len(s)] \in V
          BY <3>1, <3>3, <1>1, <1>2
        <4>2. i = Len(s) + (i - Len(s))
          BY <3>1, <1>1
        <4> QED  BY <4>1, <4>2 DEF Places
      <3> QED  BY <3>1, <3>2, <3>3, <1>1
    <2>2. ASSUME NEW i \in P PROVE i \in Places(s \o t, V)
      BY <2>2, <1>1, <1>2 DEF Places
    <2>3. ASSUME NEW i \in Places(t, V) PROVE Len(s) + i \in Places(s \o t, V)
      <3>1. i \in 1 .. Len(t) /\ t[i] \in V
        BY <2>3 DEF Places
      <3>2. Len(s) + i \in 1 .. Len(s \o t) /\ (Len(s) + i) - Len(s) = i /\ ~(Len(s) + i <= Len(s))
        BY <3>1, <1>1
      <3>3. (s \o t)[Len(s) + i] = t[i]
        BY <3>2, <1>2
      <3> QED  BY <3>1, <3>2, <3>3 DEF Places
    <2> QED  BY <2>1, <2>2, <2>3
  <1>4. IsFiniteSet(P) /\ IsFiniteSet(Places(t, V))
    BY <1>1, WithinType
  <1>5. f \in Bijection(Places(t, V), Q)
    <2>1. f \in [Places(t, V) -> Q]
      OBVIOUS
    <2>2. \A i, j \in Places(t, V) : f[i] = f[j] => i = j
      BY <1>1 DEF Places
    <2>3. \A q \in Q : \E i \in Places(t, V) : f[i] = q
      OBVIOUS
    <2> QED  BY <2>1, <2>2, <2>3, BijectionBy
  <1>6. IsFiniteSet(Q) /\ Cardinality(Q) = Within(t, V)
    BY <1>4, <1>5, BijectionSize, Zenon DEF Within
  <1>7. P \cap Q = {}
    BY <1>1 DEF Places
  <1>8. Cardinality(P \cup Q) = Cardinality(P) + Cardinality(Q)
    <2> HIDE DEF P, Q
    <2>1. Cardinality(P \cup Q) = Cardinality(P) + Cardinality(Q) - Cardinality(P \cap Q)
      BY <1>4, <1>6, FS_Union
    <2>2. Cardinality(P \cap Q) = 0
      BY <1>7, FS_EmptySet
    <2>3. Cardinality(P) \in Nat /\ Cardinality(Q) \in Nat
      BY <1>4, <1>6, FS_CardinalityType
    <2> QED  BY <2>1, <2>2, <2>3
  <1> QED  BY <1>3, <1>6, <1>8 DEF Within

\* An exchange of two elements leaves the others, and as many in each set.
LEMMA ExchEntries ==
  ASSUME NEW A \in Seq(Int), NEW i \in 0 .. Len(A) - 1, NEW j \in 0 .. Len(A) - 1
  PROVE  /\ Exch(A, i, j) \in Seq(Int) /\ Len(Exch(A, i, j)) = Len(A)
         /\ \A k \in 0 .. Len(A) - 1 :
              Exch(A, i, j)[k + 1] = IF k = j THEN A[i + 1] ELSE IF k = i THEN A[j + 1] ELSE A[k + 1]
  <1>1. Len(A) \in Nat /\ i \in Int /\ j \in Int /\ i + 1 \in 1 .. Len(A) /\ j + 1 \in 1 .. Len(A)
    OBVIOUS
  <1>2. Exch(A, i, j) \in Seq(Int) /\ Len(Exch(A, i, j)) = Len(A)
    BY <1>1 DEF Exch
  <1>3. \A k \in 0 .. Len(A) - 1 : k + 1 \in 1 .. Len(A) /\ (k + 1 = i + 1 <=> k = i) /\ (k + 1 = j + 1 <=> k = j)
    BY <1>1
  <1>4. DOMAIN A = 1 .. Len(A)
    OBVIOUS
  <1>5. \A k \in 0 .. Len(A) - 1 :
          Exch(A, i, j)[k + 1] = IF k + 1 = j + 1 THEN A[i + 1] ELSE IF k + 1 = i + 1 THEN A[j + 1] ELSE A[k + 1]
    BY <1>3, <1>4 DEF Exch
  <1> QED  BY <1>2, <1>3, <1>5

\* B is A with the elements at i and j exchanged.
Transposed(A, i, j, B) ==
  \A k \in 0 .. Len(A) - 1 : B[k + 1] = IF k = j THEN A[i + 1] ELSE IF k = i THEN A[j + 1] ELSE A[k + 1]

\* That is what Exch does.
LEMMA ExchPlaces ==
  ASSUME NEW A \in Seq(Int), NEW i \in 0 .. Len(A) - 1, NEW j \in 0 .. Len(A) - 1
  PROVE  Len(Exch(A, i, j)) = Len(A) /\ Transposed(A, i, j, Exch(A, i, j))
  BY ExchEntries DEF Transposed

\* As many are left in each set.
LEMMA WithinExch ==
  ASSUME NEW A \in Seq(Int), NEW i \in 0 .. Len(A) - 1, NEW j \in 0 .. Len(A) - 1, NEW V
  PROVE  /\ Exch(A, i, j) \in Seq(Int) /\ Len(Exch(A, i, j)) = Len(A)
         /\ Within(Exch(A, i, j), V) = Within(A, V)
  <1> DEFINE B == Exch(A, i, j)
             other(k) == IF k = j + 1 THEN i + 1 ELSE IF k = i + 1 THEN j + 1 ELSE k
             f == [k \in Places(A, V) |-> other(k)]
  <1>1. Len(A) \in Nat /\ i \in Int /\ j \in Int /\ i + 1 \in 1 .. Len(A) /\ j + 1 \in 1 .. Len(A)
    OBVIOUS
  <1>2. B \in Seq(Int) /\ Len(B) = Len(A)
    BY ExchEntries
  <1>3. \A k \in 1 .. Len(A) : B[k] = A[other(k)]
    <2> SUFFICES ASSUME NEW k \in 1 .. Len(A) PROVE B[k] = A[other(k)]
      OBVIOUS
    <2> HIDE DEF B
    <2>1. \A n \in 0 .. Len(A) - 1 : B[n + 1] = IF n = j THEN A[i + 1] ELSE IF n = i THEN A[j + 1] ELSE A[n + 1]
      BY ExchEntries DEF B
    <2>2. k - 1 \in 0 .. Len(A) - 1 /\ (k - 1) + 1 = k
      BY <1>1
    <2>3. B[k] = IF k - 1 = j THEN A[i + 1] ELSE IF k - 1 = i THEN A[j + 1] ELSE A[k]
      BY <2>1, <2>2
    <2> QED  BY <2>3, <1>1
  <1>4. \A k \in 1 .. Len(A) : other(k) \in 1 .. Len(A) /\ other(other(k)) = k
    BY <1>1
  <1> HIDE DEF B, other
  <1>6. f \in Bijection(Places(A, V), Places(B, V))
    <2>1. \A k \in Places(A, V) : f[k] = other(k) /\ k \in 1 .. Len(A) /\ A[k] \in V
      BY DEF Places
    <2>2. ASSUME NEW k \in Places(A, V) PROVE other(k) \in Places(B, V)
      <3>1. other(k) \in 1 .. Len(B) /\ B[other(k)] = A[k]
        BY <2>1, <1>2, <1>3, <1>4
      <3> QED  BY <3>1, <2>1 DEF Places
    <2>3. f \in [Places(A, V) -> Places(B, V)]
      BY <2>2
    <2>4. \A k, m \in Places(A, V) : f[k] = f[m] => k = m
      BY <2>1, <1>4
    <2>5. ASSUME NEW z \in Places(B, V) PROVE \E k \in Places(A, V) : f[k] = z
      <3>1. z \in 1 .. Len(A) /\ B[z] \in V
        BY <1>2, <2>5 DEF Places
      <3>2. other(z) \in Places(A, V)
        BY <3>1, <1>3, <1>4 DEF Places
      <3> QED  BY <3>1, <3>2, <2>1, <1>4
    <2> QED  BY <2>3, <2>4, <2>5, BijectionBy
  <1>7. IsFiniteSet(Places(A, V))
    BY <1>1, WithinType
  <1>8. Within(B, V) = Within(A, V)
    BY <1>6, <1>7, BijectionSize, Zenon DEF Within
  <1> QED  BY <1>2, <1>8 DEF B

\* The numbers at or below x, and those at or above it.
AtMost(x) == {y \in Int : y <= x}
AtLeast(x) == {y \in Int : y >= x}

\* The element at place k of an ascending sequence is the one that has k at or
\* below it and the rest, itself included, at or above it.
LEMMA OrderStatistic ==
  ASSUME NEW s \in Seq(Int), Ascending(s), NEW k \in 1 .. Len(s), NEW x \in Int,
         Within(s, AtMost(x)) >= k, Within(s, AtLeast(x)) >= Len(s) - k + 1
  PROVE  s[k] = x
  <1>1. Len(s) \in Nat /\ k \in Int /\ 1 <= k /\ k <= Len(s) /\ \A i \in 1 .. Len(s) : s[i] \in Int
    OBVIOUS
  <1>2. \A i, j \in 1 .. Len(s) : i <= j => s[i] <= s[j]
    <2>1. DOMAIN s = 1 .. Len(s)
      OBVIOUS
    <2>2. \A i, j \in 1 .. Len(s) : i < j => s[i] <= s[j]
      BY <2>1, Zenon DEF Ascending
    <2> QED  BY <1>1, <2>2
  <1>3. ASSUME s[k] > x PROVE FALSE
    <2>1. Places(s, AtMost(x)) \subseteq 1 .. k - 1
      BY <1>1, <1>2, <1>3 DEF Places, AtMost
    <2>2. Within(s, AtMost(x)) <= (k - 1) - 1 + 1
      BY <2>1, <1>1, WithinInterval
    <2>3. Within(s, AtMost(x)) \in Nat
      BY <1>1, WithinType
    <2> QED  BY <2>2, <2>3, <1>1
  <1>4. ASSUME s[k] < x PROVE FALSE
    <2>1. Places(s, AtLeast(x)) \subseteq k + 1 .. Len(s)
      BY <1>1, <1>2, <1>4 DEF Places, AtLeast
    <2>2. Within(s, AtLeast(x)) <= Len(s) - (k + 1) + 1
      BY <2>1, <1>1, WithinInterval
    <2>3. Within(s, AtLeast(x)) \in Nat
      BY <1>1, WithinType
    <2> QED  BY <2>2, <2>3, <1>1
  <1> QED  BY <1>1, <1>3, <1>4

\* Entered keeps a sequence ascending, and adds one element.
LEMMA EnteredKeeps ==
  ASSUME NEW s \in Seq(Int), Ascending(s), NEW e \in Int
  PROVE  /\ Entered(s, e) \in Seq(Int) /\ Len(Entered(s, e)) = Len(s) + 1
         /\ Ascending(Entered(s, e))
         /\ \A V : Within(Entered(s, e), V) = Within(s, V) + Within(<<e>>, V)
  <1> DEFINE n == Len(s)
             S == {i \in DOMAIN s : s[i] > e} \cup {n + 1}
             p == Min(S)
             low == SubSeq(s, 1, p - 1)
             high == SubSeq(s, p, n)
  <1>0. n \in Nat /\ DOMAIN s = 1 .. n /\ (\A i \in 1 .. n : s[i] \in Int) /\ Len(s) = n
    OBVIOUS
  <1> HIDE DEF n
  <1>1. p \in S /\ \A i \in S : p <= i
    <2>1. S \in SUBSET Nat /\ S # {}
      BY <1>0
    <2> HIDE DEF S
    <2> QED  BY <2>1, MinProperties
  <1> HIDE DEF p
  <1>2. p \in 1 .. n + 1 /\ p \in Int
    BY <1>0, <1>1
  <1>3. \A i \in 1 .. n : (i < p => s[i] <= e) /\ (i >= p => s[i] > e)
    <2>1. ASSUME NEW i \in 1 .. n, i < p PROVE s[i] <= e
      <3>1. i \notin S
        BY <2>1, <1>1, <1>2
      <3> QED  BY <3>1, <1>0
    <2>2. ASSUME NEW i \in 1 .. n, i >= p PROVE s[i] > e
      <3>1. p \in 1 .. n /\ s[p] > e
        BY <1>0, <1>1, <1>2, <2>2
      <3>2. s[i] >= s[p]
        BY <3>1, <1>0, <1>2, <2>2 DEF Ascending
      <3> QED  BY <3>1, <3>2, <1>0
    <2> QED  BY <2>1, <2>2
  <1> HIDE DEF S
  <1>4. low \in Seq(Int) /\ Len(low) = p - 1 /\ \A i \in 1 .. p - 1 : low[i] = s[i]
    BY <1>0, <1>2
  <1>5. high \in Seq(Int) /\ Len(high) = n - p + 1 /\ \A i \in 1 .. n - p + 1 : high[i] = s[p + i - 1]
    BY <1>0, <1>2
  <1> HIDE DEF low, high
  <1> DEFINE one == low \o <<e>>
             t == one \o high
  <1>6. Entered(s, e) = t
    BY Zenon DEF Entered, InsertAt, low, high, p, S, n
  <1>7. one \in Seq(Int) /\ Len(one) = p /\ \A i \in 1 .. p : one[i] = IF i < p THEN s[i] ELSE e
    <2>1. <<e>> \in Seq(Int) /\ Len(<<e>>) = 1 /\ <<e>>[1] = e
      OBVIOUS
    <2>2. /\ one \in Seq(Int) /\ Len(one) = Len(low) + Len(<<e>>)
          /\ \A i \in 1 .. Len(low) + Len(<<e>>) : one[i] = IF i <= Len(low) THEN low[i] ELSE <<e>>[i - Len(low)]
      BY <2>1, <1>4, ConcatProperties, Zenon
    <2>3. Len(low) + Len(<<e>>) = p
      BY <2>1, <1>2, <1>4
    <2>4. \A i \in 1 .. p : i < p => one[i] = s[i]
      BY <2>2, <2>3, <1>2, <1>4
    <2>5. one[p] = <<e>>[p - Len(low)] /\ p - Len(low) = 1
      BY <2>2, <2>3, <1>2, <1>4
    <2> HIDE DEF one
    <2> QED  BY <2>1, <2>2, <2>3, <2>4, <2>5, <1>2
  <1> HIDE DEF one
  <1>8. /\ t \in Seq(Int) /\ Len(t) = n + 1
        /\ \A i \in 1 .. n + 1 : t[i] = IF i < p THEN s[i] ELSE IF i = p THEN e ELSE s[i - 1]
    <2>1. /\ t \in Seq(Int) /\ Len(t) = Len(one) + Len(high)
          /\ \A i \in 1 .. Len(one) + Len(high) : t[i] = IF i <= Len(one) THEN one[i] ELSE high[i - Len(one)]
      BY <1>7, <1>5, ConcatProperties, Zenon
    <2> HIDE DEF t
    <2>2. Len(one) = p /\ Len(one) + Len(high) = n + 1
      BY <1>0, <1>2, <1>5, <1>7
    <2>3. \A i \in 1 .. n + 1 : t[i] = IF i <= p THEN one[i] ELSE high[i - p]
      BY <2>1, <2>2
    <2>4. \A i \in 1 .. n + 1 : i <= p => t[i] = IF i < p THEN s[i] ELSE e
      BY <2>3, <1>2, <1>7, <1>0
    <2>5. ASSUME NEW i \in 1 .. n + 1, i > p PROVE t[i] = s[i - 1]
      <3>1. i - p \in 1 .. n - p + 1 /\ p + (i - p) - 1 = i - 1 /\ ~(i <= p)
        BY <2>5, <1>0, <1>2
      <3>2. t[i] = high[i - p]
        BY <2>3, <3>1
      <3> QED  BY <3>1, <3>2, <1>5
    <2> QED  BY <2>1, <2>2, <2>4, <2>5, <1>0, <1>2
  <1>9. low \o high = s
    <2> DEFINE u == low \o high
    <2>1. /\ u \in Seq(Int) /\ Len(u) = Len(low) + Len(high)
          /\ \A i \in 1 .. Len(low) + Len(high) : u[i] = IF i <= Len(low) THEN low[i] ELSE high[i - Len(low)]
      BY <1>4, <1>5, ConcatProperties, Zenon
    <2> HIDE DEF u
    <2>2. Len(low) = p - 1 /\ Len(low) + Len(high) = n
      BY <1>0, <1>2, <1>5, <1>4
    <2>3. \A i \in 1 .. n : u[i] = IF i <= p - 1 THEN low[i] ELSE high[i - (p - 1)]
      BY <2>1, <2>2
    <2>4. ASSUME NEW i \in 1 .. n PROVE u[i] = s[i]
      <3>1. CASE i <= p - 1
        BY <3>1, <2>3, <1>4, <1>2, <1>0
      <3>2. CASE ~(i <= p - 1)
        <4>1. i - (p - 1) \in 1 .. n - p + 1 /\ p + (i - (p - 1)) - 1 = i
          BY <3>2, <1>0, <1>2
        <4>2. u[i] = high[i - (p - 1)]
          BY <2>3, <3>2
        <4> QED  BY <4>1, <4>2, <1>5
      <3> QED  BY <3>1, <3>2
    <2>5. Len(u) = Len(s)
      BY <2>1, <2>2, <1>0
    <2>6. u = s
      BY <2>1, <2>4, <2>5, <1>0, SeqEqual
    <2> QED  BY <2>6 DEF u
  <1>10. ASSUME NEW V PROVE Within(t, V) = Within(s, V) + Within(<<e>>, V)
    <2>1. <<e>> \in Seq(Int) /\ \A q \in Seq(Int) : Len(q) \in Nat
      OBVIOUS
    <2>2. Within(t, V) = Within(one, V) + Within(high, V)
      BY <1>7, <1>5, WithinConcat
    <2>3. Within(one, V) = Within(low, V) + Within(<<e>>, V)
      BY <2>1, <1>4, WithinConcat DEF one
    <2>4. Within(s, V) = Within(low, V) + Within(high, V)
      BY <1>9, <1>4, <1>5, WithinConcat
    <2>5. Within(low, V) \in Nat /\ Within(high, V) \in Nat /\ Within(<<e>>, V) \in Nat
      BY <1>4, <1>5, <2>1, WithinType, Zenon
    <2> QED  BY <2>2, <2>3, <2>4, <2>5
  <1>11. Ascending(t)
    <2> HIDE DEF t
    <2>1. DOMAIN t = 1 .. n + 1
      BY <1>8
    <2> SUFFICES ASSUME NEW i \in 1 .. n + 1, NEW j \in 1 .. n + 1, i < j PROVE t[i] <= t[j]
      BY <2>1 DEF Ascending
    <2>2. \A a, b \in 1 .. n : a <= b => s[a] <= s[b]
      BY <1>0 DEF Ascending
    <2>3. i \in Int /\ j \in Int /\ (i <= n) /\ (j - 1 \in 1 .. n)
      BY <1>0
    <2>4. CASE i < p /\ j < p
      <3>1. t[i] = s[i] /\ t[j] = s[j]
        BY <2>4, <1>8
      <3>2. i \in 1 .. n /\ j \in 1 .. n /\ i <= j
        BY <2>4, <1>2, <1>0
      <3> QED  BY <2>2, <3>1, <3>2
    <2>5. CASE i < p /\ j = p
      BY <2>5, <1>3, <1>8, <1>2, <1>0
    <2>6. CASE i < p /\ j > p
      BY <2>6, <2>2, <2>3, <1>8, <1>2, <1>0
    <2>7. CASE i = p
      <3>1. t[i] = e /\ t[j] = s[j - 1] /\ j - 1 >= p
        BY <2>7, <2>3, <1>8, <1>2, <1>0
      <3>2. s[j - 1] > e
        BY <3>1, <2>3, <1>3
      <3> QED  BY <3>1, <3>2, <2>3, <1>0
    <2>8. CASE i > p
      <3>1. t[i] = s[i - 1] /\ t[j] = s[j - 1] /\ i - 1 \in 1 .. n /\ i - 1 <= j - 1
        BY <2>8, <2>3, <1>8, <1>2, <1>0
      <3> QED  BY <3>1, <2>2, <2>3
    <2> QED  BY <2>3, <2>4, <2>5, <2>6, <2>7, <2>8, <1>2
  <1> QED  BY <1>0, <1>6, <1>8, <1>10, <1>11

-----------------------------------------------------------------------------
(* The calls of heapify.                                                   *)

\* The first n + 1 elements of the sequence from x in which each follows from the
\* one before it by F.
Iterates(X, F, x, n) == {g \in [0 .. n -> X] : g[0] = x /\ \A k \in 0 .. n - 1 : g[k + 1] = F[g[k]]}

\* There is such a sequence.
LEMMA IteratesExist ==
  ASSUME NEW X, NEW F \in [X -> X], NEW x \in X
  PROVE  \A n \in Nat : Iterates(X, F, x, n) # {}
  <1> DEFINE S == {n \in Nat : Iterates(X, F, x, n) # {}}
  <1>1. 0 \in S
    <2> DEFINE g == [k \in 0 .. 0 |-> x]
    <2>1. g \in [0 .. 0 -> X] /\ g[0] = x
      OBVIOUS
    <2>2. 0 .. 0 - 1 = {}
      OBVIOUS
    <2> QED  BY <2>1, <2>2 DEF Iterates
  <1>2. ASSUME NEW n \in Nat, n \in S PROVE n + 1 \in S
    <2>1. PICK g \in Iterates(X, F, x, n) : TRUE
      BY <1>2
    <2>2. g \in [0 .. n -> X] /\ g[0] = x /\ \A k \in 0 .. n - 1 : g[k + 1] = F[g[k]]
      BY <2>1 DEF Iterates
    <2> DEFINE e == [k \in 0 .. n + 1 |-> IF k <= n THEN g[k] ELSE F[g[n]]]
    <2>3. e \in [0 .. n + 1 -> X]
      BY <2>2
    <2>4. e[0] = x
      BY <2>2
    <2>5. ASSUME NEW k \in 0 .. (n + 1) - 1 PROVE e[k + 1] = F[e[k]]
      <3>1. e[k] = g[k]
        OBVIOUS
      <3>2. CASE k = n
        BY <3>1, <3>2
      <3>3. CASE k # n
        <4>1. k \in 0 .. n - 1 /\ e[k + 1] = g[k + 1]
          BY <3>3
        <4> QED  BY <4>1, <3>1, <2>2
      <3> QED  BY <3>2, <3>3
    <2>6. e \in Iterates(X, F, x, n + 1)
      BY <2>3, <2>4, <2>5 DEF Iterates
    <2> QED  BY <2>6
  <1> HIDE DEF S
  <1>3. \A n \in Nat : n \in S
    BY <1>1, <1>2, AllNaturals
  <1> QED  BY <1>3 DEF S

\* Two such sequences agree.
LEMMA IteratesAgree ==
  ASSUME NEW X, NEW F, NEW x, NEW n \in Nat, NEW m \in Nat,
         NEW g \in Iterates(X, F, x, n), NEW e \in Iterates(X, F, x, m)
  PROVE  \A k \in Nat : k <= n /\ k <= m => g[k] = e[k]
  <1> DEFINE S == {k \in Nat : k <= n /\ k <= m => g[k] = e[k]}
  <1>1. /\ g[0] = x /\ \A k \in 0 .. n - 1 : g[k + 1] = F[g[k]]
        /\ e[0] = x /\ \A k \in 0 .. m - 1 : e[k + 1] = F[e[k]]
    BY DEF Iterates
  <1>2. 0 \in S
    BY <1>1
  <1>3. ASSUME NEW k \in Nat, k \in S PROVE k + 1 \in S
    <2> SUFFICES ASSUME k + 1 <= n, k + 1 <= m PROVE g[k + 1] = e[k + 1]
      OBVIOUS
    <2>1. k \in 0 .. n - 1 /\ k \in 0 .. m - 1 /\ g[k] = e[k]
      BY <1>3
    <2> QED  BY <2>1, <1>1
  <1> HIDE DEF S
  <1>4. \A k \in Nat : k \in S
    BY <1>2, <1>3, AllNaturals
  <1> QED  BY <1>4 DEF S

\* The infinite sequence of what F makes of x.
Iteration(F, x, C) == C[0] = x /\ \A n \in Nat : C[n + 1] = F[C[n]]

\* The finite sequences are the beginnings of an infinite one.
LEMMA IterationExists ==
  ASSUME NEW X, NEW F \in [X -> X], NEW x \in X
  PROVE  \E C \in [Nat -> X] : Iteration(F, x, C)
  <1> DEFINE I(n) == Iterates(X, F, x, n)
             G(n) == CHOOSE g \in I(n) : TRUE
             C == [n \in Nat |-> G(n)[n]]
  <1>1. \A n \in Nat : G(n) \in I(n)
    BY IteratesExist, Zenon
  <1> HIDE DEF G
  <1>2. \A n \in Nat : G(n) \in [0 .. n -> X] /\ G(n)[0] = x /\ \A k \in 0 .. n - 1 : G(n)[k + 1] = F[G(n)[k]]
    BY <1>1, Zenon DEF Iterates
  <1>3. ASSUME NEW n \in Nat PROVE n \in 0 .. n /\ n \in 0 .. (n + 1) - 1 /\ n + 1 \in Nat /\ n <= n /\ n <= n + 1
    OBVIOUS
  <1>4. C \in [Nat -> X]
    BY <1>2, <1>3
  <1>5. C[0] = x
    BY <1>2
  <1>6. ASSUME NEW n \in Nat PROVE C[n + 1] = F[C[n]]
    <2>1. C[n] = G(n)[n] /\ C[n + 1] = G(n + 1)[n + 1]
      BY <1>3
    <2>2. G(n + 1)[n + 1] = F[G(n + 1)[n]]
      BY <1>2, <1>3
    <2>3. G(n + 1)[n] = G(n)[n]
      <3>1. n \in Nat /\ n + 1 \in Nat /\ G(n) \in I(n) /\ G(n + 1) \in I(n + 1) /\ n <= n /\ n <= n + 1
        BY <1>1, <1>3
      <3> DEFINE a == n + 1
                 g == G(a)
                 e == G(n)
      <3>2. a \in Nat /\ g \in Iterates(X, F, x, a) /\ e \in Iterates(X, F, x, n)
        BY <3>1
      <3> HIDE DEF a, g, e
      <3>3. \A k \in Nat : k <= a /\ k <= n => g[k] = e[k]
        BY <3>2, IteratesAgree
      <3> QED  BY <3>1, <3>3 DEF a, g, e
    <2> QED  BY <2>1, <2>2, <2>3
  <1> HIDE DEF C
  <1>7. Iteration(F, x, C)
    BY <1>5, <1>6 DEF Iteration
  <1> QED  BY <1>4, <1>7

\* A heap, and the array and index with which heapify is called.
HeapType == [A : Seq(Int), comp : {"Greater", "Smaller"}]
CallType == {s \in [A : Seq(Int), i : Int] : -1 <= s.i /\ s.i < Len(s.A)}

\* Parents are before their children.
LEMMA ParentBefore ==
  ASSUME NEW i \in Int
  PROVE  /\ i <= 0 => Parent(i) = -1
         /\ i > 0 => Parent(i) \in 0 .. i - 1
  BY DEF Parent

\* Both comparators are strict orders of all numbers.
LEMMA CompOrder ==
  ASSUME NEW h \in HeapType, NEW a \in Int, NEW b \in Int, NEW c \in Int
  PROVE  /\ comp(h, a, b) => ~ comp(h, b, a)
         /\ ~ comp(h, a, b) /\ ~ comp(h, b, c) => ~ comp(h, a, c)
         /\ ~ comp(h, a, b) /\ comp(h, c, b) => ~ comp(h, a, c)
  BY DEF comp, HeapType

\* The element climbs.
Climbs(h, s) == Parent(s.i) >= 0 /\ comp(h, s.A[s.i + 1], s.A[Parent(s.i) + 1])

\* A call exchanges the element with its parent or leaves the array alone.
LEMMA PercolateCases ==
  ASSUME NEW h, NEW s
  PROVE  /\ Climbs(h, s) => Percolate(h, s) = [A |-> Exch(s.A, s.i, Parent(s.i)), i |-> Parent(s.i)]
         /\ ~ Climbs(h, s) => Percolate(h, s) = s
  BY Zenon DEF Percolate, Climbs

\* What a call keeps.
LEMMA PercolateKeeps ==
  ASSUME NEW h, NEW s \in CallType
  PROVE  /\ Percolate(h, s) \in CallType
         /\ Len(Percolate(h, s).A) = Len(s.A)
         /\ \A V : Within(Percolate(h, s).A, V) = Within(s.A, V)
         /\ Climbs(h, s) => 0 <= Percolate(h, s).i /\ Percolate(h, s).i < s.i
  <1>1. CASE ~ Climbs(h, s)
    BY <1>1, PercolateCases, Zenon
  <1>2. CASE Climbs(h, s)
    <2> DEFINE A == s.A
               i == s.i
               p == Parent(i)
               B == Exch(A, i, p)
    <2>1. A \in Seq(Int) /\ i \in Int /\ -1 <= i /\ i < Len(A) /\ Len(A) \in Nat
      BY DEF CallType
    <2>2. Percolate(h, s) = [A |-> B, i |-> p] /\ p >= 0
      BY <1>2, PercolateCases DEF Climbs
    <2> HIDE DEF A, i
    <2>3. i > 0 /\ p \in 0 .. i - 1
      BY <2>1, <2>2, ParentBefore
    <2> HIDE DEF p
    <2>4. i \in 0 .. Len(A) - 1 /\ p \in 0 .. Len(A) - 1
      BY <2>1, <2>3
    <2>5. B \in Seq(Int) /\ Len(B) = Len(A) /\ \A V : Within(B, V) = Within(A, V)
      BY <2>1, <2>4, WithinExch
    <2> HIDE DEF B
    <2>6. [A |-> B, i |-> p] \in CallType
      BY <2>1, <2>3, <2>5 DEF CallType
    <2> DEFINE r == [A |-> B, i |-> p]
    <2>7. r \in CallType /\ r.A = B /\ r.i = p /\ Percolate(h, s) = r
      BY <2>2, <2>6
    <2> HIDE DEF r
    <2>8. 0 <= r.i /\ r.i < i
      BY <2>3, <2>1, <2>7
    <2>9. Len(r.A) = Len(A) /\ \A V : Within(r.A, V) = Within(A, V)
      BY <2>5, <2>7, Zenon
    <2> QED  BY <2>7, <2>8, <2>9, Zenon DEF A, i
  <1> QED  BY <1>1, <1>2

\* The array is a heap, or would be one but for the element that climbs.
Heaped(h, A) == \A k \in 1 .. Len(A) - 1 : ~ comp(h, A[k + 1], A[Parent(k) + 1])
HeapedBut(h, s) ==
  /\ \A k \in 1 .. Len(s.A) - 1 : k # s.i => ~ comp(h, s.A[k + 1], s.A[Parent(k) + 1])
  /\ \A k \in 1 .. Len(s.A) - 1 : Parent(k) = s.i /\ s.i > 0 => ~ comp(h, s.A[k + 1], s.A[Parent(s.i) + 1])

\* When it has stopped climbing the array is a heap.
LEMMA StoppedHeaped ==
  ASSUME NEW h, NEW s \in CallType, HeapedBut(h, s), ~ Climbs(h, s)
  PROVE  Heaped(h, s.A)
  <1>1. s.i \in Int /\ Len(s.A) \in Nat
    BY DEF CallType
  <1> SUFFICES ASSUME NEW k \in 1 .. Len(s.A) - 1, k = s.i PROVE ~ comp(h, s.A[k + 1], s.A[Parent(k) + 1])
    BY DEF Heaped, HeapedBut
  <1>2. Parent(k) >= 0
    BY <1>1, ParentBefore
  <1> QED  BY <1>2 DEF Climbs

\* A call moves the one element that may be out of place, and leaves the rest.
LEMMA PercolateHeaped ==
  ASSUME NEW h \in HeapType, NEW s \in CallType, HeapedBut(h, s)
  PROVE  HeapedBut(h, Percolate(h, s))
  <1>1. CASE ~ Climbs(h, s)
    BY <1>1, PercolateCases, Zenon
  <1>2. CASE Climbs(h, s)
    <2> DEFINE A == s.A
               i == s.i
               p == Parent(i)
               B == Exch(A, i, p)
               n == Len(A)
    <2>1. A \in Seq(Int) /\ i \in Int /\ -1 <= i /\ i < n /\ n \in Nat
      BY DEF CallType
    <2>2. Percolate(h, s) = [A |-> B, i |-> p] /\ p >= 0 /\ comp(h, A[i + 1], A[p + 1])
      BY <1>2, PercolateCases DEF Climbs
    <2>3. /\ \A k \in 1 .. n - 1 : k # i => ~ comp(h, A[k + 1], A[Parent(k) + 1])
          /\ \A k \in 1 .. n - 1 : Parent(k) = i /\ i > 0 => ~ comp(h, A[k + 1], A[p + 1])
      BY DEF HeapedBut
    <2> HIDE DEF A, i
    <2>4. i > 0 /\ p \in 0 .. i - 1
      <3>1. (i <= 0 => p = -1) /\ (i > 0 => p \in 0 .. i - 1)
        BY <2>1, ParentBefore, Zenon
      <3> HIDE DEF p
      <3> QED  BY <3>1, <2>1, <2>2
    <2> HIDE DEF n
    <2>5. i \in 1 .. n - 1 /\ p \in 0 .. n - 1 /\ i # p /\ p \in Int
      <3> HIDE DEF p
      <3> QED  BY <2>1, <2>4
    <2>6. \A k \in 0 .. n - 1 : A[k + 1] \in Int
      BY <2>1 DEF n
    <2>7. Len(B) = n /\ \A k \in 0 .. n - 1 : B[k + 1] = IF k = p THEN A[i + 1] ELSE IF k = i THEN A[p + 1] ELSE A[k + 1]
      <3>1. i \in 0 .. Len(A) - 1 /\ p \in 0 .. Len(A) - 1 /\ A \in Seq(Int)
        BY <2>1, <2>5 DEF n
      <3> HIDE DEF p
      <3>2. Len(Exch(A, i, p)) = Len(A) /\ Transposed(A, i, p, Exch(A, i, p))
        BY <3>1, ExchPlaces, Zenon
      <3> QED  BY <3>2, Zenon DEF n, Transposed
    <2> HIDE DEF B
    <2>8. \A k \in 1 .. n - 1 : Parent(k) \in 0 .. n - 1 /\ Parent(k) # k
      BY <2>1, ParentBefore
    <2>9. ASSUME NEW k \in 1 .. n - 1, k # p PROVE ~ comp(h, B[k + 1], B[Parent(k) + 1])
      <3>1. CASE k = i
        <4>1. B[k + 1] = A[p + 1] /\ B[Parent(k) + 1] = A[i + 1]
          BY <3>1, <2>5, <2>7
        <4> QED  BY <4>1, <2>2, <2>5, <2>6, CompOrder
      <3>2. CASE k # i /\ Parent(k) = i
        <4>1. B[k + 1] = A[k + 1] /\ B[Parent(k) + 1] = A[p + 1]
          BY <3>2, <2>5, <2>7, <2>9
        <4> QED  BY <4>1, <3>2, <2>3, <2>4
      <3>3. CASE k # i /\ Parent(k) = p
        <4>1. B[k + 1] = A[k + 1] /\ B[Parent(k) + 1] = A[i + 1]
          BY <3>3, <2>5, <2>7, <2>9
        <4>2. ~ comp(h, A[k + 1], A[p + 1])
          BY <3>3, <2>3
        <4>3. k \in 0 .. n - 1 /\ i \in 0 .. n - 1
          BY <2>5, <2>9
        <4> QED  BY <4>1, <4>2, <4>3, <2>2, <2>5, <2>6, CompOrder
      <3>4. CASE k # i /\ Parent(k) # i /\ Parent(k) # p
        <4>1. B[k + 1] = A[k + 1] /\ B[Parent(k) + 1] = A[Parent(k) + 1]
          BY <3>4, <2>5, <2>7, <2>8, <2>9
        <4> QED  BY <4>1, <3>4, <2>3
      <3> QED  BY <3>1, <3>2, <3>3, <3>4
    <2>10. ASSUME NEW k \in 1 .. n - 1, Parent(k) = p, p > 0 PROVE ~ comp(h, B[k + 1], B[Parent(p) + 1])
      <3> DEFINE q == Parent(p)
      <3>1. q \in 0 .. n - 1 /\ q # p /\ q # i
        <4>1. q \in 0 .. p - 1
          BY <2>5, <2>10, ParentBefore
        <4> HIDE DEF p, q
        <4> QED  BY <4>1, <2>1, <2>4
      <3>2. B[q + 1] = A[q + 1] /\ ~ comp(h, A[p + 1], A[q + 1])
        BY <3>1, <2>3, <2>5, <2>7, <2>10
      <3> HIDE DEF q
      <3>3. CASE k = i
        <4>1. B[k + 1] = A[p + 1]
          BY <3>3, <2>5, <2>7
        <4> QED  BY <4>1, <3>2 DEF q
      <3>4. CASE k # i
        <4>1. B[k + 1] = A[k + 1] /\ ~ comp(h, A[k + 1], A[p + 1]) /\ k \in 0 .. n - 1
          BY <3>4, <2>3, <2>7, <2>8, <2>10
        <4>2. ~ comp(h, A[k + 1], A[q + 1])
          BY <4>1, <3>1, <3>2, <2>5, <2>6, CompOrder
        <4> QED  BY <4>1, <4>2, <3>2 DEF q
      <3> QED  BY <3>3, <3>4
    <2>11. HeapedBut(h, [A |-> B, i |-> p])
      <3> HIDE DEF p
      <3> QED  BY <2>7, <2>9, <2>10 DEF HeapedBut
    <2> QED  BY <2>2, <2>11
  <1> QED  BY <1>1, <1>2

\* C is the sequence of the calls of heapify(h, i).
CallsOf(h, i, C) == C = [n \in Nat |-> IF n = 0 THEN [A |-> h.A, i |-> i] ELSE Percolate(h, C[n - 1])]

\* The recursion of heapify is defined.
LEMMA CallsExist ==
  ASSUME NEW h, NEW i, [A |-> h.A, i |-> i] \in CallType
  PROVE  \E C : CallsOf(h, i, C)
  <1> DEFINE F == [s \in CallType |-> Percolate(h, s)]
             first == [A |-> h.A, i |-> i]
  <1>1. F \in [CallType -> CallType]
    BY PercolateKeeps
  <1>2. \A s \in CallType : F[s] = Percolate(h, s)
    OBVIOUS
  <1> HIDE DEF F, first
  <1>3. first \in CallType
    BY DEF first
  <1>4. PICK C \in [Nat -> CallType] : C[0] = first /\ \A n \in Nat : C[n + 1] = F[C[n]]
    <2>1. \E C \in [Nat -> CallType] : Iteration(F, first, C)
      BY <1>1, <1>3, IterationExists
    <2> QED  BY <2>1 DEF Iteration
  <1> DEFINE D == [n \in Nat |-> IF n = 0 THEN first ELSE Percolate(h, C[n - 1])]
  <1>5. ASSUME NEW n \in Nat PROVE C[n] = D[n]
    <2>1. CASE n = 0
      BY <2>1, <1>4
    <2>2. CASE n # 0
      <3>1. n - 1 \in Nat /\ (n - 1) + 1 = n
        BY <2>2
      <3>2. C[n - 1] \in CallType /\ C[n] = F[C[n - 1]]
        BY <3>1, <1>4
      <3> QED  BY <3>2, <1>2, <2>2
    <2> QED  BY <2>1, <2>2
  <1>6. C = D
    BY <1>4, <1>5
  <1>7. CallsOf(h, i, C)
    BY <1>6 DEF CallsOf, first
  <1> QED  BY <1>7

\* What is so after each of the calls.
Called(h, i, first, C) ==
  \A n \in Nat :
    /\ C[n] \in CallType /\ Len(C[n].A) = Len(h.A)
    /\ \A V : Within(C[n].A, V) = Within(h.A, V)
    /\ h \in HeapType /\ HeapedBut(h, first) => HeapedBut(h, C[n])
    /\ ~ Climbs(h, C[n]) \/ C[n].i + n <= i

\* What the calls keep, what they make of a heap, and that they come to an end.
LEMMA CallsKeep ==
  ASSUME NEW h, NEW i \in Int, NEW first, first = [A |-> h.A, i |-> i], first \in CallType,
         NEW C, CallsOf(h, i, C)
  PROVE  Called(h, i, first, C)
  <1> DEFINE Kept(s) == /\ s \in CallType /\ Len(s.A) = Len(h.A)
                        /\ \A V : Within(s.A, V) = Within(h.A, V)
                        /\ h \in HeapType /\ HeapedBut(h, first) => HeapedBut(h, s)
             Near(s, n) == ~ Climbs(h, s) \/ s.i + n <= i
             S == {n \in Nat : Kept(C[n]) /\ Near(C[n], n)}
  <1>1. C[0] = first /\ \A n \in Nat : C[n + 1] = Percolate(h, C[n])
    <2> DEFINE D == [n \in Nat |-> IF n = 0 THEN first ELSE Percolate(h, C[n - 1])]
    <2>1. C = D
      BY Zenon DEF CallsOf
    <2>2. D[0] = first /\ \A n \in Nat : D[n + 1] = Percolate(h, C[n])
      OBVIOUS
    <2> HIDE DEF D
    <2> QED  BY <2>1, <2>2, Zenon
  <1>2. first.A = h.A /\ first.i = i
    OBVIOUS
  <1>3. Kept(first)
    BY <1>2, Zenon
  <1>4. ASSUME NEW s, Kept(s) PROVE Kept(Percolate(h, s))
    <2>1. h \in HeapType /\ HeapedBut(h, first) => HeapedBut(h, Percolate(h, s))
      BY <1>4, PercolateHeaped
    <2>2. /\ Percolate(h, s) \in CallType /\ Len(Percolate(h, s).A) = Len(h.A)
          /\ \A V : Within(Percolate(h, s).A, V) = Within(h.A, V)
      <3>1. s \in CallType
        BY <1>4
      <3>2. /\ Percolate(h, s) \in CallType /\ Len(Percolate(h, s).A) = Len(s.A)
            /\ \A V : Within(Percolate(h, s).A, V) = Within(s.A, V)
        BY <3>1, PercolateKeeps
      <3>3. Len(s.A) = Len(h.A) /\ \A V : Within(s.A, V) = Within(h.A, V)
        BY <1>4
      <3> QED  BY <3>2, <3>3, Zenon
    <2> QED  BY <2>1, <2>2
  <1>5. ASSUME NEW s \in CallType, NEW n \in Nat, Near(s, n) PROVE Near(Percolate(h, s), n + 1)
    <2>1. s.i \in Int /\ Percolate(h, s) \in CallType
      BY PercolateKeeps DEF CallType
    <2>2. Percolate(h, s).i \in Int
      BY <2>1 DEF CallType
    <2>3. CASE Climbs(h, s)
      <3>1. Percolate(h, s).i < s.i
        BY <2>3, PercolateKeeps
      <3>2. s.i + n <= i
        BY <2>3, <1>5
      <3>3. Percolate(h, s).i + (n + 1) <= i
        BY <3>1, <3>2, <2>1, <2>2
      <3> QED  BY <3>3
    <2>4. CASE ~ Climbs(h, s)
      <3>1. Percolate(h, s) = s
        BY <2>4, PercolateCases
      <3> QED  BY <3>1, <2>4
    <2> QED  BY <2>3, <2>4
  <1>6. Near(first, 0)
    BY <1>2
  <1>7. 0 \in S
    BY <1>1, <1>3, <1>6
  <1> HIDE DEF Kept, Near
  <1>8. ASSUME NEW n \in Nat, n \in S PROVE n + 1 \in S
    <2>1. Kept(C[n]) /\ Near(C[n], n)
      BY <1>8
    <2>2. C[n] \in CallType
      BY <2>1 DEF Kept
    <2>3. Kept(Percolate(h, C[n])) /\ Near(Percolate(h, C[n]), n + 1)
      BY <1>4, <1>5, <2>1, <2>2
    <2> QED  BY <2>3, <1>1
  <1> HIDE DEF S
  <1>9. \A n \in Nat : n \in S
    BY <1>7, <1>8, AllNaturals
  <1>10. \A n \in Nat : Kept(C[n]) /\ Near(C[n], n)
    BY <1>9, Zenon DEF S
  <1> QED  BY <1>10, Zenon DEF Called, Kept, Near

\* heapify loses nothing, and leaves a heap where only its element was out of place.
LEMMA HeapifyCorrect ==
  ASSUME NEW h \in HeapType, NEW i \in Int, -1 <= i, i < Len(h.A)
  PROVE  /\ heapify(h, i) \in HeapType /\ heapify(h, i).comp = h.comp
         /\ Len(heapify(h, i).A) = Len(h.A)
         /\ \A V : Within(heapify(h, i).A, V) = Within(h.A, V)
         /\ HeapedBut(h, [A |-> h.A, i |-> i]) => Heaped(h, heapify(h, i).A)
  <1> DEFINE C == CHOOSE D : CallsOf(h, i, D)
             n == Len(h.A)
             B == C[n].A
             first == [A |-> h.A, i |-> i]
  <1>1. heapify(h, i) = [h EXCEPT !.A = B]
    BY Zenon DEF heapify, CallsOf
  <1>2. h.A \in Seq(Int) /\ n \in Nat /\ i < n
    BY DEF HeapType
  <1>3. first \in CallType
    BY <1>2 DEF CallType
  <1>4. CallsOf(h, i, C)
    BY <1>3, CallsExist, Zenon
  <1> HIDE DEF C, n
  <1>5. /\ C[n] \in CallType /\ Len(C[n].A) = n
        /\ \A V : Within(C[n].A, V) = Within(h.A, V)
        /\ HeapedBut(h, first) => HeapedBut(h, C[n])
        /\ ~ Climbs(h, C[n]) \/ C[n].i + n <= i
    <2> HIDE DEF first
    <2>1. first = [A |-> h.A, i |-> i]
      BY DEF first
    <2>2. Called(h, i, first, C)
      BY <2>1, <1>3, <1>4, CallsKeep, Zenon
    <2> QED  BY <2>2, <1>2, Zenon DEF Called, n
  <1>6. ~ Climbs(h, C[n])
    <2>1. C[n].i \in Int
      BY <1>5 DEF CallType
    <2>2. CASE C[n].i + n <= i
      <3>1. C[n].i < 0
        BY <2>1, <2>2, <1>2
      <3>2. Parent(C[n].i) = -1
        BY <2>1, <3>1, ParentBefore
      <3> QED  BY <3>2 DEF Climbs
    <2> QED  BY <2>2, <1>5
  <1>7. HeapedBut(h, first) => Heaped(h, B)
    BY <1>5, <1>6, StoppedHeaped
  <1>8. B \in Seq(Int)
    BY <1>5 DEF CallType
  <1> HIDE DEF B
  <1>9. heapify(h, i) \in HeapType /\ heapify(h, i).comp = h.comp /\ heapify(h, i).A = B
    BY <1>1, <1>8 DEF HeapType
  <1> QED  BY <1>5, <1>7, <1>9, Zenon DEF B, n

-----------------------------------------------------------------------------
(* The heaps.                                                              *)

\* Only the comparator of a heap says what a heap is.
LEMMA SameComp ==
  ASSUME NEW g, NEW h, g.comp = h.comp
  PROVE  /\ \A A : Heaped(g, A) <=> Heaped(h, A)
         /\ \A s : HeapedBut(g, s) <=> HeapedBut(h, s)
  <1>1. \A a, b : comp(g, a, b) <=> comp(h, a, b)
    BY Zenon DEF comp
  <1> QED  BY <1>1, Zenon DEF Heaped, HeapedBut

\* Nothing in a heap comes before its top.
LEMMA TopFirst ==
  ASSUME NEW h \in HeapType, NEW A \in Seq(Int), Heaped(h, A), NEW j \in 1 .. Len(A)
  PROVE  ~ comp(h, A[j], A[1])
  <1> DEFINE S == {n \in Nat : \A k \in 0 .. n : k < Len(A) => ~ comp(h, A[k + 1], A[1])}
  <1>1. Len(A) \in Nat /\ \A k \in 1 .. Len(A) : A[k] \in Int
    OBVIOUS
  <1>2. ~ comp(h, A[1], A[1])
    BY <1>1, CompOrder
  <1>3. 0 \in S
    BY <1>2
  <1>4. ASSUME NEW n \in Nat, n \in S PROVE n + 1 \in S
    <2> SUFFICES ASSUME NEW k \in 0 .. n + 1, k < Len(A) PROVE ~ comp(h, A[k + 1], A[1])
      OBVIOUS
    <2>1. CASE k <= n
      BY <2>1, <1>4
    <2>2. CASE k = n + 1
      <3> DEFINE p == Parent(k)
      <3>1. p \in 0 .. n
        BY <2>2, ParentBefore
      <3>2. ~ comp(h, A[k + 1], A[p + 1])
        BY <2>2, <1>1 DEF Heaped
      <3> HIDE DEF p
      <3>3. ~ comp(h, A[p + 1], A[1])
        <4>1. \A m \in 0 .. n : m < Len(A) => ~ comp(h, A[m + 1], A[1])
          BY <1>4
        <4>2. p < Len(A)
          BY <3>1, <2>2, <1>1
        <4> QED  BY <4>1, <4>2, <3>1, Zenon
      <3>4. A[k + 1] \in Int /\ A[p + 1] \in Int /\ A[1] \in Int
        BY <3>1, <2>2, <1>1
      <3> QED  BY <3>2, <3>3, <3>4, CompOrder
    <2> QED  BY <2>1, <2>2
  <1> HIDE DEF S
  <1>5. \A n \in Nat : n \in S
    BY <1>3, <1>4, AllNaturals
  <1>6. j - 1 \in S /\ j - 1 \in 0 .. j - 1 /\ j - 1 < Len(A) /\ (j - 1) + 1 = j
    BY <1>1, <1>5
  <1>7. ~ comp(h, A[(j - 1) + 1], A[1])
    BY <1>6 DEF S
  <1> QED  BY <1>6, <1>7

\* An insertion adds its key and leaves a heap a heap.
LEMMA InsertCorrect ==
  ASSUME NEW h \in HeapType, NEW key \in Int
  PROVE  /\ InsertInto(h, key) \in HeapType /\ InsertInto(h, key).comp = h.comp
         /\ Len(InsertInto(h, key).A) = Len(h.A) + 1
         /\ \A V : Within(InsertInto(h, key).A, V) = Within(h.A, V) + Within(<<key>>, V)
         /\ Heaped(h, h.A) => Heaped(h, InsertInto(h, key).A)
  <1> DEFINE A == h.A
             n == Len(A)
             B == Append(A, key)
             g == [h EXCEPT !.A = B]
             r == heapify(g, n)
  <1>1. A \in Seq(Int) /\ n \in Nat
    BY DEF HeapType
  <1>2. /\ B \in Seq(Int) /\ Len(B) = n + 1
        /\ \A k \in 1 .. n : B[k] = A[k]
    BY <1>1
  <1>3. B = A \o <<key>> /\ <<key>> \in Seq(Int)
    BY <1>1, AppendIsConcat
  <1>4. \A V : Within(B, V) = Within(A, V) + Within(<<key>>, V)
    <2> SUFFICES ASSUME NEW V PROVE Within(B, V) = Within(A, V) + Within(<<key>>, V)
      OBVIOUS
    <2>1. Within(A \o <<key>>, V) = Within(A, V) + Within(<<key>>, V)
      BY <1>1, <1>3, WithinConcat, Zenon
    <2> QED  BY <2>1, <1>3, Zenon
  <1>5. InsertInto(h, key) = r
    BY Zenon DEF InsertInto
  <1> HIDE DEF A, B
  <1>6. g \in HeapType /\ g.comp = h.comp /\ g.A = B
    BY <1>2 DEF HeapType
  <1> HIDE DEF g, n
  <1>7. /\ r \in HeapType /\ r.comp = g.comp /\ Len(r.A) = Len(B) /\ \A V : Within(r.A, V) = Within(B, V)
        /\ HeapedBut(g, [A |-> B, i |-> n]) => Heaped(g, r.A)
    <2>1. n \in Int /\ -1 <= n /\ n < Len(g.A)
      BY <1>1, <1>2, <1>6
    <2> QED  BY <2>1, <1>6, HeapifyCorrect
  <1>8. ASSUME Heaped(h, A) PROVE HeapedBut(h, [A |-> B, i |-> n])
    <2>1. \A k \in 1 .. n : Parent(k) \in 0 .. k - 1
      BY <1>1, ParentBefore
    <2>2. \A k \in 1 .. n - 1 : ~ comp(h, A[k + 1], A[Parent(k) + 1])
      BY <1>8 DEF Heaped, n
    <2>3. \A k \in 1 .. n - 1 : B[k + 1] = A[k + 1] /\ B[Parent(k) + 1] = A[Parent(k) + 1]
      <3> TAKE k \in 1 .. n - 1
      <3>1. k \in 1 .. n
        BY <1>1
      <3>2. Parent(k) \in 0 .. k - 1
        BY <3>1, <2>1
      <3>3. k + 1 \in 1 .. n /\ Parent(k) + 1 \in 1 .. n
        BY <3>2, <1>1
      <3> QED  BY <3>3, <1>2
    <2>4. \A k \in 1 .. Len(B) - 1 : (k # n => k \in 1 .. n - 1) /\ Parent(k) # n
      BY <2>1, <1>1, <1>2
    <2> QED  BY <2>2, <2>3, <2>4 DEF HeapedBut
  <1>9. Heaped(h, A) => Heaped(h, r.A)
    BY <1>6, <1>7, <1>8, SameComp, Zenon
  <1> HIDE DEF r
  <1> QED  BY <1>2, <1>4, <1>5, <1>6, <1>7, <1>9, Zenon DEF A, n

\* A sequence is its front and its last element.
LEMMA LastSplit ==
  ASSUME NEW B \in Seq(Int), NEW E \in Seq(Int), NEW e \in Int,
         Len(E) = Len(B) + 1, \A k \in 1 .. Len(B) : B[k] = E[k], E[Len(B) + 1] = e
  PROVE  E = B \o <<e>> /\ <<e>> \in Seq(Int)
  <1> DEFINE F == Append(B, e)
  <1>1. /\ F \in Seq(Int) /\ Len(F) = Len(B) + 1 /\ F[Len(B) + 1] = e
        /\ \A k \in 1 .. Len(B) : F[k] = B[k]
    BY AppendProperties
  <1>2. F = B \o <<e>> /\ <<e>> \in Seq(Int) /\ Len(B) \in Nat
    BY AppendIsConcat
  <1> HIDE DEF F
  <1>3. \A k \in 1 .. Len(E) : F[k] = E[k]
    BY <1>1, <1>2
  <1>4. E = F
    BY <1>1, <1>3, SeqEqual
  <1> QED  BY <1>2, <1>4

\* An extraction takes the top away.  What is left of one or two elements is a heap.
LEMMA ExtractCorrect ==
  ASSUME NEW h \in HeapType, Len(h.A) >= 1
  PROVE  /\ ExtractTop(h) \in HeapType /\ ExtractTop(h).comp = h.comp
         /\ Len(ExtractTop(h).A) = Len(h.A) - 1
         /\ \A V : Within(h.A, V) = Within(ExtractTop(h).A, V) + Within(<<h.A[1]>>, V)
         /\ Len(h.A) < 3 => Heaped(h, ExtractTop(h).A)
  <1> DEFINE A == h.A
             last == Len(A) - 1
             top == A[1]
             E == Exch(A, 0, last)
             B == Front(E)
             g == [h EXCEPT !.A = B]
             r == heapify(g, Parent(last))
  <1>1. A \in Seq(Int) /\ last \in Nat /\ Len(A) = last + 1 /\ top \in Int
    BY DEF HeapType
  <1>2. ExtractTop(h) = r
    BY Zenon DEF ExtractTop
  <1> HIDE DEF A, last, top
  <1>3. E \in Seq(Int) /\ Len(E) = last + 1 /\ E[last + 1] = top /\ \A V : Within(E, V) = Within(A, V)
    <2>1. 0 \in 0 .. Len(A) - 1 /\ last \in 0 .. Len(A) - 1
      BY <1>1
    <2>2. E \in Seq(Int) /\ Len(E) = Len(A)
      BY <2>1, <1>1, ExchEntries
    <2>3. \A V : Within(E, V) = Within(A, V)
      BY <2>1, <1>1, WithinExch
    <2>4. E[last + 1] = A[1]
      BY <2>1, <1>1 DEF Exch
    <2> QED  BY <2>2, <2>3, <2>4, <1>1 DEF top
  <1> HIDE DEF E
  <1>4. B \in Seq(Int) /\ Len(B) = last /\ E = B \o <<top>> /\ <<top>> \in Seq(Int)
    <2>1. B \in Seq(Int) /\ Len(B) = last /\ \A k \in 1 .. last : B[k] = E[k]
      BY <1>1, <1>3 DEF Front
    <2> HIDE DEF B
    <2> QED  BY <2>1, <1>1, <1>3, LastSplit
  <1> HIDE DEF B
  <1>5. ASSUME NEW V PROVE Within(A, V) = Within(B, V) + Within(<<top>>, V)
    <2>1. Within(B \o <<top>>, V) = Within(B, V) + Within(<<top>>, V)
      BY <1>4, WithinConcat
    <2> QED  BY <2>1, <1>3, <1>4, Zenon
  <1>6. g \in HeapType /\ g.comp = h.comp /\ g.A = B
    BY <1>4 DEF HeapType
  <1> HIDE DEF g
  <1>7. Parent(last) \in Int /\ -1 <= Parent(last) /\ Parent(last) < last
    <2>1. CASE last = 0
      BY <2>1, ParentBefore
    <2>2. CASE last > 0
      BY <2>2, <1>1, ParentBefore
    <2> QED  BY <2>1, <2>2, <1>1
  <1>8. r \in HeapType /\ r.comp = g.comp /\ Len(r.A) = Len(B) /\ \A V : Within(r.A, V) = Within(B, V)
    <2> DEFINE i == Parent(last)
    <2>1. i \in Int /\ -1 <= i /\ i < Len(g.A)
      BY <1>4, <1>6, <1>7
    <2> HIDE DEF i
    <2>2. /\ heapify(g, i) \in HeapType /\ heapify(g, i).comp = g.comp /\ Len(heapify(g, i).A) = Len(g.A)
          /\ \A V : Within(heapify(g, i).A, V) = Within(g.A, V)
      BY <2>1, <1>6, HeapifyCorrect
    <2> QED  BY <2>2, <1>6, Zenon DEF i
  <1> HIDE DEF r
  <1>9. ASSUME Len(A) < 3 PROVE Heaped(h, r.A)
    <2>1. Len(r.A) = last /\ last <= 1
      BY <1>9, <1>1, <1>4, <1>8
    <2>2. 1 .. Len(r.A) - 1 = {}
      BY <2>1, <1>1
    <2> QED  BY <2>2 DEF Heaped
  <1>10. Len(r.A) = Len(A) - 1
    BY <1>1, <1>4, <1>8
  <1> QED  BY <1>2, <1>5, <1>6, <1>8, <1>9, <1>10, Zenon DEF A, top

-----------------------------------------------------------------------------
(* The two halves.                                                         *)

\* All elements of the array are in V.
AllIn(A, V) == \A i \in 1 .. Len(A) : A[i] \in V

\* An array has all its elements in V if it has as many there.
LEMMA WithinFull ==
  ASSUME NEW A, Len(A) \in Nat, NEW V
  PROVE  AllIn(A, V) <=> Within(A, V) = Len(A)
  <1>1. ASSUME AllIn(A, V) PROVE Within(A, V) = Len(A)
    BY <1>1, WithinAll DEF AllIn
  <1>2. ASSUME Within(A, V) = Len(A) PROVE AllIn(A, V)
    <2>1. IsFiniteSet(1 .. Len(A)) /\ Cardinality(1 .. Len(A)) = Len(A)
      BY CountTo, Zenon
    <2>2. Places(A, V) \subseteq 1 .. Len(A)
      BY DEF Places
    <2>3. Places(A, V) = 1 .. Len(A)
      <3> DEFINE D == 1 .. Len(A)
                 P == Places(A, V)
      <3>1. IsFiniteSet(D) /\ P \subseteq D /\ Cardinality(P) = Cardinality(D)
        BY <1>2, <2>1, <2>2, Zenon DEF Within
      <3> HIDE DEF D, P
      <3>2. P = D
        BY <3>1, FS_Subset
      <3> QED  BY <3>2 DEF D, P
    <2> QED  BY <2>3 DEF AllIn, Places
  <1> QED  BY <1>1, <1>2

\* Insertions and extractions add nothing of their own.
LEMMA InsertAllIn ==
  ASSUME NEW h \in HeapType, NEW key \in Int, NEW V, AllIn(h.A, V), key \in V
  PROVE  AllIn(InsertInto(h, key).A, V)
  <1> DEFINE B == InsertInto(h, key).A
  <1>1. Len(h.A) \in Nat
    BY DEF HeapType
  <1>2. Len(B) = Len(h.A) + 1 /\ Within(B, V) = Within(h.A, V) + Within(<<key>>, V)
    BY InsertCorrect
  <1>3. Within(h.A, V) = Len(h.A)
    BY <1>1, WithinFull
  <1>4. Within(<<key>>, V) = 1
    BY WithinOne
  <1> HIDE DEF B
  <1>5. Len(B) \in Nat /\ Within(B, V) = Len(B)
    BY <1>1, <1>2, <1>3, <1>4
  <1>6. AllIn(B, V)
    BY <1>5, WithinFull
  <1> QED  BY <1>6 DEF B

\* ExtractTop leaves all elements in a set that had them all.
LEMMA ExtractAllIn ==
  ASSUME NEW h \in HeapType, Len(h.A) >= 1, NEW V, AllIn(h.A, V)
  PROVE  AllIn(ExtractTop(h).A, V)
  <1> DEFINE B == ExtractTop(h).A
             top == h.A[1]
  <1>1. Len(h.A) \in Nat /\ 1 \in 1 .. Len(h.A)
    BY DEF HeapType
  <1>2. Len(B) = Len(h.A) - 1 /\ Within(h.A, V) = Within(B, V) + Within(<<top>>, V)
    BY ExtractCorrect
  <1>3. Within(h.A, V) = Len(h.A)
    BY <1>1, WithinFull
  <1>4. top \in V
    BY <1>1 DEF AllIn
  <1> HIDE DEF B, top
  <1>5. Within(<<top>>, V) = 1
    BY <1>4, WithinOne
  <1>6. Len(B) \in Nat
    BY <1>1, <1>2
  <1>7. Within(B, V) \in Nat
    BY <1>6, WithinType
  <1>8. Within(B, V) = Len(B)
    BY <1>1, <1>2, <1>3, <1>5, <1>6, <1>7
  <1>9. AllIn(B, V)
    BY <1>6, <1>8, WithinFull
  <1> QED  BY <1>9 DEF B

\* The numbers of elements.
LEMMA Counts ==
  ASSUME NEW h \in HeapType
  PROVE  /\ GetCount(h) \in Nat /\ GetCount(h) = Len(h.A)
         /\ \A key \in Int : GetCount(InsertInto(h, key)) = GetCount(h) + 1
         /\ GetCount(h) >= 1 => GetCount(ExtractTop(h)) = GetCount(h) - 1
  <1>1. Len(h.A) \in Nat
    BY DEF HeapType
  <1> QED  BY <1>1, InsertCorrect, ExtractCorrect DEF GetCount

\* L and R hold what l and r held, and e.
Takes(l, r, e, L, R) ==
  /\ L \in HeapType /\ L.comp = l.comp /\ R \in HeapType /\ R.comp = r.comp
  /\ GetCount(L) + GetCount(R) = GetCount(l) + GetCount(r) + 1
  /\ GetCount(L) - GetCount(R) \in -1 .. 1
  /\ \A V : Within(L.A, V) + Within(R.A, V) = Within(l.A, V) + Within(r.A, V) + Within(<<e>>, V)

\* The heaps are in order, and m is between them.
Ordered(l, r, m) ==
  /\ Heaped(l, l.A) /\ Heaped(r, r.A)
  /\ AllIn(l.A, AtMost(m)) /\ AllIn(r.A, AtLeast(m))

\* The element goes into one heap.
LEMMA InsertTakes ==
  ASSUME NEW l \in HeapType, NEW r \in HeapType, NEW e \in Int, NEW m \in Int
  PROVE  /\ GetCount(l) - GetCount(r) \in {-1, 0} => Takes(l, r, e, InsertInto(l, e), r)
         /\ GetCount(l) - GetCount(r) \in {0, 1} => Takes(l, r, e, l, InsertInto(r, e))
         /\ Ordered(l, r, m) /\ e < m => Ordered(InsertInto(l, e), r, m)
         /\ Ordered(l, r, m) /\ e >= m => Ordered(l, InsertInto(r, e), m)
  <1> DEFINE L == InsertInto(l, e)
             R == InsertInto(r, e)
  <1>1. l.A \in Seq(Int) /\ r.A \in Seq(Int) 
    BY DEF HeapType
  <1>2. L \in HeapType /\ L.comp = l.comp /\ R \in HeapType /\ R.comp = r.comp
    BY InsertCorrect
  <1>0. /\ GetCount(l) \in Nat /\ GetCount(r) \in Nat
        /\ GetCount(L) = GetCount(l) + 1 /\ GetCount(R) = GetCount(r) + 1
    BY Counts
  <1>3. (Heaped(l, l.A) => Heaped(l, L.A)) /\ (Heaped(r, r.A) => Heaped(r, R.A))
    BY InsertCorrect
  <1>4. \A V : Within(L.A, V) = Within(l.A, V) + Within(<<e>>, V) /\ Within(R.A, V) = Within(r.A, V) + Within(<<e>>, V)
    BY InsertCorrect
  <1>5. e < m => (AllIn(l.A, AtMost(m)) => AllIn(L.A, AtMost(m)))
    <2>1. e < m => e \in AtMost(m)
      BY DEF AtMost
    <2> QED  BY <2>1, InsertAllIn
  <1>6. e >= m => (AllIn(r.A, AtLeast(m)) => AllIn(R.A, AtLeast(m)))
    <2>1. e >= m => e \in AtLeast(m)
      BY DEF AtLeast
    <2> QED  BY <2>1, InsertAllIn
  <1> HIDE DEF L, R
  <1>7. (Heaped(l, l.A) => Heaped(L, L.A)) /\ (Heaped(r, r.A) => Heaped(R, R.A))
    BY <1>2, <1>3, SameComp, Zenon
  <1>8. \A V : Within(l.A, V) \in Nat /\ Within(r.A, V) \in Nat /\ Within(<<e>>, V) \in Nat
    <2>1. <<e>> \in Seq(Int) /\ \A s \in Seq(Int) : Len(s) \in Nat
      OBVIOUS
    <2> QED  BY <2>1, <1>1, WithinType, Zenon
  <1>9. ASSUME GetCount(l) - GetCount(r) \in {-1, 0} PROVE Takes(l, r, e, L, r)
    <2>1. GetCount(L) + GetCount(r) = GetCount(l) + GetCount(r) + 1 /\ GetCount(L) - GetCount(r) \in -1 .. 1
      BY <1>0, <1>9
    <2>2. ASSUME NEW V PROVE Within(L.A, V) + Within(r.A, V) = Within(l.A, V) + Within(r.A, V) + Within(<<e>>, V)
      <3>1. Within(L.A, V) = Within(l.A, V) + Within(<<e>>, V)
        BY <1>4
      <3>2. Within(l.A, V) \in Nat /\ Within(r.A, V) \in Nat /\ Within(<<e>>, V) \in Nat
        BY <1>8
      <3> QED  BY <3>1, <3>2
    <2> QED  BY <2>1, <2>2, <1>2 DEF Takes
  <1>10. ASSUME GetCount(l) - GetCount(r) \in {0, 1} PROVE Takes(l, r, e, l, R)
    <2>1. GetCount(l) + GetCount(R) = GetCount(l) + GetCount(r) + 1 /\ GetCount(l) - GetCount(R) \in -1 .. 1
      BY <1>0, <1>10
    <2>2. ASSUME NEW V PROVE Within(l.A, V) + Within(R.A, V) = Within(l.A, V) + Within(r.A, V) + Within(<<e>>, V)
      <3>1. Within(R.A, V) = Within(r.A, V) + Within(<<e>>, V)
        BY <1>4
      <3>2. Within(l.A, V) \in Nat /\ Within(r.A, V) \in Nat /\ Within(<<e>>, V) \in Nat
        BY <1>8
      <3> QED  BY <3>1, <3>2
    <2> QED  BY <2>1, <2>2, <1>2 DEF Takes
  <1>11. (Ordered(l, r, m) /\ e < m => Ordered(L, r, m)) /\ (Ordered(l, r, m) /\ e >= m => Ordered(l, R, m))
    BY <1>5, <1>6, <1>7, Zenon DEF Ordered
  <1> QED  BY <1>9, <1>10, <1>11 DEF L, R

\* A heap gives its top away and takes e.
LEMMA Exchanged ==
  ASSUME NEW h \in HeapType, GetCount(h) >= 1, NEW e \in Int, NEW g, g = InsertInto(ExtractTop(h), e)
  PROVE  /\ g \in HeapType /\ g.comp = h.comp /\ GetCount(g) = GetCount(h)
         /\ GetTop(h) \in Int /\ GetTop(h) = h.A[1]
         /\ \A V : Within(g.A, V) + Within(<<GetTop(h)>>, V) = Within(h.A, V) + Within(<<e>>, V)
         /\ GetCount(h) < 3 => Heaped(g, g.A)
         /\ \A V : AllIn(h.A, V) => GetTop(h) \in V /\ (e \in V => AllIn(g.A, V))
  <1> DEFINE x == ExtractTop(h)
             top == h.A[1]
  <1>1. h.A \in Seq(Int) /\ Len(h.A) >= 1 /\ GetCount(h) = Len(h.A) /\ Len(h.A) \in Nat /\ 1 \in 1 .. Len(h.A)
    <2>1. h.A \in Seq(Int) /\ GetCount(h) = Len(h.A) /\ Len(h.A) \in Nat
      BY DEF HeapType, GetCount
    <2> QED  BY <2>1
  <1>2. GetTop(h) = top /\ top \in Int
    <2>1. h.A # <<>>
      BY <1>1
    <2> QED  BY <2>1, <1>1 DEF GetTop
  <1>3. x \in HeapType /\ x.comp = h.comp /\ GetCount(x) = GetCount(h) - 1
    BY <1>1, ExtractCorrect, Counts
  <1>4. \A V : Within(h.A, V) = Within(x.A, V) + Within(<<top>>, V)
    BY <1>1, ExtractCorrect
  <1>5. Len(h.A) < 3 => Heaped(h, x.A)
    BY <1>1, ExtractCorrect
  <1>6. \A V : AllIn(h.A, V) => AllIn(x.A, V) /\ top \in V
    BY <1>1, ExtractAllIn DEF AllIn
  <1>7. g = InsertInto(x, e)
    OBVIOUS
  <1> HIDE DEF x, top
  <1>8. g \in HeapType /\ g.comp = x.comp /\ GetCount(g) = GetCount(x) + 1
    BY <1>3, <1>7, InsertCorrect, Counts
  <1>9. \A V : Within(g.A, V) = Within(x.A, V) + Within(<<e>>, V)
    BY <1>3, <1>7, InsertCorrect
  <1>10. Heaped(x, x.A) => Heaped(x, g.A)
    BY <1>3, <1>7, InsertCorrect
  <1>11. \A V : AllIn(x.A, V) /\ e \in V => AllIn(g.A, V)
    BY <1>3, <1>7, InsertAllIn
  <1>12. ASSUME NEW V PROVE Within(g.A, V) + Within(<<top>>, V) = Within(h.A, V) + Within(<<e>>, V)
    <2>1. Within(x.A, V) \in Nat /\ Within(<<top>>, V) \in Nat /\ Within(<<e>>, V) \in Nat
      <3>1. <<e>> \in Seq(Int) /\ <<top>> \in Seq(Int) /\ x.A \in Seq(Int) /\ \A s \in Seq(Int) : Len(s) \in Nat
        BY <1>2, <1>3 DEF HeapType
      <3> QED  BY <3>1, WithinType, Zenon
    <2>2. Within(g.A, V) = Within(x.A, V) + Within(<<e>>, V) /\ Within(h.A, V) = Within(x.A, V) + Within(<<top>>, V)
      BY <1>4, <1>9, Zenon
    <2> QED  BY <2>1, <2>2
  <1>13. GetCount(h) < 3 => Heaped(g, g.A)
    BY <1>1, <1>3, <1>5, <1>8, <1>10, SameComp, Zenon
  <1>14. GetCount(g) = GetCount(h)
    BY <1>1, <1>3, <1>8
  <1> QED  BY <1>2, <1>3, <1>6, <1>8, <1>11, <1>12, <1>13, <1>14, Zenon DEF top

\* One heap gives its top to the other, and takes the element.
LEMMA LeftGivesTakes ==
  ASSUME NEW l \in HeapType, NEW r \in HeapType, NEW e \in Int, NEW m \in Int, GetCount(l) - GetCount(r) = 1,
         NEW L, NEW R, L = InsertInto(ExtractTop(l), e), R = InsertInto(r, GetTop(l))
  PROVE  /\ Takes(l, r, e, L, R)
         /\ Ordered(l, r, m) /\ m = GetTop(l) /\ e < m /\ GetCount(l) < 3 => Ordered(L, R, m)
  <1> DEFINE top == GetTop(l)
  <1>1. GetCount(l) \in Nat /\ GetCount(r) \in Nat /\ GetCount(l) >= 1
    <2>1. GetCount(l) \in Nat /\ GetCount(r) \in Nat
      BY Counts
    <2> QED  BY <2>1
  <1>2. /\ L \in HeapType /\ L.comp = l.comp /\ GetCount(L) = GetCount(l) /\ top \in Int
        /\ \A V : Within(L.A, V) + Within(<<top>>, V) = Within(l.A, V) + Within(<<e>>, V)
        /\ GetCount(l) < 3 => Heaped(L, L.A)
        /\ \A V : AllIn(l.A, V) => (e \in V => AllIn(L.A, V))
    BY <1>1, Exchanged
  <1> HIDE DEF top
  <1>3. R = InsertInto(r, top)
    BY DEF top
  <1>4. R \in HeapType /\ R.comp = r.comp /\ GetCount(R) = GetCount(r) + 1
    <2>1. R \in HeapType /\ R.comp = r.comp
      BY <1>2, <1>3, InsertCorrect
    <2>2. GetCount(R) = GetCount(r) + 1
      BY <1>2, <1>3, Counts
    <2> QED  BY <2>1, <2>2
  <1>5. \A V : Within(R.A, V) = Within(r.A, V) + Within(<<top>>, V)
    BY <1>2, <1>3, InsertCorrect
  <1>6. Heaped(r, r.A) => Heaped(R, R.A)
    BY <1>2, <1>3, <1>4, InsertCorrect, SameComp
  <1>7. \A V : AllIn(r.A, V) /\ top \in V => AllIn(R.A, V)
    BY <1>2, <1>3, InsertAllIn
  <1>8. ASSUME NEW V PROVE Within(L.A, V) + Within(R.A, V) = Within(l.A, V) + Within(r.A, V) + Within(<<e>>, V)
    <2>1. /\ Within(l.A, V) \in Nat /\ Within(r.A, V) \in Nat /\ Within(L.A, V) \in Nat
          /\ Within(<<top>>, V) \in Nat /\ Within(<<e>>, V) \in Nat
      <3>1. /\ <<e>> \in Seq(Int) /\ <<top>> \in Seq(Int) /\ l.A \in Seq(Int) /\ r.A \in Seq(Int) /\ L.A \in Seq(Int)
            /\ \A s \in Seq(Int) : Len(s) \in Nat
        BY <1>2 DEF HeapType
      <3> QED  BY <3>1, WithinType, Zenon
    <2>2. /\ Within(L.A, V) + Within(<<top>>, V) = Within(l.A, V) + Within(<<e>>, V)
          /\ Within(R.A, V) = Within(r.A, V) + Within(<<top>>, V)
      BY <1>2, <1>5, Zenon
    <2> QED  BY <2>1, <2>2
  <1>9. GetCount(L) + GetCount(R) = GetCount(l) + GetCount(r) + 1 /\ GetCount(L) - GetCount(R) \in -1 .. 1
    BY <1>1, <1>2, <1>4
  <1>10. Takes(l, r, e, L, R)
    BY <1>2, <1>4, <1>8, <1>9 DEF Takes
  <1>11. ASSUME Ordered(l, r, m), m = top, e < m, GetCount(l) < 3 PROVE Ordered(L, R, m)
    <2>1. e \in AtMost(m) /\ top \in AtLeast(m)
      BY <1>2, <1>11 DEF AtMost, AtLeast
    <2> QED  BY <2>1, <1>2, <1>6, <1>7, <1>11, Zenon DEF Ordered
  <1> QED  BY <1>10, <1>11 DEF top

\* The same, with the right heap giving.
LEMMA RightGivesTakes ==
  ASSUME NEW l \in HeapType, NEW r \in HeapType, NEW e \in Int, NEW m \in Int, GetCount(l) - GetCount(r) = -1,
         NEW L, NEW R, L = InsertInto(l, GetTop(r)), R = InsertInto(ExtractTop(r), e)
  PROVE  /\ Takes(l, r, e, L, R)
         /\ Ordered(l, r, m) /\ m = GetTop(r) /\ e >= m /\ GetCount(r) < 3 => Ordered(L, R, m)
  <1> DEFINE top == GetTop(r)
  <1>1. GetCount(l) \in Nat /\ GetCount(r) \in Nat /\ GetCount(r) >= 1
    <2>1. GetCount(l) \in Nat /\ GetCount(r) \in Nat
      BY Counts
    <2> QED  BY <2>1
  <1>2. /\ R \in HeapType /\ R.comp = r.comp /\ GetCount(R) = GetCount(r) /\ top \in Int
        /\ \A V : Within(R.A, V) + Within(<<top>>, V) = Within(r.A, V) + Within(<<e>>, V)
        /\ GetCount(r) < 3 => Heaped(R, R.A)
        /\ \A V : AllIn(r.A, V) => (e \in V => AllIn(R.A, V))
    BY <1>1, Exchanged
  <1> HIDE DEF top
  <1>3. L = InsertInto(l, top)
    BY DEF top
  <1>4. L \in HeapType /\ L.comp = l.comp /\ GetCount(L) = GetCount(l) + 1
    <2>1. L \in HeapType /\ L.comp = l.comp
      BY <1>2, <1>3, InsertCorrect
    <2>2. GetCount(L) = GetCount(l) + 1
      BY <1>2, <1>3, Counts
    <2> QED  BY <2>1, <2>2
  <1>5. \A V : Within(L.A, V) = Within(l.A, V) + Within(<<top>>, V)
    BY <1>2, <1>3, InsertCorrect
  <1>6. Heaped(l, l.A) => Heaped(L, L.A)
    BY <1>2, <1>3, <1>4, InsertCorrect, SameComp
  <1>7. \A V : AllIn(l.A, V) /\ top \in V => AllIn(L.A, V)
    BY <1>2, <1>3, InsertAllIn
  <1>8. ASSUME NEW V PROVE Within(L.A, V) + Within(R.A, V) = Within(l.A, V) + Within(r.A, V) + Within(<<e>>, V)
    <2>1. /\ Within(l.A, V) \in Nat /\ Within(r.A, V) \in Nat /\ Within(R.A, V) \in Nat
          /\ Within(<<top>>, V) \in Nat /\ Within(<<e>>, V) \in Nat
      <3>1. /\ <<e>> \in Seq(Int) /\ <<top>> \in Seq(Int) /\ l.A \in Seq(Int) /\ r.A \in Seq(Int) /\ R.A \in Seq(Int)
            /\ \A s \in Seq(Int) : Len(s) \in Nat
        BY <1>2 DEF HeapType
      <3> QED  BY <3>1, WithinType, Zenon
    <2>2. /\ Within(R.A, V) + Within(<<top>>, V) = Within(r.A, V) + Within(<<e>>, V)
          /\ Within(L.A, V) = Within(l.A, V) + Within(<<top>>, V)
      BY <1>2, <1>5, Zenon
    <2> QED  BY <2>1, <2>2
  <1>9. GetCount(L) + GetCount(R) = GetCount(l) + GetCount(r) + 1 /\ GetCount(L) - GetCount(R) \in -1 .. 1
    BY <1>1, <1>2, <1>4
  <1>10. Takes(l, r, e, L, R)
    BY <1>2, <1>4, <1>8, <1>9 DEF Takes
  <1>11. ASSUME Ordered(l, r, m), m = top, e >= m, GetCount(r) < 3 PROVE Ordered(L, R, m)
    <2>1. e \in AtLeast(m) /\ top \in AtMost(m)
      BY <1>2, <1>11 DEF AtMost, AtLeast
    <2> QED  BY <2>1, <1>2, <1>6, <1>7, <1>11, Zenon DEF Ordered
  <1> QED  BY <1>10, <1>11 DEF top

\* Fit enters the element, keeps the heaps balanced, and the old median between
\* them, unless a heap of three or more gives its top away.
LEMMA FitCorrect ==
  ASSUME NEW l \in HeapType, NEW r \in HeapType, NEW e \in Int, NEW m \in Int,
         GetCount(l) - GetCount(r) \in -1 .. 1,
         GetCount(l) + GetCount(r) >= 1 => m = MedianOf(l, r),
         NEW L, NEW R, L = Fit(e, m, l, r)[1], R = Fit(e, m, l, r)[2]
  PROVE  /\ Takes(l, r, e, L, R)
         /\ /\ Ordered(l, r, m)
            /\ ~ (LeftGives(e, m, l, r) /\ GetCount(l) >= 3)
            /\ ~ (RightGives(e, m, l, r) /\ GetCount(r) >= 3)
            => Ordered(L, R, m)
  <1>1. GetCount(l) \in Nat /\ GetCount(r) \in Nat
    BY Counts
  <1>2. CASE LeftGives(e, m, l, r)
    <2>1. GetCount(l) > GetCount(r) /\ e < m
      BY <1>2 DEF LeftGives
    <2>2. ~ RightGives(e, m, l, r)
      BY <2>1, <1>1 DEF RightGives
    <2>3. Fit(e, m, l, r) = <<InsertInto(ExtractTop(l), e), InsertInto(r, GetTop(l))>>
      BY <1>2, <2>2, Zenon DEF Fit
    <2>4. L = InsertInto(ExtractTop(l), e) /\ R = InsertInto(r, GetTop(l))
      BY <2>3
    <2>5. m = GetTop(l)
      <3>1. m = MedianOf(l, r) /\ ~ (GetCount(l) < GetCount(r))
        BY <2>1, <1>1
      <3> QED  BY <3>1, <2>1, Zenon DEF MedianOf
    <2>6. GetCount(l) - GetCount(r) = 1 /\ (~ (GetCount(l) >= 3) <=> GetCount(l) < 3)
      BY <1>1, <2>1
    <2>7. Takes(l, r, e, L, R) /\ (Ordered(l, r, m) /\ m = GetTop(l) /\ e < m /\ GetCount(l) < 3 => Ordered(L, R, m))
      BY <2>4, <2>6, LeftGivesTakes
    <2> QED  BY <1>2, <2>1, <2>5, <2>6, <2>7, Zenon
  <1>3. CASE RightGives(e, m, l, r)
    <2>1. GetCount(l) < GetCount(r) /\ e >= m
      BY <1>3 DEF RightGives
    <2>2. ~ LeftGives(e, m, l, r) /\ ~ (e < m)
      BY <2>1, <1>1 DEF LeftGives
    <2>3. Fit(e, m, l, r) = <<InsertInto(l, GetTop(r)), InsertInto(ExtractTop(r), e)>>
      BY <1>3, <2>2, Zenon DEF Fit
    <2>4. L = InsertInto(l, GetTop(r)) /\ R = InsertInto(ExtractTop(r), e)
      BY <2>3
    <2>5. m = GetTop(r)
      <3>1. m = MedianOf(l, r) /\ ~ (GetCount(l) > GetCount(r))
        BY <2>1, <1>1
      <3> QED  BY <3>1, <2>1, Zenon DEF MedianOf
    <2>6. GetCount(l) - GetCount(r) = -1 /\ (~ (GetCount(r) >= 3) <=> GetCount(r) < 3)
      BY <1>1, <2>1
    <2>7. Takes(l, r, e, L, R) /\ (Ordered(l, r, m) /\ m = GetTop(r) /\ e >= m /\ GetCount(r) < 3 => Ordered(L, R, m))
      BY <2>4, <2>6, RightGivesTakes
    <2> QED  BY <1>3, <2>1, <2>5, <2>6, <2>7, Zenon
  <1>4. CASE ~ LeftGives(e, m, l, r) /\ ~ RightGives(e, m, l, r) /\ e < m
    <2>1. GetCount(l) - GetCount(r) \in {-1, 0}
      BY <1>4, <1>1 DEF LeftGives
    <2>2. Fit(e, m, l, r) = <<InsertInto(l, e), r>>
      BY <1>4, Zenon DEF Fit
    <2>3. L = InsertInto(l, e) /\ R = r
      BY <2>2
    <2> QED  BY <1>4, <2>1, <2>3, InsertTakes
  <1>5. CASE ~ LeftGives(e, m, l, r) /\ ~ RightGives(e, m, l, r) /\ ~ (e < m)
    <2>1. GetCount(l) - GetCount(r) \in {0, 1} /\ e >= m
      BY <1>5, <1>1 DEF RightGives
    <2>2. Fit(e, m, l, r) = <<l, InsertInto(r, e)>>
      BY <1>5, Zenon DEF Fit
    <2>3. L = l /\ R = InsertInto(r, e)
      BY <2>2
    <2> QED  BY <2>1, <2>3, InsertTakes
  <1> QED  BY <1>2, <1>3, <1>4, <1>5, Zenon

\* The top of a heap in order is in its array, the last in order, and in the set
\* of all its elements.
LEMMA TopBounds ==
  ASSUME NEW h \in HeapType, Heaped(h, h.A), GetCount(h) >= 1
  PROVE  /\ GetTop(h) \in Int
         /\ h.comp = "Greater" => AllIn(h.A, AtMost(GetTop(h)))
         /\ h.comp = "Smaller" => AllIn(h.A, AtLeast(GetTop(h)))
         /\ \A V : AllIn(h.A, V) => GetTop(h) \in V
         /\ \A V : GetTop(h) \in V => Within(h.A, V) >= 1
  <1> DEFINE A == h.A
             top == A[1]
  <1>1. A \in Seq(Int) /\ Len(A) \in Nat /\ Len(A) >= 1
    <2>1. A \in Seq(Int) /\ GetCount(h) = Len(A) /\ Len(A) \in Nat
      BY DEF HeapType, GetCount
    <2> QED  BY <2>1
  <1>2. A # <<>> /\ 1 \in 1 .. Len(A) /\ \A j \in 1 .. Len(A) : A[j] \in Int
    BY <1>1
  <1>3. GetTop(h) = top /\ top \in Int
    BY <1>2 DEF GetTop
  <1>4. \A j \in 1 .. Len(A) : ~ comp(h, A[j], top)
    BY <1>1, TopFirst
  <1>5. ASSUME h.comp = "Greater" PROVE AllIn(A, AtMost(top))
    <2> SUFFICES ASSUME NEW j \in 1 .. Len(A) PROVE A[j] \in AtMost(top)
      BY DEF AllIn
    <2>1. ~ (A[j] > top)
      BY <1>4, <1>5 DEF comp
    <2> QED  BY <2>1, <1>2, <1>3 DEF AtMost
  <1>6. ASSUME h.comp = "Smaller" PROVE AllIn(A, AtLeast(top))
    <2> SUFFICES ASSUME NEW j \in 1 .. Len(A) PROVE A[j] \in AtLeast(top)
      BY DEF AllIn
    <2>1. ~ (A[j] < top)
      BY <1>4, <1>6 DEF comp
    <2> QED  BY <2>1, <1>2, <1>3 DEF AtLeast
  <1>7. \A V : AllIn(A, V) => top \in V
    BY <1>2 DEF AllIn
  <1>8. \A V : top \in V => Within(A, V) >= 1
    BY <1>1, <1>2, WithinSome
  <1> QED  BY <1>3, <1>5, <1>6, <1>7, <1>8, Zenon

\* s holds in ascending order what the heaps hold.
Holds(s, l, r) ==
  /\ s \in Seq(Int) /\ Ascending(s) /\ Len(s) = GetCount(l) + GetCount(r)
  /\ \A V : Within(s, V) = Within(l.A, V) + Within(r.A, V)

\* The tops of heaps in order are the last of the lower and the first of the
\* upper part of what they hold.
LEMMA TopsInPlace ==
  ASSUME NEW l \in HeapType, l.comp = "Greater", NEW r \in HeapType, r.comp = "Smaller", NEW c \in Int,
         Ordered(l, r, c), NEW s, Holds(s, l, r)
  PROVE  /\ GetCount(l) >= 1 => GetTop(l) \in Int /\ GetTop(l) <= c /\ s[GetCount(l)] = GetTop(l)
         /\ GetCount(r) >= 1 => GetTop(r) \in Int /\ GetTop(r) >= c /\ s[GetCount(l) + 1] = GetTop(r)
  <1> DEFINE p == GetCount(l)
             q == GetCount(r)
             a == GetTop(l)
             b == GetTop(r)
  <1>1. p \in Nat /\ q \in Nat /\ Len(s) = p + q /\ s \in Seq(Int) /\ Ascending(s)
    BY Counts DEF Holds
  <1>2. Heaped(l, l.A) /\ Heaped(r, r.A) /\ AllIn(l.A, AtMost(c)) /\ AllIn(r.A, AtLeast(c))
    BY DEF Ordered
  <1>3. \A V : Within(s, V) = Within(l.A, V) + Within(r.A, V)
    BY DEF Holds
  <1>4. \A V : /\ AllIn(l.A, V) => Within(l.A, V) = p
               /\ AllIn(r.A, V) => Within(r.A, V) = q
    <2>1. p = Len(l.A) /\ q = Len(r.A) /\ Len(l.A) \in Nat /\ Len(r.A) \in Nat
      BY DEF GetCount, HeapType
    <2> QED  BY <2>1, WithinFull
  <1>5. \A V : Within(l.A, V) \in Nat /\ Within(r.A, V) \in Nat
    <2>1. Len(l.A) \in Nat /\ Len(r.A) \in Nat
      BY DEF HeapType
    <2> QED  BY <2>1, WithinType
  <1>6. ASSUME p >= 1 PROVE a \in Int /\ a <= c /\ s[p] = a
    <2>1. a \in Int /\ AllIn(l.A, AtMost(a)) /\ a \in AtMost(c)
      BY <1>2, <1>6, TopBounds
    <2>2. a <= c
      BY <2>1 DEF AtMost
    <2>3. a \in AtLeast(a) /\ AtLeast(c) \subseteq AtLeast(a)
      BY <2>1, <2>2 DEF AtLeast
    <2>4. Within(l.A, AtLeast(a)) >= 1
      BY <2>3, <1>2, <1>6, TopBounds
    <2>5. AllIn(r.A, AtLeast(a))
      BY <2>3, <1>2 DEF AllIn
    <2> HIDE DEF p, q, a
    <2>6. Within(l.A, AtMost(a)) = p /\ Within(r.A, AtLeast(a)) = q
      BY <2>1, <2>5, <1>4
    <2>7. /\ Within(s, AtMost(a)) = Within(l.A, AtMost(a)) + Within(r.A, AtMost(a))
          /\ Within(s, AtLeast(a)) = Within(l.A, AtLeast(a)) + Within(r.A, AtLeast(a))
          /\ Within(l.A, AtLeast(a)) \in Nat /\ Within(r.A, AtMost(a)) \in Nat
      BY <1>3, <1>5
    <2>8. p \in 1 .. Len(s) /\ Within(s, AtMost(a)) >= p /\ Within(s, AtLeast(a)) >= Len(s) - p + 1
      BY <1>1, <1>6, <2>4, <2>6, <2>7
    <2>9. s[p] = a
      BY <2>1, <2>8, <1>1, OrderStatistic
    <2> QED  BY <2>1, <2>2, <2>9
  <1>7. ASSUME q >= 1 PROVE b \in Int /\ b >= c /\ s[p + 1] = b
    <2>1. b \in Int /\ AllIn(r.A, AtLeast(b)) /\ b \in AtLeast(c)
      BY <1>2, <1>7, TopBounds
    <2>2. b >= c
      BY <2>1 DEF AtLeast
    <2>3. b \in AtMost(b) /\ AtMost(c) \subseteq AtMost(b)
      BY <2>1, <2>2 DEF AtMost
    <2>4. Within(r.A, AtMost(b)) >= 1
      BY <2>3, <1>2, <1>7, TopBounds
    <2>5. AllIn(l.A, AtMost(b))
      BY <2>3, <1>2 DEF AllIn
    <2> HIDE DEF p, q, b
    <2>6. Within(r.A, AtLeast(b)) = q /\ Within(l.A, AtMost(b)) = p
      BY <2>1, <2>5, <1>4
    <2>7. /\ Within(s, AtMost(b)) = Within(l.A, AtMost(b)) + Within(r.A, AtMost(b))
          /\ Within(s, AtLeast(b)) = Within(l.A, AtLeast(b)) + Within(r.A, AtLeast(b))
          /\ Within(r.A, AtMost(b)) \in Nat /\ Within(l.A, AtLeast(b)) \in Nat
      BY <1>3, <1>5
    <2>8. p + 1 \in 1 .. Len(s) /\ Within(s, AtMost(b)) >= p + 1 /\ Within(s, AtLeast(b)) >= Len(s) - (p + 1) + 1
      BY <1>1, <1>7, <2>4, <2>6, <2>7
    <2>9. s[p + 1] = b
      BY <2>1, <2>8, <1>1, OrderStatistic
    <2> QED  BY <2>1, <2>2, <2>9
  <1> QED  BY <1>6, <1>7

\* x / 2 in C.
Half(x) == IF x >= 0 THEN x \div 2 ELSE -((-x) \div 2)

\* Half of a sum, rounded towards 0, is between its terms.
LEMMA HalfBetween ==
  ASSUME NEW a \in Int, NEW b \in Int, a <= b
  PROVE  Half(a + b) \in Int /\ a <= Half(a + b) /\ Half(a + b) <= b /\ Half(a + a) = a
  <1> DEFINE x == a + b
  <1>1. x >= 0 => x \div 2 \in Int /\ 2 * (x \div 2) <= x /\ x <= 2 * (x \div 2) + 1
    OBVIOUS
  <1>2. x < 0 => (-x) \div 2 \in Int /\ 2 * ((-x) \div 2) <= -x /\ -x <= 2 * ((-x) \div 2) + 1
    OBVIOUS
  <1>3. Half(a + a) = a
    BY DEF Half
  <1> QED  BY <1>1, <1>2, <1>3 DEF Half

\* Whatever the heaps are, their median is a number.
LEMMA MedianOfType ==
  ASSUME NEW l \in HeapType, NEW r \in HeapType
  PROVE  MedianOf(l, r) \in Int
  <1>1. \A h \in HeapType : GetTop(h) \in Int
    <2> SUFFICES ASSUME NEW h \in HeapType PROVE GetTop(h) \in Int
      OBVIOUS
    <2>1. h.A \in Seq(Int)
      BY DEF HeapType
    <2>2. h.A # <<>> => h.A[1] \in Int
      BY <2>1
    <2> QED  BY <2>2 DEF GetTop
  <1>2. \A x \in Int : Wrapped(x) \in Int
    BY MedianAssumption DEF Wrapped
  <1>3. \A a, b \in Int : Average(a, b) \in Int
    <2> SUFFICES ASSUME NEW a \in Int, NEW b \in Int PROVE Average(a, b) \in Int
      OBVIOUS
    <2> DEFINE x == Wrapped(a + b)
    <2>1. x \in Int
      BY <1>2
    <2>2. (IF x >= 0 THEN x \div 2 ELSE -((-x) \div 2)) \in Int
      <3> HIDE DEF x
      <3> QED  BY <2>1
    <2> QED  BY <2>2 DEF Average
  <1>4. GetTop(l) \in Int /\ GetTop(r) \in Int /\ Average(GetTop(l), GetTop(r)) \in Int
    BY <1>1, <1>3
  <1>5. GetCount(l) \in Nat /\ GetCount(r) \in Nat
    BY Counts
  <1>6. CASE GetCount(l) > GetCount(r)
    <2>1. ~ (GetCount(l) < GetCount(r))
      BY <1>5, <1>6
    <2> QED  BY <1>4, <1>6, <2>1, Zenon DEF MedianOf
  <1>7. CASE ~ (GetCount(l) > GetCount(r))
    BY <1>4, <1>7, Zenon DEF MedianOf
  <1> QED  BY <1>6, <1>7

\* Heaps in order, of which one may hold one element more, have the median of
\* what they hold, and it is between them.
LEMMA NewMedian ==
  ASSUME NEW l \in HeapType, l.comp = "Greater", NEW r \in HeapType, r.comp = "Smaller", NEW c \in Int,
         Ordered(l, r, c), NEW s, Holds(s, l, r), Len(s) >= 1, GetCount(l) - GetCount(r) \in -1 .. 1,
         GetCount(l) = GetCount(r) => Wrapped(GetTop(l) + GetTop(r)) = GetTop(l) + GetTop(r)
  PROVE  MedianOf(l, r) = Median(s) /\ Ordered(l, r, MedianOf(l, r))
  <1> DEFINE p == GetCount(l)
             q == GetCount(r)
             a == GetTop(l)
             b == GetTop(r)
             m == MedianOf(l, r)
  <1>1. p \in Nat /\ q \in Nat /\ Len(s) = p + q /\ p - q \in -1 .. 1 /\ p + q >= 1
    BY Counts DEF Holds
  <1>2. /\ p >= 1 => a \in Int /\ a <= c /\ s[p] = a
        /\ q >= 1 => b \in Int /\ b >= c /\ s[p + 1] = b
    BY TopsInPlace
  <1>3. Median(s) = Half(s[(Len(s) + 1) \div 2] + s[(Len(s) + 2) \div 2])
    BY DEF Median, Half
  <1>4. Heaped(l, l.A) /\ Heaped(r, r.A) /\ AllIn(l.A, AtMost(c)) /\ AllIn(r.A, AtLeast(c))
    BY DEF Ordered
  <1>5. ASSUME p >= 1 PROVE AllIn(l.A, AtMost(a))
    BY <1>4, <1>5, TopBounds
  <1>6. ASSUME q >= 1 PROVE AllIn(r.A, AtLeast(b))
    BY <1>4, <1>6, TopBounds
  <1>7. ASSUME NEW x \in Int, AllIn(l.A, AtMost(c)), x >= c PROVE AllIn(l.A, AtMost(x))
    <2>1. AtMost(c) \subseteq AtMost(x)
      BY <1>7 DEF AtMost
    <2> QED  BY <2>1, <1>7 DEF AllIn
  <1>8. ASSUME NEW x \in Int, AllIn(r.A, AtLeast(c)), x <= c PROVE AllIn(r.A, AtLeast(x))
    <2>1. AtLeast(c) \subseteq AtLeast(x)
      BY <1>8 DEF AtLeast
    <2> QED  BY <2>1, <1>8 DEF AllIn
  <1>9. CASE p > q
    <2>1. m = a
      <3>1. ~ (p < q)
        BY <1>1, <1>9
      <3> QED  BY <3>1, <1>9, Zenon DEF MedianOf
    <2> HIDE DEF p, q, a, b, m
    <2>2. p = q + 1 /\ p >= 1
      BY <1>1, <1>9
    <2>3. (Len(s) + 1) \div 2 = p /\ (Len(s) + 2) \div 2 = p
      BY <1>1, <2>2
    <2>4. Median(s) = Half(a + a) /\ a \in Int /\ a <= c
      BY <1>2, <1>3, <2>2, <2>3
    <2>5. m = Median(s)
      BY <2>1, <2>4, HalfBetween
    <2>6. AllIn(l.A, AtMost(a)) /\ AllIn(r.A, AtLeast(a))
      BY <1>4, <1>5, <1>8, <2>2, <2>4
    <2> QED  BY <1>4, <2>1, <2>5, <2>6 DEF Ordered, m
  <1>10. CASE p < q
    <2>1. m = b
      <3>1. ~ (p > q)
        BY <1>1, <1>10
      <3> QED  BY <3>1, <1>10, Zenon DEF MedianOf
    <2> HIDE DEF p, q, a, b, m
    <2>2. q = p + 1 /\ q >= 1
      BY <1>1, <1>10
    <2>3. (Len(s) + 1) \div 2 = p + 1 /\ (Len(s) + 2) \div 2 = p + 1
      BY <1>1, <2>2
    <2>4. Median(s) = Half(b + b) /\ b \in Int /\ b >= c
      BY <1>2, <1>3, <2>2, <2>3
    <2>5. m = Median(s)
      BY <2>1, <2>4, HalfBetween
    <2>6. AllIn(l.A, AtMost(b)) /\ AllIn(r.A, AtLeast(b))
      BY <1>4, <1>6, <1>7, <2>2, <2>4
    <2> QED  BY <1>4, <2>1, <2>5, <2>6 DEF Ordered, m
  <1>11. CASE p = q
    <2>0. ~ (p > q) /\ ~ (p < q)
      BY <1>1, <1>11
    <2>1. m = Average(a, b) /\ Wrapped(a + b) = a + b
      BY <2>0, <1>11, Zenon DEF MedianOf
    <2>2. m = Half(a + b)
      BY <2>1 DEF Average, Half
    <2> HIDE DEF p, q, a, b, m
    <2>3. p >= 1 /\ q >= 1
      BY <1>1, <1>11
    <2>4. (Len(s) + 1) \div 2 = p /\ (Len(s) + 2) \div 2 = p + 1
      BY <1>1, <1>11
    <2>5. Median(s) = Half(a + b) /\ a \in Int /\ b \in Int /\ a <= c /\ b >= c /\ a <= b
      BY <1>2, <1>3, <2>3, <2>4
    <2>6. m \in Int /\ a <= m /\ m <= b
      BY <2>2, <2>5, HalfBetween
    <2>7. AtMost(a) \subseteq AtMost(m) /\ AtLeast(b) \subseteq AtLeast(m)
      BY <2>5, <2>6 DEF AtMost, AtLeast
    <2>8. AllIn(l.A, AtMost(m)) /\ AllIn(r.A, AtLeast(m))
      BY <2>3, <2>7, <1>5, <1>6 DEF AllIn
    <2> QED  BY <1>4, <2>2, <2>5, <2>8 DEF Ordered, m
  <1> QED  BY <1>1, <1>9, <1>10, <1>11

-----------------------------------------------------------------------------
(***************************************************************************)
(* The inductive invariant: the heaps hold what was read, their counts     *)
(* differ by one at most, m is their median, and as long as no average has *)
(* wrapped and no heap of three or more has given its top away the heaps   *)
(* are in order, m is between them and is the median of what was read.     *)
(***************************************************************************)
Counted(s) ==
  /\ s.l \in HeapType /\ s.l.comp = "Greater" /\ s.r \in HeapType /\ s.r.comp = "Smaller"
  /\ Holds(s.given, s.l, s.r)
  /\ GetCount(s.l) - GetCount(s.r) \in -1 .. 1
  /\ s.m \in Int
  /\ GetCount(s.l) + GetCount(s.r) >= 1 => s.m = MedianOf(s.l, s.r)

Exact(s) ==
  ~ s.wrapped /\ ~ s.taken =>
    /\ Ordered(s.l, s.r, s.m)
    /\ Len(s.given) >= 1 => s.m = Median(s.given)

MedianIInv == structure = "median" /\ Counted(store) /\ Exact(store)

\* It holds at the start, of two empty heaps.
LEMMA MedianStart == MedianInit => MedianIInv
  <1> SUFFICES ASSUME MedianInit PROVE MedianIInv
    OBVIOUS
  <1>1. /\ structure = "median"
        /\ store.l = MaxHeap /\ store.r = MinHeap /\ store.m = 0 /\ store.given = <<>>
    BY DEF MedianInit, Begin
  <1>2. /\ MaxHeap \in HeapType /\ MaxHeap.comp = "Greater" /\ MinHeap \in HeapType /\ MinHeap.comp = "Smaller"
        /\ MaxHeap.A = <<>> /\ MinHeap.A = <<>>
    BY DEF MaxHeap, MinHeap, HeapType
  <1>3. <<>> \in Seq(Int) /\ Len(<<>>) = 0 /\ DOMAIN <<>> = {}
    OBVIOUS
  <1>4. GetCount(MaxHeap) = 0 /\ GetCount(MinHeap) = 0
    BY <1>2, <1>3 DEF GetCount
  <1>5. \A V : Within(<<>>, V) = 0
    <2> SUFFICES ASSUME NEW V PROVE Within(<<>>, V) = 0
      OBVIOUS
    <2>1. Within(<<>>, V) \in Nat /\ Within(<<>>, V) <= 0
      BY <1>3, WithinType
    <2> QED  BY <2>1
  <1>6. Holds(<<>>, MaxHeap, MinHeap)
    <2>1. \A V : Within(<<>>, V) = Within(<<>>, V) + Within(<<>>, V)
      BY <1>5
    <2>2. Ascending(<<>>)
      BY <1>3 DEF Ascending
    <2> QED  BY <2>1, <2>2, <1>2, <1>3, <1>4 DEF Holds
  <1>7. Ordered(MaxHeap, MinHeap, 0)
    BY <1>2, <1>3 DEF Ordered, Heaped, AllIn
  <1>8. Counted(store)
    BY <1>1, <1>2, <1>4, <1>6 DEF Counted
  <1>9. Exact(store)
    BY <1>1, <1>3, <1>7 DEF Exact
  <1> QED  BY <1>1, <1>8, <1>9 DEF MedianIInv

\* Every value that is read keeps it.
LEMMA MedianReads ==
  ASSUME NEW s, NEW t, NEW e \in Int, Counted(s), Exact(s), NEW L, NEW R,
         L = Fit(e, s.m, s.l, s.r)[1], R = Fit(e, s.m, s.l, s.r)[2],
         t.l = L, t.r = R, t.m = MedianOf(L, R), t.given = Entered(s.given, e),
         ~ t.wrapped => ~ s.wrapped /\ (GetCount(L) = GetCount(R) => GetTop(L) + GetTop(R) = Wrapped(GetTop(L) + GetTop(R))),
         ~ t.taken => /\ ~ s.taken
                      /\ ~ (LeftGives(e, s.m, s.l, s.r) /\ GetCount(s.l) >= 3)
                      /\ ~ (RightGives(e, s.m, s.l, s.r) /\ GetCount(s.r) >= 3)
  PROVE  Counted(t) /\ Exact(t)
  <1> DEFINE l == s.l
             r == s.r
             m == s.m
             g == s.given
             h == Entered(g, e)
  <1>1. /\ l \in HeapType /\ l.comp = "Greater" /\ r \in HeapType /\ r.comp = "Smaller" /\ m \in Int
        /\ Holds(g, l, r) /\ GetCount(l) - GetCount(r) \in -1 .. 1
        /\ GetCount(l) + GetCount(r) >= 1 => m = MedianOf(l, r)
    BY DEF Counted
  <1>2. ~ s.wrapped /\ ~ s.taken => Ordered(l, r, m)
    BY DEF Exact
  <1>3. L = Fit(e, m, l, r)[1] /\ R = Fit(e, m, l, r)[2]
    OBVIOUS
  <1>4. t.l = L /\ t.r = R /\ t.m = MedianOf(L, R) /\ t.given = h
    OBVIOUS
  <1>5. /\ ~ t.wrapped => ~ s.wrapped /\ (GetCount(L) = GetCount(R) => GetTop(L) + GetTop(R) = Wrapped(GetTop(L) + GetTop(R)))
        /\ ~ t.taken => /\ ~ s.taken
                        /\ ~ (LeftGives(e, m, l, r) /\ GetCount(l) >= 3)
                        /\ ~ (RightGives(e, m, l, r) /\ GetCount(r) >= 3)
    OBVIOUS
  <1> HIDE DEF l, r, m, g
  <1>6. /\ Takes(l, r, e, L, R)
        /\ /\ Ordered(l, r, m)
           /\ ~ (LeftGives(e, m, l, r) /\ GetCount(l) >= 3)
           /\ ~ (RightGives(e, m, l, r) /\ GetCount(r) >= 3)
           => Ordered(L, R, m)
    BY <1>1, <1>3, FitCorrect
  <1>7. /\ L \in HeapType /\ L.comp = "Greater" /\ R \in HeapType /\ R.comp = "Smaller"
        /\ GetCount(L) + GetCount(R) = GetCount(l) + GetCount(r) + 1
        /\ GetCount(L) - GetCount(R) \in -1 .. 1
        /\ \A V : Within(L.A, V) + Within(R.A, V) = Within(l.A, V) + Within(r.A, V) + Within(<<e>>, V)
    BY <1>1, <1>6 DEF Takes
  <1>8. /\ g \in Seq(Int) /\ Ascending(g) /\ Len(g) = GetCount(l) + GetCount(r)
        /\ \A V : Within(g, V) = Within(l.A, V) + Within(r.A, V)
    BY <1>1 DEF Holds
  <1>9. /\ h \in Seq(Int) /\ Len(h) = Len(g) + 1 /\ Ascending(h)
        /\ \A V : Within(h, V) = Within(g, V) + Within(<<e>>, V)
    BY <1>8, EnteredKeeps
  <1> HIDE DEF h
  <1>10. Holds(h, L, R)
    <2>1. Len(h) = GetCount(L) + GetCount(R)
      BY <1>7, <1>8, <1>9
    <2>2. \A V : Within(h, V) = Within(L.A, V) + Within(R.A, V)
      BY <1>7, <1>8, <1>9
    <2> QED  BY <2>1, <2>2, <1>9 DEF Holds
  <1>11. MedianOf(L, R) \in Int
    BY <1>7, MedianOfType
  <1>12. Counted(t)
    BY <1>4, <1>7, <1>10, <1>11 DEF Counted
  <1>13. ASSUME ~ t.wrapped, ~ t.taken PROVE Ordered(L, R, MedianOf(L, R)) /\ MedianOf(L, R) = Median(h)
    <2>1. Ordered(L, R, m)
      BY <1>2, <1>5, <1>6, <1>13
    <2>2. GetCount(L) = GetCount(R) => Wrapped(GetTop(L) + GetTop(R)) = GetTop(L) + GetTop(R)
      BY <1>5, <1>13
    <2>3. Len(h) >= 1
      BY <1>8, <1>9
    <2> QED  BY <2>1, <2>2, <2>3, <1>1, <1>7, <1>10, NewMedian
  <1>14. Exact(t)
    BY <1>4, <1>13 DEF Exact
  <1> QED  BY <1>12, <1>14

\* A round of printMedian keeps the invariant.
LEMMA MedianStep == MedianIInv /\ [MedianNext]_<<structure, store>> => MedianIInv'
  <1> SUFFICES ASSUME MedianIInv, [MedianNext]_<<structure, store>> PROVE MedianIInv'
    OBVIOUS
  <1>1. structure = "median" /\ Counted(store) /\ Exact(store)
    BY DEF MedianIInv
  <1>2. CASE UNCHANGED <<structure, store>>
    BY <1>1, <1>2 DEF MedianIInv
  <1>3. CASE MedianNext
    <2>1. structure' = structure
      BY <1>3 DEF MedianNext
    <2>2. PICK e \in MedianValues :
            LET heaps == Fit(e, store.m, store.l, store.r)
                sum == GetTop(heaps[1]) + GetTop(heaps[2])
                balanced == GetCount(heaps[1]) = GetCount(heaps[2])
            IN  store' = [l |-> heaps[1], r |-> heaps[2], m |-> MedianOf(heaps[1], heaps[2]),
                          given |-> Entered(store.given, e),
                          wrapped |-> store.wrapped \/ (balanced /\ sum # Wrapped(sum)),
                          taken |-> \/ store.taken
                                    \/ LeftGives(e, store.m, store.l, store.r) /\ GetCount(store.l) >= 3
                                    \/ RightGives(e, store.m, store.l, store.r) /\ GetCount(store.r) >= 3]
      BY <1>3, Zenon DEF MedianNext
    <2> DEFINE L == Fit(e, store.m, store.l, store.r)[1]
               R == Fit(e, store.m, store.l, store.r)[2]
    <2>3. e \in Int
      BY MedianAssumption
    <2>4. /\ store'.l = L /\ store'.r = R /\ store'.m = MedianOf(L, R) /\ store'.given = Entered(store.given, e)
          /\ store'.wrapped = (store.wrapped \/ (GetCount(L) = GetCount(R) /\ GetTop(L) + GetTop(R) # Wrapped(GetTop(L) + GetTop(R))))
          /\ store'.taken = (\/ store.taken
                             \/ LeftGives(e, store.m, store.l, store.r) /\ GetCount(store.l) >= 3
                             \/ RightGives(e, store.m, store.l, store.r) /\ GetCount(store.r) >= 3)
      BY <2>2, Zenon
    <2>5. L = Fit(e, store.m, store.l, store.r)[1] /\ R = Fit(e, store.m, store.l, store.r)[2]
      OBVIOUS
    <2> HIDE DEF L, R
    <2>6. ~ store'.wrapped => ~ store.wrapped /\ (GetCount(L) = GetCount(R) => GetTop(L) + GetTop(R) = Wrapped(GetTop(L) + GetTop(R)))
      BY <2>4, Zenon
    <2>7. ~ store'.taken => /\ ~ store.taken
                            /\ ~ (LeftGives(e, store.m, store.l, store.r) /\ GetCount(store.l) >= 3)
                            /\ ~ (RightGives(e, store.m, store.l, store.r) /\ GetCount(store.r) >= 3)
      BY <2>4, Zenon
    <2>8. Counted(store') /\ Exact(store')
      BY <2>3, <2>4, <2>5, <2>6, <2>7, <1>1, MedianReads, Zenon
    <2> QED  BY <1>1, <2>1, <2>8 DEF MedianIInv
  <1> QED  BY <1>2, <1>3

\* The invariant says what the run checks.
LEMMA MedianImplies == MedianIInv => MedianInv
  <1> SUFFICES ASSUME MedianIInv PROVE MedianExact /\ MedianHeaps
    BY DEF MedianInv
  <1> DEFINE l == store.l
             r == store.r
             g == store.given
             p == GetCount(l)
             q == GetCount(r)
  <1>1. /\ l \in HeapType /\ r \in HeapType /\ Holds(g, l, r) /\ p - q \in -1 .. 1
        /\ ~ store.wrapped /\ ~ store.taken /\ Len(g) >= 1 => store.m = Median(g)
    BY DEF MedianIInv, Counted, Exact
  <1>2. /\ g \in Seq(Int) /\ Len(g) = p + q /\ Len(g) \in Nat
        /\ \A V : Within(g, V) = Within(l.A, V) + Within(r.A, V)
    BY <1>1 DEF Holds
  <1>3. l.A \in Seq(Int) /\ r.A \in Seq(Int) /\ p = Len(l.A) /\ q = Len(r.A) /\ p \in Nat /\ q \in Nat
    BY <1>1 DEF HeapType, GetCount
  <1> DEFINE both == l.A \o r.A
  <1>4. both \in Seq(Int) /\ Len(both) = Len(g)
    BY <1>2, <1>3
  <1>5. \A V : Within(both, V) = Within(g, V)
    BY <1>2, <1>3, WithinConcat
  <1>6. g # <<>> => Len(g) >= 1
    BY <1>2
  <1>7. MedianExact
    BY <1>1, <1>6 DEF MedianExact
  <1>8. Overrun(l) \/ Overrun(r) <=> Len(g) > 2 * MAX_HEAP_SIZE
    <2>1. (Overrun(l) <=> p > MAX_HEAP_SIZE) /\ (Overrun(r) <=> q > MAX_HEAP_SIZE)
      BY DEF Overrun, GetCount
    <2> HIDE DEF p, q, g
    <2>2. p > MAX_HEAP_SIZE \/ q > MAX_HEAP_SIZE <=> p + q > 2 * MAX_HEAP_SIZE
      <3>1. p \in Nat /\ q \in Nat /\ p - q \in -1 .. 1
        BY <1>1, <1>3
      <3>2. \A n, x, y \in Nat : x - y \in -1 .. 1 => (x > n \/ y > n <=> x + y > 2 * n)
        OBVIOUS
      <3> QED  BY <3>1, <3>2, MedianAssumption
    <2> QED  BY <2>1, <2>2, <1>2
  <1>9. ASSUME NEW t \in Seq(Int)
        PROVE  Occurrences(MedianValues, t) = [e \in MedianValues |-> Within(t, {e})]
    <2>1. DOMAIN t = 1 .. Len(t)
      OBVIOUS
    <2>2. \A e : {i \in DOMAIN t : t[i] = e} = {i \in 1 .. Len(t) : t[i] \in {e}}
      BY <2>1
    <2>3. \A e : Cardinality({i \in DOMAIN t : t[i] = e}) = Within(t, {e})
      BY <2>2 DEF Within, Places
    <2> QED  BY <2>3 DEF Occurrences
  <1>10. Occurrences(MedianValues, both) = Occurrences(MedianValues, g)
    <2> HIDE DEF both, g
    <2>1. \A e \in MedianValues : Within(both, {e}) = Within(g, {e})
      BY <1>5, Zenon
    <2>2. [e \in MedianValues |-> Within(both, {e})] = [e \in MedianValues |-> Within(g, {e})]
      BY <2>1
    <2> QED  BY <1>2, <1>4, <1>9, <2>2
  <1>11. MedianHeaps
    BY <1>1, <1>4, <1>8, <1>10, Zenon DEF MedianHeaps
  <1> QED  BY <1>7, <1>11

\* What printMedian prints is the median of the values read so far, until an
\* average overflows or deleteTop has taken the top of a heap of three or more;
\* no value is ever lost or doubled between the heaps, neither gets ahead by two,
\* and an array is overrun only after more values than both arrays hold.  For
\* every set of values, length of the arrays and width of int.
THEOREM MedianCorrect == MedianSpec => []MedianInv
  <1>1. MedianSpec => []MedianIInv
    BY MedianStart, MedianStep, PTL DEF MedianSpec
  <1> QED  BY <1>1, MedianImplies, PTL

-----------------------------------------------------------------------------
(***************************************************************************)
(* Trees in memory.  Tree(t, a, X, d, q): the nodes below a are X, each of *)
(* them is there once and in its place in the order of the keys, d are on  *)
(* the longest way down, and no stored height is too low; if q, all stored *)
(* heights are exact and the tree is balanced.  The trees in t are the     *)
(* least set that has the empty one and every node with two trees below.   *)
(***************************************************************************)
Heap == [Address -> node]
Shapes == Pointer \X (SUBSET Address) \X Nat

\* The nodes L and R may be to the left and to the right of n.
Apart(t, n, L, R) ==
  /\ n \notin L /\ n \notin R /\ L \cap R = {}
  /\ \A c \in L : t[c].key <= t[n].key
  /\ \A c \in R : t[c].key >= t[n].key

\* The height stored in n, whose subtrees have the depths dl and dr.
Measure(t, n, dl, dr, q) ==
  /\ t[n].height >= max(dl, dr) + 1
  /\ q => t[n].height = max(dl, dr) + 1 /\ dl <= dr + 1 /\ dr <= dl + 1

Nodes(n, L, R) == {n} \cup L \cup R

Closed(t, q, K) ==
  /\ <<Nil, {}, 0>> \in K
  /\ \A n \in Address, L \in SUBSET Address, R \in SUBSET Address, dl \in Nat, dr \in Nat :
       <<t[n].left, L, dl>> \in K /\ <<t[n].right, R, dr>> \in K /\ Apart(t, n, L, R) /\ Measure(t, n, dl, dr, q)
         => <<n, Nodes(n, L, R), max(dl, dr) + 1>> \in K

Tree(t, a, X, d, q) ==
  /\ a \in Pointer /\ X \in SUBSET Address /\ d \in Nat
  /\ \A K \in SUBSET Shapes : Closed(t, q, K) => <<a, X, d>> \in K

\* The parts of a tree at a node n.
Parts(t, n, L, R, dl, dr, q) ==
  n \in Address /\ Tree(t, t[n].left, L, dl, q) /\ Tree(t, t[n].right, R, dr, q) /\ Apart(t, n, L, R)

\* The null pointer is no address, and there are finitely many addresses.
LEMMA Addresses ==
  /\ Nil \notin Address /\ Nil \in Pointer /\ Address \subseteq Pointer
  /\ \A a \in Pointer : a # Nil => a \in Address
  /\ IsFiniteSet(Address)
  /\ \A X \in SUBSET Address : IsFiniteSet(X) /\ Cardinality(X) \in Nat
  <1>1. Nil \notin Address
    BY AvlAssumption DEF Nil, Address
  <1>2. IsFiniteSet(Address)
    <2>1. IsFiniteSet(1 .. AvlNodes)
      BY AvlAssumption, CountTo
    <2> QED  BY <2>1, AvlAssumption, FS_Product DEF Address
  <1>3. \A X \in SUBSET Address : IsFiniteSet(X) /\ Cardinality(X) \in Nat
    BY <1>2, FS_Subset, FS_CardinalityType
  <1> QED  BY <1>1, <1>2, <1>3 DEF Pointer

\* max is one of its arguments and not below the other.
LEMMA MaxOf ==
  ASSUME NEW a \in Nat, NEW b \in Nat
  PROVE  /\ max(a, b) \in Nat /\ max(a, b) + 1 \in Nat /\ max(a, b) >= a /\ max(a, b) >= b
         /\ (max(a, b) = a \/ max(a, b) = b)
  BY DEF max

\* max is monotone.
LEMMA MaxGrows ==
  ASSUME NEW a \in Nat, NEW b \in Nat, NEW c \in Nat, NEW d \in Nat, a <= c, b <= d
  PROVE  max(a, b) <= max(c, d)
  BY DEF max

\* The nodes of the memory.
LEMMA HeapNode ==
  ASSUME NEW t \in Heap, NEW n \in Address
  PROVE  t[n].key \in Int /\ t[n].left \in Pointer /\ t[n].right \in Pointer /\ t[n].height \in Nat
  BY DEF Heap, node

\* What holds of the empty tree, and of a node when it holds of the trees below
\* it, holds of every tree.
LEMMA TreeInduction ==
  ASSUME NEW t, NEW q, NEW K \in SUBSET Shapes, Closed(t, q, K), NEW a, NEW X, NEW d, Tree(t, a, X, d, q)
  PROVE  <<a, X, d>> \in K
  BY Zenon DEF Tree

\* The empty tree.
LEMMA EmptyTree ==
  ASSUME NEW t, NEW q
  PROVE  Tree(t, Nil, {}, 0, q)
  BY Addresses, Zenon DEF Tree, Closed

\* A node with two trees below it is a tree.
LEMMA TreeJoin ==
  ASSUME NEW t, NEW n, NEW L, NEW R, NEW dl, NEW dr, NEW q, Parts(t, n, L, R, dl, dr, q), Measure(t, n, dl, dr, q)
  PROVE  Tree(t, n, Nodes(n, L, R), max(dl, dr) + 1, q)
  <1>1. n \in Address /\ L \in SUBSET Address /\ R \in SUBSET Address /\ dl \in Nat /\ dr \in Nat
    BY Zenon DEF Parts, Tree
  <1>2. n \in Pointer /\ Nodes(n, L, R) \in SUBSET Address /\ max(dl, dr) + 1 \in Nat
    BY <1>1, MaxOf, Addresses DEF Nodes
  <1>3. ASSUME NEW K \in SUBSET Shapes, Closed(t, q, K) PROVE <<n, Nodes(n, L, R), max(dl, dr) + 1>> \in K
    <2>1. <<t[n].left, L, dl>> \in K /\ <<t[n].right, R, dr>> \in K /\ Apart(t, n, L, R)
      BY <1>3, Zenon DEF Parts, Tree
    <2> QED  BY <1>1, <1>3, <2>1, Zenon DEF Closed
  <1> QED  BY <1>2, <1>3, Zenon DEF Tree


\* The tree X of depth d at a has parts.
Split(t, a, X, d, q) ==
  \E L, R, dl, dr : /\ Parts(t, a, L, R, dl, dr, q) /\ Measure(t, a, dl, dr, q)
                    /\ X = Nodes(a, L, R) /\ d = max(dl, dr) + 1

\* A tree that is not empty has parts.
LEMMA TreeSplit ==
  ASSUME NEW t \in Heap, NEW a, NEW X, NEW d, NEW q, Tree(t, a, X, d, q)
  PROVE  (a = Nil => X = {} /\ d = 0) /\ (a # Nil => Split(t, a, X, d, q))
  <1> DEFINE Good(b, Y, e) == (b = Nil => Y = {} /\ e = 0) /\ (b # Nil => Split(t, b, Y, e, q))
             K == {p \in Shapes : Tree(t, p[1], p[2], p[3], q) /\ Good(p[1], p[2], p[3])}
  <1> HIDE DEF Good
  <1>0. \A b, Y, e : Tree(t, b, Y, e, q) => <<b, Y, e>> \in Shapes
    BY DEF Tree, Shapes
  <1>1. \A b, Y, e : <<b, Y, e>> \in K <=> Tree(t, b, Y, e, q) /\ Good(b, Y, e)
    BY <1>0
  <1> HIDE DEF K
  <1>2. K \in SUBSET Shapes
    BY DEF K
  <1>3. Closed(t, q, K)
    <2>1. <<Nil, {}, 0>> \in K
      BY <1>1, EmptyTree, Zenon DEF Good
    <2>2. ASSUME NEW n \in Address, NEW L \in SUBSET Address, NEW R \in SUBSET Address, NEW dl \in Nat, NEW dr \in Nat,
                 <<t[n].left, L, dl>> \in K, <<t[n].right, R, dr>> \in K, Apart(t, n, L, R), Measure(t, n, dl, dr, q)
          PROVE  <<n, Nodes(n, L, R), max(dl, dr) + 1>> \in K
      <3>1. Parts(t, n, L, R, dl, dr, q)
        BY <1>1, <2>2, Zenon DEF Parts
      <3>2. Tree(t, n, Nodes(n, L, R), max(dl, dr) + 1, q)
        BY <2>2, <3>1, TreeJoin
      <3>3. n # Nil
        BY Addresses
      <3>4. Split(t, n, Nodes(n, L, R), max(dl, dr) + 1, q)
        BY <2>2, <3>1, Zenon DEF Split
      <3>5. Good(n, Nodes(n, L, R), max(dl, dr) + 1)
        BY <3>3, <3>4, Zenon DEF Good
      <3> QED  BY <1>1, <3>2, <3>5, Zenon
    <2> QED  BY <2>1, <2>2, Zenon DEF Closed
  <1>4. <<a, X, d>> \in K
    BY <1>2, <1>3, TreeInduction, Zenon
  <1> QED  BY <1>1, <1>4, Zenon DEF Good

\* A tree has a node, its root, at least and at most one for each level, and no
\* stored height is below the depth.
LEMMA TreeBounds ==
  ASSUME NEW t \in Heap, NEW a, NEW X, NEW d, NEW q, Tree(t, a, X, d, q)
  PROVE  /\ a \in Pointer /\ X \in SUBSET Address /\ IsFiniteSet(X) /\ Cardinality(X) \in Nat
         /\ d \in Nat /\ (a # Nil => a \in Address /\ a \in X /\ d >= 1) /\ (a = Nil => X = {} /\ d = 0)
         /\ height(t, a) \in Nat /\ height(t, a) >= d /\ (q => height(t, a) = d)
  <1>1. a \in Pointer /\ X \in SUBSET Address /\ d \in Nat
    BY Zenon DEF Tree
  <1>2. IsFiniteSet(X) /\ Cardinality(X) \in Nat
    BY <1>1, Addresses
  <1>3. CASE a = Nil
    <2>1. X = {} /\ d = 0
      BY <1>3, TreeSplit, Zenon
    <2> QED  BY <2>1, <1>1, <1>2, <1>3 DEF height
  <1>4. CASE a # Nil
    <2>0. Split(t, a, X, d, q)
      BY <1>4, TreeSplit, Zenon
    <2>1. PICK L, R, dl, dr : /\ Parts(t, a, L, R, dl, dr, q) /\ Measure(t, a, dl, dr, q)
                              /\ X = Nodes(a, L, R) /\ d = max(dl, dr) + 1
      BY <2>0, Zenon DEF Split
    <2>2. a \in Address /\ dl \in Nat /\ dr \in Nat
      BY <2>1, Zenon DEF Parts, Tree
    <2>3. max(dl, dr) \in Nat /\ t[a].height \in Nat
      BY <2>2, MaxOf, HeapNode
    <2>4. d >= 1
      BY <2>1, <2>3
    <2> QED  BY <2>1, <2>2, <2>3, <2>4, <1>1, <1>2, <1>4 DEF height, Measure, Nodes
  <1> QED  BY <1>3, <1>4

\* A tree is one in every memory that has the same nodes in it.
LEMMA TreeFrame ==
  ASSUME NEW t \in Heap, NEW u \in Heap, NEW a, NEW X, NEW d, NEW q, Tree(t, a, X, d, q), \A b \in X : u[b] = t[b]
  PROVE  Tree(u, a, X, d, q)
  <1> DEFINE Same(Y) == \A b \in Y : u[b] = t[b]
             K == {p \in Shapes : Same(p[2]) => Tree(u, p[1], p[2], p[3], q)}
  <1> HIDE DEF Same
  <1>1. \A b, Y, e : <<b, Y, e>> \in K <=> <<b, Y, e>> \in Shapes /\ (Same(Y) => Tree(u, b, Y, e, q))
    OBVIOUS
  <1>2. K \in SUBSET Shapes
    OBVIOUS
  <1> HIDE DEF K
  <1>3. Closed(t, q, K)
    <2>1. <<Nil, {}, 0>> \in K
      BY <1>1, EmptyTree, Addresses DEF Shapes
    <2>2. ASSUME NEW n \in Address, NEW L \in SUBSET Address, NEW R \in SUBSET Address, NEW dl \in Nat, NEW dr \in Nat,
                 <<t[n].left, L, dl>> \in K, <<t[n].right, R, dr>> \in K, Apart(t, n, L, R), Measure(t, n, dl, dr, q)
          PROVE  <<n, Nodes(n, L, R), max(dl, dr) + 1>> \in K
      <3>1. <<n, Nodes(n, L, R), max(dl, dr) + 1>> \in Shapes
        BY MaxOf, Addresses DEF Shapes, Nodes
      <3>2. ASSUME Same(Nodes(n, L, R)) PROVE Tree(u, n, Nodes(n, L, R), max(dl, dr) + 1, q)
        <4>1. Same(L) /\ Same(R) /\ u[n] = t[n] /\ (\A b \in L : u[b] = t[b]) /\ (\A b \in R : u[b] = t[b])
          BY <3>2 DEF Same, Nodes
        <4>2. Tree(u, t[n].left, L, dl, q) /\ Tree(u, t[n].right, R, dr, q)
          BY <1>1, <2>2, <4>1, Zenon
        <4>3. Apart(u, n, L, R)
          BY <2>2, <4>1 DEF Apart
        <4>4. Measure(u, n, dl, dr, q)
          BY <2>2, <4>1 DEF Measure
        <4> QED  BY <4>1, <4>2, <4>3, <4>4, TreeJoin DEF Parts
      <3> QED  BY <1>1, <3>1, <3>2, Zenon
    <2> QED  BY <2>1, <2>2, Zenon DEF Closed
  <1>4. <<a, X, d>> \in K
    BY <1>2, <1>3, TreeInduction, Zenon
  <1>5. Same(X)
    BY Zenon DEF Same
  <1> QED  BY <1>1, <1>4, <1>5, Zenon

\* Disjoint sets of addresses, and how many nodes a node and its subtrees have.
LEMMA NodesSize ==
  ASSUME NEW n \in Address, NEW L \in SUBSET Address, NEW R \in SUBSET Address, n \notin L, n \notin R, L \cap R = {}
  PROVE  Cardinality(Nodes(n, L, R)) = Cardinality(L) + Cardinality(R) + 1
  <1>1. IsFiniteSet(L) /\ IsFiniteSet(R) /\ Cardinality(L) \in Nat /\ Cardinality(R) \in Nat
    BY Addresses
  <1>2. IsFiniteSet(L \cup R) /\ Cardinality(L \cup R) = Cardinality(L) + Cardinality(R)
    <2>1. IsFiniteSet(L \cup R) /\ Cardinality(L \cup R) = Cardinality(L) + Cardinality(R) - Cardinality({})
      BY <1>1, FS_Union
    <2> QED  BY <1>1, <2>1, FS_EmptySet
  <1>3. Cardinality((L \cup R) \cup {n}) = Cardinality(L \cup R) + 1
    BY <1>2, FS_AddElement
  <1>4. Nodes(n, L, R) = (L \cup R) \cup {n}
    BY DEF Nodes
  <1> QED  BY <1>1, <1>2, <1>3, <1>4

\* No way down has more nodes than the tree.
LEMMA TreeSize ==
  ASSUME NEW t \in Heap, NEW a, NEW X, NEW d, NEW q, Tree(t, a, X, d, q)
  PROVE  d <= Cardinality(X)
  <1> DEFINE K == {p \in Shapes : p[3] <= Cardinality(p[2])}
  <1>1. \A b, Y, e : <<b, Y, e>> \in K <=> <<b, Y, e>> \in Shapes /\ e <= Cardinality(Y)
    OBVIOUS
  <1>2. K \in SUBSET Shapes
    OBVIOUS
  <1> HIDE DEF K
  <1>3. Closed(t, q, K)
    <2>1. <<Nil, {}, 0>> \in K
      BY <1>1, Addresses, FS_EmptySet DEF Shapes
    <2>2. ASSUME NEW n \in Address, NEW L \in SUBSET Address, NEW R \in SUBSET Address, NEW dl \in Nat, NEW dr \in Nat,
                 <<t[n].left, L, dl>> \in K, <<t[n].right, R, dr>> \in K, Apart(t, n, L, R), Measure(t, n, dl, dr, q)
          PROVE  <<n, Nodes(n, L, R), max(dl, dr) + 1>> \in K
      <3>1. <<n, Nodes(n, L, R), max(dl, dr) + 1>> \in Shapes
        BY MaxOf, Addresses DEF Shapes, Nodes
      <3>2. dl <= Cardinality(L) /\ dr <= Cardinality(R) /\ Cardinality(L) \in Nat /\ Cardinality(R) \in Nat
        BY <1>1, <2>2, Addresses
      <3>3. Cardinality(Nodes(n, L, R)) = Cardinality(L) + Cardinality(R) + 1
        BY <2>2, NodesSize DEF Apart
      <3>4. max(dl, dr) + 1 <= Cardinality(Nodes(n, L, R))
        BY <3>2, <3>3 DEF max
      <3> QED  BY <1>1, <3>1, <3>4, Zenon
    <2> QED  BY <2>1, <2>2, Zenon DEF Closed
  <1>4. <<a, X, d>> \in K
    BY <1>2, <1>3, TreeInduction, Zenon
  <1> QED  BY <1>1, <1>4, Zenon

\* A tree whose heights are exact is a tree.
LEMMA TreeWeaken ==
  ASSUME NEW t, NEW a, NEW X, NEW d, NEW q, Tree(t, a, X, d, q)
  PROVE  Tree(t, a, X, d, FALSE)
  <1>1. \A K : Closed(t, FALSE, K) => Closed(t, q, K)
    <2>1. \A n, dl, dr : Measure(t, n, dl, dr, q) => Measure(t, n, dl, dr, FALSE)
      BY DEF Measure
    <2>2. SUFFICES ASSUME NEW K, Closed(t, FALSE, K) PROVE Closed(t, q, K)
      OBVIOUS
    <2> QED  BY <2>1, <2>2 DEF Closed
  <1> QED  BY <1>1, Zenon DEF Tree

\* What is below a node of a tree is a tree.
LEMMA TreeInner ==
  ASSUME NEW t \in Heap, NEW a, NEW X, NEW d, NEW q, Tree(t, a, X, d, q), NEW b \in X
  PROVE  \E Y, e : Tree(t, b, Y, e, q) /\ Y \subseteq X
  <1> DEFINE Inner(Z) == \A c \in Z : \E Y, e : Tree(t, c, Y, e, q) /\ Y \subseteq Z
             K == {p \in Shapes : Tree(t, p[1], p[2], p[3], q) /\ Inner(p[2])}
  <1> HIDE DEF Inner
  <1>0. \A c, Y, e : Tree(t, c, Y, e, q) => <<c, Y, e>> \in Shapes
    BY DEF Tree, Shapes
  <1>1. \A c, Y, e : <<c, Y, e>> \in K <=> Tree(t, c, Y, e, q) /\ Inner(Y)
    BY <1>0
  <1>2. K \in SUBSET Shapes
    OBVIOUS
  <1> HIDE DEF K
  <1>3. Closed(t, q, K)
    <2>1. <<Nil, {}, 0>> \in K
      BY <1>1, EmptyTree, Zenon DEF Inner
    <2>2. ASSUME NEW n \in Address, NEW L \in SUBSET Address, NEW R \in SUBSET Address, NEW dl \in Nat, NEW dr \in Nat,
                 <<t[n].left, L, dl>> \in K, <<t[n].right, R, dr>> \in K, Apart(t, n, L, R), Measure(t, n, dl, dr, q)
          PROVE  <<n, Nodes(n, L, R), max(dl, dr) + 1>> \in K
      <3>1. Parts(t, n, L, R, dl, dr, q) /\ Inner(L) /\ Inner(R)
        BY <1>1, <2>2, Zenon DEF Parts
      <3>2. Tree(t, n, Nodes(n, L, R), max(dl, dr) + 1, q)
        BY <2>2, <3>1, TreeJoin
      <3>3. L \subseteq Nodes(n, L, R) /\ R \subseteq Nodes(n, L, R)
        BY DEF Nodes
      <3>4. ASSUME NEW c \in Nodes(n, L, R) PROVE \E Y, e : Tree(t, c, Y, e, q) /\ Y \subseteq Nodes(n, L, R)
        <4>1. c = n \/ c \in L \/ c \in R
          BY DEF Nodes
        <4>2. CASE c = n
          BY <3>2, <4>2, Zenon
        <4>3. CASE c \in L
          <5>1. PICK Y, e : Tree(t, c, Y, e, q) /\ Y \subseteq L
            BY <3>1, <4>3, Zenon DEF Inner
          <5> QED  BY <3>3, <5>1, Zenon
        <4>4. CASE c \in R
          <5>1. PICK Y, e : Tree(t, c, Y, e, q) /\ Y \subseteq R
            BY <3>1, <4>4, Zenon DEF Inner
          <5> QED  BY <3>3, <5>1, Zenon
        <4> QED  BY <4>1, <4>2, <4>3, <4>4, Zenon
      <3>5. Inner(Nodes(n, L, R))
        BY <3>4, Zenon DEF Inner
      <3> QED  BY <1>1, <3>2, <3>5, Zenon
    <2> QED  BY <2>1, <2>2, Zenon DEF Closed
  <1>4. <<a, X, d>> \in K
    BY <1>2, <1>3, TreeInduction, Zenon
  <1> QED  BY <1>1, <1>4, Zenon DEF Inner

-----------------------------------------------------------------------------
(* What the operations do to the nodes in memory.                          *)

\* Stored heights are natural numbers.
LEMMA HeightType ==
  ASSUME NEW t \in Heap, NEW a \in Pointer
  PROVE  height(t, a) \in Nat
  BY HeapNode, Addresses DEF height

\* The pointer l, r and the height h at the node n, and everything else as in t.
Changed(t, u, n, l, r, h) ==
  /\ u \in Heap
  /\ u[n].key = t[n].key /\ u[n].left = l /\ u[n].right = r /\ u[n].height = h
  /\ \A b \in Address : b # n => u[b] = t[b]

\* Setting the height of a node.
LEMMA MeasuredNode ==
  ASSUME NEW t \in Heap, NEW n \in Address
  PROVE  Changed(t, Measured(t, n), n, t[n].left, t[n].right, max(height(t, t[n].left), height(t, t[n].right)) + 1)
  <1> DEFINE h == max(height(t, t[n].left), height(t, t[n].right)) + 1
  <1>1. h \in Nat
    BY HeapNode, HeightType, MaxOf
  <1> HIDE DEF h
  <1>2. Measured(t, n) = [t EXCEPT ![n].height = h]
    BY DEF Measured, h
  <1> SUFFICES Changed(t, [t EXCEPT ![n].height = h], n, t[n].left, t[n].right, h)
    BY <1>2, Zenon DEF h
  <1> QED  BY <1>1 DEF Changed, Heap, node

\* Setting the left pointer of a node.
LEMMA LinkedLeft ==
  ASSUME NEW t \in Heap, NEW n \in Address, NEW a \in Pointer
  PROVE  Changed(t, [t EXCEPT ![n].left = a], n, a, t[n].right, t[n].height)
  BY DEF Changed, Heap, node

\* Setting the right pointer of a node.
LEMMA LinkedRight ==
  ASSUME NEW t \in Heap, NEW n \in Address, NEW a \in Pointer
  PROVE  Changed(t, [t EXCEPT ![n].right = a], n, t[n].left, a, t[n].height)
  BY DEF Changed, Heap, node

\* The calls have a memory, a node and two flags.
LEMMA CallFields ==
  ASSUME NEW s \in AvlCalls
  PROVE  s.t \in Heap /\ s.at \in Pointer /\ s.ok \in BOOLEAN /\ s.turned \in BOOLEAN
  BY DEF AvlCalls, Heap

\* The memories t and u have the same keys.
SameKeys(t, u) == \A b \in Address : u[b].key = t[b].key

\* The memories t and u differ in W only, and in no key.
Kept(t, u, W) == u \in Heap /\ \A b \in Address : u[b].key = t[b].key /\ (b \notin W => u[b] = t[b])

\* What leftRotate does to the nodes z and y.
TurnedLeft(s, r, z, y) ==
  /\ r \in AvlCalls /\ r.ok /\ r.turned = s.turned /\ r.at = y /\ Kept(s.t, r.t, {y, z})
  /\ r.t[z].left = s.t[z].left /\ r.t[z].right = s.t[y].left /\ r.t[y].left = z /\ r.t[y].right = s.t[y].right
  /\ r.t[z].height = max(height(s.t, s.t[z].left), height(s.t, s.t[y].left)) + 1
  /\ r.t[y].height = max(r.t[z].height, height(s.t, s.t[y].right)) + 1

\* What rightRotate does to them: y gets its height from the one z had.
TurnedRight(s, r, z, y) ==
  /\ r \in AvlCalls /\ r.ok /\ r.turned /\ r.at = y /\ Kept(s.t, r.t, {y, z})
  /\ r.t[z].left = s.t[y].right /\ r.t[z].right = s.t[z].right /\ r.t[y].left = s.t[y].left /\ r.t[y].right = z
  /\ r.t[y].height = max(height(s.t, s.t[y].left), s.t[z].height) + 1
  /\ r.t[z].height = max(height(s.t, s.t[y].right), height(s.t, s.t[z].right)) + 1

\* leftRotate turns left.
LEMMA LeftRotateNodes ==
  ASSUME NEW s \in AvlCalls, s.ok, NEW z \in Address, z = s.at, NEW y \in Address, y = s.t[z].right,
         s.t[z].left \notin {y, z}, s.t[y].left \notin {y, z}, s.t[y].right \notin {y, z}, y # z,
         NEW r, r = leftRotate(s)
  PROVE  TurnedLeft(s, r, z, y)
  <1> DEFINE t == s.t
             t1 == [t EXCEPT ![y].left = z]
             t2 == [t1 EXCEPT ![z].right = t[y].left]
             t3 == Measured(t2, z)
             t4 == Measured(t3, y)
  <1>1. t \in Heap /\ y # Nil /\ z \in Pointer
    BY CallFields, Addresses
  <1>2. r = [t |-> t4, at |-> y, ok |-> TRUE, turned |-> s.turned]
    BY <1>1, Zenon DEF leftRotate
  <1> HIDE DEF t, t1, t2, t3, t4
  <1>3. Changed(t, t1, y, z, t[y].right, t[y].height)
    BY <1>1, LinkedLeft DEF t1
  <1>4. t1 \in Heap /\ t[y].left \in Pointer
    BY <1>1, <1>3, HeapNode DEF Changed
  <1>5. Changed(t1, t2, z, t1[z].left, t[y].left, t1[z].height)
    BY <1>4, LinkedRight DEF t2
  <1>6. t2 \in Heap
    BY <1>5 DEF Changed
  <1>7. Changed(t2, t3, z, t2[z].left, t2[z].right, max(height(t2, t2[z].left), height(t2, t2[z].right)) + 1)
    BY <1>6, MeasuredNode DEF t3
  <1>8. t3 \in Heap
    BY <1>7 DEF Changed
  <1>9. Changed(t3, t4, y, t3[y].left, t3[y].right, max(height(t3, t3[y].left), height(t3, t3[y].right)) + 1)
    BY <1>8, MeasuredNode DEF t4
  <1>10. r \in AvlCalls /\ r.ok /\ r.turned = s.turned /\ r.at = y /\ r.t = t4
    BY <1>2, <1>9, CallFields, Addresses, SMTT(30) DEF Changed, AvlCalls, Heap
  <1>11. \A b \in Address : t4[b].key = t[b].key /\ (b \notin {y, z} => t4[b] = t[b] /\ t3[b] = t[b] /\ t2[b] = t[b])
    BY <1>3, <1>5, <1>7, <1>9, SMTT(30) DEF Changed
  <1>12. t4[z] = t3[z] /\ t3[z].left = t[z].left /\ t3[z].right = t[y].left /\ t2[z].left = t[z].left /\ t2[z].right = t[y].left
    BY <1>3, <1>5, <1>7, <1>9, SMTT(30) DEF Changed
  <1>13. t4[y].left = z /\ t4[y].right = t[y].right /\ t3[y].left = z /\ t3[y].right = t[y].right
    BY <1>3, <1>5, <1>7, <1>9 DEF Changed
  <1>14. \A a \in Pointer : a \notin {y, z} => height(t2, a) = height(t, a) /\ height(t3, a) = height(t, a)
    BY <1>11, Addresses DEF height
  <1>15. t[z].left \in Pointer /\ t[y].left \in Pointer /\ t[y].right \in Pointer
    BY <1>1, HeapNode
  <1>16. t[z].left \notin {y, z} /\ t[y].left \notin {y, z} /\ t[y].right \notin {y, z}
    BY DEF t
  <1>17. t4[z].height = max(height(t, t[z].left), height(t, t[y].left)) + 1
    BY <1>7, <1>12, <1>14, <1>15, <1>16 DEF Changed
  <1>18. height(t3, z) = t4[z].height
    BY <1>12, Addresses, SMTT(30) DEF height
  <1>19. t4[y].height = max(t4[z].height, height(t, t[y].right)) + 1
    BY <1>9, <1>13, <1>14, <1>15, <1>16, <1>18, SMTT(30) DEF Changed
  <1>20. Kept(t, t4, {y, z})
    BY <1>9, <1>11 DEF Kept, Changed
  <1> QED  BY <1>10, <1>12, <1>13, <1>17, <1>19, <1>20 DEF t, TurnedLeft

\* rightRotate turns right.
LEMMA RightRotateNodes ==
  ASSUME NEW s \in AvlCalls, s.ok, NEW z \in Address, z = s.at, NEW y \in Address, y = s.t[z].left,
         s.t[z].right \notin {y, z}, s.t[y].left \notin {y, z}, s.t[y].right \notin {y, z}, y # z,
         NEW r, r = rightRotate(s)
  PROVE  TurnedRight(s, r, z, y)
  <1> DEFINE t == s.t
             t1 == [t EXCEPT ![y].right = z]
             t2 == [t1 EXCEPT ![z].left = t[y].right]
             t3 == Measured(t2, y)
             t4 == Measured(t3, z)
  <1>1. t \in Heap /\ y # Nil /\ z \in Pointer
    BY CallFields, Addresses
  <1>2. r = [t |-> t4, at |-> y, ok |-> TRUE, turned |-> TRUE]
    BY <1>1, Zenon DEF rightRotate
  <1> HIDE DEF t, t1, t2, t3, t4
  <1>3. Changed(t, t1, y, t[y].left, z, t[y].height)
    BY <1>1, LinkedRight DEF t1
  <1>4. t1 \in Heap /\ t[y].right \in Pointer
    BY <1>1, <1>3, HeapNode DEF Changed
  <1>5. Changed(t1, t2, z, t[y].right, t1[z].right, t1[z].height)
    BY <1>4, LinkedLeft DEF t2
  <1>6. t2 \in Heap
    BY <1>5 DEF Changed
  <1>7. Changed(t2, t3, y, t2[y].left, t2[y].right, max(height(t2, t2[y].left), height(t2, t2[y].right)) + 1)
    BY <1>6, MeasuredNode DEF t3
  <1>8. t3 \in Heap
    BY <1>7 DEF Changed
  <1>9. Changed(t3, t4, z, t3[z].left, t3[z].right, max(height(t3, t3[z].left), height(t3, t3[z].right)) + 1)
    BY <1>8, MeasuredNode DEF t4
  <1>10. r \in AvlCalls /\ r.ok /\ r.turned /\ r.at = y /\ r.t = t4
    BY <1>2, <1>9, CallFields, Addresses, SMTT(30) DEF Changed, AvlCalls, Heap
  <1>11. \A b \in Address : t4[b].key = t[b].key /\ (b \notin {y, z} => t4[b] = t[b] /\ t3[b] = t[b] /\ t2[b] = t[b])
    BY <1>3, <1>5, <1>7, <1>9, SMTT(30) DEF Changed
  <1>12. t4[y] = t3[y] /\ t3[y].left = t[y].left /\ t3[y].right = z /\ t2[y].left = t[y].left /\ t2[y].right = z
    BY <1>3, <1>5, <1>7, <1>9, SMTT(30) DEF Changed
  <1>13. t4[z].left = t[y].right /\ t4[z].right = t[z].right /\ t3[z].left = t[y].right /\ t3[z].right = t[z].right
    BY <1>3, <1>5, <1>7, <1>9 DEF Changed
  <1>14. \A a \in Pointer : a \notin {y, z} => height(t2, a) = height(t, a) /\ height(t3, a) = height(t, a)
    BY <1>11, Addresses DEF height
  <1>15. t[z].right \in Pointer /\ t[y].left \in Pointer /\ t[y].right \in Pointer
    BY <1>1, HeapNode
  <1>16. t[z].right \notin {y, z} /\ t[y].left \notin {y, z} /\ t[y].right \notin {y, z}
    BY DEF t
  <1>17. height(t2, z) = t[z].height
    <2>1. t2[z].height = t[z].height
      BY <1>3, <1>5, SMTT(30) DEF Changed
    <2> QED  BY <2>1, Addresses DEF height
  <1>18. t4[y].height = max(height(t, t[y].left), t[z].height) + 1
    BY <1>7, <1>12, <1>14, <1>15, <1>16, <1>17 DEF Changed
  <1>19. t4[z].height = max(height(t, t[y].right), height(t, t[z].right)) + 1
    BY <1>9, <1>13, <1>14, <1>15, <1>16 DEF Changed
  <1>20. Kept(t, t4, {y, z})
    BY <1>9, <1>11 DEF Kept, Changed
  <1> QED  BY <1>10, <1>12, <1>13, <1>18, <1>19, <1>20 DEF t, TurnedRight

-----------------------------------------------------------------------------
(* Rotations of trees.                                                     *)

\* A rotation keeps the nodes and their order.
LEMMA ApartLeft ==
  ASSUME NEW t \in Heap, NEW u, NEW z \in Address, NEW y \in Address, NEW L \in SUBSET Address,
         NEW A \in SUBSET Address, NEW B \in SUBSET Address, SameKeys(t, u),
         Apart(t, z, L, Nodes(y, A, B)), Apart(t, y, A, B)
  PROVE  Apart(u, z, L, A) /\ Apart(u, y, Nodes(z, L, A), B)
  <1>1. \A b \in Address : t[b].key \in Int /\ u[b].key = t[b].key
    BY HeapNode DEF SameKeys
  <1>2. Apart(u, z, L, A)
    BY <1>1 DEF Apart, Nodes
  <1>3. t[z].key <= t[y].key
    BY DEF Apart, Nodes
  <1>4. \A c \in Nodes(z, L, A) : u[c].key <= u[y].key
    BY <1>1, <1>3 DEF Apart, Nodes
  <1>5. y \notin Nodes(z, L, A) /\ y \notin B /\ Nodes(z, L, A) \cap B = {}
    BY DEF Apart, Nodes
  <1>6. \A c \in B : u[c].key >= u[y].key
    BY <1>1 DEF Apart
  <1>7. Apart(u, y, Nodes(z, L, A), B)
    BY <1>4, <1>5, <1>6, Zenon DEF Apart
  <1> QED  BY <1>2, <1>7

\* The same from the other side: y was to the left of z and is now above it.
LEMMA ApartRight ==
  ASSUME NEW t \in Heap, NEW u, NEW z \in Address, NEW y \in Address, NEW C \in SUBSET Address,
         NEW A \in SUBSET Address, NEW B \in SUBSET Address, SameKeys(t, u),
         Apart(t, z, Nodes(y, A, B), C), Apart(t, y, A, B)
  PROVE  Apart(u, z, B, C) /\ Apart(u, y, A, Nodes(z, B, C))
  <1>1. \A b \in Address : t[b].key \in Int /\ u[b].key = t[b].key
    BY HeapNode DEF SameKeys
  <1>2. Apart(u, z, B, C)
    BY <1>1 DEF Apart, Nodes
  <1>3. t[z].key >= t[y].key
    BY <1>1 DEF Apart, Nodes
  <1>4. \A c \in Nodes(z, B, C) : u[c].key >= u[y].key
    BY <1>1, <1>3 DEF Apart, Nodes
  <1>5. y \notin Nodes(z, B, C) /\ y \notin A /\ A \cap Nodes(z, B, C) = {}
    BY DEF Apart, Nodes
  <1>6. \A c \in A : u[c].key <= u[y].key
    BY <1>1 DEF Apart
  <1>7. Apart(u, y, A, Nodes(z, B, C))
    BY <1>4, <1>5, <1>6, Zenon DEF Apart
  <1> QED  BY <1>2, <1>7

\* The parts of a tree, where its root and its children are, and the heights stored.
Bounds(t, n, L, R, dl, dr, q) ==
  /\ n \in Address /\ L \in SUBSET Address /\ R \in SUBSET Address /\ dl \in Nat /\ dr \in Nat
  /\ Tree(t, t[n].left, L, dl, q) /\ Tree(t, t[n].right, R, dr, q) /\ Apart(t, n, L, R)
  /\ (t[n].left # Nil => t[n].left \in L) /\ (t[n].right # Nil => t[n].right \in R)
  /\ n \notin L /\ n \notin R /\ L \cap R = {}
  /\ height(t, t[n].left) \in Nat /\ height(t, t[n].left) >= dl /\ (q => height(t, t[n].left) = dl)
  /\ height(t, t[n].right) \in Nat /\ height(t, t[n].right) >= dr /\ (q => height(t, t[n].right) = dr)

\* They follow from what the parts are.
LEMMA PartsBounds ==
  ASSUME NEW t \in Heap, NEW n, NEW L, NEW R, NEW dl, NEW dr, NEW q, Parts(t, n, L, R, dl, dr, q)
  PROVE  Bounds(t, n, L, R, dl, dr, q)
  <1>1. n \in Address /\ Tree(t, t[n].left, L, dl, q) /\ Tree(t, t[n].right, R, dr, q) /\ Apart(t, n, L, R)
    BY Zenon DEF Parts
  <1>2. L \in SUBSET Address /\ dl \in Nat /\ (t[n].left # Nil => t[n].left \in L)
        /\ height(t, t[n].left) \in Nat /\ height(t, t[n].left) >= dl /\ (q => height(t, t[n].left) = dl)
    BY <1>1, TreeBounds
  <1>3. R \in SUBSET Address /\ dr \in Nat /\ (t[n].right # Nil => t[n].right \in R)
        /\ height(t, t[n].right) \in Nat /\ height(t, t[n].right) >= dr /\ (q => height(t, t[n].right) = dr)
    BY <1>1, TreeBounds, SMTT(30)
  <1> QED  BY <1>1, <1>2, <1>3 DEF Apart, Bounds

\* What leftRotate makes of the node z, whose right child has the parts A and B.
LeftTree(s, r, z, L, A, B, R, dl, da, db, q) ==
  /\ r \in AvlCalls /\ r.ok /\ r.turned = s.turned /\ Kept(s.t, r.t, {r.at, z})
  /\ Parts(r.t, r.at, Nodes(z, L, A), B, max(dl, da) + 1, db, q) /\ Measure(r.t, r.at, max(dl, da) + 1, db, q)
  /\ Nodes(r.at, Nodes(z, L, A), B) = Nodes(z, L, R)
  /\ r.t[r.at].height >= 2 + height(s.t, s.t[z].left)

\* The right child of the node of s has the parts A and B.
ReadyLeft(s, L, R, A, B, dl, dr, da, db, q) ==
  /\ s \in AvlCalls /\ s.ok /\ Parts(s.t, s.at, L, R, dl, dr, q)
  /\ Parts(s.t, s.t[s.at].right, A, B, da, db, q) /\ R = Nodes(s.t[s.at].right, A, B)
  /\ q => dl <= da + 1 /\ da <= dl + 1 /\ max(dl, da) <= db /\ db <= max(dl, da) + 2

\* leftRotate makes a tree of it.
LEMMA LeftRotated ==
  ASSUME NEW s, NEW L, NEW R, NEW A, NEW B, NEW dl, NEW dr, NEW da, NEW db, NEW q,
         ReadyLeft(s, L, R, A, B, dl, dr, da, db, q)
  PROVE  leftRotate(s).at = s.t[s.at].right /\ LeftTree(s, leftRotate(s), s.at, L, A, B, R, dl, da, db, q)
  <1> DEFINE t == s.t
             z == s.at
             y == t[z].right
             r == leftRotate(s)
             u == r.t
  <1>0. /\ s \in AvlCalls /\ s.ok /\ z = s.at /\ y = s.t[z].right /\ r = leftRotate(s)
        /\ Parts(s.t, z, L, R, dl, dr, q) /\ Parts(s.t, y, A, B, da, db, q) /\ R = Nodes(y, A, B)
        /\ q => dl <= da + 1 /\ da <= dl + 1 /\ max(dl, da) <= db /\ db <= max(dl, da) + 2
    BY Zenon DEF ReadyLeft
  <1> HIDE DEF z, y, r
  <1>1. t \in Heap
    BY <1>0, CallFields
  <1>2. /\ z \in Address /\ L \in SUBSET Address /\ dl \in Nat /\ Tree(t, t[z].left, L, dl, q) /\ Apart(t, z, L, R)
        /\ (t[z].left # Nil => t[z].left \in L) /\ z \notin L /\ z \notin R /\ L \cap R = {}
        /\ height(t, t[z].left) \in Nat /\ height(t, t[z].left) >= dl /\ (q => height(t, t[z].left) = dl)
    <2>1. Bounds(t, z, L, R, dl, dr, q)
      BY <1>0, <1>1, PartsBounds, Zenon
    <2> QED  BY <2>1 DEF Bounds
  <1>3. /\ y \in Address /\ A \in SUBSET Address /\ B \in SUBSET Address /\ da \in Nat /\ db \in Nat
        /\ Tree(t, t[y].left, A, da, q) /\ Tree(t, t[y].right, B, db, q) /\ Apart(t, y, A, B)
        /\ (t[y].left # Nil => t[y].left \in A) /\ (t[y].right # Nil => t[y].right \in B) /\ y \notin A /\ y \notin B
        /\ height(t, t[y].left) \in Nat /\ height(t, t[y].left) >= da /\ (q => height(t, t[y].left) = da)
        /\ height(t, t[y].right) \in Nat /\ height(t, t[y].right) >= db /\ (q => height(t, t[y].right) = db)
    <2>1. Bounds(t, y, A, B, da, db, q)
      BY <1>0, <1>1, PartsBounds, Zenon
    <2> QED  BY <2>1 DEF Bounds
  <1>4. y \in R /\ A \subseteq R /\ B \subseteq R
    BY <1>0 DEF Nodes
  <1>5. t[z].left \notin {y, z} /\ t[y].left \notin {y, z} /\ t[y].right \notin {y, z} /\ y # z
    BY <1>2, <1>3, <1>4, Addresses
  <1>6. /\ r \in AvlCalls /\ r.ok /\ r.turned = s.turned /\ r.at = y /\ Kept(t, u, {y, z})
        /\ u[z].left = t[z].left /\ u[z].right = t[y].left /\ u[y].left = z /\ u[y].right = t[y].right
        /\ u[z].height = max(height(t, t[z].left), height(t, t[y].left)) + 1
        /\ u[y].height = max(u[z].height, height(t, t[y].right)) + 1
    <2>1. TurnedLeft(s, r, z, y)
      BY <1>0, <1>2, <1>3, <1>5, LeftRotateNodes, Zenon
    <2> QED  BY <2>1 DEF TurnedLeft
  <1> HIDE DEF t, u, LeftTree, z, y, r
  <1>7. u \in Heap /\ (\A b \in Address : u[b].key = t[b].key) /\ \A b \in Address : b \notin {y, z} => u[b] = t[b]
    BY <1>6 DEF Kept
  <1>8. Tree(u, t[z].left, L, dl, q)
    <2>1. \A b \in L : u[b] = t[b]
      BY <1>2, <1>4, <1>7
    <2> QED  BY <2>1, <1>1, <1>2, <1>7, TreeFrame
  <1>9. Tree(u, t[y].left, A, da, q)
    <2>1. \A b \in A : u[b] = t[b]
      BY <1>2, <1>3, <1>4, <1>7
    <2> QED  BY <2>1, <1>1, <1>3, <1>7, TreeFrame
  <1>10. Tree(u, t[y].right, B, db, q)
    <2>1. \A b \in B : u[b] = t[b]
      BY <1>2, <1>3, <1>4, <1>7
    <2> QED  BY <2>1, <1>1, <1>3, <1>7, TreeFrame
  <1>11. Apart(u, z, L, A) /\ Apart(u, y, Nodes(z, L, A), B) /\ Nodes(y, Nodes(z, L, A), B) = Nodes(z, L, R)
    <2>1. SameKeys(t, u)
      BY <1>6, Zenon DEF Kept, SameKeys
    <2>2. z \in Address /\ y \in Address /\ L \in SUBSET Address /\ A \in SUBSET Address /\ B \in SUBSET Address
      BY <1>2, <1>3, Zenon
    <2>3. Apart(t, z, L, Nodes(y, A, B)) /\ Apart(t, y, A, B)
      BY <1>0, <1>2, <1>3, Zenon
    <2>4. Apart(u, z, L, A) /\ Apart(u, y, Nodes(z, L, A), B)
      BY <2>1, <2>2, <2>3, <1>1, ApartLeft, Zenon
    <2>5. Nodes(y, Nodes(z, L, A), B) = Nodes(z, L, R)
      BY <1>0 DEF Nodes
    <2> QED  BY <2>4, <2>5
  <1>12. Parts(u, z, L, A, dl, da, q)
    BY <1>2, <1>6, <1>8, <1>9, <1>11, Zenon DEF Parts
  <1>13. Measure(u, z, dl, da, q) /\ u[z].height \in Nat /\ u[z].height >= max(dl, da) + 1
         /\ (q => u[z].height = max(dl, da) + 1) /\ u[z].height >= height(t, t[z].left) + 1
    <2> DEFINE g == height(t, t[z].left)
               h == height(t, t[y].left)
    <2> HIDE DEF g, h
    <2>1. g \in Nat /\ h \in Nat /\ g >= dl /\ h >= da /\ (q => g = dl /\ h = da) /\ u[z].height = max(g, h) + 1
      BY <1>2, <1>3, <1>6 DEF g, h
    <2>2. q => dl <= da + 1 /\ da <= dl + 1
      BY <1>0
    <2>3. max(g, h) \in Nat /\ max(dl, da) \in Nat /\ max(g, h) >= max(dl, da) /\ max(g, h) >= g
      BY <2>1, <1>2, <1>3, MaxGrows, MaxOf
    <2>4. q => max(g, h) = max(dl, da)
      BY <2>1
    <2>5. u[z].height \in Nat /\ u[z].height >= max(dl, da) + 1 /\ u[z].height >= g + 1
      BY <2>1, <2>3
    <2>6. q => u[z].height = max(dl, da) + 1
      BY <2>1, <2>4
    <2>7. Measure(u, z, dl, da, q)
      BY <2>2, <2>5, <2>6, Zenon DEF Measure
    <2> QED  BY <2>5, <2>6, <2>7 DEF g
  <1>14. Tree(u, z, Nodes(z, L, A), max(dl, da) + 1, q)
    BY <1>12, <1>13, TreeJoin, Zenon
  <1>15. Parts(u, y, Nodes(z, L, A), B, max(dl, da) + 1, db, q)
    BY <1>3, <1>6, <1>10, <1>11, <1>14, Zenon DEF Parts
  <1>16. max(dl, da) \in Nat
    BY <1>2, <1>3, MaxOf
  <1>17. Measure(u, y, max(dl, da) + 1, db, q) /\ u[y].height >= 2 + height(t, t[z].left)
    <2> DEFINE m == max(dl, da)
               h == height(t, t[y].right)
               g == height(t, t[z].left)
    <2> HIDE DEF m, h, g
    <2>1. m \in Nat /\ h \in Nat /\ g \in Nat /\ h >= db /\ (q => h = db) /\ (q => m <= db /\ db <= m + 2)
      BY <1>0, <1>2, <1>3, <1>16 DEF m, h, g
    <2>2. u[z].height \in Nat /\ u[z].height >= m + 1 /\ (q => u[z].height = m + 1) /\ u[z].height >= g + 1
      BY <1>13 DEF m, g
    <2>3. u[y].height = max(u[z].height, h) + 1
      BY <1>6 DEF h
    <2>4. Measure(u, y, m + 1, db, q) /\ u[y].height >= 2 + g
      BY <2>1, <2>2, <2>3, <1>3, SMTT(30) DEF Measure, max
    <2> QED  BY <2>4, Zenon DEF m, g
  <1> QED  BY <1>6, <1>11, <1>15, <1>17 DEF t, u, LeftTree, z, y, r

\* What rightRotate makes of the node z and the nodes X of its tree.
RightTree(s, r, z, X) ==
  /\ r \in AvlCalls /\ r.ok /\ r.turned /\ Kept(s.t, r.t, {r.at, z})
  /\ \E d : Tree(r.t, r.at, X, d, FALSE)
  /\ r.t[r.at].height >= s.t[z].height + 1

\* The left child of the node of s has the parts A and B, and the height of the
\* node is not too low for what it will keep.
ReadyRight(s, L, C, A, B, dl, dc, da, db) ==
  /\ s \in AvlCalls /\ s.ok /\ Parts(s.t, s.at, L, C, dl, dc, FALSE)
  /\ Parts(s.t, s.t[s.at].left, A, B, da, db, FALSE) /\ L = Nodes(s.t[s.at].left, A, B)
  /\ s.t[s.at].height >= max(db, dc) + 1

\* rightRotate makes a tree of it.
LEMMA RightRotated ==
  ASSUME NEW s, NEW L, NEW C, NEW A, NEW B, NEW dl, NEW dc, NEW da, NEW db,
         ReadyRight(s, L, C, A, B, dl, dc, da, db)
  PROVE  rightRotate(s).at = s.t[s.at].left /\ RightTree(s, rightRotate(s), s.at, Nodes(s.at, L, C))
  <1> DEFINE t == s.t
             z == s.at
             y == t[z].left
             r == rightRotate(s)
             u == r.t
  <1>0. /\ s \in AvlCalls /\ s.ok /\ z = s.at /\ y = s.t[z].left /\ r = rightRotate(s)
        /\ Parts(s.t, z, L, C, dl, dc, FALSE) /\ Parts(s.t, y, A, B, da, db, FALSE) /\ L = Nodes(y, A, B)
        /\ s.t[z].height >= max(db, dc) + 1
    BY Zenon DEF ReadyRight
  <1> HIDE DEF z, y, r
  <1>1. t \in Heap
    BY <1>0, CallFields
  <1>2. /\ z \in Address /\ C \in SUBSET Address /\ dc \in Nat /\ Tree(t, t[z].right, C, dc, FALSE) /\ Apart(t, z, L, C)
        /\ (t[z].right # Nil => t[z].right \in C) /\ z \notin L /\ z \notin C /\ L \cap C = {}
        /\ height(t, t[z].right) \in Nat /\ height(t, t[z].right) >= dc
    <2>1. Bounds(t, z, L, C, dl, dc, FALSE)
      BY <1>0, <1>1, PartsBounds, Zenon
    <2> QED  BY <2>1 DEF Bounds
  <1>3. /\ y \in Address /\ A \in SUBSET Address /\ B \in SUBSET Address /\ da \in Nat /\ db \in Nat
        /\ Tree(t, t[y].left, A, da, FALSE) /\ Tree(t, t[y].right, B, db, FALSE) /\ Apart(t, y, A, B)
        /\ (t[y].left # Nil => t[y].left \in A) /\ (t[y].right # Nil => t[y].right \in B) /\ y \notin A /\ y \notin B
        /\ height(t, t[y].left) \in Nat /\ height(t, t[y].left) >= da
        /\ height(t, t[y].right) \in Nat /\ height(t, t[y].right) >= db
    <2>1. Bounds(t, y, A, B, da, db, FALSE)
      BY <1>0, <1>1, PartsBounds, Zenon
    <2> QED  BY <2>1 DEF Bounds
  <1>4. y \in L /\ A \subseteq L /\ B \subseteq L
    BY <1>0 DEF Nodes
  <1>5. t[z].right \notin {y, z} /\ t[y].left \notin {y, z} /\ t[y].right \notin {y, z} /\ y # z
    BY <1>2, <1>3, <1>4, Addresses
  <1>6. /\ r \in AvlCalls /\ r.ok /\ r.turned /\ r.at = y /\ Kept(t, u, {y, z})
        /\ u[z].left = t[y].right /\ u[z].right = t[z].right /\ u[y].left = t[y].left /\ u[y].right = z
        /\ u[y].height = max(height(t, t[y].left), t[z].height) + 1
        /\ u[z].height = max(height(t, t[y].right), height(t, t[z].right)) + 1
    <2>1. TurnedRight(s, r, z, y)
      BY <1>0, <1>2, <1>3, <1>5, RightRotateNodes, Zenon
    <2> QED  BY <2>1 DEF TurnedRight
  <1>7. t[z].height >= max(db, dc) + 1 /\ t[z].height \in Nat
    BY <1>0, <1>1, <1>2, HeapNode
  <1> HIDE DEF t, u
  <1>8. u \in Heap /\ (\A b \in Address : u[b].key = t[b].key) /\ \A b \in Address : b \notin {y, z} => u[b] = t[b]
    BY <1>6 DEF Kept
  <1>9. Tree(u, t[z].right, C, dc, FALSE)
    <2>1. \A b \in C : u[b] = t[b]
      BY <1>2, <1>4, <1>8
    <2> QED  BY <2>1, <1>1, <1>2, <1>8, TreeFrame
  <1>10. Tree(u, t[y].left, A, da, FALSE)
    <2>1. \A b \in A : u[b] = t[b]
      BY <1>2, <1>3, <1>4, <1>8
    <2> QED  BY <2>1, <1>1, <1>3, <1>8, TreeFrame
  <1>11. Tree(u, t[y].right, B, db, FALSE)
    <2>1. \A b \in B : u[b] = t[b]
      BY <1>2, <1>3, <1>4, <1>8
    <2> QED  BY <2>1, <1>1, <1>3, <1>8, TreeFrame
  <1>12. Apart(u, z, B, C) /\ Apart(u, y, A, Nodes(z, B, C)) /\ Nodes(y, A, Nodes(z, B, C)) = Nodes(z, L, C)
    <2>1. SameKeys(t, u)
      BY <1>6, Zenon DEF Kept, SameKeys
    <2>2. z \in Address /\ y \in Address /\ C \in SUBSET Address /\ A \in SUBSET Address /\ B \in SUBSET Address
      BY <1>2, <1>3, Zenon
    <2>3. Apart(t, z, Nodes(y, A, B), C) /\ Apart(t, y, A, B)
      BY <1>0, <1>2, <1>3, Zenon
    <2>4. Apart(u, z, B, C) /\ Apart(u, y, A, Nodes(z, B, C))
      BY <2>1, <2>2, <2>3, <1>1, ApartRight, Zenon
    <2>5. Nodes(y, A, Nodes(z, B, C)) = Nodes(z, L, C)
      BY <1>0 DEF Nodes
    <2> QED  BY <2>4, <2>5
  <1>13. Parts(u, z, B, C, db, dc, FALSE)
    BY <1>2, <1>6, <1>9, <1>11, <1>12, Zenon DEF Parts
  <1>14. Measure(u, z, db, dc, FALSE)
    <2> DEFINE g == height(t, t[z].right)
               h == height(t, t[y].right)
    <2> HIDE DEF g, h
    <2>1. g \in Nat /\ h \in Nat /\ g >= dc /\ h >= db /\ u[z].height = max(h, g) + 1
      BY <1>2, <1>3, <1>6 DEF g, h
    <2>2. max(h, g) \in Nat /\ max(db, dc) \in Nat /\ max(h, g) >= max(db, dc)
      BY <2>1, <1>2, <1>3, MaxGrows, MaxOf
    <2> QED  BY <2>1, <2>2 DEF Measure
  <1>15. Tree(u, z, Nodes(z, B, C), max(db, dc) + 1, FALSE)
    BY <1>13, <1>14, TreeJoin, Zenon
  <1>16. Parts(u, y, A, Nodes(z, B, C), da, max(db, dc) + 1, FALSE)
    BY <1>3, <1>6, <1>10, <1>12, <1>15, Zenon DEF Parts
  <1>17. max(db, dc) \in Nat
    BY <1>2, <1>3, MaxOf
  <1>18. Measure(u, y, da, max(db, dc) + 1, FALSE) /\ u[y].height >= t[z].height + 1
    <2> DEFINE m == max(db, dc)
               h == height(t, t[y].left)
    <2> HIDE DEF m, h
    <2>1. m \in Nat /\ h \in Nat /\ h >= da /\ t[z].height >= m + 1 /\ t[z].height \in Nat
      BY <1>3, <1>7, <1>17 DEF m, h
    <2>2. u[y].height = max(h, t[z].height) + 1
      BY <1>6 DEF h
    <2>3. Measure(u, y, da, m + 1, FALSE) /\ u[y].height >= t[z].height + 1
      BY <2>1, <2>2, <1>3 DEF Measure, max
    <2> QED  BY <2>3 DEF m
  <1>19. Tree(u, y, Nodes(z, L, C), max(da, max(db, dc) + 1) + 1, FALSE)
    BY <1>12, <1>16, <1>18, TreeJoin
  <1>20. \E d : Tree(u, r.at, Nodes(z, L, C), d, FALSE)
    BY <1>6, <1>19, Zenon
  <1> QED  BY <1>6, <1>18, <1>20 DEF t, u, RightTree, z, y, r

\* Changes one after the other.
LEMMA KeptChain ==
  ASSUME NEW t, NEW u, NEW w, NEW V, NEW W, NEW X, Kept(t, u, V), Kept(u, w, W), V \subseteq X, W \subseteq X
  PROVE  Kept(t, w, X)
  BY DEF Kept

\* What a change leaves alone outside a set it leaves alone outside a larger one.
LEMMA KeptMore ==
  ASSUME NEW t, NEW u, NEW V, NEW X, Kept(t, u, V), V \subseteq X
  PROVE  Kept(t, u, X)
  BY DEF Kept

\* A change of the pointers and the height of one node is one outside which nothing
\* changes, and which leaves all keys alone.
LEMMA ChangedKept ==
  ASSUME NEW t, NEW u, NEW n, NEW l, NEW r, NEW h, Changed(t, u, n, l, r, h)
  PROVE  Kept(t, u, {n}) /\ SameKeys(t, u)
  BY DEF Changed, Kept, SameKeys

\* A node that is given two trees has them as its parts.
LEMMA PartsChanged ==
  ASSUME NEW t \in Heap, NEW u, NEW n \in Address, NEW l, NEW r, NEW h, Changed(t, u, n, l, r, h),
         NEW L, NEW R, NEW dl, NEW dr, NEW q, Tree(t, l, L, dl, q), Tree(t, r, R, dr, q), Apart(t, n, L, R)
  PROVE  Parts(u, n, L, R, dl, dr, q)
  <1>1. u \in Heap /\ u[n].left = l /\ u[n].right = r /\ u[n].key = t[n].key /\ \A b \in Address : b # n => u[b] = t[b]
    BY DEF Changed
  <1>2. L \in SUBSET Address /\ R \in SUBSET Address /\ n \notin L /\ n \notin R
    BY TreeBounds, Zenon DEF Apart
  <1>3. (\A b \in L : u[b] = t[b]) /\ (\A b \in R : u[b] = t[b])
    BY <1>1, <1>2
  <1>4. Tree(u, l, L, dl, q)
    BY <1>1, <1>3, TreeFrame, Zenon
  <1>5. Tree(u, r, R, dr, q)
    BY <1>1, <1>3, TreeFrame, Zenon
  <1>6. Apart(u, n, L, R)
    BY <1>1, <1>3 DEF Apart
  <1> QED  BY <1>1, <1>4, <1>5, <1>6, Zenon DEF Parts

\* The calls for the children of a node, and the node with a new child.
LEMMA ChildCalls ==
  ASSUME NEW s \in AvlCalls, s.at \in Address
  PROVE  /\ LeftChild(s) \in AvlCalls /\ LeftChild(s).t = s.t /\ LeftChild(s).at = s.t[s.at].left
         /\ LeftChild(s).ok = s.ok /\ LeftChild(s).turned = s.turned
         /\ RightChild(s) \in AvlCalls /\ RightChild(s).t = s.t /\ RightChild(s).at = s.t[s.at].right
         /\ RightChild(s).ok = s.ok /\ RightChild(s).turned = s.turned
  <1>1. s.t[s.at].left \in Pointer /\ s.t[s.at].right \in Pointer
    BY CallFields, HeapNode
  <1> QED  BY <1>1 DEF LeftChild, RightChild, AvlCalls

\* The node n with the result of a call as its left or its right child.
LEMMA HungCalls ==
  ASSUME NEW c \in AvlCalls, NEW n \in Address
  PROVE  /\ HungLeft(c, n) \in AvlCalls /\ HungLeft(c, n).at = n
         /\ HungLeft(c, n).ok = c.ok /\ HungLeft(c, n).turned = c.turned
         /\ Changed(c.t, HungLeft(c, n).t, n, c.at, c.t[n].right, c.t[n].height)
         /\ HungRight(c, n) \in AvlCalls /\ HungRight(c, n).at = n
         /\ HungRight(c, n).ok = c.ok /\ HungRight(c, n).turned = c.turned
         /\ Changed(c.t, HungRight(c, n).t, n, c.t[n].left, c.at, c.t[n].height)
  <1> DEFINE u == [c.t EXCEPT ![n].left = c.at]
             v == [c.t EXCEPT ![n].right = c.at]
  <1>1. c.t \in Heap /\ c.at \in Pointer /\ n \in Pointer
    BY CallFields, Addresses
  <1>2. Changed(c.t, u, n, c.at, c.t[n].right, c.t[n].height) /\ Changed(c.t, v, n, c.t[n].left, c.at, c.t[n].height)
    BY <1>1, LinkedLeft, LinkedRight
  <1>3. HungLeft(c, n) = [c EXCEPT !.t = u, !.at = n] /\ HungRight(c, n) = [c EXCEPT !.t = v, !.at = n]
    BY Zenon DEF HungLeft, HungRight
  <1> HIDE DEF u, v
  <1>4. u \in [Address -> node] /\ v \in [Address -> node]
    BY <1>2 DEF Changed, Heap
  <1>5. /\ HungLeft(c, n) \in AvlCalls /\ HungLeft(c, n).at = n /\ HungLeft(c, n).t = u
        /\ HungLeft(c, n).ok = c.ok /\ HungLeft(c, n).turned = c.turned
    BY <1>1, <1>3, <1>4 DEF AvlCalls
  <1>6. /\ HungRight(c, n) \in AvlCalls /\ HungRight(c, n).at = n /\ HungRight(c, n).t = v
        /\ HungRight(c, n).ok = c.ok /\ HungRight(c, n).turned = c.turned
    BY <1>1, <1>3, <1>4 DEF AvlCalls
  <1> QED  BY <1>2, <1>5, <1>6

\* A call r that has been made of s keeps the nodes X of the tree at n.
Settled(s, r, n, X) ==
  /\ r \in AvlCalls /\ (s.turned => r.turned)
  /\ r.ok => /\ Kept(s.t, r.t, X) /\ r.at \in Address
             /\ \E d : Tree(r.t, r.at, X, d, FALSE)
             /\ r.t[r.at].height >= s.t[n].height \/ r.t[r.at].height >= 2 + height(s.t, s.t[n].left)

\* A call of insert in s, when the height of its node n is set.
Placed(s, n, L, R, dl, dr, q) ==
  /\ s \in AvlCalls /\ s.ok /\ n = s.at /\ Parts(s.t, n, L, R, dl, dr, q)
  /\ s.t[n].height = max(height(s.t, s.t[n].left), height(s.t, s.t[n].right)) + 1

\* Such a node is itself a tree, and its height is set.
LEMMA PlacedBounds ==
  ASSUME NEW s, NEW n, NEW L, NEW R, NEW dl, NEW dr, NEW q, Placed(s, n, L, R, dl, dr, q)
  PROVE  /\ s \in AvlCalls /\ s.ok /\ n = s.at /\ s.t \in Heap /\ Bounds(s.t, n, L, R, dl, dr, q)
         /\ s.t[n].height \in Nat /\ s.t[n].height >= max(dl, dr) + 1 /\ (q => s.t[n].height = max(dl, dr) + 1)
         /\ max(dl, dr) \in Nat /\ Parts(s.t, n, L, R, dl, dr, q)
  <1>1. s \in AvlCalls /\ s.ok /\ n = s.at /\ s.t \in Heap /\ Parts(s.t, n, L, R, dl, dr, q)
    BY CallFields, Zenon DEF Placed
  <1>2. Bounds(s.t, n, L, R, dl, dr, q)
    BY <1>1, PartsBounds, Zenon
  <1> DEFINE g == height(s.t, s.t[n].left)
             h == height(s.t, s.t[n].right)
  <1>3. /\ g \in Nat /\ h \in Nat /\ dl \in Nat /\ dr \in Nat /\ g >= dl /\ h >= dr /\ (q => g = dl /\ h = dr)
        /\ s.t[n].height = max(g, h) + 1
    BY <1>2 DEF Bounds, Placed
  <1> HIDE DEF g, h
  <1>4. max(g, h) \in Nat /\ max(dl, dr) \in Nat /\ max(g, h) >= max(dl, dr)
    BY <1>3, MaxOf, MaxGrows
  <1> QED  BY <1>1, <1>2, <1>3, <1>4

\* The left child is too high, and key is left of it.
LEMMA LeftLeft ==
  ASSUME NEW s, NEW n, NEW L, NEW R, NEW dl, NEW dr, Placed(s, n, L, R, dl, dr, FALSE),
         s.t[n].left # Nil, NEW r, r = rightRotate(s)
  PROVE  Settled(s, r, n, Nodes(n, L, R)) /\ r.ok /\ r.turned
  <1> DEFINE t == s.t
             y == t[n].left
  <1>1. /\ s \in AvlCalls /\ s.ok /\ n = s.at /\ t \in Heap /\ Bounds(t, n, L, R, dl, dr, FALSE)
        /\ t[n].height \in Nat /\ t[n].height >= max(dl, dr) + 1 /\ Parts(t, n, L, R, dl, dr, FALSE)
    BY PlacedBounds, Zenon
  <1>2. y \in L /\ Tree(t, y, L, dl, FALSE) /\ n \in Address /\ dl \in Nat /\ dr \in Nat /\ L \in SUBSET Address
    BY <1>1 DEF Bounds
  <1>3. Split(t, y, L, dl, FALSE)
    BY <1>1, <1>2, TreeSplit, Zenon
  <1>4. PICK A, B, da, db : Parts(t, y, A, B, da, db, FALSE) /\ L = Nodes(y, A, B) /\ dl = max(da, db) + 1
    BY <1>3, Zenon DEF Split
  <1>5. da \in Nat /\ db \in Nat
    <2>1. Bounds(t, y, A, B, da, db, FALSE)
      BY <1>1, <1>4, PartsBounds, Zenon
    <2> QED  BY <2>1 DEF Bounds
  <1>6. t[n].height >= max(db, dr) + 1
    <2>1. db <= dl
      BY <1>2, <1>4, <1>5, MaxOf
    <2>2. max(db, dr) <= max(dl, dr)
      BY <2>1, <1>2, <1>5, MaxGrows
    <2>3. max(db, dr) \in Nat /\ max(dl, dr) \in Nat
      BY <1>2, <1>5, MaxOf
    <2> QED  BY <2>2, <2>3, <1>1
  <1>7. r.at = y /\ RightTree(s, r, n, Nodes(n, L, R))
    <2>1. ReadyRight(s, L, R, A, B, dl, dr, da, db)
      BY <1>1, <1>4, <1>6, Zenon DEF ReadyRight
    <2> QED  BY <2>1, <1>1, RightRotated, Zenon
  <1> HIDE DEF t, y
  <1>8. {y, n} \subseteq Nodes(n, L, R) /\ y \in Address
    BY <1>2 DEF Nodes
  <1>9. Kept(s.t, r.t, Nodes(n, L, R)) /\ r \in AvlCalls /\ r.ok /\ r.turned
    BY <1>7, <1>8 DEF RightTree, Kept
  <1>10. r.t[r.at].height \in Nat /\ s.t[n].height \in Nat
    BY <1>1, <1>7, <1>8, <1>9, CallFields, HeapNode DEF t
  <1>11. r.t[r.at].height >= s.t[n].height
    BY <1>7, <1>10 DEF RightTree
  <1>12. \E d : Tree(r.t, r.at, Nodes(n, L, R), d, FALSE)
    BY <1>7, Zenon DEF RightTree
  <1> QED  BY <1>7, <1>8, <1>9, <1>11, <1>12, Zenon DEF Settled

\* The right child is too high, and key is right of it.
LEMMA RightRight ==
  ASSUME NEW s, NEW n, NEW L, NEW R, NEW dl, NEW dr, Placed(s, n, L, R, dl, dr, FALSE),
         s.t[n].right # Nil, NEW r, r = leftRotate(s)
  PROVE  Settled(s, r, n, Nodes(n, L, R)) /\ r.ok /\ r.turned = s.turned
  <1> DEFINE t == s.t
             y == t[n].right
  <1>1. /\ s \in AvlCalls /\ s.ok /\ n = s.at /\ t \in Heap /\ Bounds(t, n, L, R, dl, dr, FALSE)
        /\ Parts(t, n, L, R, dl, dr, FALSE)
    BY PlacedBounds, Zenon
  <1>2. y \in R /\ Tree(t, y, R, dr, FALSE) /\ n \in Address /\ R \in SUBSET Address
    BY <1>1 DEF Bounds
  <1>3. Split(t, y, R, dr, FALSE)
    BY <1>1, <1>2, TreeSplit, Zenon
  <1>4. PICK A, B, da, db : Parts(t, y, A, B, da, db, FALSE) /\ R = Nodes(y, A, B) /\ dr = max(da, db) + 1
    BY <1>3, Zenon DEF Split
  <1>5. r.at = y /\ LeftTree(s, r, n, L, A, B, R, dl, da, db, FALSE)
    <2>1. ReadyLeft(s, L, R, A, B, dl, dr, da, db, FALSE)
      BY <1>1, <1>4, Zenon DEF ReadyLeft
    <2> QED  BY <2>1, <1>1, LeftRotated, Zenon
  <1> HIDE DEF t, y
  <1>6. {y, n} \subseteq Nodes(n, L, R) /\ y \in Address
    BY <1>2 DEF Nodes
  <1>7. /\ Kept(s.t, r.t, Nodes(n, L, R)) /\ r \in AvlCalls /\ r.ok /\ r.turned = s.turned
        /\ r.t[r.at].height >= 2 + height(s.t, s.t[n].left)
    BY <1>5, <1>6 DEF LeftTree, Kept
  <1>8. \E d : Tree(r.t, r.at, Nodes(n, L, R), d, FALSE)
    <2>1. Tree(r.t, r.at, Nodes(r.at, Nodes(n, L, A), B), max(max(dl, da) + 1, db) + 1, FALSE)
      BY <1>5, TreeJoin, Zenon DEF LeftTree
    <2>2. Nodes(r.at, Nodes(n, L, A), B) = Nodes(n, L, R)
      BY <1>5, Zenon DEF LeftTree
    <2> QED  BY <2>1, <2>2, Zenon
  <1> QED  BY <1>5, <1>6, <1>7, <1>8, Zenon DEF Settled

\* A rotation that follows a null pointer, or comes after that.
LEMMA FailedTurns ==
  ASSUME NEW s \in AvlCalls
  PROVE  /\ ~ s.ok \/ s.t[s.at].right = Nil =>
              leftRotate(s) \in AvlCalls /\ leftRotate(s).ok = FALSE /\ leftRotate(s).turned = s.turned
         /\ ~ s.ok \/ s.t[s.at].left = Nil =>
              rightRotate(s) \in AvlCalls /\ rightRotate(s).ok = FALSE /\ rightRotate(s).turned = s.turned
  <1>1. ~ s.ok \/ s.t[s.at].right = Nil => leftRotate(s) = [s EXCEPT !.ok = FALSE]
    BY Zenon DEF leftRotate
  <1>2. ~ s.ok \/ s.t[s.at].left = Nil => rightRotate(s) = [s EXCEPT !.ok = FALSE]
    BY Zenon DEF rightRotate
  <1>3. /\ [s EXCEPT !.ok = FALSE] \in AvlCalls /\ [s EXCEPT !.ok = FALSE].ok = FALSE
        /\ [s EXCEPT !.ok = FALSE].turned = s.turned
    BY DEF AvlCalls
  <1> QED  BY <1>1, <1>2, <1>3, Zenon

\* The left child is too high, and key is right of it.
LEMMA LeftRight ==
  ASSUME NEW s, NEW n, NEW L, NEW R, NEW dl, NEW dr, Placed(s, n, L, R, dl, dr, FALSE), s.t[n].left # Nil
  PROVE  LET r == rightRotate(HungLeft(leftRotate(LeftChild(s)), s.at))
         IN  Settled(s, r, n, Nodes(n, L, R)) /\ (s.t[s.t[n].left].right # Nil => r.ok /\ r.turned)
  <1> DEFINE t == s.t
             l == t[n].left
             c1 == LeftChild(s)
             c2 == leftRotate(c1)
             c3 == HungLeft(c2, n)
             r == rightRotate(c3)
             X == Nodes(n, L, R)
             y == t[l].right
  <1>1. /\ s \in AvlCalls /\ s.ok /\ n = s.at /\ t \in Heap /\ Bounds(t, n, L, R, dl, dr, FALSE)
        /\ t[n].height \in Nat /\ t[n].height >= max(dl, dr) + 1 /\ Parts(t, n, L, R, dl, dr, FALSE)
    BY PlacedBounds, Zenon
  <1>2. /\ n \in Address /\ L \in SUBSET Address /\ R \in SUBSET Address /\ dl \in Nat /\ dr \in Nat
        /\ Tree(t, l, L, dl, FALSE) /\ Tree(t, t[n].right, R, dr, FALSE) /\ Apart(t, n, L, R)
        /\ l \in L /\ n \notin L /\ n \notin R /\ L \cap R = {}
    BY <1>1 DEF Bounds
  <1>3. c1 \in AvlCalls /\ c1.t = t /\ c1.at = l /\ c1.ok /\ c1.turned = s.turned
    BY <1>1, <1>2, ChildCalls
  <1> SUFFICES Settled(s, r, n, X) /\ (y # Nil => r.ok /\ r.turned)
    BY <1>1, Zenon
  <1> HIDE DEF t, l, c1, y
  <1>4. CASE y = Nil
    <2>1. c2 \in AvlCalls /\ c2.ok = FALSE /\ c2.turned = s.turned
      BY <1>3, <1>4, FailedTurns DEF y
    <2> HIDE DEF c2
    <2>2. c3 \in AvlCalls /\ c3.ok = FALSE /\ c3.turned = s.turned
      BY <1>2, <2>1, HungCalls
    <2> HIDE DEF c3
    <2>3. r \in AvlCalls /\ r.ok = FALSE /\ r.turned = s.turned
      BY <2>2, FailedTurns
    <2> QED  BY <2>3, <1>4, Zenon DEF Settled
  <1>5. CASE y # Nil
    <2>1. Split(t, l, L, dl, FALSE)
      <3>1. l # Nil
        BY <1>2, Addresses
      <3> QED  BY <3>1, <1>1, <1>2, TreeSplit, Zenon
    <2>2. PICK A, B, da, db : Parts(t, l, A, B, da, db, FALSE) /\ L = Nodes(l, A, B) /\ dl = max(da, db) + 1
      BY <2>1, Zenon DEF Split
    <2>3. /\ l \in Address /\ A \in SUBSET Address /\ B \in SUBSET Address /\ da \in Nat /\ db \in Nat
          /\ Tree(t, y, B, db, FALSE)
      <3>1. Bounds(t, l, A, B, da, db, FALSE)
        BY <1>1, <2>2, PartsBounds, Zenon
      <3> QED  BY <3>1 DEF Bounds, y
    <2>4. Split(t, y, B, db, FALSE)
      BY <1>1, <1>5, <2>3, TreeSplit, Zenon
    <2>5. PICK E, F, de, df : Parts(t, y, E, F, de, df, FALSE) /\ B = Nodes(y, E, F) /\ db = max(de, df) + 1
      BY <2>4, Zenon DEF Split
    <2>6. y \in Address /\ E \in SUBSET Address /\ F \in SUBSET Address /\ de \in Nat /\ df \in Nat
      <3>1. Bounds(t, y, E, F, de, df, FALSE)
        BY <1>1, <2>5, PartsBounds, Zenon
      <3> QED  BY <3>1 DEF Bounds
    <2>7. c2.at = y /\ LeftTree(c1, c2, l, A, E, F, B, da, de, df, FALSE)
      <3>1. ReadyLeft(c1, A, B, E, F, da, db, de, df, FALSE)
        BY <1>3, <2>2, <2>5, Zenon DEF ReadyLeft, y
      <3>2. leftRotate(c1).at = c1.t[c1.at].right
            /\ LeftTree(c1, leftRotate(c1), c1.at, A, E, F, B, da, de, df, FALSE)
        BY <3>1, LeftRotated, Zenon
      <3> QED  BY <3>2, <1>3, Zenon DEF y
    <2> HIDE DEF c2
    <2>8. /\ c2 \in AvlCalls /\ c2.ok /\ c2.t \in Heap /\ Kept(t, c2.t, {y, l})
          /\ Parts(c2.t, y, Nodes(l, A, E), F, max(da, de) + 1, df, FALSE)
          /\ Measure(c2.t, y, max(da, de) + 1, df, FALSE) /\ Nodes(y, Nodes(l, A, E), F) = L
      BY <1>3, <2>2, <2>7, CallFields DEF LeftTree
    <2>9. Tree(c2.t, y, L, max(max(da, de) + 1, df) + 1, FALSE)
      BY <2>8, TreeJoin
    <2>10. y \in L /\ {y, l} \subseteq L
      BY <1>2, <2>2, <2>5 DEF Nodes
    <2>11. /\ c2.t[n] = t[n] /\ (\A b \in R : c2.t[b] = t[b]) /\ SameKeys(t, c2.t)
      BY <1>2, <2>8, <2>10 DEF Kept, SameKeys
    <2>12. Tree(c2.t, t[n].right, R, dr, FALSE) /\ Apart(c2.t, n, L, R)
      <3>1. Tree(c2.t, t[n].right, R, dr, FALSE)
        BY <1>1, <1>2, <2>8, <2>11, TreeFrame
      <3>2. Apart(c2.t, n, L, R)
        BY <1>2, <2>11 DEF Apart, SameKeys
      <3> QED  BY <3>1, <3>2
    <2>13. c3 \in AvlCalls /\ c3.at = n /\ c3.ok /\ Changed(c2.t, c3.t, n, y, t[n].right, t[n].height)
      BY <1>2, <2>7, <2>8, <2>11, HungCalls
    <2> HIDE DEF c3
    <2>14. Parts(c3.t, n, L, R, max(max(da, de) + 1, df) + 1, dr, FALSE)
      BY <1>2, <2>8, <2>9, <2>12, <2>13, PartsChanged, Zenon
    <2>15. c3.t \in Heap /\ c3.t[n].left = y /\ c3.t[n].height = t[n].height /\ \A b \in L : c3.t[b] = c2.t[b]
      BY <1>2, <2>13 DEF Changed
    <2>16. Parts(c3.t, y, Nodes(l, A, E), F, max(da, de) + 1, df, FALSE)
      <3>1. Bounds(c2.t, y, Nodes(l, A, E), F, max(da, de) + 1, df, FALSE)
        BY <2>8, PartsBounds, Zenon
      <3>2. /\ Tree(c2.t, c2.t[y].left, Nodes(l, A, E), max(da, de) + 1, FALSE)
            /\ Tree(c2.t, c2.t[y].right, F, df, FALSE) /\ Apart(c2.t, y, Nodes(l, A, E), F)
        BY <3>1, Zenon DEF Bounds
      <3>3. /\ c3.t[y] = c2.t[y] /\ (\A b \in Nodes(l, A, E) : c3.t[b] = c2.t[b]) /\ \A b \in F : c3.t[b] = c2.t[b]
        BY <2>8, <2>10, <2>15 DEF Nodes
      <3>4. Tree(c3.t, c2.t[y].left, Nodes(l, A, E), max(da, de) + 1, FALSE)
        BY <3>2, <3>3, <2>8, <2>15, TreeFrame, Zenon
      <3>5. Tree(c3.t, c2.t[y].right, F, df, FALSE)
        BY <3>2, <3>3, <2>8, <2>15, TreeFrame, Zenon
      <3>6. Apart(c3.t, y, Nodes(l, A, E), F)
        BY <3>2, <3>3 DEF Apart
      <3> QED  BY <3>3, <3>4, <3>5, <3>6, <2>6, Zenon DEF Parts
    <2>17. t[n].height >= max(df, dr) + 1
      <3>1. df <= dl
        BY <1>2, <2>2, <2>3, <2>5, <2>6 DEF max
      <3>2. max(df, dr) <= max(dl, dr)
        BY <3>1, <1>2, <2>6, MaxGrows
      <3>3. max(df, dr) \in Nat /\ max(dl, dr) \in Nat
        BY <1>2, <2>6, MaxOf
      <3> QED  BY <3>2, <3>3, <1>1
    <2>18. r.at = y /\ RightTree(c3, r, n, X)
      <3>1. ReadyRight(c3, L, R, Nodes(l, A, E), F, max(max(da, de) + 1, df) + 1, dr, max(da, de) + 1, df)
        BY <2>8, <2>13, <2>14, <2>15, <2>16, <2>17, Zenon DEF ReadyRight
      <3>2. rightRotate(c3).at = c3.t[c3.at].left /\ RightTree(c3, rightRotate(c3), c3.at, Nodes(c3.at, L, R))
        BY <3>1, RightRotated, Zenon
      <3> QED  BY <3>2, <2>13, <2>15, Zenon
    <2> HIDE DEF r, X
    <2>19. r \in AvlCalls /\ r.ok /\ r.turned /\ Kept(c3.t, r.t, {y, n}) /\ (\E d : Tree(r.t, y, X, d, FALSE))
      BY <2>18 DEF RightTree
    <2>20. Kept(t, r.t, X)
      <3>1. Kept(c2.t, c3.t, {n})
        BY <2>13, ChangedKept
      <3>2. {y, n} \subseteq X /\ {n} \subseteq X /\ {y, l} \subseteq X
        BY <2>10 DEF X, Nodes
      <3>3. Kept(t, c3.t, X)
        BY <3>1, <3>2, <2>8, KeptChain
      <3> QED  BY <3>2, <3>3, <2>19, KeptChain
    <2>21. r.t[r.at].height >= t[n].height
      <3>1. r.t[y].height \in Nat
        BY <2>6, <2>19, CallFields, HeapNode
      <3>2. r.t[y].height >= t[n].height + 1
        BY <2>18, <2>15 DEF RightTree
      <3> QED  BY <3>1, <3>2, <2>18, <1>1
    <2> QED  BY <2>6, <2>18, <2>19, <2>20, <2>21, Zenon DEF Settled, t
  <1> QED  BY <1>4, <1>5

\* The right child is too high, and key is left of it.
LEMMA RightLeft ==
  ASSUME NEW s, NEW n, NEW L, NEW R, NEW dl, NEW dr, Placed(s, n, L, R, dl, dr, FALSE), s.t[n].right # Nil
  PROVE  LET r == leftRotate(HungRight(rightRotate(RightChild(s)), s.at))
         IN  Settled(s, r, n, Nodes(n, L, R)) /\ (s.t[s.t[n].right].left # Nil => r.ok /\ r.turned)
  <1> DEFINE t == s.t
             k == t[n].right
             c1 == RightChild(s)
             c2 == rightRotate(c1)
             c3 == HungRight(c2, n)
             r == leftRotate(c3)
             X == Nodes(n, L, R)
             y == t[k].left
  <1>1. /\ s \in AvlCalls /\ s.ok /\ n = s.at /\ t \in Heap /\ Bounds(t, n, L, R, dl, dr, FALSE)
        /\ Parts(t, n, L, R, dl, dr, FALSE)
    BY PlacedBounds, Zenon
  <1>2. /\ n \in Address /\ L \in SUBSET Address /\ R \in SUBSET Address /\ dl \in Nat /\ dr \in Nat
        /\ Tree(t, t[n].left, L, dl, FALSE) /\ Tree(t, k, R, dr, FALSE) /\ Apart(t, n, L, R)
        /\ k \in R /\ n \notin L /\ n \notin R /\ L \cap R = {} /\ (t[n].left # Nil => t[n].left \in L)
    BY <1>1 DEF Bounds
  <1>3. c1 \in AvlCalls /\ c1.t = t /\ c1.at = k /\ c1.ok /\ c1.turned = s.turned
    BY <1>1, <1>2, ChildCalls
  <1> SUFFICES Settled(s, r, n, X) /\ (y # Nil => r.ok /\ r.turned)
    BY <1>1, Zenon
  <1> HIDE DEF t, k, c1, y
  <1>4. CASE y = Nil
    <2>1. c2 \in AvlCalls /\ c2.ok = FALSE /\ c2.turned = s.turned
      BY <1>3, <1>4, FailedTurns DEF y
    <2> HIDE DEF c2
    <2>2. c3 \in AvlCalls /\ c3.ok = FALSE /\ c3.turned = s.turned
      <3>1. c3 \in AvlCalls /\ c3.ok = c2.ok /\ c3.turned = c2.turned
        BY <1>2, <2>1, HungCalls, Zenon
      <3> QED  BY <3>1, <2>1
    <2> HIDE DEF c3
    <2>3. r \in AvlCalls /\ r.ok = FALSE /\ r.turned = s.turned
      BY <2>2, FailedTurns
    <2> QED  BY <2>3, <1>4, Zenon DEF Settled
  <1>5. CASE y # Nil
    <2>1. Split(t, k, R, dr, FALSE)
      <3>1. k # Nil
        BY <1>2, Addresses
      <3> QED  BY <3>1, <1>1, <1>2, TreeSplit, Zenon
    <2>2. PICK A, B, da, db : Parts(t, k, A, B, da, db, FALSE) /\ Measure(t, k, da, db, FALSE) /\ R = Nodes(k, A, B)
      BY <2>1, Zenon DEF Split
    <2>3. /\ k \in Address /\ A \in SUBSET Address /\ B \in SUBSET Address /\ da \in Nat /\ db \in Nat
          /\ Tree(t, y, A, da, FALSE)
      <3>1. Bounds(t, k, A, B, da, db, FALSE)
        BY <1>1, <2>2, PartsBounds, Zenon
      <3> QED  BY <3>1 DEF Bounds, y
    <2>4. Split(t, y, A, da, FALSE)
      BY <1>1, <1>5, <2>3, TreeSplit, Zenon
    <2>5. PICK E, F, de, df : Parts(t, y, E, F, de, df, FALSE) /\ A = Nodes(y, E, F) /\ da = max(de, df) + 1
      BY <2>4, Zenon DEF Split
    <2>6. y \in Address /\ de \in Nat /\ df \in Nat
      <3>1. Bounds(t, y, E, F, de, df, FALSE)
        BY <1>1, <2>5, PartsBounds, Zenon
      <3> QED  BY <3>1 DEF Bounds
    <2>7. c2.at = y /\ RightTree(c1, c2, k, R)
      <3>1. t[k].height >= max(df, db) + 1
        <4>1. df <= da
          BY <2>3, <2>5, <2>6 DEF max
        <4>2. max(df, db) <= max(da, db)
          BY <4>1, <2>3, <2>6, MaxGrows
        <4>3. max(df, db) \in Nat /\ max(da, db) \in Nat /\ t[k].height \in Nat
          BY <1>1, <2>3, <2>6, MaxOf, HeapNode
        <4>4. t[k].height >= max(da, db) + 1
          BY <2>2 DEF Measure
        <4> QED  BY <4>2, <4>3, <4>4
      <3>2. ReadyRight(c1, A, B, E, F, da, db, de, df)
        BY <3>1, <1>3, <2>2, <2>5, Zenon DEF ReadyRight, y
      <3>3. rightRotate(c1).at = c1.t[c1.at].left /\ RightTree(c1, rightRotate(c1), c1.at, Nodes(c1.at, A, B))
        BY <3>2, RightRotated, Zenon
      <3> QED  BY <3>3, <1>3, <2>2, Zenon DEF y
    <2> HIDE DEF c2
    <2>8. /\ c2 \in AvlCalls /\ c2.ok /\ c2.turned /\ c2.t \in Heap /\ Kept(t, c2.t, {y, k})
          /\ \E d : Tree(c2.t, y, R, d, FALSE)
      BY <1>3, <2>7, CallFields DEF RightTree
    <2>9. PICK d : Tree(c2.t, y, R, d, FALSE)
      BY <2>8
    <2>10. y \in R /\ {y, k} \subseteq R
      BY <1>2, <2>2, <2>5 DEF Nodes
    <2>11. /\ c2.t[n] = t[n] /\ (\A b \in L : c2.t[b] = t[b]) /\ SameKeys(t, c2.t)
      BY <1>2, <2>8, <2>10 DEF Kept, SameKeys
    <2>12. Tree(c2.t, t[n].left, L, dl, FALSE) /\ Apart(c2.t, n, L, R)
      <3>1. Tree(c2.t, t[n].left, L, dl, FALSE)
        BY <1>1, <1>2, <2>8, <2>11, TreeFrame
      <3>2. Apart(c2.t, n, L, R)
        BY <1>2, <2>11 DEF Apart, SameKeys
      <3> QED  BY <3>1, <3>2
    <2>13. c3 \in AvlCalls /\ c3.at = n /\ c3.ok /\ c3.turned /\ Changed(c2.t, c3.t, n, t[n].left, y, t[n].height)
      BY <1>2, <2>7, <2>8, <2>11, HungCalls
    <2> HIDE DEF c3
    <2>14. Parts(c3.t, n, L, R, dl, d, FALSE)
      BY <1>2, <2>8, <2>9, <2>12, <2>13, PartsChanged, Zenon
    <2>15. /\ c3.t \in Heap /\ c3.t[n].left = t[n].left /\ c3.t[n].right = y
           /\ (\A b \in R : c3.t[b] = c2.t[b]) /\ (\A b \in L : c3.t[b] = t[b])
      BY <1>2, <2>11, <2>13 DEF Changed
    <2>16. Tree(c3.t, y, R, d, FALSE)
      BY <2>8, <2>9, <2>15, TreeFrame, Zenon
    <2>17. Split(c3.t, y, R, d, FALSE)
      BY <1>5, <2>15, <2>16, TreeSplit, Zenon
    <2>18. PICK G, H, dg, dh : Parts(c3.t, y, G, H, dg, dh, FALSE) /\ R = Nodes(y, G, H)
      BY <2>17, Zenon DEF Split
    <2>19. r.at = y /\ LeftTree(c3, r, n, L, G, H, R, dl, dg, dh, FALSE)
      <3>1. ReadyLeft(c3, L, R, G, H, dl, d, dg, dh, FALSE)
        BY <2>13, <2>14, <2>15, <2>18, Zenon DEF ReadyLeft
      <3>2. leftRotate(c3).at = c3.t[c3.at].right /\ LeftTree(c3, leftRotate(c3), c3.at, L, G, H, R, dl, dg, dh, FALSE)
        BY <3>1, LeftRotated, Zenon
      <3> QED  BY <3>2, <2>13, <2>15, Zenon
    <2> HIDE DEF r
    <2>20. /\ r \in AvlCalls /\ r.ok /\ r.turned /\ Kept(c3.t, r.t, {y, n})
           /\ r.t[y].height >= 2 + height(c3.t, c3.t[n].left)
      BY <2>13, <2>19 DEF LeftTree
    <2>21. \E e : Tree(r.t, y, X, e, FALSE)
      <3>1. Tree(r.t, y, Nodes(y, Nodes(n, L, G), H), max(max(dl, dg) + 1, dh) + 1, FALSE)
        BY <2>19, TreeJoin, Zenon DEF LeftTree
      <3>2. Nodes(y, Nodes(n, L, G), H) = X
        BY <2>19, Zenon DEF LeftTree
      <3> QED  BY <3>1, <3>2, Zenon
    <2> HIDE DEF X
    <2>22. Kept(t, r.t, X)
      <3>1. Kept(c2.t, c3.t, {n})
        BY <2>13, ChangedKept
      <3>2. {y, n} \subseteq X /\ {n} \subseteq X /\ {y, k} \subseteq X
        BY <2>10 DEF X, Nodes
      <3>3. Kept(t, c3.t, X)
        BY <3>1, <3>2, <2>8, KeptChain
      <3> QED  BY <3>2, <3>3, <2>20, KeptChain
    <2>23. height(c3.t, c3.t[n].left) = height(t, t[n].left)
      BY <1>2, <2>15 DEF height
    <2> QED  BY <2>6, <2>19, <2>20, <2>21, <2>22, <2>23, Zenon DEF Settled, t
  <1> QED  BY <1>4, <1>5

\* The end of a call: whatever is rotated keeps the nodes, and it is only a child
\* too high with nothing on the side of key that makes a rotation fail.
Misplaced(s, n, key) ==
  \/ getBalance(s) > 1 /\ key > s.t[s.t[n].left].key /\ s.t[s.t[n].left].right = Nil
  \/ getBalance(s) < -1 /\ key < s.t[s.t[n].right].key /\ s.t[s.t[n].right].left = Nil

\* Which rotations r of s there are.
Turns(s, r, n, key) ==
  /\ -1 <= getBalance(s) /\ getBalance(s) <= 1 => r = s
  /\ getBalance(s) > 1 /\ key # s.t[s.t[n].left].key /\ ~ Misplaced(s, n, key) => r.turned
  /\ getBalance(s) < -1 /\ key < s.t[s.t[n].right].key /\ ~ Misplaced(s, n, key) => r.turned
  /\ getBalance(s) < -1 /\ key > s.t[s.t[n].right].key => r = leftRotate(s)

\* The end of a call keeps the tree, unless key is misplaced.
LEMMA RebalancedSettles ==
  ASSUME NEW s, NEW n, NEW L, NEW R, NEW dl, NEW dr, Placed(s, n, L, R, dl, dr, FALSE), NEW key \in Int
  PROVE  /\ Settled(s, Rebalanced(s, key), n, Nodes(n, L, R))
         /\ ~ Rebalanced(s, key).ok => Misplaced(s, n, key)
         /\ Turns(s, Rebalanced(s, key), n, key)
  <1> DEFINE l == s.t[n].left
             k == s.t[n].right
             b == getBalance(s)
             c == Rebalanced(s, key)
             X == Nodes(n, L, R)
             ll == b > 1 /\ key < s.t[l].key
             rr == b < -1 /\ key > s.t[k].key
             lr == b > 1 /\ key > s.t[l].key
             rl == b < -1 /\ key < s.t[k].key
  <1>1. /\ s \in AvlCalls /\ s.ok /\ n = s.at /\ s.t \in Heap /\ Bounds(s.t, n, L, R, dl, dr, FALSE)
        /\ s.t[n].height \in Nat /\ s.t[n].height >= max(dl, dr) + 1 /\ Parts(s.t, n, L, R, dl, dr, FALSE)
    BY PlacedBounds, Zenon
  <1>2. /\ n \in Address /\ height(s.t, l) \in Nat /\ height(s.t, k) \in Nat /\ (l # Nil => l \in L) /\ (k # Nil => k \in R)
        /\ L \in SUBSET Address /\ R \in SUBSET Address
    BY <1>1 DEF Bounds
  <1>3. b = height(s.t, l) - height(s.t, k)
    BY <1>1 DEF getBalance
  <1>4. (b > 1 => l # Nil) /\ (b < -1 => k # Nil)
    BY <1>2, <1>3 DEF height
  <1>5. (l # Nil => s.t[l].key \in Int) /\ (k # Nil => s.t[k].key \in Int)
    BY <1>1, <1>2, HeapNode
  <1>6. b \in Int
    BY <1>2, <1>3
  <1>7. c = CASE ll -> rightRotate(s)
              [] rr -> leftRotate(s)
              [] lr -> rightRotate(HungLeft(leftRotate(LeftChild(s)), s.at))
              [] rl -> leftRotate(HungRight(rightRotate(RightChild(s)), s.at))
              [] OTHER -> s
    BY <1>1, Zenon DEF Rebalanced
  <1>8. /\ (ll => ~rr /\ ~lr /\ ~rl) /\ (rr => ~ll /\ ~lr /\ ~rl)
        /\ (lr => ~ll /\ ~rr /\ ~rl) /\ (rl => ~ll /\ ~lr /\ ~rr)
    BY <1>4, <1>5, <1>6
  <1> HIDE DEF c, ll, rr, lr, rl
  <1>9. CASE ll
    <2>1. c = rightRotate(s)
      BY <1>7, <1>8, <1>9
    <2>2. l # Nil
      BY <1>4, <1>9 DEF ll
    <2>3. Settled(s, c, n, X) /\ c.ok /\ c.turned
      BY <2>1, <2>2, LeftLeft
    <2>4. Turns(s, c, n, key)
      BY <1>4, <1>5, <1>6, <1>9, <2>3 DEF ll, Turns
    <2> QED  BY <2>3, <2>4 DEF c
  <1>10. CASE rr
    <2>1. c = leftRotate(s)
      BY <1>7, <1>8, <1>10
    <2>2. k # Nil
      BY <1>4, <1>10 DEF rr
    <2>3. Settled(s, c, n, X) /\ c.ok
      BY <2>1, <2>2, RightRight
    <2>4. Turns(s, c, n, key)
      BY <1>4, <1>5, <1>6, <1>10, <2>1 DEF rr, Turns
    <2> QED  BY <2>3, <2>4 DEF c
  <1>11. CASE lr
    <2>1. c = rightRotate(HungLeft(leftRotate(LeftChild(s)), s.at))
      BY <1>7, <1>8, <1>11
    <2>2. l # Nil
      BY <1>4, <1>11 DEF lr
    <2>3. Settled(s, c, n, X) /\ (s.t[l].right # Nil => c.ok /\ c.turned)
      BY <2>1, <2>2, LeftRight, Zenon
    <2>4. Turns(s, c, n, key)
      BY <1>4, <1>5, <1>6, <1>11, <2>3 DEF lr, Turns, Misplaced
    <2> QED  BY <2>3, <2>4, <1>11 DEF c, lr, Misplaced
  <1>12. CASE rl
    <2>1. c = leftRotate(HungRight(rightRotate(RightChild(s)), s.at))
      BY <1>7, <1>8, <1>12
    <2>2. k # Nil
      BY <1>4, <1>12 DEF rl
    <2>3. Settled(s, c, n, X) /\ (s.t[k].left # Nil => c.ok /\ c.turned)
      BY <2>1, <2>2, RightLeft, Zenon
    <2>4. Turns(s, c, n, key)
      BY <1>4, <1>5, <1>6, <1>12, <2>3 DEF rl, Turns, Misplaced
    <2> QED  BY <2>3, <2>4, <1>12 DEF c, rl, Misplaced
  <1>13. CASE ~ ll /\ ~ rr /\ ~ lr /\ ~ rl
    <2>1. c = s
      BY <1>7, <1>13
    <2>2. Tree(s.t, n, X, max(dl, dr) + 1, FALSE)
      BY <1>1, TreeJoin DEF Measure
    <2>3. Kept(s.t, s.t, X)
      BY <1>1 DEF Kept
    <2>4. Settled(s, s, n, X)
      <3>1. s.t[s.at].height >= s.t[n].height
        BY <1>1
      <3>2. \E d : Tree(s.t, s.at, X, d, FALSE)
        BY <1>1, <2>2, Zenon
      <3> QED  BY <3>1, <3>2, <1>1, <1>2, <2>3, Zenon DEF Settled
    <2>5. Turns(s, c, n, key)
      BY <1>4, <1>5, <1>6, <1>13, <2>1 DEF ll, rr, lr, rl, Turns
    <2> QED  BY <2>1, <2>4, <2>5, <1>1 DEF c
  <1> QED  BY <1>9, <1>10, <1>11, <1>12, <1>13

-----------------------------------------------------------------------------
(* The calls of insert.                                                    *)

\* A rotation of any node leaves a call.
LEMMA RotateType ==
  ASSUME NEW s \in AvlCalls, s.at \in Address
  PROVE  leftRotate(s) \in AvlCalls /\ rightRotate(s) \in AvlCalls
  <1> DEFINE z == s.at
             t == s.t
  <1>1. t \in Heap /\ z \in Pointer
    BY CallFields
  <1>2. leftRotate(s) \in AvlCalls
    <2> DEFINE y == t[z].right
               t1 == [t EXCEPT ![y].left = z]
               t2 == [t1 EXCEPT ![z].right = t[y].left]
               t3 == Measured(t2, z)
               t4 == Measured(t3, y)
    <2>1. CASE ~ s.ok \/ y = Nil
      BY <2>1, FailedTurns
    <2>2. CASE s.ok /\ y # Nil
      <3>1. leftRotate(s) = [t |-> t4, at |-> y, ok |-> TRUE, turned |-> s.turned]
        BY <2>2, Zenon DEF leftRotate
      <3>2. y \in Address /\ y \in Pointer
        BY <1>1, <2>2, HeapNode, Addresses
      <3> HIDE DEF t1, t2, t3, t4, t, y
      <3>3. t1 \in Heap
        BY <1>1, <3>2, LinkedLeft DEF t1, Changed
      <3>4. t[y].left \in Pointer
        BY <1>1, <3>2, HeapNode
      <3>5. t2 \in Heap
        BY <3>3, <3>4, LinkedRight DEF t2, Changed
      <3>6. t3 \in Heap
        BY <3>5, MeasuredNode DEF t3, Changed
      <3>7. t4 \in Heap
        BY <3>2, <3>6, MeasuredNode DEF t4, Changed
      <3> QED  BY <3>1, <3>2, <3>7, CallFields DEF AvlCalls, Heap
    <2> QED  BY <2>1, <2>2, CallFields
  <1>3. rightRotate(s) \in AvlCalls
    <2> DEFINE y == t[z].left
               t1 == [t EXCEPT ![y].right = z]
               t2 == [t1 EXCEPT ![z].left = t[y].right]
               t3 == Measured(t2, y)
               t4 == Measured(t3, z)
    <2>1. CASE ~ s.ok \/ y = Nil
      BY <2>1, FailedTurns
    <2>2. CASE s.ok /\ y # Nil
      <3>1. rightRotate(s) = [t |-> t4, at |-> y, ok |-> TRUE, turned |-> TRUE]
        BY <2>2, Zenon DEF rightRotate
      <3>2. y \in Address /\ y \in Pointer
        BY <1>1, <2>2, HeapNode, Addresses
      <3> HIDE DEF t1, t2, t3, t4, t, y
      <3>3. t1 \in Heap
        BY <1>1, <3>2, LinkedRight DEF t1, Changed
      <3>4. t[y].right \in Pointer
        BY <1>1, <3>2, HeapNode
      <3>5. t2 \in Heap
        BY <3>3, <3>4, LinkedLeft DEF t2, Changed
      <3>6. t3 \in Heap
        BY <3>2, <3>5, MeasuredNode DEF t3, Changed
      <3>7. t4 \in Heap
        BY <3>6, MeasuredNode DEF t4, Changed
      <3> QED  BY <3>1, <3>2, <3>7, CallFields DEF AvlCalls, Heap
    <2> QED  BY <2>1, <2>2, CallFields
  <1> QED  BY <1>2, <1>3

\* The end of a call leaves a call, whatever the memory.
LEMMA RebalancedType ==
  ASSUME NEW s \in AvlCalls, s.at \in Address, NEW key \in Int
  PROVE  Rebalanced(s, key) \in AvlCalls
  <1> DEFINE l == s.t[s.at].left
             k == s.t[s.at].right
             b == getBalance(s)
             c1 == LeftChild(s)
             d1 == RightChild(s)
  <1>1. s.t \in Heap /\ l \in Pointer /\ k \in Pointer
    BY CallFields, HeapNode
  <1>2. height(s.t, l) \in Nat /\ height(s.t, k) \in Nat /\ b = height(s.t, l) - height(s.t, k)
    BY <1>1, HeightType, SMTT(30) DEF getBalance
  <1>3. (b > 1 => l \in Address) /\ (b < -1 => k \in Address)
    BY <1>1, <1>2, Addresses DEF height
  <1>4. rightRotate(s) \in AvlCalls /\ leftRotate(s) \in AvlCalls
    BY RotateType
  <1>5. b > 1 => rightRotate(HungLeft(leftRotate(LeftChild(s)), s.at)) \in AvlCalls
    <2>1. SUFFICES ASSUME l \in Address PROVE rightRotate(HungLeft(leftRotate(LeftChild(s)), s.at)) \in AvlCalls
      BY <1>3
    <2>2. LeftChild(s) \in AvlCalls /\ LeftChild(s).at = l
      BY ChildCalls
    <2>3. leftRotate(LeftChild(s)) \in AvlCalls
      BY <2>1, <2>2, RotateType
    <2>4. HungLeft(leftRotate(LeftChild(s)), s.at) \in AvlCalls /\ HungLeft(leftRotate(LeftChild(s)), s.at).at = s.at
      BY <2>3, HungCalls, Zenon
    <2> QED  BY <2>4, RotateType
  <1>6. b < -1 => leftRotate(HungRight(rightRotate(RightChild(s)), s.at)) \in AvlCalls
    <2>1. SUFFICES ASSUME k \in Address PROVE leftRotate(HungRight(rightRotate(RightChild(s)), s.at)) \in AvlCalls
      BY <1>3
    <2>2. RightChild(s) \in AvlCalls /\ RightChild(s).at = k
      BY ChildCalls
    <2>3. rightRotate(RightChild(s)) \in AvlCalls
      BY <2>1, <2>2, RotateType
    <2>4. HungRight(rightRotate(RightChild(s)), s.at) \in AvlCalls /\ HungRight(rightRotate(RightChild(s)), s.at).at = s.at
      BY <2>3, HungCalls, Zenon
    <2> QED  BY <2>4, RotateType
  <1> HIDE DEF b
  <1> QED  BY <1>4, <1>5, <1>6 DEF Rebalanced, b

\* The call for the child that key is sent to.
Child(s, key) == IF key < s.t[s.at].key THEN LeftChild(s) ELSE RightChild(s)

\* The node of s, when the call c is done for its left or right child.
Hung(s, key, c) == IF key < s.t[s.at].key THEN HungLeft(c, s.at) ELSE HungRight(c, s.at)

\* A call that is not for the null pointer calls insert for a child, hangs up
\* what it gets and sets the height.
LEMMA DescendedNode ==
  ASSUME NEW C \in [AvlCalls -> AvlCalls], NEW s \in AvlCalls, s.at \in Address, NEW key
  PROVE  /\ Child(s, key) \in AvlCalls /\ C[Child(s, key)] \in AvlCalls
         /\ Descended(C, s, key) \in AvlCalls /\ Descended(C, s, key).at = s.at
         /\ Descended(C, s, key).ok = C[Child(s, key)].ok /\ Descended(C, s, key).turned = C[Child(s, key)].turned
         /\ Descended(C, s, key).t = Measured(Hung(s, key, C[Child(s, key)]).t, s.at)
  <1> DEFINE c == C[Child(s, key)]
             h == Hung(s, key, c)
  <1>1. Child(s, key) \in AvlCalls
    BY ChildCalls DEF Child
  <1>2. c \in AvlCalls
    BY <1>1
  <1>3. Descended(C, s, key) = [h EXCEPT !.t = Measured(h.t, s.at)]
    <2>1. CASE key < s.t[s.at].key
      BY <2>1 DEF Descended, Hung, Child
    <2>2. CASE ~ (key < s.t[s.at].key)
      BY <2>2 DEF Descended, Hung, Child
    <2> QED  BY <2>1, <2>2
  <1> HIDE DEF c
  <1>4. h \in AvlCalls /\ h.at = s.at /\ h.ok = c.ok /\ h.turned = c.turned
    <2>1. CASE key < s.t[s.at].key
      <3>1. h = HungLeft(c, s.at)
        BY <2>1 DEF Hung
      <3>2. /\ HungLeft(c, s.at) \in AvlCalls /\ HungLeft(c, s.at).at = s.at
            /\ HungLeft(c, s.at).ok = c.ok /\ HungLeft(c, s.at).turned = c.turned
        BY <1>2, HungCalls, Zenon
      <3> QED  BY <3>1, <3>2, Zenon
    <2>2. CASE ~ (key < s.t[s.at].key)
      <3>1. h = HungRight(c, s.at)
        BY <2>2 DEF Hung
      <3>2. /\ HungRight(c, s.at) \in AvlCalls /\ HungRight(c, s.at).at = s.at
            /\ HungRight(c, s.at).ok = c.ok /\ HungRight(c, s.at).turned = c.turned
        BY <1>2, HungCalls, Zenon
      <3> QED  BY <3>1, <3>2, Zenon
    <2> QED  BY <2>1, <2>2
  <1> HIDE DEF h
  <1>5. Measured(h.t, s.at) \in [Address -> node]
    BY <1>4, CallFields, MeasuredNode DEF Changed, Heap
  <1>6. /\ [h EXCEPT !.t = Measured(h.t, s.at)] \in AvlCalls /\ [h EXCEPT !.t = Measured(h.t, s.at)].at = h.at
        /\ [h EXCEPT !.t = Measured(h.t, s.at)].ok = h.ok /\ [h EXCEPT !.t = Measured(h.t, s.at)].turned = h.turned
        /\ [h EXCEPT !.t = Measured(h.t, s.at)].t = Measured(h.t, s.at)
    BY <1>4, <1>5 DEF AvlCalls
  <1> QED  BY <1>1, <1>2, <1>3, <1>4, <1>6 DEF c, h

\* The node new has been created, and nothing else has changed.
Fresh(s, r, key, new) ==
  /\ r \in AvlCalls /\ r.at = new /\ r.ok = s.ok /\ r.turned = s.turned
  /\ r.t[new] = newNode(key) /\ \A b \in Address : b # new => r.t[b] = s.t[b]

\* A call for the null pointer does that.
LEMMA NewNode ==
  ASSUME NEW C, NEW s \in AvlCalls, s.at = Nil, NEW key \in Int, NEW new \in Address
  PROVE  Fresh(s, Inserted(C, s, key, new), key, new)
  <1> DEFINE u == [s.t EXCEPT ![new] = newNode(key)]
  <1>1. Inserted(C, s, key, new) = [s EXCEPT !.t = u, !.at = new]
    BY Zenon DEF Inserted
  <1>2. newNode(key) \in node
    BY Addresses DEF newNode, node
  <1>3. s.t \in Heap /\ new \in Pointer
    BY CallFields, Addresses
  <1>4. u \in [Address -> node] /\ u[new] = newNode(key) /\ \A b \in Address : b # new => u[b] = s.t[b]
    BY <1>2, <1>3 DEF Heap
  <1> HIDE DEF u
  <1>5. /\ [s EXCEPT !.t = u, !.at = new] \in AvlCalls /\ [s EXCEPT !.t = u, !.at = new].at = new
        /\ [s EXCEPT !.t = u, !.at = new].ok = s.ok /\ [s EXCEPT !.t = u, !.at = new].turned = s.turned
        /\ [s EXCEPT !.t = u, !.at = new].t = u
    BY <1>3, <1>4 DEF AvlCalls
  <1> QED  BY <1>1, <1>4, <1>5 DEF Fresh

\* A call leaves a call, if the calls it makes do.
LEMMA InsertedType ==
  ASSUME NEW C \in [AvlCalls -> AvlCalls], NEW s \in AvlCalls, NEW key \in Int, NEW new \in Address
  PROVE  Inserted(C, s, key, new) \in AvlCalls
  <1>1. CASE s.at = Nil
    BY <1>1, NewNode DEF Fresh
  <1>2. CASE s.at # Nil
    <2>1. s.at \in Address
      BY <1>2, CallFields, Addresses
    <2> DEFINE c == Descended(C, s, key)
    <2>2. c \in AvlCalls /\ c.at = s.at
      BY <2>1, DescendedNode
    <2>3. Rebalanced(c, key) \in AvlCalls
      BY <2>1, <2>2, RebalancedType
    <2>4. Inserted(C, s, key, new) = IF c.ok THEN Rebalanced(c, key) ELSE c
      BY <1>2 DEF Inserted
    <2> QED  BY <2>2, <2>3, <2>4
  <1> QED  BY <1>1, <1>2

\* C is the recursive function that starts with x and goes on with F.
Recursion(F, x, C) == C = [n \in Nat |-> IF n = 0 THEN x ELSE F[C[n - 1]]]

\* There is one.
LEMMA RecursionExists ==
  ASSUME NEW X, NEW F \in [X -> X], NEW x \in X
  PROVE  \E C \in [Nat -> X] : Recursion(F, x, C)
  <1>1. PICK C \in [Nat -> X] : C[0] = x /\ \A n \in Nat : C[n + 1] = F[C[n]]
    <2>1. \E C \in [Nat -> X] : Iteration(F, x, C)
      BY IterationExists
    <2> QED  BY <2>1 DEF Iteration
  <1> DEFINE D == [n \in Nat |-> IF n = 0 THEN x ELSE F[C[n - 1]]]
  <1>2. ASSUME NEW n \in Nat PROVE C[n] = D[n]
    <2>1. CASE n = 0
      BY <2>1, <1>1
    <2>2. CASE n # 0
      <3>1. n - 1 \in Nat /\ (n - 1) + 1 = n
        BY <2>2
      <3>2. C[n] = F[C[n - 1]]
        BY <3>1, <1>1
      <3> QED  BY <3>2, <2>2
    <2> QED  BY <2>1, <2>2
  <1>3. C = D
    BY <1>1, <1>2
  <1>4. Recursion(F, x, C)
    BY <1>3 DEF Recursion
  <1> QED  BY <1>4

\* The values of such a function.
LEMMA RecursionValues ==
  ASSUME NEW X, NEW F \in [X -> X], NEW x \in X, NEW C, Recursion(F, x, C)
  PROVE  C \in [Nat -> X] /\ C[0] = x /\ \A n \in Nat : C[n + 1] = F[C[n]]
  <1>1. C = [n \in Nat |-> IF n = 0 THEN x ELSE F[C[n - 1]]]
    BY DEF Recursion
  <1>2. C[0] = x
    BY <1>1
  <1>3. ASSUME NEW n \in Nat PROVE C[n + 1] = F[C[n]]
    <2>1. n + 1 \in Nat /\ n + 1 # 0 /\ (n + 1) - 1 = n
      OBVIOUS
    <2>2. C[n + 1] = F[C[(n + 1) - 1]]
      BY <1>1, <2>1
    <2> QED  BY <2>1, <2>2
  <1> DEFINE S == {n \in Nat : C[n] \in X}
  <1>4. 0 \in S
    BY <1>2
  <1>5. \A n \in Nat : n \in S => n + 1 \in S
    BY <1>3
  <1>6. \A n \in Nat : n \in S
    <2> HIDE DEF S
    <2> QED  BY <1>4, <1>5, AllNaturals
  <1>7. C \in [Nat -> X]
    BY <1>1, <1>6
  <1> QED  BY <1>2, <1>3, <1>7

\* C are the calls of insert that are n below the first.
InsertCalls(key, new, C) ==
  C = [n \in Nat |-> IF n = 0 THEN [c \in AvlCalls |-> c] ELSE [c \in AvlCalls |-> Inserted(C[n - 1], c, key, new)]]

\* What they do.
LEMMA InsertCallsValues ==
  ASSUME NEW key \in Int, NEW new \in Address
  PROVE  LET C == CHOOSE D : InsertCalls(key, new, D)
         IN  /\ C \in [Nat -> [AvlCalls -> AvlCalls]]
             /\ \A n \in Nat : \A s \in AvlCalls : C[n + 1][s] = Inserted(C[n], s, key, new)
  <1> DEFINE X == [AvlCalls -> AvlCalls]
             G(f) == [c \in AvlCalls |-> Inserted(f, c, key, new)]
             F == [f \in X |-> G(f)]
             x == [c \in AvlCalls |-> c]
             C == CHOOSE D : InsertCalls(key, new, D)
  <1>1. \A f \in X : G(f) \in X
    BY InsertedType
  <1>2. x \in X
    OBVIOUS
  <1>3. \A D : InsertCalls(key, new, D) <=> D = [n \in Nat |-> IF n = 0 THEN x ELSE G(D[n - 1])]
    BY DEF InsertCalls
  <1> HIDE DEF G, x
  <1>4. F \in [X -> X] /\ \A f \in X : F[f] = G(f)
    BY <1>1
  <1> HIDE DEF F, X
  <1>5. ASSUME NEW D \in [Nat -> X] PROVE [n \in Nat |-> IF n = 0 THEN x ELSE G(D[n - 1])] = [n \in Nat |-> IF n = 0 THEN x ELSE F[D[n - 1]]]
    <2>1. \A n \in Nat : n # 0 => n - 1 \in Nat
      OBVIOUS
    <2>2. \A n \in Nat : n # 0 => F[D[n - 1]] = G(D[n - 1])
      BY <1>4, <1>5, <2>1
    <2> QED  BY <2>2
  <1>6. \E D : InsertCalls(key, new, D)
    <2>1. PICK D \in [Nat -> X] : Recursion(F, x, D)
      BY <1>2, <1>4, RecursionExists
    <2>2. InsertCalls(key, new, D)
      BY <1>3, <1>5, <2>1 DEF Recursion
    <2> QED  BY <2>2
  <1>7. InsertCalls(key, new, C)
    BY <1>6, Zenon
  <1> HIDE DEF C
  <1>8. C = [n \in Nat |-> IF n = 0 THEN x ELSE G(C[n - 1])]
    BY <1>3, <1>7
  <1>9. C[0] = x
    BY <1>8
  <1>10. ASSUME NEW n \in Nat PROVE C[n + 1] = G(C[n])
    <2>1. n + 1 \in Nat /\ n + 1 # 0 /\ (n + 1) - 1 = n
      OBVIOUS
    <2>2. C[n + 1] = G(C[(n + 1) - 1])
      BY <1>8, <2>1
    <2> QED  BY <2>1, <2>2
  <1> DEFINE S == {n \in Nat : C[n] \in X}
  <1>11. 0 \in S
    BY <1>2, <1>9
  <1>12. \A n \in Nat : n \in S => n + 1 \in S
    BY <1>1, <1>10
  <1>13. \A n \in Nat : n \in S
    <2> HIDE DEF S
    <2> QED  BY <1>11, <1>12, AllNaturals
  <1>14. C \in [Nat -> X]
    BY <1>8, <1>13
  <1>15. \A n \in Nat : \A s \in AvlCalls : C[n + 1][s] = Inserted(C[n], s, key, new)
    BY <1>10 DEF G
  <1> QED  BY <1>14, <1>15 DEF X, C


-----------------------------------------------------------------------------
(* What a call of insert does to a tree.                                   *)

\* The memory u is t with the node new, which has key, and changes in Y.
Grown(t, u, Y, key, new) ==
  /\ u \in Heap /\ u[new].key = key
  /\ \A b \in Address : b # new => u[b].key = t[b].key /\ (b \notin Y => u[b] = t[b])

\* The node n of h, which has got a child, when its height has been set.
Set(h, D, n) == D \in AvlCalls /\ D.ok /\ D.at = n /\ D.t = Measured(h, n)

\* The node n of h with its height set has the same trees below it.
SetParts(h, D, n, L, R, dl, dr, q) ==
  /\ Placed(D, n, L, R, dl, dr, q) /\ Kept(h, D.t, {n})
  /\ D.t[n].left = h[n].left /\ D.t[n].right = h[n].right
  /\ height(D.t, h[n].left) = height(h, h[n].left) /\ height(D.t, h[n].right) = height(h, h[n].right)

\* Setting the height keeps the trees below.
LEMMA MeasuredPlaced ==
  ASSUME NEW h \in Heap, NEW D, NEW n, NEW L, NEW R, NEW dl, NEW dr, NEW q, Parts(h, n, L, R, dl, dr, q), Set(h, D, n)
  PROVE  SetParts(h, D, n, L, R, dl, dr, q)
  <1> DEFINE l == h[n].left
             r == h[n].right
             m == max(height(h, l), height(h, r)) + 1
             u == D.t
  <1>1. D \in AvlCalls /\ D.ok /\ D.at = n /\ u = Measured(h, n)
    BY Zenon DEF Set
  <1>2. Bounds(h, n, L, R, dl, dr, q)
    BY PartsBounds, Zenon
  <1>3. /\ n \in Address /\ L \in SUBSET Address /\ R \in SUBSET Address /\ n \notin L /\ n \notin R
        /\ Tree(h, l, L, dl, q) /\ Tree(h, r, R, dr, q) /\ Apart(h, n, L, R)
        /\ (l # Nil => l \in L) /\ (r # Nil => r \in R)
    BY <1>2, Zenon DEF Bounds
  <1> HIDE DEF l, r, m, u
  <1>4. Changed(h, u, n, l, r, m)
    BY <1>1, <1>3, MeasuredNode DEF l, r, m
  <1>5. Parts(u, n, L, R, dl, dr, q)
    BY <1>3, <1>4, PartsChanged, Zenon
  <1>6. u[n].left = l /\ u[n].right = r /\ u[n].height = m /\ \A b \in Address : b # n => u[b] = h[b]
    BY <1>4 DEF Changed
  <1>7. height(u, l) = height(h, l) /\ height(u, r) = height(h, r)
    <2>1. (l # Nil => u[l] = h[l]) /\ (r # Nil => u[r] = h[r])
      BY <1>3, <1>6
    <2> QED  BY <2>1 DEF height
  <1>8. u[n].height = max(height(u, u[n].left), height(u, u[n].right)) + 1
    BY <1>6, <1>7 DEF m
  <1>9. Placed(D, n, L, R, dl, dr, q)
    BY <1>1, <1>5, <1>8, Zenon DEF Placed, u
  <1>10. Kept(h, u, {n})
    BY <1>4, ChangedKept, Zenon
  <1> QED  BY <1>6, <1>7, <1>9, <1>10 DEF l, r, u, SetParts

\* The node n of D has got its left child from c, and new is below it.
WithLeft(t, n, D, c, L, R, e, dr, q, key, new) ==
  /\ Placed(D, n, L \cup {new}, R, e, dr, q) /\ Grown(t, D.t, Nodes(n, L, R), key, new)
  /\ D.t[n].left = c.at /\ D.t[n].right = t[n].right /\ Kept(c.t, D.t, {n})
  /\ height(D.t, c.at) = height(c.t, c.at) /\ height(D.t, t[n].right) = height(t, t[n].right)

\* The left child of n has been given the node new, and n the child c.
LEMMA LeftHung ==
  ASSUME NEW t \in Heap, NEW n, NEW L, NEW R, NEW dl, NEW dr, NEW q, Parts(t, n, L, R, dl, dr, q),
         NEW key \in Int, NEW new \in Address, new \notin Nodes(n, L, R), key < t[n].key,
         NEW c \in AvlCalls, NEW e, Grown(t, c.t, L, key, new), Tree(c.t, c.at, L \cup {new}, e, q),
         NEW D, Set(HungLeft(c, n).t, D, n)
  PROVE  WithLeft(t, n, D, c, L, R, e, dr, q, key, new)
  <1> DEFINE h == HungLeft(c, n).t
             r == t[n].right
             X == Nodes(n, L, R)
  <1>1. Bounds(t, n, L, R, dl, dr, q)
    BY PartsBounds, Zenon
  <1>2. /\ n \in Address /\ L \in SUBSET Address /\ R \in SUBSET Address /\ n \notin L /\ n \notin R /\ L \cap R = {}
        /\ Tree(t, r, R, dr, q) /\ Apart(t, n, L, R) /\ (r # Nil => r \in R) /\ t[n].key \in Int
    BY <1>1, HeapNode DEF Bounds
  <1>3. n # new /\ new \notin L /\ new \notin R
    BY DEF Nodes
  <1>4. c.t \in Heap /\ c.t[new].key = key /\ \A b \in Address : b # new => c.t[b].key = t[b].key /\ (b \notin L => c.t[b] = t[b])
    BY Zenon DEF Grown
  <1>5. c.t[n] = t[n] /\ \A b \in R : c.t[b] = t[b]
    BY <1>2, <1>3, <1>4
  <1>6. Changed(c.t, h, n, c.at, c.t[n].right, c.t[n].height)
    BY <1>2, HungCalls, Zenon
  <1> HIDE DEF h
  <1>7. Changed(c.t, h, n, c.at, r, t[n].height)
    BY <1>5, <1>6
  <1>8. Tree(c.t, r, R, dr, q)
    BY <1>2, <1>4, <1>5, TreeFrame
  <1>9. Apart(c.t, n, L \cup {new}, R)
    <2>1. \A b \in L \cup {new} : c.t[b].key <= c.t[n].key
      BY <1>2, <1>3, <1>4, <1>5 DEF Apart
    <2>2. \A b \in R : c.t[b].key >= c.t[n].key
      BY <1>2, <1>5 DEF Apart
    <2> QED  BY <2>1, <2>2, <1>2, <1>3 DEF Apart
  <1>10. Parts(h, n, L \cup {new}, R, e, dr, q)
    BY <1>2, <1>4, <1>7, <1>8, <1>9, PartsChanged, Zenon
  <1>11. h \in Heap /\ h[n].left = c.at /\ h[n].right = r /\ Kept(c.t, h, {n}) /\ \A b \in Address : b # n => h[b] = c.t[b]
    BY <1>7, ChangedKept DEF Changed
  <1>12. /\ Placed(D, n, L \cup {new}, R, e, dr, q) /\ Kept(h, D.t, {n})
         /\ D.t[n].left = h[n].left /\ D.t[n].right = h[n].right
         /\ height(D.t, h[n].left) = height(h, h[n].left) /\ height(D.t, h[n].right) = height(h, h[n].right)
    <2>1. Set(h, D, n) /\ h \in Heap
      BY <1>11 DEF h
    <2>2. SetParts(h, D, n, L \cup {new}, R, e, dr, q)
      BY <1>10, <2>1, MeasuredPlaced, Zenon
    <2> QED  BY <2>2 DEF SetParts
  <1>13. Kept(c.t, D.t, {n})
    BY <1>11, <1>12, KeptChain
  <1>14. Grown(t, D.t, X, key, new)
    <2>1. n \in X /\ L \subseteq X
      BY DEF Nodes
    <2>2. D.t \in Heap /\ \A b \in Address : D.t[b].key = c.t[b].key /\ (b # n => D.t[b] = c.t[b])
      BY <1>13 DEF Kept
    <2> HIDE DEF X
    <2> QED  BY <1>4, <2>1, <2>2 DEF Grown
  <1>15. c.at # n /\ (c.at # Nil => c.at \in Address)
    <2>1. c.at # Nil => c.at \in L \cup {new}
      BY <1>4, TreeBounds
    <2> QED  BY <2>1, <1>2, <1>3, Addresses
  <1>16. height(h, c.at) = height(c.t, c.at)
    BY <1>11, <1>15 DEF height
  <1>17. height(h, r) = height(t, r)
    <2>1. r # Nil => h[r] = t[r]
      BY <1>2, <1>5, <1>11
    <2> QED  BY <2>1 DEF height
  <1> QED  BY <1>11, <1>12, <1>13, <1>14, <1>16, <1>17 DEF WithLeft

\* The node n of D has got its right child from c, and new is below it.
WithRight(t, n, D, c, L, R, dl, e, q, key, new) ==
  /\ Placed(D, n, L, R \cup {new}, dl, e, q) /\ Grown(t, D.t, Nodes(n, L, R), key, new)
  /\ D.t[n].right = c.at /\ D.t[n].left = t[n].left /\ Kept(c.t, D.t, {n})
  /\ height(D.t, c.at) = height(c.t, c.at) /\ height(D.t, t[n].left) = height(t, t[n].left)

\* The right child of n has been given the node new, and n the child c.
LEMMA RightHung ==
  ASSUME NEW t \in Heap, NEW n, NEW L, NEW R, NEW dl, NEW dr, NEW q, Parts(t, n, L, R, dl, dr, q),
         NEW key \in Int, NEW new \in Address, new \notin Nodes(n, L, R), ~ (key < t[n].key),
         NEW c \in AvlCalls, NEW e, Grown(t, c.t, R, key, new), Tree(c.t, c.at, R \cup {new}, e, q),
         NEW D, Set(HungRight(c, n).t, D, n)
  PROVE  WithRight(t, n, D, c, L, R, dl, e, q, key, new)
  <1> DEFINE h == HungRight(c, n).t
             l == t[n].left
             X == Nodes(n, L, R)
  <1>1. Bounds(t, n, L, R, dl, dr, q)
    BY PartsBounds, Zenon
  <1>2. /\ n \in Address /\ L \in SUBSET Address /\ R \in SUBSET Address /\ n \notin L /\ n \notin R /\ L \cap R = {}
        /\ Tree(t, l, L, dl, q) /\ Apart(t, n, L, R) /\ (l # Nil => l \in L) /\ t[n].key \in Int
    BY <1>1, HeapNode DEF Bounds
  <1>3. n # new /\ new \notin L /\ new \notin R
    BY DEF Nodes
  <1>4. c.t \in Heap /\ c.t[new].key = key /\ \A b \in Address : b # new => c.t[b].key = t[b].key /\ (b \notin R => c.t[b] = t[b])
    BY Zenon DEF Grown
  <1>5. c.t[n] = t[n] /\ \A b \in L : c.t[b] = t[b]
    BY <1>2, <1>3, <1>4
  <1>6. Changed(c.t, h, n, c.t[n].left, c.at, c.t[n].height)
    BY <1>2, HungCalls, Zenon
  <1> HIDE DEF h
  <1>7. Changed(c.t, h, n, l, c.at, t[n].height)
    BY <1>5, <1>6
  <1>8. Tree(c.t, l, L, dl, q)
    BY <1>2, <1>4, <1>5, TreeFrame
  <1>9. Apart(c.t, n, L, R \cup {new})
    <2>1. \A b \in R \cup {new} : c.t[b].key >= c.t[n].key
      BY <1>2, <1>3, <1>4, <1>5 DEF Apart
    <2>2. \A b \in L : c.t[b].key <= c.t[n].key
      BY <1>2, <1>5 DEF Apart
    <2> QED  BY <2>1, <2>2, <1>2, <1>3 DEF Apart
  <1>10. Parts(h, n, L, R \cup {new}, dl, e, q)
    BY <1>2, <1>4, <1>7, <1>8, <1>9, PartsChanged, Zenon
  <1>11. h \in Heap /\ h[n].right = c.at /\ h[n].left = l /\ Kept(c.t, h, {n}) /\ \A b \in Address : b # n => h[b] = c.t[b]
    BY <1>7, ChangedKept DEF Changed
  <1>12. /\ Placed(D, n, L, R \cup {new}, dl, e, q) /\ Kept(h, D.t, {n})
         /\ D.t[n].left = h[n].left /\ D.t[n].right = h[n].right
         /\ height(D.t, h[n].left) = height(h, h[n].left) /\ height(D.t, h[n].right) = height(h, h[n].right)
    <2>1. Set(h, D, n) /\ h \in Heap
      BY <1>11 DEF h
    <2>2. SetParts(h, D, n, L, R \cup {new}, dl, e, q)
      BY <1>10, <2>1, MeasuredPlaced, Zenon
    <2> QED  BY <2>2 DEF SetParts
  <1>13. Kept(c.t, D.t, {n})
    BY <1>11, <1>12, KeptChain
  <1>14. Grown(t, D.t, X, key, new)
    <2>1. n \in X /\ R \subseteq X
      BY DEF Nodes
    <2>2. D.t \in Heap /\ \A b \in Address : D.t[b].key = c.t[b].key /\ (b # n => D.t[b] = c.t[b])
      BY <1>13 DEF Kept
    <2> HIDE DEF X
    <2> QED  BY <1>4, <2>1, <2>2 DEF Grown
  <1>15. c.at # n /\ (c.at # Nil => c.at \in Address)
    <2>1. c.at # Nil => c.at \in R \cup {new}
      BY <1>4, TreeBounds
    <2> QED  BY <2>1, <1>2, <1>3, Addresses
  <1>16. height(h, c.at) = height(c.t, c.at)
    BY <1>11, <1>15 DEF height
  <1>17. height(h, l) = height(t, l)
    <2>1. l # Nil => h[l] = t[l]
      BY <1>2, <1>5, <1>11
    <2> QED  BY <2>1 DEF height
  <1> QED  BY <1>11, <1>12, <1>13, <1>14, <1>16, <1>17 DEF WithRight

\* A call of insert for s that has been made for the left child of its node, and
\* left c there: the node before it is rebalanced.
WentLeft(s, D, c, L, R, e, dr, q, key, new) ==
  D \in AvlCalls /\ D.ok /\ D.turned = c.turned /\ WithLeft(s.t, s.at, D, c, L, R, e, dr, q, key, new)

\* The same for the right child.
WentRight(s, D, c, L, R, dl, e, q, key, new) ==
  D \in AvlCalls /\ D.ok /\ D.turned = c.turned /\ WithRight(s.t, s.at, D, c, L, R, dl, e, q, key, new)

\* The node new goes into the tree at the node of s.
Entering(C, s, L, R, dl, dr, q, key, new) ==
  /\ C \in [AvlCalls -> AvlCalls] /\ s \in AvlCalls /\ s.ok /\ Parts(s.t, s.at, L, R, dl, dr, q)
  /\ key \in Int /\ new \in Address /\ new \notin Nodes(s.at, L, R)

\* The call c for a child has added new to its tree Y.
Added(s, c, Y, e, q, key, new) == c.ok /\ Grown(s.t, c.t, Y, key, new) /\ Tree(c.t, c.at, Y \cup {new}, e, q)

\* A key below the node's goes to the left.
LEMMA DescendedLeft ==
  ASSUME NEW C, NEW s, NEW L, NEW R, NEW dl, NEW dr, NEW q, NEW key, NEW new, Entering(C, s, L, R, dl, dr, q, key, new),
         key < s.t[s.at].key, NEW e, Added(s, C[LeftChild(s)], L, e, q, key, new)
  PROVE  WentLeft(s, Descended(C, s, key), C[LeftChild(s)], L, R, e, dr, q, key, new)
  <1> DEFINE c == C[LeftChild(s)]
             D == Descended(C, s, key)
             n == s.at
  <1>1. /\ C \in [AvlCalls -> AvlCalls] /\ s \in AvlCalls /\ s.ok /\ Parts(s.t, n, L, R, dl, dr, q)
        /\ key \in Int /\ new \in Address /\ new \notin Nodes(n, L, R)
    BY Zenon DEF Entering
  <1>2. n \in Address /\ s.t \in Heap
    BY <1>1, CallFields DEF Parts
  <1>3. Child(s, key) = LeftChild(s)
    BY DEF Child
  <1>4. /\ c \in AvlCalls /\ D \in AvlCalls /\ D.at = n /\ D.ok = c.ok /\ D.turned = c.turned
        /\ D.t = Measured(Hung(s, key, c).t, n)
    BY <1>1, <1>2, <1>3, DescendedNode
  <1>5. Hung(s, key, c) = HungLeft(c, n)
    BY DEF Hung
  <1>6. c.ok /\ Grown(s.t, c.t, L, key, new) /\ Tree(c.t, c.at, L \cup {new}, e, q)
    BY Zenon DEF Added
  <1> HIDE DEF c, D
  <1>7. Set(HungLeft(c, n).t, D, n)
    BY <1>4, <1>5, <1>6 DEF Set
  <1>8. WithLeft(s.t, n, D, c, L, R, e, dr, q, key, new)
    BY <1>1, <1>2, <1>4, <1>6, <1>7, LeftHung, Zenon
  <1> QED  BY <1>4, <1>6, <1>8 DEF WentLeft, c, D

\* Every other key goes to the right.
LEMMA DescendedRight ==
  ASSUME NEW C, NEW s, NEW L, NEW R, NEW dl, NEW dr, NEW q, NEW key, NEW new, Entering(C, s, L, R, dl, dr, q, key, new),
         ~ (key < s.t[s.at].key), NEW e, Added(s, C[RightChild(s)], R, e, q, key, new)
  PROVE  WentRight(s, Descended(C, s, key), C[RightChild(s)], L, R, dl, e, q, key, new)
  <1> DEFINE c == C[RightChild(s)]
             D == Descended(C, s, key)
             n == s.at
  <1>1. /\ C \in [AvlCalls -> AvlCalls] /\ s \in AvlCalls /\ s.ok /\ Parts(s.t, n, L, R, dl, dr, q)
        /\ key \in Int /\ new \in Address /\ new \notin Nodes(n, L, R)
    BY Zenon DEF Entering
  <1>2. n \in Address /\ s.t \in Heap
    BY <1>1, CallFields DEF Parts
  <1>3. Child(s, key) = RightChild(s)
    BY DEF Child
  <1>4. /\ c \in AvlCalls /\ D \in AvlCalls /\ D.at = n /\ D.ok = c.ok /\ D.turned = c.turned
        /\ D.t = Measured(Hung(s, key, c).t, n)
    BY <1>1, <1>2, <1>3, DescendedNode
  <1>5. Hung(s, key, c) = HungRight(c, n)
    BY DEF Hung
  <1>6. c.ok /\ Grown(s.t, c.t, R, key, new) /\ Tree(c.t, c.at, R \cup {new}, e, q)
    BY Zenon DEF Added
  <1> HIDE DEF c, D
  <1>7. Set(HungRight(c, n).t, D, n)
    BY <1>4, <1>5, <1>6 DEF Set
  <1>8. WithRight(s.t, n, D, c, L, R, dl, e, q, key, new)
    BY <1>1, <1>2, <1>4, <1>6, <1>7, RightHung, Zenon
  <1> QED  BY <1>4, <1>6, <1>8 DEF WentRight, c, D

\* What a call r of insert, made for s, has done to the tree X when it is ok.
Outcome(s, r, X, key, new) ==
  /\ r \in AvlCalls /\ (s.turned => r.turned)
  /\ r.ok => /\ r.at \in Address /\ Grown(s.t, r.t, X, key, new)
             /\ \E d : Tree(r.t, r.at, X \cup {new}, d, FALSE)

\* The node new in a memory that is rebalanced.
LEMMA GrownKept ==
  ASSUME NEW t, NEW u, NEW w, NEW X, NEW key, NEW new \in Address, Grown(t, u, X, key, new), Kept(u, w, X \cup {new})
  PROVE  Grown(t, w, X, key, new)
  BY DEF Grown, Kept

\* A call adds the node if the call for the child does.
LEMMA EnteredOutcome ==
  ASSUME NEW C, NEW s, NEW L, NEW R, NEW dl, NEW dr, NEW key, NEW new, Entering(C, s, L, R, dl, dr, FALSE, key, new),
         key < s.t[s.at].key => Outcome(LeftChild(s), C[LeftChild(s)], L, key, new),
         ~ (key < s.t[s.at].key) => Outcome(RightChild(s), C[RightChild(s)], R, key, new)
  PROVE  Outcome(s, Inserted(C, s, key, new), Nodes(s.at, L, R), key, new)
  <1> DEFINE n == s.at
             X == Nodes(n, L, R)
             D == Descended(C, s, key)
             c == C[Child(s, key)]
             r == Inserted(C, s, key, new)
  <1>1. /\ C \in [AvlCalls -> AvlCalls] /\ s \in AvlCalls /\ s.ok /\ Parts(s.t, n, L, R, dl, dr, FALSE)
        /\ key \in Int /\ new \in Address /\ new \notin X
    BY Zenon DEF Entering
  <1>2. n \in Address /\ s.t \in Heap /\ n # Nil
    BY <1>1, CallFields, Addresses DEF Parts
  <1>3. c \in AvlCalls /\ D \in AvlCalls /\ D.at = n /\ D.ok = c.ok /\ D.turned = c.turned
    BY <1>1, <1>2, DescendedNode
  <1>4. r = IF D.ok THEN Rebalanced(D, key) ELSE D
    BY <1>2 DEF Inserted
  <1>5. /\ LeftChild(s).turned = s.turned /\ LeftChild(s).t = s.t /\ LeftChild(s).at = s.t[n].left
        /\ RightChild(s).turned = s.turned /\ RightChild(s).t = s.t /\ RightChild(s).at = s.t[n].right
    BY <1>1, <1>2, ChildCalls
  <1>6. s.turned => D.turned
    <2>1. CASE key < s.t[n].key
      BY <2>1, <1>3, <1>5 DEF Outcome, Child
    <2>2. CASE ~ (key < s.t[n].key)
      BY <2>2, <1>3, <1>5 DEF Outcome, Child
    <2> QED  BY <2>1, <2>2
  <1>7. ASSUME D.ok PROVE \E L2, R2, e, f : /\ Placed(D, n, L2, R2, e, f, FALSE) /\ Nodes(n, L2, R2) = X \cup {new}
                                             /\ Grown(s.t, D.t, X, key, new)
    <2>1. CASE key < s.t[n].key
      <3>1. c = C[LeftChild(s)] /\ c.ok /\ Outcome(LeftChild(s), C[LeftChild(s)], L, key, new)
        BY <1>3, <1>7, <2>1 DEF Child
      <3>2. PICK e : Tree(c.t, c.at, L \cup {new}, e, FALSE)
        BY <3>1, Zenon DEF Outcome
      <3>3. Grown(s.t, c.t, L, key, new)
        BY <1>5, <3>1 DEF Outcome
      <3>4. Added(s, C[LeftChild(s)], L, e, FALSE, key, new)
        BY <3>1, <3>2, <3>3, Zenon DEF Added
      <3>5. WentLeft(s, D, C[LeftChild(s)], L, R, e, dr, FALSE, key, new)
        BY <2>1, <3>4, DescendedLeft, Zenon
      <3>6. Placed(D, n, L \cup {new}, R, e, dr, FALSE) /\ Grown(s.t, D.t, X, key, new)
        BY <3>5, Zenon DEF WentLeft, WithLeft
      <3>7. Nodes(n, L \cup {new}, R) = X \cup {new}
        BY DEF Nodes
      <3> QED  BY <3>6, <3>7, Zenon
    <2>2. CASE ~ (key < s.t[n].key)
      <3>1. c = C[RightChild(s)] /\ c.ok /\ Outcome(RightChild(s), C[RightChild(s)], R, key, new)
        BY <1>3, <1>7, <2>2 DEF Child
      <3>2. PICK e : Tree(c.t, c.at, R \cup {new}, e, FALSE)
        BY <3>1, Zenon DEF Outcome
      <3>3. Grown(s.t, c.t, R, key, new)
        BY <1>5, <3>1 DEF Outcome
      <3>4. Added(s, C[RightChild(s)], R, e, FALSE, key, new)
        BY <3>1, <3>2, <3>3, Zenon DEF Added
      <3>5. WentRight(s, D, C[RightChild(s)], L, R, dl, e, FALSE, key, new)
        BY <2>2, <3>4, DescendedRight, Zenon
      <3>6. Placed(D, n, L, R \cup {new}, dl, e, FALSE) /\ Grown(s.t, D.t, X, key, new)
        BY <3>5, Zenon DEF WentRight, WithRight
      <3>7. Nodes(n, L, R \cup {new}) = X \cup {new}
        BY DEF Nodes
      <3> QED  BY <3>6, <3>7, Zenon
    <2> QED  BY <2>1, <2>2
  <1> HIDE DEF X, D, c, r
  <1>8. CASE ~ D.ok
    BY <1>3, <1>4, <1>6, <1>8 DEF Outcome, r, X
  <1>9. CASE D.ok
    <2>1. PICK L2, R2, e, f : /\ Placed(D, n, L2, R2, e, f, FALSE) /\ Nodes(n, L2, R2) = X \cup {new}
                              /\ Grown(s.t, D.t, X, key, new)
      BY <1>7, <1>9, Zenon
    <2>2. r = Rebalanced(D, key)
      BY <1>4, <1>9
    <2>3. Settled(D, Rebalanced(D, key), n, Nodes(n, L2, R2))
      BY <1>1, <2>1, RebalancedSettles, Zenon
    <2>4. Settled(D, r, n, X \cup {new})
      BY <2>1, <2>2, <2>3, Zenon
    <2>5. r \in AvlCalls /\ (D.turned => r.turned)
      BY <2>4, Zenon DEF Settled
    <2>6. ASSUME r.ok PROVE Kept(D.t, r.t, X \cup {new}) /\ r.at \in Address /\ \E d : Tree(r.t, r.at, X \cup {new}, d, FALSE)
      BY <2>4, <2>6, Zenon DEF Settled
    <2>7. r.ok => Grown(s.t, r.t, X, key, new)
      BY <1>1, <2>1, <2>6, GrownKept, Zenon
    <2> QED  BY <1>6, <2>5, <2>6, <2>7, Zenon DEF Outcome, r, X
  <1> QED  BY <1>8, <1>9

\* The new node is a tree.
LEMMA NewTree ==
  ASSUME NEW t \in Heap, NEW key \in Int, NEW new \in Address, t[new] = newNode(key), NEW q
  PROVE  Tree(t, new, {new}, 1, q)
  <1>1. t[new].left = Nil /\ t[new].right = Nil /\ t[new].height = 1
    BY DEF newNode
  <1>2. Tree(t, Nil, {}, 0, q)
    BY EmptyTree
  <1>3. Parts(t, new, {}, {}, 0, 0, q)
    BY <1>1, <1>2 DEF Parts, Apart
  <1>4. max(0, 0) = 0 /\ Measure(t, new, 0, 0, q)
    BY <1>1 DEF Measure, max
  <1>5. Tree(t, new, Nodes(new, {}, {}), max(0, 0) + 1, q)
    BY <1>3, <1>4, TreeJoin, Zenon
  <1>6. Nodes(new, {}, {}) = {new}
    BY DEF Nodes
  <1> QED  BY <1>4, <1>5, <1>6

\* The calls of insert that are n below the first.
Calls(C, key, new) ==
  /\ C \in [Nat -> [AvlCalls -> AvlCalls]]
  /\ \A n \in Nat : \A s \in AvlCalls : C[n + 1][s] = Inserted(C[n], s, key, new)

\* s is a call for the tree X, which has not got the node new.
Begun(s, X, d, q, new) ==
  s \in AvlCalls /\ s.ok /\ Tree(s.t, s.at, X, d, q) /\ new \notin X

\* The calls for the children of the node of s.
Branches(C, s, X, d, L, R, dl, dr, q, key, new) ==
  /\ Entering(C, s, L, R, dl, dr, q, key, new) /\ X = Nodes(s.at, L, R) /\ d = max(dl, dr) + 1
  /\ Measure(s.t, s.at, dl, dr, q) /\ dl \in Nat /\ dr \in Nat /\ dl < d /\ dr < d
  /\ Begun(LeftChild(s), L, dl, q, new) /\ Begun(RightChild(s), R, dr, q, new)

\* They are for smaller trees.
LEMMA BegunParts ==
  ASSUME NEW C, NEW s, NEW X, NEW d, NEW q, NEW key \in Int, NEW new \in Address, Begun(s, X, d, q, new), s.at # Nil,
         C \in [AvlCalls -> AvlCalls]
  PROVE  \E L, R, dl, dr : Branches(C, s, X, d, L, R, dl, dr, q, key, new)
  <1>1. s \in AvlCalls /\ s.ok /\ Tree(s.t, s.at, X, d, q) /\ new \notin X /\ s.t \in Heap
    BY CallFields DEF Begun
  <1>2. Split(s.t, s.at, X, d, q)
    BY <1>1, TreeSplit, Zenon
  <1>3. PICK L, R, dl, dr : /\ Parts(s.t, s.at, L, R, dl, dr, q) /\ Measure(s.t, s.at, dl, dr, q)
                            /\ X = Nodes(s.at, L, R) /\ d = max(dl, dr) + 1
    BY <1>2, Zenon DEF Split
  <1>4. s.at \in Address /\ Tree(s.t, s.t[s.at].left, L, dl, q) /\ Tree(s.t, s.t[s.at].right, R, dr, q)
    BY <1>3, Zenon DEF Parts
  <1>5. dl \in Nat /\ dr \in Nat
    BY <1>4, Zenon DEF Tree
  <1>6. dl < d /\ dr < d
    BY <1>3, <1>5 DEF max
  <1>7. /\ LeftChild(s) \in AvlCalls /\ LeftChild(s).t = s.t /\ LeftChild(s).at = s.t[s.at].left /\ LeftChild(s).ok
        /\ RightChild(s) \in AvlCalls /\ RightChild(s).t = s.t /\ RightChild(s).at = s.t[s.at].right /\ RightChild(s).ok
    BY <1>1, <1>4, ChildCalls
  <1>8. new \notin L /\ new \notin R
    BY <1>1, <1>3 DEF Nodes
  <1>9. Begun(LeftChild(s), L, dl, q, new) /\ Begun(RightChild(s), R, dr, q, new)
    BY <1>4, <1>7, <1>8 DEF Begun
  <1>10. Entering(C, s, L, R, dl, dr, q, key, new)
    BY <1>1, <1>3, Zenon DEF Entering
  <1>11. Branches(C, s, X, d, L, R, dl, dr, q, key, new)
    BY <1>3, <1>5, <1>6, <1>9, <1>10, Zenon DEF Branches
  <1> QED  BY <1>11, Zenon

\* insert adds the node new to any tree that is not too deep for the calls.
LEMMA InsertOutcome ==
  ASSUME NEW C, NEW key \in Int, NEW new \in Address, Calls(C, key, new)
  PROVE  \A n \in Nat : \A s, X, d : Begun(s, X, d, FALSE, new) /\ d < n => Outcome(s, C[n][s], X, key, new)
  <1> DEFINE Good(n) == \A s, X, d : Begun(s, X, d, FALSE, new) /\ d < n => Outcome(s, C[n][s], X, key, new)
             S == {n \in Nat : Good(n)}
  <1>0. C \in [Nat -> [AvlCalls -> AvlCalls]] /\ \A n \in Nat : \A s \in AvlCalls : C[n + 1][s] = Inserted(C[n], s, key, new)
    BY Zenon DEF Calls
  <1>1. 0 \in S
    <2>1. \A s, X, d : Begun(s, X, d, FALSE, new) => d \in Nat
      BY DEF Begun, Tree
    <2>2. \A d \in Nat : ~ (d < 0)
      OBVIOUS
    <2>3. Good(0)
      BY <2>1, <2>2, Zenon
    <2> HIDE DEF Good
    <2> QED  BY <2>3
  <1>2. ASSUME NEW n \in Nat, Good(n) PROVE Good(n + 1)
    <2> SUFFICES ASSUME NEW s, NEW X, NEW d, Begun(s, X, d, FALSE, new), d < n + 1
                 PROVE  Outcome(s, C[n + 1][s], X, key, new)
      OBVIOUS
    <2> DEFINE r == Inserted(C[n], s, key, new)
    <2>1. s \in AvlCalls /\ s.ok /\ s.t \in Heap /\ Tree(s.t, s.at, X, d, FALSE)
      BY CallFields DEF Begun
    <2>2. C[n + 1][s] = r /\ C[n] \in [AvlCalls -> AvlCalls]
      BY <1>0, <2>1
    <2>3. CASE s.at = Nil
      <3>1. X = {}
        BY <2>1, <2>3, TreeSplit, Zenon
      <3>2. /\ r \in AvlCalls /\ r.at = new /\ r.ok = s.ok /\ r.turned = s.turned
            /\ r.t[new] = newNode(key) /\ \A b \in Address : b # new => r.t[b] = s.t[b]
        <4>1. Fresh(s, r, key, new)
          BY <2>1, <2>3, NewNode, Zenon
        <4> QED  BY <4>1, Zenon DEF Fresh
      <3> HIDE DEF r
      <3>3. r.t \in Heap
        BY <3>2, CallFields
      <3>4. Tree(r.t, r.at, X \cup {new}, 1, FALSE)
        <4>1. Tree(r.t, new, {new}, 1, FALSE)
          BY <3>2, <3>3, NewTree
        <4>2. X \cup {new} = {new}
          BY <3>1
        <4> QED  BY <4>1, <4>2, <3>2
      <3>5. r.t[new].key = key
        BY <3>2 DEF newNode
      <3>6. Grown(s.t, r.t, X, key, new)
        BY <3>2, <3>3, <3>5 DEF Grown
      <3> QED  BY <2>2, <3>2, <3>4, <3>6 DEF Outcome
    <2>4. CASE s.at # Nil
      <3>0. PICK L, R, dl, dr : Branches(C[n], s, X, d, L, R, dl, dr, FALSE, key, new)
        BY <2>2, <2>4, BegunParts, Zenon
      <3>1. /\ Entering(C[n], s, L, R, dl, dr, FALSE, key, new) /\ X = Nodes(s.at, L, R)
            /\ d = max(dl, dr) + 1
            /\ Measure(s.t, s.at, dl, dr, FALSE) /\ dl \in Nat /\ dr \in Nat /\ dl < d /\ dr < d
            /\ Begun(LeftChild(s), L, dl, FALSE, new) /\ Begun(RightChild(s), R, dr, FALSE, new)
        BY <3>0, Zenon DEF Branches
      <3>2. dl < n /\ dr < n
        <4>1. d \in Nat
          BY <2>1, Zenon DEF Tree
        <4> QED  BY <3>1, <4>1
      <3>3. Outcome(LeftChild(s), C[n][LeftChild(s)], L, key, new)
        BY <1>2, <3>1, <3>2, Zenon
      <3>4. Outcome(RightChild(s), C[n][RightChild(s)], R, key, new)
        BY <1>2, <3>1, <3>2, Zenon
      <3>5. Outcome(s, r, Nodes(s.at, L, R), key, new)
        BY <3>1, <3>3, <3>4, EnteredOutcome, Zenon
      <3> QED  BY <2>2, <3>1, <3>5, Zenon
    <2> QED  BY <2>3, <2>4
  <1> HIDE DEF Good
  <1>3. \A n \in Nat : n \in S => n + 1 \in S
    BY <1>2
  <1>4. \A n \in Nat : n \in S
    <2> HIDE DEF S
    <2> QED  BY <1>1, <1>3, AllNaturals
  <1> QED  BY <1>4, Zenon DEF Good

\* A node that is not below the root on the left is below it on the right.
LEMMA SomethingRight ==
  ASSUME NEW t \in Heap, NEW a, NEW X, NEW d, NEW q, Tree(t, a, X, d, q), NEW b \in X, t[b].key > t[a].key
  PROVE  t[a].right # Nil
  <1>1. X \in SUBSET Address /\ a \in Pointer /\ (a = Nil => X = {})
    BY TreeBounds
  <1>2. a # Nil /\ a \in Address /\ b \in Address
    BY <1>1, Addresses
  <1>3. Split(t, a, X, d, q)
    BY <1>2, TreeSplit, Zenon
  <1>4. PICK L, R, dl, dr : /\ Parts(t, a, L, R, dl, dr, q) /\ Measure(t, a, dl, dr, q)
                            /\ X = Nodes(a, L, R) /\ d = max(dl, dr) + 1
    BY <1>3, Zenon DEF Split
  <1>5. Tree(t, t[a].right, R, dr, q) /\ Apart(t, a, L, R)
    BY <1>4, Zenon DEF Parts
  <1>6. t[a].key \in Int /\ t[b].key \in Int
    BY <1>2, HeapNode
  <1>7. b # a /\ b \notin L
    BY <1>5, <1>6 DEF Apart
  <1>8. b \in R
    BY <1>4, <1>7 DEF Nodes
  <1>9. t[a].right = Nil => R = {}
    BY <1>5, TreeBounds
  <1> QED  BY <1>8, <1>9

\* The same on the other side.
LEMMA SomethingLeft ==
  ASSUME NEW t \in Heap, NEW a, NEW X, NEW d, NEW q, Tree(t, a, X, d, q), NEW b \in X, t[b].key < t[a].key
  PROVE  t[a].left # Nil
  <1>1. X \in SUBSET Address /\ a \in Pointer /\ (a = Nil => X = {})
    BY TreeBounds
  <1>2. a # Nil /\ a \in Address /\ b \in Address
    BY <1>1, Addresses
  <1>3. Split(t, a, X, d, q)
    BY <1>2, TreeSplit, Zenon
  <1>4. PICK L, R, dl, dr : /\ Parts(t, a, L, R, dl, dr, q) /\ Measure(t, a, dl, dr, q)
                            /\ X = Nodes(a, L, R) /\ d = max(dl, dr) + 1
    BY <1>3, Zenon DEF Split
  <1>5. Tree(t, t[a].left, L, dl, q) /\ Apart(t, a, L, R)
    BY <1>4, Zenon DEF Parts
  <1>6. t[a].key \in Int /\ t[b].key \in Int
    BY <1>2, HeapNode
  <1>7. b # a /\ b \notin R
    BY <1>5, <1>6 DEF Apart
  <1>8. b \in L
    BY <1>4, <1>7 DEF Nodes
  <1>9. t[a].left = Nil => L = {}
    BY <1>5, TreeBounds
  <1> QED  BY <1>8, <1>9

\* A node that has been inserted on one side is not misplaced, unless the other
\* side is too high.
LEMMA NotMisplaced ==
  ASSUME NEW s, NEW n, NEW L, NEW R, NEW dl, NEW dr, NEW q, Placed(s, n, L, R, dl, dr, q), NEW key \in Int, NEW new,
         s.t[new].key = key, (new \in L /\ -1 <= getBalance(s)) \/ (new \in R /\ getBalance(s) <= 1)
  PROVE  ~ Misplaced(s, n, key)
  <1>1. s.t \in Heap /\ Bounds(s.t, n, L, R, dl, dr, q) /\ n = s.at
    BY PlacedBounds, Zenon
  <1>2. /\ Tree(s.t, s.t[n].left, L, dl, q) /\ Tree(s.t, s.t[n].right, R, dr, q)
        /\ height(s.t, s.t[n].left) \in Nat /\ height(s.t, s.t[n].right) \in Nat
    BY <1>1, Zenon DEF Bounds
  <1>3. getBalance(s) \in Int
    BY <1>1, <1>2 DEF getBalance
  <1>4. CASE new \in L /\ -1 <= getBalance(s)
    <2>1. key > s.t[s.t[n].left].key => s.t[s.t[n].left].right # Nil
      BY <1>1, <1>2, <1>4, SomethingRight
    <2> QED  BY <1>3, <1>4, <2>1 DEF Misplaced
  <1>5. CASE new \in R /\ getBalance(s) <= 1
    <2>1. key < s.t[s.t[n].right].key => s.t[s.t[n].right].left # Nil
      BY <1>1, <1>2, <1>5, SomethingLeft
    <2> QED  BY <1>3, <1>5, <2>1 DEF Misplaced
  <1> QED  BY <1>4, <1>5

\* The parts of a tree whose nodes are the same in another memory.
LEMMA PartsFrame ==
  ASSUME NEW t \in Heap, NEW u \in Heap, NEW n, NEW L, NEW R, NEW dl, NEW dr, NEW q, Parts(t, n, L, R, dl, dr, q),
         \A b \in Nodes(n, L, R) : u[b] = t[b]
  PROVE  Parts(u, n, L, R, dl, dr, q)
  <1>1. n \in Address /\ Tree(t, t[n].left, L, dl, q) /\ Tree(t, t[n].right, R, dr, q) /\ Apart(t, n, L, R)
    BY Zenon DEF Parts
  <1>2. u[n] = t[n] /\ (\A b \in L : u[b] = t[b]) /\ (\A b \in R : u[b] = t[b])
    BY DEF Nodes
  <1>3. Tree(u, t[n].left, L, dl, q)
    BY <1>1, <1>2, TreeFrame, Zenon
  <1>4. Tree(u, t[n].right, R, dr, q)
    BY <1>1, <1>2, TreeFrame, Zenon
  <1>5. Apart(u, n, L, R)
    BY <1>1, <1>2 DEF Apart
  <1> QED  BY <1>1, <1>2, <1>3, <1>4, <1>5 DEF Parts

\* A tree of depth e that is one deeper on its right.
RightHeavy(t, a, X, e) ==
  \E A, B, da, db : Parts(t, a, A, B, da, db, TRUE) /\ X = Nodes(a, A, B) /\ e = db + 1 /\ db = da + 1

\* A balanced tree X of depth e, which new has been added to: it is no more than
\* one deeper than the d it was, and then key has made one side the deeper one.
Deeper(t, a, X, d, e, key, new) ==
  /\ Tree(t, a, X, e, TRUE) /\ (e = d \/ e = d + 1) /\ (a = new => e = 1)
  /\ e = d + 1 /\ a # new /\ key > t[a].key => RightHeavy(t, a, X, e)

\* A call r of insert for a balanced tree follows no null pointer, and leaves a
\* balanced tree unless rightRotate is called.
Leveled(r, X, d, key, new) ==
  /\ r.ok /\ height(r.t, r.at) >= d
  /\ ~ r.turned => \E e : Deeper(r.t, r.at, X \cup {new}, d, e, key, new)

\* No node of X has the key.
Differs(t, X, key) == \A b \in X : t[b].key # key

\* The node new goes into a balanced tree that has not got its key.
Balanced(C, s, L, R, dl, dr, key, new) ==
  /\ Entering(C, s, L, R, dl, dr, TRUE, key, new) /\ dl \in Nat /\ dr \in Nat
  /\ dl <= dr + 1 /\ dr <= dl + 1 /\ Differs(s.t, Nodes(s.at, L, R), key)

\* It does so in any tree.
LEMMA EnteringWeaken ==
  ASSUME NEW C, NEW s, NEW L, NEW R, NEW dl, NEW dr, NEW key, NEW new, Entering(C, s, L, R, dl, dr, TRUE, key, new)
  PROVE  Entering(C, s, L, R, dl, dr, FALSE, key, new)
  <1>1. Parts(s.t, s.at, L, R, dl, dr, TRUE)
    BY Zenon DEF Entering
  <1>2. Tree(s.t, s.t[s.at].left, L, dl, FALSE) /\ Tree(s.t, s.t[s.at].right, R, dr, FALSE)
    BY <1>1, TreeWeaken, Zenon DEF Parts
  <1>3. Parts(s.t, s.at, L, R, dl, dr, FALSE)
    BY <1>1, <1>2, Zenon DEF Parts
  <1> QED  BY <1>3, Zenon DEF Entering

\* What follows when no null pointer has been followed and the node has a height.
LEMMA SettledHeight ==
  ASSUME NEW D, NEW r, NEW n, NEW X, Settled(D, r, n, X), r.ok, NEW d \in Nat, NEW g, g = height(D.t, D.t[n].left), g \in Nat,
         D.t[n].height \in Nat, D.t[n].height >= d, g + 2 >= d
  PROVE  height(r.t, r.at) >= d
  <1>1. r \in AvlCalls /\ r.at \in Address /\ (r.t[r.at].height >= D.t[n].height \/ r.t[r.at].height >= 2 + g)
    BY DEF Settled
  <1>2. r.t[r.at].height \in Nat /\ height(r.t, r.at) = r.t[r.at].height
    BY <1>1, CallFields, HeapNode, Addresses DEF height
  <1> QED  BY <1>1, <1>2

\* insert to the left.
LEMMA EnteredLeft ==
  ASSUME NEW C, NEW s, NEW L, NEW R, NEW dl, NEW dr, NEW key, NEW new, Balanced(C, s, L, R, dl, dr, key, new),
         key < s.t[s.at].key, Outcome(LeftChild(s), C[LeftChild(s)], L, key, new), Leveled(C[LeftChild(s)], L, dl, key, new)
  PROVE  Leveled(Inserted(C, s, key, new), Nodes(s.at, L, R), max(dl, dr) + 1, key, new)
  <1> DEFINE n == s.at
             X == Nodes(n, L, R)
             D == Descended(C, s, key)
             c == C[LeftChild(s)]
             r == Inserted(C, s, key, new)
             d == max(dl, dr) + 1
             g == height(c.t, c.at)
  <1>1. /\ Entering(C, s, L, R, dl, dr, TRUE, key, new) /\ dl \in Nat /\ dr \in Nat /\ dl <= dr + 1 /\ dr <= dl + 1
        /\ Differs(s.t, X, key) /\ Entering(C, s, L, R, dl, dr, FALSE, key, new)
    BY EnteringWeaken, Zenon DEF Balanced
  <1>2. /\ C \in [AvlCalls -> AvlCalls] /\ s \in AvlCalls /\ s.ok /\ Parts(s.t, n, L, R, dl, dr, TRUE)
        /\ key \in Int /\ new \in Address /\ new \notin X
    BY <1>1, Zenon DEF Entering
  <1>3. n \in Address /\ s.t \in Heap /\ n # Nil /\ s.t[n].key \in Int
    BY <1>2, CallFields, Addresses, HeapNode DEF Parts
  <1>4. LeftChild(s) \in AvlCalls /\ LeftChild(s).t = s.t /\ c \in AvlCalls
    BY <1>2, <1>3, ChildCalls
  <1>5. c.ok /\ g >= dl
    BY DEF Leveled
  <1>6. Grown(s.t, c.t, L, key, new) /\ c.at \in Address
    BY <1>4, <1>5 DEF Outcome
  <1>7. PICK e0 : Tree(c.t, c.at, L \cup {new}, e0, FALSE)
    BY <1>5, Zenon DEF Outcome
  <1>8. WentLeft(s, D, c, L, R, e0, dr, FALSE, key, new)
    <2>1. Added(s, c, L, e0, FALSE, key, new)
      BY <1>5, <1>6, <1>7, Zenon DEF Added
    <2> QED  BY <1>1, <2>1, DescendedLeft, Zenon
  <1>9. /\ D \in AvlCalls /\ D.ok /\ D.turned = c.turned /\ Placed(D, n, L \cup {new}, R, e0, dr, FALSE)
        /\ Grown(s.t, D.t, X, key, new) /\ D.t[n].left = c.at /\ D.t[n].right = s.t[n].right
        /\ height(D.t, c.at) = g /\ height(D.t, s.t[n].right) = height(s.t, s.t[n].right)
    BY <1>8, Zenon DEF WentLeft, WithLeft
  <1>10. height(s.t, s.t[n].right) = dr
    <2>1. Bounds(s.t, n, L, R, dl, dr, TRUE)
      BY <1>2, <1>3, PartsBounds, Zenon
    <2> QED  BY <2>1 DEF Bounds
  <1>11. r = Rebalanced(D, key)
    BY <1>3, <1>9 DEF Inserted
  <1>12. Nodes(n, L \cup {new}, R) = X \cup {new} /\ new \in L \cup {new} /\ n \in X /\ L \subseteq X
    BY DEF Nodes
  <1>13. g \in Nat /\ d \in Nat
    BY <1>1, <1>4, <1>6, CallFields, HeightType, Addresses, MaxOf
  <1> HIDE DEF D, c, r, d, g, X
  <1>14. D.at = n /\ D.t \in Heap /\ D.t[n].height = max(height(D.t, D.t[n].left), height(D.t, D.t[n].right)) + 1
    BY <1>9, PlacedBounds, Zenon DEF Placed
  <1>15. getBalance(D) = g - dr /\ D.t[n].height = max(g, dr) + 1
    BY <1>9, <1>10, <1>14 DEF getBalance
  <1>16. D.t[new].key = key /\ \A b \in Address : b # new => D.t[b].key = s.t[b].key
    BY <1>9 DEF Grown
  <1>17. ~ Misplaced(D, n, key)
    <2>1. -1 <= getBalance(D)
      BY <1>1, <1>5, <1>13, <1>15
    <2> QED  BY <1>2, <1>9, <1>12, <1>16, <2>1, NotMisplaced
  <1>18. Settled(D, r, n, X \cup {new}) /\ (~ r.ok => Misplaced(D, n, key)) /\ Turns(D, r, n, key)
    <2>1. /\ Settled(D, Rebalanced(D, key), n, Nodes(n, L \cup {new}, R))
          /\ (~ Rebalanced(D, key).ok => Misplaced(D, n, key)) /\ Turns(D, Rebalanced(D, key), n, key)
      BY <1>2, <1>9, RebalancedSettles
    <2> QED  BY <1>11, <1>12, <2>1, Zenon
  <1>19. r.ok /\ r \in AvlCalls /\ (D.turned => r.turned)
    BY <1>17, <1>18, CallFields DEF Settled
  <1>20. height(r.t, r.at) >= d
    <2>1. D.t[n].height >= d /\ g + 2 >= d /\ D.t[n].height \in Nat
      BY <1>1, <1>5, <1>13, <1>15 DEF d, max
    <2> QED  BY <1>9, <1>13, <1>18, <1>19, <2>1, SettledHeight
  <1>21. ASSUME ~ r.turned PROVE \E e : Deeper(r.t, r.at, X \cup {new}, d, e, key, new)
    <2>1. ~ c.turned
      BY <1>9, <1>19, <1>21
    <2>2. PICK e : Deeper(c.t, c.at, L \cup {new}, dl, e, key, new)
      BY <2>1, Zenon DEF Leveled, c
    <2>3. Tree(c.t, c.at, L \cup {new}, e, TRUE) /\ (e = dl \/ e = dl + 1) /\ (c.at = new => e = 1)
      BY <2>2, Zenon DEF Deeper
    <2>4. Added(s, c, L, e, TRUE, key, new)
      BY <1>5, <1>6, <2>3, Zenon DEF Added
    <2>5. WentLeft(s, D, c, L, R, e, dr, TRUE, key, new)
      BY <1>1, <2>4, DescendedLeft, Zenon DEF c, D
    <2>6. Placed(D, n, L \cup {new}, R, e, dr, TRUE)
      BY <2>5, Zenon DEF WentLeft, WithLeft
    <2>7. g = e /\ e \in Nat
      <3>1. c.t \in Heap
        BY <1>4, CallFields
      <3> QED  BY <2>3, <3>1, TreeBounds DEF g
    <2>8. getBalance(D) <= 1
      <3>1. SUFFICES ASSUME getBalance(D) > 1 PROVE FALSE
        BY <1>1, <1>13, <1>15
      <3>2. c.at # new
        BY <1>1, <1>15, <2>3, <2>7, <3>1
      <3>3. c.at \in L
        <4>1. c.at \in L \cup {new}
          <5>1. c.t \in Heap /\ c.at # Nil
            BY <1>4, <1>6, CallFields, Addresses
          <5> QED  BY <2>3, <5>1, TreeBounds
        <4> QED  BY <3>2, <4>1
      <3>4. D.t[c.at].key # key
        BY <1>1, <1>6, <1>12, <1>16, <3>2, <3>3 DEF Differs
      <3>5. r.turned
        BY <1>9, <1>17, <1>18, <3>1, <3>4 DEF Turns
      <3> QED  BY <1>21, <3>5
    <2>9. -1 <= getBalance(D)
      BY <1>1, <1>5, <1>13, <1>15
    <2>10. r = D
      BY <1>18, <2>8, <2>9 DEF Turns
    <2>11. Measure(D.t, n, e, dr, TRUE)
      BY <1>1, <1>15, <2>7, <2>8, <2>9 DEF Measure, max
    <2>12. Tree(D.t, n, X \cup {new}, max(e, dr) + 1, TRUE)
      <3>1. Parts(D.t, n, L \cup {new}, R, e, dr, TRUE)
        BY <2>6, Zenon DEF Placed
      <3>2. Tree(D.t, n, Nodes(n, L \cup {new}, R), max(e, dr) + 1, TRUE)
        BY <2>11, <3>1, TreeJoin, Zenon
      <3> QED  BY <1>12, <3>2, Zenon
    <2>13. max(e, dr) + 1 = d \/ max(e, dr) + 1 = d + 1
      BY <1>1, <2>3 DEF d, max
    <2>14. n # new /\ ~ (key > D.t[n].key)
      BY <1>2, <1>3, <1>12, <1>16
    <2>15. Deeper(r.t, r.at, X \cup {new}, d, max(e, dr) + 1, key, new)
      BY <1>14, <2>10, <2>12, <2>13, <2>14, Zenon DEF Deeper
    <2> QED  BY <2>15, Zenon
  <1>22. Leveled(r, X, d, key, new)
    BY <1>19, <1>20, <1>21, Zenon DEF Leveled
  <1> QED  BY <1>22 DEF r, X, d

\* insert to the right.
LEMMA EnteredRight ==
  ASSUME NEW C, NEW s, NEW L, NEW R, NEW dl, NEW dr, NEW key, NEW new, Balanced(C, s, L, R, dl, dr, key, new),
         ~ (key < s.t[s.at].key), Outcome(RightChild(s), C[RightChild(s)], R, key, new), Leveled(C[RightChild(s)], R, dr, key, new)
  PROVE  Leveled(Inserted(C, s, key, new), Nodes(s.at, L, R), max(dl, dr) + 1, key, new)
  <1> DEFINE n == s.at
             X == Nodes(n, L, R)
             D == Descended(C, s, key)
             c == C[RightChild(s)]
             r == Inserted(C, s, key, new)
             d == max(dl, dr) + 1
             g == height(c.t, c.at)
  <1>1. /\ Entering(C, s, L, R, dl, dr, TRUE, key, new) /\ dl \in Nat /\ dr \in Nat /\ dl <= dr + 1 /\ dr <= dl + 1
        /\ Differs(s.t, X, key) /\ Entering(C, s, L, R, dl, dr, FALSE, key, new)
    BY EnteringWeaken, Zenon DEF Balanced
  <1>2. /\ C \in [AvlCalls -> AvlCalls] /\ s \in AvlCalls /\ s.ok /\ Parts(s.t, n, L, R, dl, dr, TRUE)
        /\ key \in Int /\ new \in Address /\ new \notin X
    BY <1>1, Zenon DEF Entering
  <1>3. n \in Address /\ s.t \in Heap /\ n # Nil /\ s.t[n].key \in Int
    BY <1>2, CallFields, Addresses, HeapNode DEF Parts
  <1>4. RightChild(s) \in AvlCalls /\ RightChild(s).t = s.t /\ c \in AvlCalls
    BY <1>2, <1>3, ChildCalls
  <1>5. c.ok /\ g >= dr
    BY DEF Leveled
  <1>6. Grown(s.t, c.t, R, key, new) /\ c.at \in Address
    BY <1>4, <1>5 DEF Outcome
  <1>7. PICK e0 : Tree(c.t, c.at, R \cup {new}, e0, FALSE)
    BY <1>5, Zenon DEF Outcome
  <1>8. WentRight(s, D, c, L, R, dl, e0, FALSE, key, new)
    <2>1. Added(s, c, R, e0, FALSE, key, new)
      BY <1>5, <1>6, <1>7, Zenon DEF Added
    <2> QED  BY <1>1, <2>1, DescendedRight, Zenon
  <1>9. /\ D \in AvlCalls /\ D.ok /\ D.turned = c.turned /\ Placed(D, n, L, R \cup {new}, dl, e0, FALSE)
        /\ Grown(s.t, D.t, X, key, new) /\ D.t[n].right = c.at /\ D.t[n].left = s.t[n].left /\ Kept(c.t, D.t, {n})
        /\ height(D.t, c.at) = g /\ height(D.t, s.t[n].left) = height(s.t, s.t[n].left)
    BY <1>8, Zenon DEF WentRight, WithRight
  <1>10. height(s.t, s.t[n].left) = dl
    <2>1. Bounds(s.t, n, L, R, dl, dr, TRUE)
      BY <1>2, <1>3, PartsBounds, Zenon
    <2> QED  BY <2>1 DEF Bounds
  <1>11. r = Rebalanced(D, key)
    BY <1>3, <1>9 DEF Inserted
  <1>12. Nodes(n, L, R \cup {new}) = X \cup {new} /\ new \in R \cup {new} /\ n \in X /\ R \subseteq X
    BY DEF Nodes
  <1>13. g \in Nat /\ d \in Nat
    BY <1>1, <1>4, <1>6, CallFields, HeightType, Addresses, MaxOf
  <1> HIDE DEF D, c, r, d, g, X
  <1>14. D.at = n /\ D.t \in Heap /\ D.t[n].height = max(height(D.t, D.t[n].left), height(D.t, D.t[n].right)) + 1
    BY <1>9, PlacedBounds, Zenon DEF Placed
  <1>15. getBalance(D) = dl - g /\ D.t[n].height = max(dl, g) + 1
    BY <1>9, <1>10, <1>14 DEF getBalance
  <1>16. D.t[new].key = key /\ \A b \in Address : b # new => D.t[b].key = s.t[b].key
    BY <1>9 DEF Grown
  <1>17. ~ Misplaced(D, n, key)
    <2>1. getBalance(D) <= 1
      BY <1>1, <1>5, <1>13, <1>15
    <2> QED  BY <1>2, <1>9, <1>12, <1>16, <2>1, NotMisplaced
  <1>18. Settled(D, r, n, X \cup {new}) /\ (~ r.ok => Misplaced(D, n, key)) /\ Turns(D, r, n, key)
    <2>1. /\ Settled(D, Rebalanced(D, key), n, Nodes(n, L, R \cup {new}))
          /\ (~ Rebalanced(D, key).ok => Misplaced(D, n, key)) /\ Turns(D, Rebalanced(D, key), n, key)
      BY <1>2, <1>9, RebalancedSettles
    <2> QED  BY <1>11, <1>12, <2>1, Zenon
  <1>19. r.ok /\ r \in AvlCalls /\ (D.turned => r.turned)
    BY <1>17, <1>18, CallFields DEF Settled
  <1>20. height(r.t, r.at) >= d
    <2>1. D.t[n].height >= d /\ dl + 2 >= d /\ D.t[n].height \in Nat
      BY <1>1, <1>5, <1>13, <1>15 DEF d, max
    <2> QED  BY <1>1, <1>9, <1>10, <1>13, <1>18, <1>19, <2>1, SettledHeight
  <1>21. ASSUME ~ r.turned PROVE \E e : Deeper(r.t, r.at, X \cup {new}, d, e, key, new)
    <2>1. ~ c.turned
      BY <1>9, <1>19, <1>21
    <2>2. PICK e : Deeper(c.t, c.at, R \cup {new}, dr, e, key, new)
      BY <2>1, Zenon DEF Leveled, c
    <2>3. Tree(c.t, c.at, R \cup {new}, e, TRUE) /\ (e = dr \/ e = dr + 1) /\ (c.at = new => e = 1)
      BY <2>2, Zenon DEF Deeper
    <2>4. Added(s, c, R, e, TRUE, key, new)
      BY <1>5, <1>6, <2>3, Zenon DEF Added
    <2>5. WentRight(s, D, c, L, R, dl, e, TRUE, key, new)
      BY <1>1, <2>4, DescendedRight, Zenon DEF c, D
    <2>6. Placed(D, n, L, R \cup {new}, dl, e, TRUE)
      BY <2>5, Zenon DEF WentRight, WithRight
    <2>7. g = e /\ e \in Nat
      <3>1. c.t \in Heap
        BY <1>4, CallFields
      <3> QED  BY <2>3, <3>1, TreeBounds DEF g
    <2>8. getBalance(D) <= 1 /\ getBalance(D) \in Int
      BY <1>1, <1>5, <1>13, <1>15
    <2>9. Parts(D.t, n, L, R \cup {new}, dl, e, TRUE) /\ n # new
      BY <1>2, <1>12, <2>6, Zenon DEF Placed
    <2>10. CASE -1 <= getBalance(D)
      <3>1. r = D
        BY <1>18, <2>8, <2>10 DEF Turns
      <3>2. Measure(D.t, n, dl, e, TRUE)
        BY <1>1, <1>15, <2>7, <2>8, <2>10 DEF Measure, max
      <3>3. Tree(D.t, n, X \cup {new}, max(dl, e) + 1, TRUE)
        <4>1. Tree(D.t, n, Nodes(n, L, R \cup {new}), max(dl, e) + 1, TRUE)
          BY <2>9, <3>2, TreeJoin, Zenon
        <4> QED  BY <1>12, <4>1, Zenon
      <3>4. max(dl, e) + 1 = d \/ max(dl, e) + 1 = d + 1
        BY <1>1, <2>3 DEF d, max
      <3>5. ASSUME max(dl, e) + 1 = d + 1 PROVE RightHeavy(D.t, n, X \cup {new}, max(dl, e) + 1)
        <4>1. max(dl, e) + 1 = e + 1 /\ e = dl + 1
          BY <1>1, <1>15, <2>3, <2>7, <2>10, <3>5 DEF d, max
        <4> QED  BY <1>12, <2>9, <4>1, Zenon DEF RightHeavy
      <3>6. Deeper(r.t, r.at, X \cup {new}, d, max(dl, e) + 1, key, new)
        BY <1>14, <2>9, <3>1, <3>3, <3>4, <3>5, Zenon DEF Deeper
      <3> QED  BY <3>6, Zenon
    <2>11. CASE getBalance(D) < -1
      <3>1. e = dl + 2 /\ dr = dl + 1 /\ e = dr + 1
        BY <1>1, <1>15, <2>3, <2>7, <2>11
      <3>2. c.at # new
        BY <1>1, <2>3, <3>1
      <3>3. c.at \in R
        <4>1. c.t \in Heap /\ c.at # Nil
          BY <1>4, <1>6, CallFields, Addresses
        <4>2. c.at \in R \cup {new}
          BY <2>3, <4>1, TreeBounds
        <4> QED  BY <3>2, <4>2
      <3>4. D.t[c.at].key # key /\ D.t[c.at].key \in Int /\ D.t[c.at] = c.t[c.at]
        <4>1. D.t[c.at].key # key
          BY <1>1, <1>6, <1>12, <1>16, <3>2, <3>3 DEF Differs
        <4>2. c.at # n
          <5>1. n \notin R
            BY <1>2, Zenon DEF Parts, Apart
          <5> QED  BY <3>3, <5>1
        <4> QED  BY <1>6, <1>9, <1>14, <4>1, <4>2, HeapNode DEF Kept
      <3>5. key > D.t[c.at].key
        <4>1. ~ (key < D.t[c.at].key)
          BY <1>9, <1>17, <1>18, <1>21, <2>11 DEF Turns
        <4> QED  BY <1>2, <3>4, <4>1
      <3>6. r = leftRotate(D)
        BY <1>9, <1>18, <2>11, <3>5 DEF Turns
      <3>7. RightHeavy(c.t, c.at, R \cup {new}, e)
        BY <2>2, <3>1, <3>2, <3>4, <3>5 DEF Deeper
      <3>8. PICK A, B, da, db : /\ Parts(c.t, c.at, A, B, da, db, TRUE) /\ R \cup {new} = Nodes(c.at, A, B)
                                /\ e = db + 1 /\ db = da + 1
        BY <3>7, Zenon DEF RightHeavy
      <3>9. da \in Nat /\ db \in Nat
        BY <3>8, Zenon DEF Parts, Tree
      <3>10. da = dl /\ db = dl + 1 /\ max(dl, da) = dl
        BY <1>1, <3>1, <3>8, <3>9 DEF max
      <3>11. Parts(D.t, c.at, A, B, da, db, TRUE)
        <4>1. R \cup {new} \subseteq Address /\ n \notin R \cup {new}
          BY <1>2, <2>9 DEF Parts, Apart, Tree
        <4>2. \A b \in Nodes(c.at, A, B) : D.t[b] = c.t[b]
          BY <1>9, <3>8, <4>1 DEF Kept
        <4>3. c.t \in Heap
          BY <1>4, CallFields
        <4> QED  BY <1>14, <3>8, <4>2, <4>3, PartsFrame, Zenon
      <3>12. ReadyLeft(D, L, R \cup {new}, A, B, dl, e, da, db, TRUE)
        <4>1. dl <= da + 1 /\ da <= dl + 1 /\ max(dl, da) <= db /\ db <= max(dl, da) + 2
          BY <1>1, <3>10
        <4> QED  BY <1>9, <1>14, <2>9, <3>8, <3>11, <4>1, Zenon DEF ReadyLeft
      <3>13. r.at = c.at /\ LeftTree(D, r, n, L, A, B, R \cup {new}, dl, da, db, TRUE)
        <4>1. leftRotate(D).at = D.t[D.at].right /\ LeftTree(D, leftRotate(D), D.at, L, A, B, R \cup {new}, dl, da, db, TRUE)
          BY <3>12, LeftRotated, Zenon
        <4> QED  BY <1>9, <1>14, <3>6, <4>1, Zenon
      <3>14. /\ Parts(r.t, r.at, Nodes(n, L, A), B, max(dl, da) + 1, db, TRUE) /\ Measure(r.t, r.at, max(dl, da) + 1, db, TRUE)
             /\ Nodes(r.at, Nodes(n, L, A), B) = X \cup {new}
        BY <1>12, <3>13, Zenon DEF LeftTree
      <3>15. Tree(r.t, r.at, X \cup {new}, max(max(dl, da) + 1, db) + 1, TRUE)
        <4>1. Tree(r.t, r.at, Nodes(r.at, Nodes(n, L, A), B), max(max(dl, da) + 1, db) + 1, TRUE)
          BY <3>14, TreeJoin, Zenon
        <4> QED  BY <3>14, <4>1, Zenon
      <3>16. max(max(dl, da) + 1, db) + 1 = d
        BY <1>1, <3>1, <3>10 DEF d, max
      <3>17. Tree(r.t, r.at, X \cup {new}, d, TRUE) /\ d # d + 1
        <4>1. Tree(r.t, r.at, X \cup {new}, d, TRUE)
          BY <3>15, <3>16, Zenon
        <4>2. d # d + 1
          BY <1>13
        <4> QED  BY <4>1, <4>2, Zenon
      <3>18. Deeper(r.t, r.at, X \cup {new}, d, d, key, new)
        BY <3>2, <3>13, <3>17, Zenon DEF Deeper
      <3> QED  BY <3>18, Zenon
    <2> QED  BY <2>8, <2>10, <2>11
  <1>22. Leveled(r, X, d, key, new)
    BY <1>19, <1>20, <1>21, Zenon DEF Leveled
  <1> QED  BY <1>22 DEF r, X, d

\* insert keeps a tree of different keys balanced until rightRotate is called.
LEMMA InsertExact ==
  ASSUME NEW C, NEW key \in Int, NEW new \in Address, Calls(C, key, new)
  PROVE  \A n \in Nat : \A s, X, d : Begun(s, X, d, TRUE, new) /\ Differs(s.t, X, key) /\ d < n => Leveled(C[n][s], X, d, key, new)
  <1> DEFINE Good(n) == \A s, X, d : Begun(s, X, d, TRUE, new) /\ Differs(s.t, X, key) /\ d < n => Leveled(C[n][s], X, d, key, new)
             S == {n \in Nat : Good(n)}
  <1>0. C \in [Nat -> [AvlCalls -> AvlCalls]] /\ \A n \in Nat : \A s \in AvlCalls : C[n + 1][s] = Inserted(C[n], s, key, new)
    BY Zenon DEF Calls
  <1>1. 0 \in S
    <2>1. \A s, X, d : Begun(s, X, d, TRUE, new) => d \in Nat
      BY DEF Begun, Tree
    <2>2. \A d \in Nat : ~ (d < 0)
      OBVIOUS
    <2>3. Good(0)
      BY <2>1, <2>2, Zenon
    <2> HIDE DEF Good
    <2> QED  BY <2>3
  <1>2. ASSUME NEW n \in Nat, Good(n) PROVE Good(n + 1)
    <2> SUFFICES ASSUME NEW s, NEW X, NEW d, Begun(s, X, d, TRUE, new), Differs(s.t, X, key), d < n + 1
                 PROVE  Leveled(C[n + 1][s], X, d, key, new)
      OBVIOUS
    <2> DEFINE r == Inserted(C[n], s, key, new)
    <2>1. s \in AvlCalls /\ s.ok /\ s.t \in Heap /\ Tree(s.t, s.at, X, d, TRUE) /\ new \notin X
      BY CallFields DEF Begun
    <2>2. C[n + 1][s] = r /\ C[n] \in [AvlCalls -> AvlCalls]
      BY <1>0, <2>1
    <2>3. CASE s.at = Nil
      <3>1. X = {} /\ d = 0
        BY <2>1, <2>3, TreeBounds
      <3>2. /\ r \in AvlCalls /\ r.at = new /\ r.ok = s.ok /\ r.turned = s.turned
            /\ r.t[new] = newNode(key) /\ \A b \in Address : b # new => r.t[b] = s.t[b]
        <4>1. Fresh(s, r, key, new)
          BY <2>1, <2>3, NewNode, Zenon
        <4> QED  BY <4>1, Zenon DEF Fresh
      <3> HIDE DEF r
      <3>3. r.t \in Heap
        BY <3>2, CallFields
      <3>4. Tree(r.t, r.at, X \cup {new}, 1, TRUE)
        <4>1. Tree(r.t, new, {new}, 1, TRUE)
          BY <3>2, <3>3, NewTree
        <4>2. X \cup {new} = {new}
          BY <3>1
        <4> QED  BY <4>1, <4>2, <3>2
      <3>5. height(r.t, r.at) >= d
        <4>1. height(r.t, r.at) >= 1 /\ height(r.t, r.at) \in Nat
          BY <3>3, <3>4, TreeBounds, Zenon
        <4> QED  BY <3>1, <4>1
      <3>6. 1 = d + 1
        BY <3>1
      <3>7. Deeper(r.t, r.at, X \cup {new}, d, 1, key, new)
        BY <3>2, <3>4, <3>6, Zenon DEF Deeper
      <3> QED  BY <2>1, <2>2, <3>2, <3>5, <3>7, Zenon DEF Leveled
    <2>4. CASE s.at # Nil
      <3>0. PICK L, R, dl, dr : Branches(C[n], s, X, d, L, R, dl, dr, TRUE, key, new)
        BY <2>2, <2>4, BegunParts, Zenon
      <3>1. /\ Entering(C[n], s, L, R, dl, dr, TRUE, key, new) /\ X = Nodes(s.at, L, R)
            /\ d = max(dl, dr) + 1
            /\ Measure(s.t, s.at, dl, dr, TRUE) /\ dl \in Nat /\ dr \in Nat /\ dl < d /\ dr < d
            /\ Begun(LeftChild(s), L, dl, TRUE, new) /\ Begun(RightChild(s), R, dr, TRUE, new)
        BY <3>0, Zenon DEF Branches
      <3>2. dl < n /\ dr < n
        <4>1. d \in Nat
          BY <2>1, Zenon DEF Tree
        <4> QED  BY <3>1, <4>1
      <3>3. dl <= dr + 1 /\ dr <= dl + 1
        BY <3>1 DEF Measure
      <3>4. Balanced(C[n], s, L, R, dl, dr, key, new)
        BY <3>1, <3>3, Zenon DEF Balanced
      <3>5. s.at \in Address /\ LeftChild(s).t = s.t /\ RightChild(s).t = s.t
        <4>1. s.at \in Address
          BY <3>1, Zenon DEF Entering, Parts
        <4> QED  BY <2>1, <4>1, ChildCalls
      <3>6. Differs(s.t, L, key) /\ Differs(s.t, R, key)
        BY <3>1 DEF Differs, Nodes
      <3>7. Begun(LeftChild(s), L, dl, FALSE, new) /\ Begun(RightChild(s), R, dr, FALSE, new)
        BY <3>1, TreeWeaken, Zenon DEF Begun
      <3>8. CASE key < s.t[s.at].key
        <4>1. Outcome(LeftChild(s), C[n][LeftChild(s)], L, key, new)
          BY <3>2, <3>7, InsertOutcome, Zenon
        <4>2. Differs(LeftChild(s).t, L, key)
          BY <3>5, <3>6, Zenon
        <4>3. Leveled(C[n][LeftChild(s)], L, dl, key, new)
          BY <1>2, <3>1, <3>2, <4>2, Zenon
        <4>4. Leveled(r, Nodes(s.at, L, R), max(dl, dr) + 1, key, new)
          BY <3>4, <3>8, <4>1, <4>3, EnteredLeft, Zenon
        <4> QED  BY <2>2, <3>1, <4>4, Zenon
      <3>9. CASE ~ (key < s.t[s.at].key)
        <4>1. Outcome(RightChild(s), C[n][RightChild(s)], R, key, new)
          BY <3>2, <3>7, InsertOutcome, Zenon
        <4>2. Differs(RightChild(s).t, R, key)
          BY <3>5, <3>6, Zenon
        <4>3. Leveled(C[n][RightChild(s)], R, dr, key, new)
          BY <1>2, <3>1, <3>2, <4>2, Zenon
        <4>4. Leveled(r, Nodes(s.at, L, R), max(dl, dr) + 1, key, new)
          BY <3>4, <3>9, <4>1, <4>3, EnteredRight, Zenon
        <4> QED  BY <2>2, <3>1, <4>4, Zenon
      <3> QED  BY <3>8, <3>9
    <2> QED  BY <2>3, <2>4
  <1> HIDE DEF Good
  <1>3. \A n \in Nat : n \in S => n + 1 \in S
    BY <1>2
  <1>4. \A n \in Nat : n \in S
    <2> HIDE DEF S
    <2> QED  BY <1>1, <1>3, AllNaturals
  <1> QED  BY <1>4, Zenon DEF Good

\* insert makes these calls.
LEMMA InsertMakesCalls ==
  ASSUME NEW s, NEW key \in Int, NEW new \in Address
  PROVE  \E C : Calls(C, key, new) /\ AvlInsert(s, key, new) = C[AvlNodes + 1][s]
  <1> DEFINE C == CHOOSE D : InsertCalls(key, new, D)
  <1>1. Calls(C, key, new)
    <2>1. /\ C \in [Nat -> [AvlCalls -> AvlCalls]]
          /\ \A n \in Nat : \A c \in AvlCalls : C[n + 1][c] = Inserted(C[n], c, key, new)
      BY InsertCallsValues
    <2> HIDE DEF C
    <2> QED  BY <2>1, Zenon DEF Calls
  <1>2. AvlInsert(s, key, new) = C[AvlNodes + 1][s]
    BY Zenon DEF AvlInsert, InsertCalls
  <1> QED  BY <1>1, <1>2, Zenon

\* insert adds the node new to the tree X.
LEMMA InsertGrows ==
  ASSUME NEW s, NEW X, NEW d, NEW key \in Int, NEW new \in Address, Begun(s, X, d, FALSE, new), Cardinality(X) <= AvlNodes
  PROVE  Outcome(s, AvlInsert(s, key, new), X, key, new)
  <1>1. PICK C : Calls(C, key, new) /\ AvlInsert(s, key, new) = C[AvlNodes + 1][s]
    BY InsertMakesCalls, Zenon
  <1>2. d < AvlNodes + 1 /\ AvlNodes + 1 \in Nat
    <2>1. s.t \in Heap /\ Tree(s.t, s.at, X, d, FALSE)
      BY CallFields DEF Begun
    <2>2. d <= Cardinality(X) /\ d \in Nat /\ Cardinality(X) \in Nat
      BY <2>1, TreeSize, TreeBounds
    <2> QED  BY <2>2, AvlAssumption
  <1>3. Outcome(s, C[AvlNodes + 1][s], X, key, new)
    BY <1>1, <1>2, InsertOutcome, Zenon
  <1> QED  BY <1>1, <1>3, Zenon

\* It follows no null pointer in a balanced tree that has not got the key.
LEMMA InsertBalances ==
  ASSUME NEW s, NEW X, NEW d, NEW key \in Int, NEW new \in Address, Begun(s, X, d, TRUE, new), Differs(s.t, X, key),
         Cardinality(X) <= AvlNodes
  PROVE  Leveled(AvlInsert(s, key, new), X, d, key, new)
  <1>1. PICK C : Calls(C, key, new) /\ AvlInsert(s, key, new) = C[AvlNodes + 1][s]
    BY InsertMakesCalls, Zenon
  <1>2. d < AvlNodes + 1 /\ AvlNodes + 1 \in Nat
    <2>1. s.t \in Heap /\ Tree(s.t, s.at, X, d, TRUE)
      BY CallFields DEF Begun
    <2>2. d <= Cardinality(X) /\ d \in Nat /\ Cardinality(X) \in Nat
      BY <2>1, TreeSize, TreeBounds
    <2> QED  BY <2>2, AvlAssumption
  <1>3. Leveled(C[AvlNodes + 1][s], X, d, key, new)
    BY <1>1, <1>2, InsertExact, Zenon
  <1> QED  BY <1>1, <1>3, Zenon


-----------------------------------------------------------------------------
(* What is measured of a tree, and what is printed.                        *)

\* C[n][a] are the nodes below a on its first n levels.
BelowCalls(t, C) ==
  C = [n \in Nat |-> IF n = 0 THEN [a \in Pointer |-> {}]
        ELSE [a \in Pointer |-> IF a = Nil THEN {} ELSE {a} \cup C[n - 1][t[a].left] \cup C[n - 1][t[a].right]]]

\* C[n][a] is the depth of a, as far as its first n levels go.
DepthCalls(t, C) ==
  C = [n \in Nat |-> IF n = 0 THEN [a \in Pointer |-> 0]
        ELSE [a \in Pointer |-> IF a = Nil THEN 0 ELSE max(C[n - 1][t[a].left], C[n - 1][t[a].right]) + 1]]

\* C[n][a] is what the call of preOrder for a prints on its first n levels.
PrintCalls(t, C) ==
  C = [n \in Nat |-> IF n = 0 THEN [a \in Pointer |-> <<>>]
        ELSE [a \in Pointer |-> IF a = Nil THEN <<>>
                ELSE <<t[a].key>> \o C[n - 1][t[a].left] \o C[n - 1][t[a].right]]]

\* The number of levels left.
LEMMA Levels ==
  ASSUME NEW n \in Nat, NEW dl \in Nat, NEW dr \in Nat, max(dl, dr) + 1 <= n
  PROVE  n # 0 /\ n - 1 \in Nat /\ dl <= n - 1 /\ dr <= n - 1
  BY DEF max

\* Below finds the nodes of a tree.
LEMMA BelowTree ==
  ASSUME NEW t \in Heap, NEW root, NEW X, NEW d, NEW q, Tree(t, root, X, d, q), d <= AvlNodes
  PROVE  Below(t, root) = X
  <1> DEFINE Y == [Pointer -> SUBSET Address]
             G(f) == [a \in Pointer |-> IF a = Nil THEN {} ELSE {a} \cup f[t[a].left] \cup f[t[a].right]]
             F == [f \in Y |-> G(f)]
             x == [a \in Pointer |-> {}]
             C == CHOOSE D : BelowCalls(t, D)
  <1>1. \A f \in Y : G(f) \in Y
    BY HeapNode, Addresses
  <1>2. x \in Y
    OBVIOUS
  <1>3. \A D : BelowCalls(t, D) <=> D = [n \in Nat |-> IF n = 0 THEN x ELSE G(D[n - 1])]
    BY DEF BelowCalls
  <1>4. Below(t, root) = C[AvlNodes][root]
    BY Zenon DEF Below, BelowCalls
  <1>5. \A f : \A a \in Pointer : G(f)[a] = IF a = Nil THEN {} ELSE {a} \cup f[t[a].left] \cup f[t[a].right]
    OBVIOUS
  <1>6. \A a \in Pointer : x[a] = {}
    OBVIOUS
  <1> HIDE DEF G, x
  <1>7. F \in [Y -> Y] /\ \A f \in Y : F[f] = G(f)
    BY <1>1
  <1> HIDE DEF F, Y
  <1>8. \E D : BelowCalls(t, D)
    <2>1. PICK D \in [Nat -> Y] : Recursion(F, x, D)
      BY <1>2, <1>7, RecursionExists
    <2>2. \A n \in Nat : n # 0 => F[D[n - 1]] = G(D[n - 1])
      BY <1>7
    <2>3. D = [n \in Nat |-> IF n = 0 THEN x ELSE G(D[n - 1])]
      BY <2>1, <2>2 DEF Recursion
    <2> QED  BY <1>3, <2>3
  <1>9. BelowCalls(t, C)
    BY <1>8, Zenon
  <1> HIDE DEF C
  <1>10. C[0] = x /\ \A n \in Nat : n # 0 => C[n] = G(C[n - 1])
    <2>1. C = [n \in Nat |-> IF n = 0 THEN x ELSE G(C[n - 1])]
      BY <1>3, <1>9
    <2> QED  BY <2>1
  <1> DEFINE Good(a, Z, e) == \A n \in Nat : e <= n => C[n][a] = Z
             K == {p \in Shapes : Good(p[1], p[2], p[3])}
  <1>11. \A a, Z, e : <<a, Z, e>> \in K <=> <<a, Z, e>> \in Shapes /\ Good(a, Z, e)
    OBVIOUS
  <1>12. K \in SUBSET Shapes
    OBVIOUS
  <1> HIDE DEF K
  <1>13. Closed(t, q, K)
    <2>1. <<Nil, {}, 0>> \in K
      <3>1. Good(Nil, {}, 0)
        BY <1>5, <1>6, <1>10, Addresses
      <3> HIDE DEF Good
      <3>2. <<Nil, {}, 0>> \in Shapes
        BY Addresses DEF Shapes
      <3> QED  BY <1>11, <3>1, <3>2, Zenon
    <2>2. ASSUME NEW n \in Address, NEW L \in SUBSET Address, NEW R \in SUBSET Address, NEW dl \in Nat, NEW dr \in Nat,
                 <<t[n].left, L, dl>> \in K, <<t[n].right, R, dr>> \in K, Apart(t, n, L, R), Measure(t, n, dl, dr, q)
          PROVE  <<n, Nodes(n, L, R), max(dl, dr) + 1>> \in K
      <3>1. <<n, Nodes(n, L, R), max(dl, dr) + 1>> \in Shapes
        <4>1. n \in Pointer /\ Nodes(n, L, R) \in SUBSET Address /\ max(dl, dr) + 1 \in Nat
          BY MaxOf, Addresses DEF Nodes
        <4> QED  BY <4>1, Zenon DEF Shapes
      <3> HIDE DEF Good
      <3>2. Good(t[n].left, L, dl) /\ Good(t[n].right, R, dr)
        BY <1>11, <2>2, Zenon
      <3>3. ASSUME NEW m \in Nat, max(dl, dr) + 1 <= m PROVE C[m][n] = Nodes(n, L, R)
        <4>1. m # 0 /\ m - 1 \in Nat /\ dl <= m - 1 /\ dr <= m - 1
          BY <3>3, Levels
        <4>2. C[m - 1][t[n].left] = L /\ C[m - 1][t[n].right] = R
          BY <3>2, <4>1 DEF Good
        <4>3. C[m] = G(C[m - 1])
          BY <1>10, <4>1
        <4>4. C[m][n] = {n} \cup C[m - 1][t[n].left] \cup C[m - 1][t[n].right]
          <5>1. n \in Pointer /\ n # Nil
            BY Addresses
          <5> QED  BY <1>5, <4>3, <5>1, Zenon
        <4> QED  BY <4>2, <4>4 DEF Nodes
      <3>4. Good(n, Nodes(n, L, R), max(dl, dr) + 1)
        BY <3>3 DEF Good
      <3> QED  BY <1>11, <3>1, <3>4, Zenon
    <2> QED  BY <2>1, <2>2, Zenon DEF Closed
  <1>14. <<root, X, d>> \in K
    BY <1>12, <1>13, TreeInduction, Zenon
  <1> QED  BY <1>4, <1>11, <1>14, AvlAssumption

\* Depth finds how deep it is.
LEMMA DepthTree ==
  ASSUME NEW t \in Heap, NEW root, NEW X, NEW d, NEW q, Tree(t, root, X, d, q), d <= AvlNodes
  PROVE  Depth(t, root) = d
  <1> DEFINE Y == [Pointer -> Nat]
             G(f) == [a \in Pointer |-> IF a = Nil THEN 0 ELSE max(f[t[a].left], f[t[a].right]) + 1]
             F == [f \in Y |-> G(f)]
             x == [a \in Pointer |-> 0]
             C == CHOOSE D : DepthCalls(t, D)
  <1>1. \A f \in Y : G(f) \in Y
    BY HeapNode, Addresses, MaxOf
  <1>2. x \in Y
    OBVIOUS
  <1>3. \A D : DepthCalls(t, D) <=> D = [n \in Nat |-> IF n = 0 THEN x ELSE G(D[n - 1])]
    BY DEF DepthCalls
  <1>4. Depth(t, root) = C[AvlNodes][root]
    BY Zenon DEF Depth, DepthCalls
  <1>5. \A f : \A a \in Pointer : G(f)[a] = IF a = Nil THEN 0 ELSE max(f[t[a].left], f[t[a].right]) + 1
    OBVIOUS
  <1>6. \A a \in Pointer : x[a] = 0
    OBVIOUS
  <1> HIDE DEF G, x
  <1>7. F \in [Y -> Y] /\ \A f \in Y : F[f] = G(f)
    BY <1>1
  <1> HIDE DEF F, Y
  <1>8. \E D : DepthCalls(t, D)
    <2>1. PICK D \in [Nat -> Y] : Recursion(F, x, D)
      BY <1>2, <1>7, RecursionExists
    <2>2. \A n \in Nat : n # 0 => F[D[n - 1]] = G(D[n - 1])
      BY <1>7
    <2>3. D = [n \in Nat |-> IF n = 0 THEN x ELSE G(D[n - 1])]
      BY <2>1, <2>2 DEF Recursion
    <2> QED  BY <1>3, <2>3
  <1>9. DepthCalls(t, C)
    BY <1>8, Zenon
  <1> HIDE DEF C
  <1>10. C[0] = x /\ \A n \in Nat : n # 0 => C[n] = G(C[n - 1])
    <2>1. C = [n \in Nat |-> IF n = 0 THEN x ELSE G(C[n - 1])]
      BY <1>3, <1>9
    <2> QED  BY <2>1
  <1> DEFINE Good(a, Z, e) == \A n \in Nat : e <= n => C[n][a] = e
             K == {p \in Shapes : Good(p[1], p[2], p[3])}
  <1>11. \A a, Z, e : <<a, Z, e>> \in K <=> <<a, Z, e>> \in Shapes /\ Good(a, Z, e)
    OBVIOUS
  <1>12. K \in SUBSET Shapes
    OBVIOUS
  <1> HIDE DEF K
  <1>13. Closed(t, q, K)
    <2>1. <<Nil, {}, 0>> \in K
      <3>1. Good(Nil, {}, 0)
        BY <1>5, <1>6, <1>10, Addresses
      <3> HIDE DEF Good
      <3>2. <<Nil, {}, 0>> \in Shapes
        BY Addresses DEF Shapes
      <3> QED  BY <1>11, <3>1, <3>2, Zenon
    <2>2. ASSUME NEW n \in Address, NEW L \in SUBSET Address, NEW R \in SUBSET Address, NEW dl \in Nat, NEW dr \in Nat,
                 <<t[n].left, L, dl>> \in K, <<t[n].right, R, dr>> \in K, Apart(t, n, L, R), Measure(t, n, dl, dr, q)
          PROVE  <<n, Nodes(n, L, R), max(dl, dr) + 1>> \in K
      <3>1. <<n, Nodes(n, L, R), max(dl, dr) + 1>> \in Shapes
        <4>1. n \in Pointer /\ Nodes(n, L, R) \in SUBSET Address /\ max(dl, dr) + 1 \in Nat
          BY MaxOf, Addresses DEF Nodes
        <4> QED  BY <4>1, Zenon DEF Shapes
      <3> HIDE DEF Good
      <3>2. Good(t[n].left, L, dl) /\ Good(t[n].right, R, dr)
        BY <1>11, <2>2, Zenon
      <3>3. ASSUME NEW m \in Nat, max(dl, dr) + 1 <= m PROVE C[m][n] = max(dl, dr) + 1
        <4>1. m # 0 /\ m - 1 \in Nat /\ dl <= m - 1 /\ dr <= m - 1
          BY <3>3, Levels
        <4>2. C[m - 1][t[n].left] = dl /\ C[m - 1][t[n].right] = dr
          BY <3>2, <4>1 DEF Good
        <4>3. C[m] = G(C[m - 1])
          BY <1>10, <4>1
        <4>4. C[m][n] = max(C[m - 1][t[n].left], C[m - 1][t[n].right]) + 1
          BY <1>5, <4>3, Addresses
        <4> QED  BY <4>2, <4>4
      <3>4. Good(n, Nodes(n, L, R), max(dl, dr) + 1)
        BY <3>3 DEF Good
      <3> QED  BY <1>11, <3>1, <3>4, Zenon
    <2> QED  BY <2>1, <2>2, Zenon DEF Closed
  <1>14. <<root, X, d>> \in K
    BY <1>12, <1>13, TreeInduction, Zenon
  <1> QED  BY <1>4, <1>11, <1>14, AvlAssumption

\* How many nodes of X have a key in V.
KeyCount(t, X, V) == Cardinality({b \in X : t[b].key \in V})

\* Those of a tree are its root and those of its subtrees.
LEMMA KeysSize ==
  ASSUME NEW t, NEW n \in Address, NEW L \in SUBSET Address, NEW R \in SUBSET Address, Apart(t, n, L, R), NEW V
  PROVE  KeyCount(t, Nodes(n, L, R), V) = (IF t[n].key \in V THEN 1 ELSE 0) + KeyCount(t, L, V) + KeyCount(t, R, V)
  <1> DEFINE LV == {b \in L : t[b].key \in V}
             RV == {b \in R : t[b].key \in V}
             XV == {b \in Nodes(n, L, R) : t[b].key \in V}
  <1>1. LV \in SUBSET Address /\ RV \in SUBSET Address /\ n \notin LV /\ n \notin RV /\ LV \cap RV = {}
    BY DEF Apart
  <1>2. t[n].key \in V => XV = Nodes(n, LV, RV)
    BY DEF Nodes
  <1>3. t[n].key \notin V => XV = Nodes(n, LV, RV) \ {n}
    BY <1>1 DEF Nodes
  <1> HIDE DEF LV, RV, XV
  <1>4. Cardinality(Nodes(n, LV, RV)) = Cardinality(LV) + Cardinality(RV) + 1
    BY <1>1, NodesSize
  <1>5. Cardinality(LV) \in Nat /\ Cardinality(RV) \in Nat
    BY <1>1, Addresses
  <1>6. IsFiniteSet(Nodes(n, LV, RV)) /\ n \in Nodes(n, LV, RV)
    <2>1. Nodes(n, LV, RV) \in SUBSET Address /\ n \in Nodes(n, LV, RV)
      BY <1>1, Zenon DEF Nodes
    <2> QED  BY <2>1, Addresses
  <1>7. Cardinality(Nodes(n, LV, RV) \ {n}) = Cardinality(Nodes(n, LV, RV)) - 1
    BY <1>6, FS_RemoveElement
  <1>8. CASE t[n].key \in V
    <2>1. Cardinality(XV) = 1 + Cardinality(LV) + Cardinality(RV)
      BY <1>2, <1>4, <1>5, <1>8
    <2> QED  BY <1>8, <2>1 DEF LV, RV, XV, KeyCount
  <1>9. CASE t[n].key \notin V
    <2>1. Cardinality(XV) = 0 + Cardinality(LV) + Cardinality(RV)
      <3>1. Cardinality(XV) = Cardinality(Nodes(n, LV, RV)) - 1
        BY <1>3, <1>7, <1>9, Zenon
      <3> QED  BY <1>4, <1>5, <3>1
    <2> QED  BY <1>9, <2>1 DEF LV, RV, XV, KeyCount
  <1> QED  BY <1>8, <1>9

\* s has the key of each node of X once.
Prints(t, s, X) == s \in Seq(Int) /\ \A V : Within(s, V) = KeyCount(t, X, V)

\* preOrder of a node prints its key and its subtrees.
LEMMA PrintsNode ==
  ASSUME NEW t \in Heap, NEW n \in Address, NEW L \in SUBSET Address, NEW R \in SUBSET Address, Apart(t, n, L, R),
         NEW u, NEW v, Prints(t, u, L), Prints(t, v, R)
  PROVE  Prints(t, <<t[n].key>> \o u \o v, Nodes(n, L, R))
  <1> DEFINE k == <<t[n].key>>
  <1>1. u \in Seq(Int) /\ v \in Seq(Int)
    BY DEF Prints
  <1>2. t[n].key \in Int
    BY HeapNode
  <1>3. k \in Seq(Int)
    BY <1>2
  <1> HIDE DEF k
  <1>4. k \o u \in Seq(Int) /\ (k \o u) \o v \in Seq(Int)
    BY <1>1, <1>3
  <1>5. ASSUME NEW V PROVE Within((k \o u) \o v, V) = KeyCount(t, Nodes(n, L, R), V)
    <2>1. Within((k \o u) \o v, V) = Within(k \o u, V) + Within(v, V)
      BY <1>1, <1>4, WithinConcat, ZenonT(40)
    <2>2. Within(k \o u, V) = Within(k, V) + Within(u, V)
      BY <1>1, <1>3, WithinConcat
    <2>3. Within(k, V) = IF t[n].key \in V THEN 1 ELSE 0
      BY WithinOne DEF k
    <2>4. Within(u, V) = KeyCount(t, L, V) /\ Within(v, V) = KeyCount(t, R, V)
      BY Zenon DEF Prints
    <2>5. KeyCount(t, Nodes(n, L, R), V) = (IF t[n].key \in V THEN 1 ELSE 0) + KeyCount(t, L, V) + KeyCount(t, R, V)
      BY KeysSize
    <2> QED  BY <2>1, <2>2, <2>3, <2>4, <2>5
  <1>6. Prints(t, (k \o u) \o v, Nodes(n, L, R))
    BY <1>4, <1>5, Zenon DEF Prints
  <1> QED  BY <1>6 DEF k

\* Nothing is printed of the empty tree.
LEMMA PrintsEmpty ==
  ASSUME NEW t
  PROVE  Prints(t, <<>>, {})
  <1>1. <<>> \in Seq(Int) /\ Len(<<>>) = 0
    OBVIOUS
  <1>2. ASSUME NEW V PROVE Within(<<>>, V) = KeyCount(t, {}, V)
    <2>1. Places(<<>>, V) = {} /\ {b \in {} : t[b].key \in V} = {}
      BY <1>1 DEF Places
    <2> QED  BY <2>1, Zenon DEF Within, KeyCount
  <1> QED  BY <1>1, <1>2 DEF Prints

\* preOrder prints each node of a tree once.
LEMMA PrintTree ==
  ASSUME NEW t \in Heap, NEW root, NEW X, NEW d, NEW q, Tree(t, root, X, d, q), d <= AvlNodes
  PROVE  Prints(t, preOrder(t, root), X)
  <1> DEFINE Y == [Pointer -> Seq(Int)]
             G(f) == [a \in Pointer |-> IF a = Nil THEN <<>> ELSE <<t[a].key>> \o f[t[a].left] \o f[t[a].right]]
             F == [f \in Y |-> G(f)]
             x == [a \in Pointer |-> <<>>]
             C == CHOOSE D : PrintCalls(t, D)
  <1>1. \A f \in Y : G(f) \in Y
    BY HeapNode, Addresses
  <1>2. x \in Y
    OBVIOUS
  <1>3. \A D : PrintCalls(t, D) <=> D = [n \in Nat |-> IF n = 0 THEN x ELSE G(D[n - 1])]
    BY DEF PrintCalls
  <1>4. preOrder(t, root) = C[AvlNodes][root]
    BY Zenon DEF preOrder, PrintCalls
  <1>5. \A f : \A a \in Pointer : G(f)[a] = IF a = Nil THEN <<>> ELSE <<t[a].key>> \o f[t[a].left] \o f[t[a].right]
    OBVIOUS
  <1>6. \A a \in Pointer : x[a] = <<>>
    OBVIOUS
  <1> HIDE DEF G, x
  <1>7. F \in [Y -> Y] /\ \A f \in Y : F[f] = G(f)
    BY <1>1
  <1> HIDE DEF F, Y
  <1>8. \E D : PrintCalls(t, D)
    <2>1. PICK D \in [Nat -> Y] : Recursion(F, x, D)
      BY <1>2, <1>7, RecursionExists
    <2>2. \A n \in Nat : n # 0 => F[D[n - 1]] = G(D[n - 1])
      BY <1>7
    <2>3. D = [n \in Nat |-> IF n = 0 THEN x ELSE G(D[n - 1])]
      BY <2>1, <2>2 DEF Recursion
    <2> QED  BY <1>3, <2>3
  <1>9. PrintCalls(t, C)
    BY <1>8, Zenon
  <1> HIDE DEF C
  <1>10. C[0] = x /\ \A n \in Nat : n # 0 => C[n] = G(C[n - 1])
    <2>1. C = [n \in Nat |-> IF n = 0 THEN x ELSE G(C[n - 1])]
      BY <1>3, <1>9
    <2> QED  BY <2>1
  <1> DEFINE Good(a, Z, e) == \A n \in Nat : e <= n => Prints(t, C[n][a], Z)
             K == {p \in Shapes : Good(p[1], p[2], p[3])}
  <1>11. \A a, Z, e : <<a, Z, e>> \in K <=> <<a, Z, e>> \in Shapes /\ Good(a, Z, e)
    OBVIOUS
  <1>12. K \in SUBSET Shapes
    OBVIOUS
  <1> HIDE DEF K
  <1>13. Closed(t, q, K)
    <2>1. <<Nil, {}, 0>> \in K
      <3>1. Good(Nil, {}, 0)
        <4>1. ASSUME NEW n \in Nat PROVE C[n][Nil] = <<>>
          <5>1. Nil \in Pointer
            BY Addresses
          <5>2. CASE n = 0
            BY <1>6, <1>10, <5>1, <5>2, Zenon
          <5>3. CASE n # 0
            BY <1>5, <1>10, <5>1, <5>3, Zenon
          <5> QED  BY <5>2, <5>3
        <4> QED  BY <4>1, PrintsEmpty
      <3> HIDE DEF Good
      <3>2. <<Nil, {}, 0>> \in Shapes
        BY Addresses DEF Shapes
      <3> QED  BY <1>11, <3>1, <3>2, Zenon
    <2>2. ASSUME NEW n \in Address, NEW L \in SUBSET Address, NEW R \in SUBSET Address, NEW dl \in Nat, NEW dr \in Nat,
                 <<t[n].left, L, dl>> \in K, <<t[n].right, R, dr>> \in K, Apart(t, n, L, R), Measure(t, n, dl, dr, q)
          PROVE  <<n, Nodes(n, L, R), max(dl, dr) + 1>> \in K
      <3>1. <<n, Nodes(n, L, R), max(dl, dr) + 1>> \in Shapes
        <4>1. n \in Pointer /\ Nodes(n, L, R) \in SUBSET Address /\ max(dl, dr) + 1 \in Nat
          BY MaxOf, Addresses DEF Nodes
        <4> QED  BY <4>1, Zenon DEF Shapes
      <3> HIDE DEF Good
      <3>2. Good(t[n].left, L, dl) /\ Good(t[n].right, R, dr)
        BY <1>11, <2>2, Zenon
      <3>3. ASSUME NEW m \in Nat, max(dl, dr) + 1 <= m PROVE Prints(t, C[m][n], Nodes(n, L, R))
        <4>1. m # 0 /\ m - 1 \in Nat /\ dl <= m - 1 /\ dr <= m - 1
          BY <3>3, Levels
        <4>2. Prints(t, C[m - 1][t[n].left], L) /\ Prints(t, C[m - 1][t[n].right], R)
          BY <3>2, <4>1 DEF Good
        <4>3. C[m] = G(C[m - 1])
          BY <1>10, <4>1
        <4>4. C[m][n] = <<t[n].key>> \o C[m - 1][t[n].left] \o C[m - 1][t[n].right]
          <5>1. n \in Pointer /\ n # Nil
            BY Addresses
          <5> QED  BY <1>5, <4>3, <5>1, Zenon
        <4> QED  BY <2>2, <4>2, <4>4, PrintsNode, Zenon
      <3>4. Good(n, Nodes(n, L, R), max(dl, dr) + 1)
        BY <3>3 DEF Good
      <3> QED  BY <1>11, <3>1, <3>4, Zenon
    <2> QED  BY <2>1, <2>2, Zenon DEF Closed
  <1>14. <<root, X, d>> \in K
    BY <1>12, <1>13, TreeInduction, Zenon
  <1> QED  BY <1>4, <1>11, <1>14, AvlAssumption


-----------------------------------------------------------------------------
(* The invariant.                                                          *)

\* The tree of the record v: one node for each insertion, balanced with exact
\* heights as long as the keys are different and rightRotate has not been called.
Holding(v) ==
  /\ \E d : Tree(v.t, v.root, Created(v.given), d, FALSE)
  /\ Distinct(v.given) /\ ~ v.turned => \E d : Tree(v.t, v.root, Created(v.given), d, TRUE)
  /\ \A a \in Created(v.given) : v.t[a].key = a[1]

\* The inductive invariant of the record v: its types, at most AvlNodes insertions, a
\* tree as long as no null pointer was followed, and none followed as long as the keys
\* are different and no rightRotate came before the last insertion.
AvlKept(v) ==
  /\ v.t \in Heap /\ v.root \in Pointer /\ v.ok \in BOOLEAN /\ v.turned \in BOOLEAN
  /\ v.given \in [AvlKeys -> Nat] /\ (\A k \in AvlKeys : v.given[k] <= AvlNodes)
  /\ Cardinality(Created(v.given)) <= AvlNodes
  /\ v.ok => Holding(v)
  /\ Distinct(v.given) /\ ~ v.earlier => v.ok

\* The nodes with one key.
LEMMA CreatedKey ==
  ASSUME NEW given \in [AvlKeys -> Nat], \A k \in AvlKeys : given[k] <= AvlNodes, NEW key \in AvlKeys
  PROVE  /\ {a \in Created(given) : a[1] = key} = {key} \X (1 .. given[key])
         /\ IsFiniteSet({a \in Created(given) : a[1] = key}) /\ Cardinality({a \in Created(given) : a[1] = key}) = given[key]
  <1>1. {a \in Created(given) : a[1] = key} = {key} \X (1 .. given[key])
    <2>1. ASSUME NEW a \in Created(given), a[1] = key PROVE a \in {key} \X (1 .. given[key])
      BY <2>1, AvlAssumption DEF Created, Address
    <2>2. ASSUME NEW a \in {key} \X (1 .. given[key]) PROVE a \in Created(given) /\ a[1] = key
      BY <2>2, AvlAssumption DEF Created, Address
    <2> QED  BY <2>1, <2>2
  <1>2. IsFiniteSet(1 .. given[key]) /\ Cardinality(1 .. given[key]) = given[key] /\ given[key] \in Nat
    BY CountTo
  <1>3. IsFiniteSet({key}) /\ Cardinality({key}) = 1
    BY FS_Singleton
  <1>4. IsFiniteSet({key} \X (1 .. given[key])) /\ Cardinality({key} \X (1 .. given[key])) = 1 * given[key]
    BY <1>2, <1>3, FS_Product
  <1>5. 1 * given[key] = given[key]
    BY <1>2
  <1> QED  BY <1>1, <1>4, <1>5, Zenon

\* The next node of a key.
LEMMA CreatedNext ==
  ASSUME NEW given \in [AvlKeys -> Nat], \A k \in AvlKeys : given[k] <= AvlNodes, NEW key \in AvlKeys,
         Cardinality(Created(given)) < AvlNodes, NEW later, later = [given EXCEPT ![key] = @ + 1], NEW new, new = <<key, later[key]>>
  PROVE  /\ later \in [AvlKeys -> Nat] /\ (\A k \in AvlKeys : later[k] <= AvlNodes) /\ later[key] = given[key] + 1
         /\ new \in Address /\ new \notin Created(given) /\ Created(later) = Created(given) \cup {new}
         /\ Cardinality(Created(later)) = Cardinality(Created(given)) + 1
         /\ Created(given) \in SUBSET Address /\ Created(later) \in SUBSET Address
  <1>1. later \in [AvlKeys -> Nat] /\ later[key] = given[key] + 1 /\ \A k \in AvlKeys : k # key => later[k] = given[k]
    OBVIOUS
  <1>2. Created(given) \in SUBSET Address /\ Created(later) \in SUBSET Address
    BY DEF Created
  <1>3. IsFiniteSet(Created(given)) /\ Cardinality(Created(given)) \in Nat
    BY <1>2, Addresses
  <1>4. given[key] \in Nat /\ given[key] <= Cardinality(Created(given))
    <2>1. {a \in Created(given) : a[1] = key} \subseteq Created(given)
      OBVIOUS
    <2>2. Cardinality({a \in Created(given) : a[1] = key}) = given[key]
      BY CreatedKey
    <2>3. Cardinality({a \in Created(given) : a[1] = key}) <= Cardinality(Created(given))
      BY <1>3, <2>1, FS_Subset
    <2> QED  BY <2>2, <2>3
  <1>5. given[key] + 1 <= AvlNodes
    BY <1>3, <1>4, AvlAssumption
  <1>6. \A k \in AvlKeys : later[k] <= AvlNodes
    BY <1>1, <1>5
  <1>7. new \in Address /\ new[1] = key /\ new[2] = given[key] + 1
    BY <1>1, <1>4, <1>5, AvlAssumption DEF Address
  <1>8. new \notin Created(given)
    BY <1>4, <1>7 DEF Created
  <1>9. Created(later) = Created(given) \cup {new}
    <2>1. ASSUME NEW a \in Address PROVE a \in Created(later) <=> a \in Created(given) \cup {new}
      <3>1. a[1] \in AvlKeys /\ a[2] \in Nat /\ a = <<a[1], a[2]>>
        BY AvlAssumption DEF Address
      <3>2. a = new <=> a[1] = key /\ a[2] = given[key] + 1
        BY <1>1, <3>1
      <3>3. CASE a[1] = key
        BY <1>1, <1>4, <3>1, <3>2, <3>3 DEF Created
      <3>4. CASE a[1] # key
        BY <1>1, <3>1, <3>2, <3>4 DEF Created
      <3> QED  BY <3>3, <3>4
    <2> QED  BY <1>2, <1>7, <2>1
  <1>10. Cardinality(Created(later)) = Cardinality(Created(given)) + 1
    BY <1>3, <1>8, <1>9, FS_AddElement, ZenonT(40)
  <1> QED  BY <1>1, <1>2, <1>6, <1>7, <1>8, <1>9, <1>10

\* A key that has not been inserted is the key of no node.
LEMMA DistinctNext ==
  ASSUME NEW given \in [AvlKeys -> Nat], NEW key \in AvlKeys, NEW later, later = [given EXCEPT ![key] = @ + 1], Distinct(later), NEW t,
         \A a \in Created(given) : t[a].key = a[1]
  PROVE  Distinct(given) /\ Differs(t, Created(given), key)
  <1>1. later[key] = given[key] + 1 /\ (\A k \in AvlKeys : k # key => later[k] = given[k]) /\ \A k \in AvlKeys : given[k] \in Nat
    OBVIOUS
  <1>2. given[key] = 0
    BY <1>1 DEF Distinct
  <1>3. Distinct(given)
    BY <1>1, <1>2 DEF Distinct
  <1>4. ASSUME NEW a \in Created(given) PROVE t[a].key # key
    <2>1. a[2] >= 1 /\ a[2] \in Nat /\ a[2] <= given[a[1]]
      BY AvlAssumption DEF Created, Address
    <2>2. a[1] # key
      BY <1>2, <2>1
    <2> QED  BY <2>2
  <1> QED  BY <1>3, <1>4 DEF Differs

\* An insertion keeps all this.
LEMMA AvlInsertKeeps ==
  ASSUME NEW v, AvlKept(v), v.ok, NEW key \in AvlKeys, Cardinality(Created(v.given)) < AvlNodes,
         NEW later, later = [v.given EXCEPT ![key] = @ + 1],
         NEW s, s = AvlInsert([t |-> v.t, at |-> v.root, ok |-> TRUE, turned |-> v.turned], key, <<key, later[key]>>),
         NEW w, w = [t |-> s.t, root |-> s.at, ok |-> s.ok, given |-> later, turned |-> s.turned, earlier |-> v.turned]
  PROVE  AvlKept(w)
  <1> DEFINE c == [t |-> v.t, at |-> v.root, ok |-> TRUE, turned |-> v.turned]
             X == Created(v.given)
             new == <<key, later[key]>>
  <1>1. /\ v.t \in Heap /\ v.root \in Pointer /\ v.turned \in BOOLEAN
        /\ v.given \in [AvlKeys -> Nat] /\ (\A k \in AvlKeys : v.given[k] <= AvlNodes)
        /\ Holding(v)
    BY Zenon DEF AvlKept
  <1>2. /\ \E d : Tree(v.t, v.root, X, d, FALSE)
        /\ Distinct(v.given) /\ ~ v.turned => \E d : Tree(v.t, v.root, X, d, TRUE)
        /\ \A a \in X : v.t[a].key = a[1]
    BY <1>1, Zenon DEF Holding
  <1>3. /\ later \in [AvlKeys -> Nat] /\ (\A k \in AvlKeys : later[k] <= AvlNodes) /\ later[key] = v.given[key] + 1
        /\ new \in Address /\ new \notin X /\ Created(later) = X \cup {new}
        /\ Cardinality(Created(later)) = Cardinality(X) + 1
        /\ X \in SUBSET Address /\ Created(later) \in SUBSET Address
    BY <1>1, CreatedNext
  <1>4. Cardinality(X) \in Nat /\ Cardinality(X) <= AvlNodes /\ Cardinality(Created(later)) <= AvlNodes
    BY <1>3, Addresses, AvlAssumption
  <1>5. c \in AvlCalls /\ c.t = v.t /\ c.at = v.root /\ c.ok /\ c.turned = v.turned
    BY <1>1 DEF AvlCalls, Heap
  <1>6. s = AvlInsert(c, key, new) /\ key \in Int /\ new[1] = key
    BY AvlAssumption
  <1>7. w.t = s.t /\ w.root = s.at /\ w.ok = s.ok /\ w.given = later /\ w.turned = s.turned /\ w.earlier = v.turned
    OBVIOUS
  <1> HIDE DEF c, X, new
  <1>8. Outcome(c, s, X, key, new)
    <2>1. PICK d : Tree(v.t, v.root, X, d, FALSE)
      BY <1>2, Zenon
    <2>2. Begun(c, X, d, FALSE, new)
      BY <1>3, <1>5, <2>1, Zenon DEF Begun
    <2>3. Outcome(c, AvlInsert(c, key, new), X, key, new)
      BY <1>3, <1>4, <1>6, <2>2, InsertGrows, Zenon
    <2> QED  BY <1>6, <2>3, Zenon
  <1>9. s \in AvlCalls /\ (v.turned => s.turned)
    BY <1>5, <1>8, Zenon DEF Outcome
  <1>10. s.t \in Heap /\ s.at \in Pointer /\ s.ok \in BOOLEAN /\ s.turned \in BOOLEAN
    BY <1>9, CallFields
  <1>11. ASSUME Distinct(later), ~ v.turned
         PROVE  s.ok /\ (~ s.turned => \E d : Tree(s.t, s.at, X \cup {new}, d, TRUE))
    <2>1. Distinct(v.given) /\ Differs(v.t, X, key)
      BY <1>1, <1>2, <1>11, DistinctNext DEF X
    <2>2. PICK d : Tree(v.t, v.root, X, d, TRUE)
      BY <1>2, <1>11, <2>1, Zenon
    <2>3. Begun(c, X, d, TRUE, new) /\ Differs(c.t, X, key)
      BY <1>3, <1>5, <2>1, <2>2, Zenon DEF Begun
    <2>4. Leveled(AvlInsert(c, key, new), X, d, key, new)
      BY <1>3, <1>4, <1>6, <2>3, InsertBalances, Zenon
    <2>5. Leveled(s, X, d, key, new)
      BY <1>6, <2>4, Zenon
    <2> QED  BY <2>5, Zenon DEF Leveled, Deeper
  <1>12. ASSUME s.ok PROVE Holding(w)
    <2>1. Grown(v.t, s.t, X, key, new) /\ \E d : Tree(s.t, s.at, X \cup {new}, d, FALSE)
      BY <1>5, <1>8, <1>12, Zenon DEF Outcome
    <2>2. \A a \in X \cup {new} : s.t[a].key = a[1]
      <3>1. s.t[new].key = key /\ \A b \in Address : b # new => s.t[b].key = v.t[b].key
        BY <2>1, Zenon DEF Grown
      <3>2. \A a \in X : s.t[a].key = a[1]
        <4>1. \A a \in X : a \in Address /\ a # new
          BY <1>3
        <4> QED  BY <1>2, <3>1, <4>1, Zenon
      <3> QED  BY <1>6, <3>1, <3>2, Zenon
    <2>3. Distinct(later) /\ ~ s.turned => \E d : Tree(s.t, s.at, X \cup {new}, d, TRUE)
      BY <1>9, <1>11, Zenon
    <2>4. \E d : Tree(w.t, w.root, Created(w.given), d, FALSE)
      <3>1. PICK d : Tree(s.t, s.at, X \cup {new}, d, FALSE)
        BY <2>1, Zenon
      <3>2. Created(w.given) = X \cup {new}
        BY <1>3, <1>7, Zenon
      <3>3. Tree(w.t, w.root, Created(w.given), d, FALSE)
        BY <1>7, <3>1, <3>2
      <3> QED  BY <3>3, Zenon
    <2>5. Distinct(w.given) /\ ~ w.turned => \E d : Tree(w.t, w.root, Created(w.given), d, TRUE)
      <3>1. Created(w.given) = X \cup {new} /\ w.given = later /\ w.turned = s.turned /\ w.t = s.t /\ w.root = s.at
        BY <1>3, <1>7, Zenon
      <3> QED  BY <2>3, <3>1
    <2>6. \A a \in Created(w.given) : w.t[a].key = a[1]
      BY <1>3, <1>7, <2>2, Zenon
    <2> QED  BY <2>4, <2>5, <2>6, Zenon DEF Holding
  <1>13. Distinct(w.given) /\ ~ w.earlier => w.ok
    BY <1>7, <1>11, Zenon
  <1>14. w.ok => Holding(w)
    BY <1>7, <1>12, Zenon
  <1> QED  BY <1>3, <1>4, <1>7, <1>10, <1>13, <1>14, Zenon DEF AvlKept

\* A node of a tree: its subtrees and its height.
Checked(t, a, q) ==
  \E L, R, dl, dr : /\ Below(t, t[a].left) = L /\ Below(t, t[a].right) = R /\ Apart(t, a, L, R)
                    /\ Depth(t, t[a].left) = dl /\ Depth(t, t[a].right) = dr /\ Depth(t, a) = max(dl, dr) + 1
                    /\ dl \in Nat /\ dr \in Nat /\ Measure(t, a, dl, dr, q)

\* Every node of a tree is in its place and has its height.
LEMMA NodeChecked ==
  ASSUME NEW t \in Heap, NEW root, NEW X, NEW d, NEW q, Tree(t, root, X, d, q), Cardinality(X) <= AvlNodes, NEW a \in X
  PROVE  Checked(t, a, q)
  <1>1. IsFiniteSet(X) /\ X \in SUBSET Address /\ Cardinality(X) \in Nat
    BY TreeBounds, Zenon
  <1>2. PICK Y, e : Tree(t, a, Y, e, q) /\ Y \subseteq X
    BY TreeInner, Zenon
  <1>3. e \in Nat /\ e <= Cardinality(Y) /\ Cardinality(Y) \in Nat
    BY <1>2, TreeSize, TreeBounds
  <1>4. Cardinality(Y) <= Cardinality(X)
    BY <1>1, <1>2, FS_Subset
  <1>5. e <= AvlNodes
    BY <1>1, <1>3, <1>4, AvlAssumption
  <1>6. a # Nil
    BY <1>1, Addresses
  <1>7. Split(t, a, Y, e, q)
    BY <1>2, <1>6, TreeSplit, Zenon
  <1>8. PICK L, R, dl, dr : /\ Parts(t, a, L, R, dl, dr, q) /\ Measure(t, a, dl, dr, q)
                            /\ Y = Nodes(a, L, R) /\ e = max(dl, dr) + 1
    BY <1>7, Zenon DEF Split
  <1>9. Tree(t, t[a].left, L, dl, q) /\ Tree(t, t[a].right, R, dr, q) /\ Apart(t, a, L, R)
    BY <1>8, Zenon DEF Parts
  <1>10. dl \in Nat /\ dr \in Nat
    BY <1>9, Zenon DEF Tree
  <1>11. dl <= AvlNodes /\ dr <= AvlNodes
    BY <1>5, <1>8, <1>10, AvlAssumption DEF max
  <1>12. Below(t, t[a].left) = L /\ Below(t, t[a].right) = R
    BY <1>9, <1>11, BelowTree, Zenon
  <1>13. Depth(t, t[a].left) = dl /\ Depth(t, t[a].right) = dr
    BY <1>9, <1>11, DepthTree, Zenon
  <1>14. Depth(t, a) = e
    BY <1>2, <1>5, DepthTree, Zenon
  <1> QED  BY <1>8, <1>9, <1>10, <1>12, <1>13, <1>14, Zenon DEF Checked

\* The inductive invariant.
AvlIInv == structure = "AVL" /\ AvlKept(store)

\* It holds of the empty tree.
LEMMA AvlStart == AvlInit => AvlIInv
  <1> SUFFICES ASSUME AvlInit PROVE AvlIInv
    OBVIOUS
  <1>1. /\ structure = "AVL" /\ store.t = [a \in Address |-> newNode(0)] /\ store.root = Nil /\ store.ok = TRUE
        /\ store.given = [k \in AvlKeys |-> 0] /\ store.turned = FALSE /\ store.earlier = FALSE
    BY DEF AvlInit, Begin
  <1>2. newNode(0) \in node
    BY Addresses DEF newNode, node
  <1>3. store.t \in Heap /\ store.root \in Pointer
    BY <1>1, <1>2, Addresses DEF Heap
  <1>4. store.given \in [AvlKeys -> Nat] /\ \A k \in AvlKeys : store.given[k] = 0 /\ store.given[k] <= AvlNodes
    BY <1>1, AvlAssumption
  <1>5. Created(store.given) = {}
    <2>1. ASSUME NEW a \in Address PROVE ~ (a[2] <= store.given[a[1]])
      <3>1. a[1] \in AvlKeys /\ a[2] \in Nat /\ a[2] >= 1
        BY AvlAssumption DEF Address
      <3> QED  BY <1>4, <3>1
    <2> QED  BY <2>1 DEF Created
  <1>6. Cardinality(Created(store.given)) <= AvlNodes
    BY <1>5, FS_EmptySet, AvlAssumption
  <1>7. Tree(store.t, store.root, Created(store.given), 0, FALSE) /\ Tree(store.t, store.root, Created(store.given), 0, TRUE)
    <2>1. Tree(store.t, Nil, {}, 0, FALSE)
      BY EmptyTree, Zenon
    <2>2. Tree(store.t, Nil, {}, 0, TRUE)
      BY EmptyTree, Zenon
    <2> QED  BY <1>1, <1>5, <2>1, <2>2, Zenon
  <1>8. Holding(store)
    BY <1>5, <1>7, Zenon DEF Holding
  <1>9. store.ok \in BOOLEAN /\ store.turned \in BOOLEAN /\ store.ok
    BY <1>1
  <1>10. AvlKept(store)
    BY <1>3, <1>4, <1>6, <1>8, <1>9, Zenon DEF AvlKept
  <1> QED  BY <1>1, <1>10 DEF AvlIInv

\* Every insertion keeps it.
LEMMA AvlStep == AvlIInv /\ [AvlNext]_<<structure, store>> => AvlIInv'
  <1> SUFFICES ASSUME AvlIInv, [AvlNext]_<<structure, store>> PROVE AvlIInv'
    OBVIOUS
  <1>1. CASE UNCHANGED <<structure, store>>
    BY <1>1 DEF AvlIInv
  <1>2. CASE AvlNext
    <2>1. structure' = structure /\ store.ok /\ structure = "AVL" /\ AvlKept(store)
      BY <1>2 DEF AvlNext, AvlIInv
    <2>2. PICK key \in AvlKeys :
            LET given == [store.given EXCEPT ![key] = @ + 1]
                s == AvlInsert([t |-> store.t, at |-> store.root, ok |-> TRUE, turned |-> store.turned], key, <<key, given[key]>>)
            IN  /\ Cardinality(Created(store.given)) < AvlNodes
                /\ store' = [t |-> s.t, root |-> s.at, ok |-> s.ok, given |-> given, turned |-> s.turned, earlier |-> store.turned]
      BY <1>2, Zenon DEF AvlNext
    <2> DEFINE given == [store.given EXCEPT ![key] = @ + 1]
               s == AvlInsert([t |-> store.t, at |-> store.root, ok |-> TRUE, turned |-> store.turned], key, <<key, given[key]>>)
    <2>3. /\ Cardinality(Created(store.given)) < AvlNodes
          /\ store' = [t |-> s.t, root |-> s.at, ok |-> s.ok, given |-> given, turned |-> s.turned, earlier |-> store.turned]
      BY <2>2, Zenon
    <2>4. AvlKept(store')
      BY <2>1, <2>3, AvlInsertKeeps, Zenon
    <2> QED  BY <2>1, <2>4 DEF AvlIInv
  <1> QED  BY <1>1, <1>2

\* It says what the run checks.
LEMMA AvlImplies == AvlIInv => AvlInv
  <1> SUFFICES ASSUME AvlIInv PROVE AvlComplete /\ AvlNoFault /\ AvlBalance
    BY DEF AvlInv
  <1> DEFINE t == store.t
             X == Created(store.given)
  <1>1. /\ t \in Heap /\ store.given \in [AvlKeys -> Nat] /\ (\A k \in AvlKeys : store.given[k] <= AvlNodes)
        /\ Cardinality(X) <= AvlNodes /\ (store.ok => Holding(store)) /\ (Distinct(store.given) /\ ~ store.earlier => store.ok)
    BY Zenon DEF AvlIInv, AvlKept
  <1>2. AvlNoFault
    BY <1>1, Zenon DEF AvlNoFault
  <1>3. ASSUME store.ok
        PROVE  /\ \E d : Tree(t, store.root, X, d, FALSE)
               /\ Distinct(store.given) /\ ~ store.turned => \E d : Tree(t, store.root, X, d, TRUE)
               /\ \A a \in X : t[a].key = a[1]
    BY <1>1, <1>3, Zenon DEF Holding
  <1>4. ASSUME NEW q, NEW d, Tree(t, store.root, X, d, q), NEW a \in X PROVE Checked(t, a, q)
    BY <1>1, <1>4, NodeChecked, Zenon
  <1>5. ASSUME store.ok PROVE Below(t, store.root) = X /\ Prints(t, preOrder(t, store.root), X)
    <2>1. PICK d : Tree(t, store.root, X, d, FALSE)
      BY <1>3, <1>5, Zenon
    <2>2. d <= Cardinality(X) /\ d \in Nat /\ Cardinality(X) \in Nat
      BY <1>1, <2>1, TreeSize, TreeBounds
    <2>3. d <= AvlNodes
      BY <1>1, <2>2, AvlAssumption
    <2> QED  BY <1>1, <2>1, <2>3, BelowTree, PrintTree, Zenon
  <1>6. ASSUME store.ok, NEW a \in X
        PROVE  (\A b \in Below(t, t[a].left) : t[b].key <= t[a].key) /\ (\A b \in Below(t, t[a].right) : t[b].key >= t[a].key)
    <2>1. Checked(t, a, FALSE)
      BY <1>3, <1>4, <1>6, Zenon
    <2>2. Apart(t, a, Below(t, t[a].left), Below(t, t[a].right))
      BY <2>1, Zenon DEF Checked
    <2> QED  BY <2>2, Zenon DEF Apart
  <1>7. ASSUME store.ok PROVE Occurrences(AvlKeys, preOrder(t, store.root)) = store.given
    <2> DEFINE s == preOrder(t, store.root)
    <2>1. s \in Seq(Int) /\ \A V : Within(s, V) = KeyCount(t, X, V)
      BY <1>5, <1>7, Zenon DEF Prints
    <2> HIDE DEF s
    <2>2. ASSUME NEW k \in AvlKeys PROVE Cardinality({i \in DOMAIN s : s[i] = k}) = store.given[k]
      <3>1. {i \in DOMAIN s : s[i] = k} = Places(s, {k})
        BY <2>1 DEF Places
      <3>2. Within(s, {k}) = KeyCount(t, X, {k})
        BY <2>1, Zenon
      <3>3. {b \in X : t[b].key \in {k}} = {b \in X : b[1] = k}
        BY <1>3, <1>7
      <3>4. Cardinality({b \in X : b[1] = k}) = store.given[k]
        BY <1>1, CreatedKey
      <3> QED  BY <3>1, <3>2, <3>3, <3>4, Zenon DEF Within, KeyCount
    <2>3. [k \in AvlKeys |-> Cardinality({i \in DOMAIN s : s[i] = k})] = store.given
      BY <1>1, <2>2
    <2> QED  BY <2>3, Zenon DEF Occurrences, s
  <1>8. AvlComplete
    BY <1>3, <1>5, <1>6, <1>7, Zenon DEF AvlComplete
  <1>9. ASSUME store.ok, NEW a \in X
        PROVE  /\ t[a].height >= Depth(t, a)
               /\ Distinct(store.given) /\ ~ store.turned =>
                    /\ t[a].height = Depth(t, a)
                    /\ Depth(t, t[a].left) - Depth(t, t[a].right) \in -1 .. 1
    <2>1. Checked(t, a, FALSE)
      BY <1>3, <1>4, <1>9, Zenon
    <2>2. Distinct(store.given) /\ ~ store.turned => Checked(t, a, TRUE)
      BY <1>3, <1>4, <1>9, Zenon
    <2>3. t[a].height >= Depth(t, a)
      BY <2>1, Zenon DEF Checked, Measure
    <2>4. ASSUME Checked(t, a, TRUE)
          PROVE  t[a].height = Depth(t, a) /\ Depth(t, t[a].left) - Depth(t, t[a].right) \in -1 .. 1
      <3>1. PICK dl, dr : /\ Depth(t, t[a].left) = dl /\ Depth(t, t[a].right) = dr /\ Depth(t, a) = max(dl, dr) + 1
                          /\ dl \in Nat /\ dr \in Nat /\ Measure(t, a, dl, dr, TRUE)
        BY <2>4, Zenon DEF Checked
      <3>2. t[a].height = max(dl, dr) + 1 /\ dl <= dr + 1 /\ dr <= dl + 1
        BY <3>1, Zenon DEF Measure
      <3>3. dl - dr \in -1 .. 1
        BY <3>1, <3>2
      <3> QED  BY <3>1, <3>2, <3>3, Zenon
    <2> QED  BY <2>2, <2>3, <2>4, Zenon
  <1>10. AvlBalance
    BY <1>9, Zenon DEF AvlBalance
  <1> QED  BY <1>2, <1>8, <1>10

\* After every insertion the AVL tree has one node for each, in its place in the
\* order of the keys, and preOrder prints each of them; no stored height is below
\* the true one; insert follows no null pointer in a tree of different keys before
\* rightRotate has been called, and until then the tree is balanced and its
\* heights are exact.  For every set of keys and every number of nodes.
THEOREM AvlCorrect == AvlSpec => []AvlInv
  <1>1. AvlSpec => []AvlIInv
    BY AvlStart, AvlStep, PTL DEF AvlSpec
  <1> QED  BY <1>1, AvlImplies, PTL
=============================================================================
