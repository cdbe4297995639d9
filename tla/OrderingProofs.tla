--------------------------- MODULE OrderingProofs ---------------------------
(***************************************************************************)
(* InOrder lists every element of a finite set once and in order, for any  *)
(* rank that tells the elements apart.                                     *)
(***************************************************************************)
EXTENDS Ordering, FiniteSetTheorems, TLAPS

(* The elements up to x in the order of the rank.                          *)
UpTo(S, rank, x) == {y \in S : rank[y] <= rank[x]}

Ranks(S, rank) ==
  /\ \A x \in S : rank[x] \in Int
  /\ \A x, y \in S : rank[x] = rank[y] => x = y

Ascends(s, rank) ==
  \A m, n \in DOMAIN s : m < n => rank[s[m]] < rank[s[n]]

(* How many elements there are up to one: a number between 1 and the size  *)
(* of the set, larger for an element that comes later.                     *)
LEMMA UpToCounts ==
  ASSUME NEW S, IsFiniteSet(S), NEW rank, Ranks(S, rank)
  PROVE  \A x \in S :
           /\ Cardinality(UpTo(S, rank, x)) \in 1..Cardinality(S)
           /\ \A y \in S : rank[x] < rank[y] =>
                Cardinality(UpTo(S, rank, x)) < Cardinality(UpTo(S, rank, y))
<1>1. \A x \in S : IsFiniteSet(UpTo(S, rank, x))
  BY FS_Subset DEF UpTo
<1>2. \A x \in S : Cardinality(UpTo(S, rank, x)) \in 1..Cardinality(S)
  <2> TAKE x \in S
  <2>1. UpTo(S, rank, x) \in SUBSET S
    BY DEF UpTo
  <2>2. Cardinality(UpTo(S, rank, x)) <= Cardinality(S)
    BY <2>1, FS_Subset
  <2>3. x \in UpTo(S, rank, x)
    BY DEF UpTo, Ranks
  <2>4. Cardinality(UpTo(S, rank, x)) # 0
    BY <1>1, <2>3, FS_EmptySet
  <2>5. Cardinality(UpTo(S, rank, x)) \in Nat /\ Cardinality(S) \in Nat
    BY <1>1, FS_CardinalityType
  <2>. QED
    BY <2>2, <2>4, <2>5
<1>3. ASSUME NEW x \in S, NEW y \in S, rank[x] < rank[y]
      PROVE  Cardinality(UpTo(S, rank, x)) < Cardinality(UpTo(S, rank, y))
  <2>1. rank[x] \in Int /\ rank[y] \in Int
    BY DEF Ranks
  <2>2. UpTo(S, rank, x) \in SUBSET UpTo(S, rank, y)
    BY <1>3 DEF UpTo, Ranks
  <2>3. y \in UpTo(S, rank, y) /\ y \notin UpTo(S, rank, x)
    BY <1>3, <2>1 DEF UpTo
  <2>4. /\ Cardinality(UpTo(S, rank, x)) <= Cardinality(UpTo(S, rank, y))
        /\ Cardinality(UpTo(S, rank, x)) # Cardinality(UpTo(S, rank, y))
    BY <1>1, <2>2, <2>3, FS_Subset
  <2>5. /\ Cardinality(UpTo(S, rank, x)) \in Nat
        /\ Cardinality(UpTo(S, rank, y)) \in Nat
    BY <1>1, FS_CardinalityType
  <2>. QED
    BY <2>4, <2>5
<1>. QED
  BY <1>2, <1>3

(* There is an ascending list of every finite set.                         *)
LEMMA AscendingExists ==
  ASSUME NEW S, IsFiniteSet(S), NEW rank, Ranks(S, rank)
  PROVE  \E s \in [1..Cardinality(S) -> S] : Ascends(s, rank)
<1> DEFINE n == Cardinality(S)
           pos == [x \in S |-> Cardinality(UpTo(S, rank, x))]
<1>1. n \in Nat /\ IsFiniteSet(1..n) /\ Cardinality(1..n) = n
  BY FS_CardinalityType, FS_Interval
<1>2. pos \in [S -> 1..n]
  BY UpToCounts
<1>3. \A x, y \in S : rank[x] < rank[y] => pos[x] < pos[y]
  BY UpToCounts
<1>4. pos \in Injection(S, 1..n)
  <2>1. ASSUME NEW x \in S, NEW y \in S, pos[x] = pos[y]
        PROVE  x = y
    <3>1. pos[x] \in Int /\ rank[x] \in Int /\ rank[y] \in Int
      BY <1>2, <1>1 DEF Ranks
    <3>2. ~(rank[x] < rank[y]) /\ ~(rank[y] < rank[x])
      BY <1>3, <2>1, <3>1
    <3>. QED
      BY <3>1, <3>2 DEF Ranks
  <2>. HIDE DEF pos
  <2>. QED
    BY <1>2, <2>1 DEF Injection, IsInjective
<1>5. pos \in Surjection(S, 1..n)
  BY <1>1, <1>4, FS_Injection
<1>. HIDE DEF pos, n
<1> DEFINE s == [k \in 1..n |-> CHOOSE x \in S : pos[x] = k]
<1>6. \A k \in 1..n : s[k] \in S /\ pos[s[k]] = k
  BY <1>5 DEF Surjection
<1>7. s \in [1..n -> S]
  BY <1>6
<1>8. ASSUME NEW k \in 1..n, NEW m \in 1..n, k < m
      PROVE  rank[s[k]] < rank[s[m]]
  <2>1. rank[s[k]] \in Int /\ rank[s[m]] \in Int
    BY <1>6 DEF Ranks
  <2>2. ~(rank[s[m]] < rank[s[k]]) /\ s[k] # s[m]
    BY <1>1, <1>3, <1>6, <1>8
  <2>3. rank[s[m]] # rank[s[k]]
    BY <1>6, <2>2 DEF Ranks
  <2>. QED
    BY <2>1, <2>2, <2>3
<1>. QED
  BY <1>7, <1>8 DEF Ascends, n

(* Hence InOrder is such a list; every element of the set is in it, and as *)
(* many elements come up to an entry as its position says.                 *)
LEMMA InOrderLists ==
  ASSUME NEW S, IsFiniteSet(S), NEW rank, Ranks(S, rank)
  PROVE  /\ Cardinality(S) \in Nat
         /\ InOrder(S, rank) \in [1..Cardinality(S) -> S]
         /\ Ascends(InOrder(S, rank), rank)
         /\ \A m, n \in 1..Cardinality(S) :
              InOrder(S, rank)[m] = InOrder(S, rank)[n] => m = n
         /\ \A x \in S : \E k \in 1..Cardinality(S) : InOrder(S, rank)[k] = x
         /\ \A k \in 1..Cardinality(S) :
              Cardinality(UpTo(S, rank, InOrder(S, rank)[k])) = k
<1> DEFINE n == Cardinality(S)
           s == InOrder(S, rank)
<1>1. n \in Nat /\ IsFiniteSet(1..n) /\ Cardinality(1..n) = n
  BY FS_CardinalityType, FS_Interval
<1>2. s \in [1..n -> S] /\ Ascends(s, rank)
  BY AscendingExists DEF InOrder, Ascends
<1>. HIDE DEF s, n
<1>3. \A k \in 1..n : s[k] \in S /\ rank[s[k]] \in Int
  BY <1>2 DEF Ranks
<1>4. \A k, m \in 1..n : k < m <=> rank[s[k]] < rank[s[m]]
  BY <1>1, <1>2, <1>3 DEF Ascends
<1>5. \A k, m \in 1..n : s[k] = s[m] => k = m
  BY <1>1, <1>3, <1>4
<1>6. s \in Injection(1..n, S)
  BY <1>2, <1>5 DEF Injection, IsInjective
<1>7. s \in Surjection(1..n, S)
  BY <1>1, <1>6, FS_Injection DEF n
<1>8. \A x \in S : \E k \in 1..n : s[k] = x
  BY <1>7 DEF Surjection
<1>9. ASSUME NEW k \in 1..n
      PROVE  Cardinality(UpTo(S, rank, s[k])) = k
  <2>1. UpTo(S, rank, s[k]) = {s[m] : m \in 1..k}
    <3>1. ASSUME NEW x \in S, rank[x] <= rank[s[k]]
          PROVE  \E m \in 1..k : x = s[m]
      <4>1. PICK m \in 1..n : s[m] = x
        BY <1>8
      <4>. QED
        BY <1>1, <1>3, <1>4, <3>1, <4>1
    <3>2. ASSUME NEW m \in 1..k
          PROVE  s[m] \in S /\ rank[s[m]] <= rank[s[k]]
      <4>1. m \in 1..n /\ (m < k \/ m = k)
        BY <1>1
      <4>. QED
        BY <1>3, <1>4, <4>1
    <3>. QED
      BY <3>1, <3>2 DEF UpTo
  <2> DEFINE g == [m \in 1..k |-> s[m]]
  <2>2. g \in Bijection(1..k, {s[m] : m \in 1..k})
    <3>1. \A m \in 1..k : m \in 1..n
      BY <1>1
    <3>2. g \in [1..k -> {s[m] : m \in 1..k}]
      OBVIOUS
    <3>3. \A a, b \in 1..k : g[a] = g[b] => a = b
      BY <1>5, <3>1
    <3>4. \A x \in {s[m] : m \in 1..k} : \E m \in 1..k : g[m] = x
      OBVIOUS
    <3>. HIDE DEF g
    <3>. QED
      BY <3>2, <3>3, <3>4 DEF Bijection, Injection, Surjection, IsInjective
  <2>3. IsFiniteSet(1..k) /\ Cardinality(1..k) = k
    BY <1>1, FS_Interval
  <2>. QED
    BY <2>1, <2>2, <2>3, FS_Bijection DEF ExistsBijection
<1>. QED
  BY <1>1, <1>2, <1>5, <1>8, <1>9 DEF s, n

=============================================================================
