--------------------------- MODULE Reads_proofs ---------------------------
(***************************************************************************)
(* Lemmas about sorting, filtering and recursion that the proofs about     *)
(* scans and queries rest on: a linear order arranges a finite set in one  *)
(* way alone, what is taken in order is in order, and a definition that    *)
(* comes down to smaller arguments has the value it describes.             *)
(***************************************************************************)
EXTENDS Reads, FiniteSetTheorems, SequenceTheorems, WellFoundedInduction, TLAPS

-----------------------------------------------------------------------------
(* Sorting *)

\* R is a linear order of the finite set S.
Linear(R, S) ==
  /\ IsFiniteSet(S)
  /\ \A x \in S : <<x, x>> \notin R
  /\ \A x, y \in S : x # y => <<x, y>> \in R \/ <<y, x>> \in R
  /\ \A x, y, z \in S : <<x, y>> \in R /\ <<y, z>> \in R => <<x, z>> \in R

\* s has every element of S, one behind the other.
Sorts(s, S, R) ==
  /\ s \in [1 .. Cardinality(S) -> S]
  /\ \A x \in S : \E i \in 1 .. Cardinality(S) : s[i] = x
  /\ \A i, j \in 1 .. Cardinality(S) : i < j => <<s[i], s[j]>> \in R

\* How many elements come before x: its place in the order, counted from 0.
Rank(S, R, x) == Cardinality({y \in S : <<y, x>> \in R})

LEMMA RankType ==
  ASSUME NEW S, NEW R, Linear(R, S), NEW x \in S
  PROVE  Rank(S, R, x) \in 0 .. Cardinality(S) - 1
<1> DEFINE T == {y \in S : <<y, x>> \in R}
<1>1. IsFiniteSet(S) /\ T \in SUBSET S /\ T # S
  BY DEF Linear
<1> HIDE DEF T
<1>2. /\ Cardinality(T) \in Nat /\ Cardinality(S) \in Nat
      /\ Cardinality(T) <= Cardinality(S) /\ Cardinality(T) # Cardinality(S)
  BY <1>1, FS_Subset, FS_CardinalityType
<1>3. Cardinality(T) \in 0 .. Cardinality(S) - 1
  BY <1>2
<1> QED BY <1>3 DEF Rank, T

\* What comes first has the smaller rank, so that no two elements have the same.
LEMMA EarlierRank ==
  ASSUME NEW S, NEW R, Linear(R, S), NEW x \in S, NEW y \in S, <<x, y>> \in R
  PROVE  Rank(S, R, x) < Rank(S, R, y)
<1> DEFINE T == {z \in S : <<z, x>> \in R}
           U == {z \in S : <<z, y>> \in R}
<1>1. T \subseteq U /\ x \in U /\ x \notin T
  BY DEF Linear
<1>2. IsFiniteSet(U)
  BY FS_Subset DEF Linear
<1> HIDE DEF T, U
<1>3. /\ Cardinality(T) \in Nat /\ Cardinality(U) \in Nat
      /\ Cardinality(T) <= Cardinality(U) /\ Cardinality(T) # Cardinality(U)
  BY <1>1, <1>2, FS_Subset, FS_CardinalityType
<1>4. Cardinality(T) < Cardinality(U)
  BY <1>3
<1> QED BY <1>4 DEF Rank, T, U

LEMMA RankTellsApart ==
  ASSUME NEW S, NEW R, Linear(R, S), NEW x \in S, NEW y \in S, Rank(S, R, x) = Rank(S, R, y)
  PROVE  x = y
<1>1. x # y => <<x, y>> \in R \/ <<y, x>> \in R
  BY DEF Linear
<1>2. Rank(S, R, x) \in Nat /\ Rank(S, R, y) \in Nat
  BY RankType
<1>3. <<x, y>> \notin R /\ <<y, x>> \notin R
  BY <1>2, EarlierRank
<1> QED BY <1>1, <1>3

LEMMA RankTaken ==
  ASSUME NEW S, NEW R, Linear(R, S), NEW i \in 1 .. Cardinality(S)
  PROVE  \E x \in S : Rank(S, R, x) = i - 1
<1> DEFINE n == Cardinality(S)
           rank == [x \in S |-> Rank(S, R, x)]
<1>1. IsFiniteSet(S) /\ n \in Nat
  BY FS_CardinalityType DEF Linear
<1>2. IsFiniteSet(0 .. n - 1) /\ Cardinality(0 .. n - 1) = n
  <2>1. IsFiniteSet(0 .. n - 1)
        /\ Cardinality(0 .. n - 1) = IF 0 > n - 1 THEN 0 ELSE (n - 1) - 0 + 1
    <3>1. 0 \in Int /\ n - 1 \in Int
      BY <1>1
    <3> HIDE DEF n
    <3> QED BY <3>1, FS_Interval
  <2> QED BY <1>1, <2>1
<1>3. rank \in [S -> 0 .. n - 1]
  BY RankType
<1>4. rank \in Injection(S, 0 .. n - 1)
  BY <1>3, RankTellsApart DEF Injection, IsInjective
<1> HIDE DEF rank
<1>5. rank \in Surjection(S, 0 .. n - 1)
  BY <1>2, <1>4, FS_Injection
<1>6. i - 1 \in 0 .. n - 1
  BY <1>1
<1>7. PICK x \in S : rank[x] = i - 1
  BY <1>5, <1>6 DEF Surjection
<1> QED BY <1>7 DEF rank

\* Arrange sorts, ...
LEMMA ArrangeSorts ==
  ASSUME NEW S, NEW R, Linear(R, S)
  PROVE  Sorts(Arrange(S, R), S, R)
<1> DEFINE n == Cardinality(S)
           s == Arrange(S, R)
<1>1. n \in Nat
  BY FS_CardinalityType DEF Linear
<1>2. \A i \in 1 .. n : s[i] \in S /\ Rank(S, R, s[i]) = i - 1
  <2>1. ASSUME NEW i \in 1 .. n
        PROVE  s[i] = CHOOSE x \in S : Rank(S, R, x) = i - 1
    BY DEF Arrange, Rank
  <2> QED BY <2>1, RankTaken
<1>3. s \in [1 .. n -> S]
  <2> DEFINE place(i) == CHOOSE x \in S : Rank(S, R, x) = i - 1
  <2>1. s = [i \in 1 .. n |-> place(i)]
    BY DEF Arrange, Rank
  <2>2. \A i \in 1 .. n : place(i) \in S
    BY RankTaken
  <2> HIDE DEF s, n, place
  <2> QED BY <2>1, <2>2
<1> HIDE DEF s
<1>4. ASSUME NEW x \in S
      PROVE  \E i \in 1 .. n : s[i] = x
  <2>1. Rank(S, R, x) \in 0 .. n - 1
    BY RankType
  <2>2. Rank(S, R, x) + 1 \in 1 .. n /\ (Rank(S, R, x) + 1) - 1 = Rank(S, R, x)
    BY <1>1, <2>1
  <2>3. /\ s[Rank(S, R, x) + 1] \in S
        /\ Rank(S, R, s[Rank(S, R, x) + 1]) = Rank(S, R, x)
    BY <1>2, <2>2
  <2> QED BY <2>2, <2>3, RankTellsApart
<1>5. ASSUME NEW i \in 1 .. n, NEW j \in 1 .. n, i < j
      PROVE  <<s[i], s[j]>> \in R
  <2>1. s[i] \in S /\ s[j] \in S /\ Rank(S, R, s[i]) = i - 1 /\ Rank(S, R, s[j]) = j - 1
    BY <1>2
  <2>2. s[i] # s[j]
    BY <1>1, <1>5, <2>1
  <2>3. <<s[i], s[j]>> \in R \/ <<s[j], s[i]>> \in R
    BY <2>1, <2>2 DEF Linear
  <2>4. ~(Rank(S, R, s[j]) < Rank(S, R, s[i]))
    BY <1>1, <1>5, <2>1
  <2> QED BY <2>1, <2>3, <2>4, EarlierRank
<1> QED BY <1>3, <1>4, <1>5 DEF Sorts, s

LEMMA SortedRank ==
  ASSUME NEW S, NEW R, Linear(R, S), NEW s, Sorts(s, S, R), NEW i \in 1 .. Cardinality(S)
  PROVE  Rank(S, R, s[i]) = i - 1
<1> DEFINE n == Cardinality(S)
           T == {x \in S : <<x, s[i]>> \in R}
<1>1. /\ n \in Nat /\ s \in [1 .. n -> S]
      /\ \A x \in S : \E j \in 1 .. n : s[j] = x
      /\ \A j, k \in 1 .. n : j < k => <<s[j], s[k]>> \in R
  BY FS_CardinalityType DEF Sorts, Linear
<1>2. \A j \in 1 .. n : <<s[j], s[i]>> \in R <=> j < i
  <2> SUFFICES ASSUME NEW j \in 1 .. n
               PROVE  <<s[j], s[i]>> \in R <=> j < i
    OBVIOUS
  <2>1. CASE j < i
    BY <1>1, <2>1
  <2>2. CASE j = i
    BY <1>1, <2>2 DEF Linear
  <2>3. CASE i < j
    <3>1. <<s[i], s[j]>> \in R /\ s[i] \in S /\ s[j] \in S
      BY <1>1, <2>3
    <3>2. <<s[j], s[i]>> \notin R
      BY <3>1 DEF Linear
    <3> QED BY <1>1, <2>3, <3>2
  <2> QED BY <1>1, <2>1, <2>2, <2>3
<1>3. ASSUME NEW j \in 1 .. n, NEW k \in 1 .. n, s[j] = s[k]
      PROVE  j = k
  <2>1. ~(j < k) /\ ~(k < j)
    BY <1>1, <1>3 DEF Linear
  <2> QED BY <1>1, <2>1
<1> DEFINE front == [j \in 1 .. i - 1 |-> s[j]]
<1>4. front \in [1 .. i - 1 -> T]
  BY <1>1, <1>2
<1>5. \A x \in T : \E j \in 1 .. i - 1 : front[j] = x
  <2> SUFFICES ASSUME NEW x \in T
               PROVE  \E j \in 1 .. i - 1 : front[j] = x
    OBVIOUS
  <2>1. PICK j \in 1 .. n : s[j] = x
    BY <1>1
  <2>2. j < i
    BY <1>2, <2>1
  <2> QED BY <1>1, <2>1, <2>2
<1>6. \A j, k \in 1 .. i - 1 : front[j] = front[k] => j = k
  BY <1>1, <1>3
<1> HIDE DEF front, T
<1>7. front \in Bijection(1 .. i - 1, T)
  BY <1>4, <1>5, <1>6 DEF Bijection, Injection, IsInjective, Surjection
<1>8. Cardinality(T) = i - 1
  BY <1>1, <1>7, FS_CountingElements DEF ExistsBijection
<1> QED BY <1>8 DEF Rank, T

LEMMA SameFunction ==
  ASSUME NEW D, NEW V, NEW f \in [D -> V], NEW g \in [D -> V], \A x \in D : f[x] = g[x]
  PROVE  f = g
OBVIOUS

\* ... and there is no other way to sort.
LEMMA SortUnique ==
  ASSUME NEW S, NEW R, Linear(R, S), NEW s, NEW t, Sorts(s, S, R), Sorts(t, S, R)
  PROVE  s = t
<1> DEFINE n == Cardinality(S)
<1>1. s \in [1 .. n -> S] /\ t \in [1 .. n -> S]
  BY DEF Sorts
<1>2. ASSUME NEW i \in 1 .. n
      PROVE  s[i] = t[i]
  <2>1. Rank(S, R, s[i]) = i - 1 /\ Rank(S, R, t[i]) = i - 1
    BY SortedRank
  <2>2. s[i] \in S /\ t[i] \in S
    BY <1>1
  <2>3. Rank(S, R, s[i]) = Rank(S, R, t[i])
    BY <2>1
  <2> QED BY <2>2, <2>3, RankTellsApart
<1> HIDE DEF n
<1>3. \A i \in 1 .. n : s[i] = t[i]
  BY <1>2
<1>4. \A D : s \in [D -> S] /\ t \in [D -> S] /\ (\A i \in D : s[i] = t[i]) => s = t
  BY SameFunction
<1> QED BY <1>1, <1>3, <1>4

-----------------------------------------------------------------------------
(* Sorting and filtering rows *)

\* Rows that are taken in an order of their places are sorted by what that order stands for.
LEMMA TakenSorts ==
  ASSUME NEW I, NEW Q, Linear(Q, I), NEW rows, NEW S, NEW R,
         \A i \in I : rows[i] \in S,
         \A x \in S : \E i \in I : rows[i] = x,
         \A i, j \in I : rows[i] = rows[j] => i = j,
         \A i, j \in I : <<i, j>> \in Q => <<rows[i], rows[j]>> \in R
  PROVE  Sorts(Taken(rows, Arrange(I, Q)), S, R)
<1> DEFINE order == Arrange(I, Q)
           t == Taken(rows, order)
           n == Cardinality(I)
<1>1. /\ order \in [1 .. n -> I]
      /\ \A i \in I : \E k \in 1 .. n : order[k] = i
      /\ \A k, l \in 1 .. n : k < l => <<order[k], order[l]>> \in Q
  BY ArrangeSorts DEF Sorts
<1>2. Cardinality(S) = n
  <2> DEFINE f == [i \in I |-> rows[i]]
  <2>1. f \in Bijection(I, S)
    BY DEF Bijection, Injection, IsInjective, Surjection
  <2>2. IsFiniteSet(I)
    BY DEF Linear
  <2> HIDE DEF f
  <2> QED BY <2>1, <2>2, FS_Bijection DEF ExistsBijection
<1> HIDE DEF order
<1>3. t = [k \in 1 .. n |-> rows[order[k]]]
  <2>1. DOMAIN order = 1 .. n
    BY <1>1
  <2> HIDE DEF n
  <2> QED BY <2>1 DEF Taken
<1> HIDE DEF t, n
<1>4. t \in [1 .. n -> S]
  BY <1>1, <1>3
<1>5. ASSUME NEW x \in S
      PROVE  \E k \in 1 .. n : t[k] = x
  <2>1. PICK i \in I : rows[i] = x
    OBVIOUS
  <2>2. PICK k \in 1 .. n : order[k] = i
    BY <1>1
  <2> QED BY <1>3, <2>1, <2>2
<1>6. ASSUME NEW k \in 1 .. n, NEW l \in 1 .. n, k < l
      PROVE  <<t[k], t[l]>> \in R
  <2>1. order[k] \in I /\ order[l] \in I /\ <<order[k], order[l]>> \in Q
    BY <1>1, <1>6
  <2> QED BY <1>3, <2>1
<1>7. Sorts(t, S, R)
  BY <1>2, <1>4, <1>5, <1>6 DEF Sorts
<1> QED BY <1>7 DEF t, order

LEMMA PlacesLinear ==
  ASSUME NEW n \in Nat, NEW I \in SUBSET (1 .. n)
  PROVE  Linear({p \in I \X I : p[1] < p[2]}, I)
<1> DEFINE Q == {p \in I \X I : p[1] < p[2]}
<1>1. IsFiniteSet(I)
  <2>1. IsFiniteSet(1 .. n)
    BY FS_Interval
  <2> QED BY <2>1, FS_Subset
<1>2. \A i, j \in I : <<i, j>> \in Q <=> i < j
  OBVIOUS
<1>3. \A i \in I : i \in Int
  OBVIOUS
<1> HIDE DEF Q
<1>4. \A i \in I : <<i, i>> \notin Q
  BY <1>2, <1>3
<1>5. \A i, j \in I : i # j => <<i, j>> \in Q \/ <<j, i>> \in Q
  BY <1>2, <1>3
<1>6. \A i, j, k \in I : <<i, j>> \in Q /\ <<j, k>> \in Q => <<i, k>> \in Q
  BY <1>2, <1>3
<1>7. Linear(Q, I)
  BY <1>1, <1>4, <1>5, <1>6 DEF Linear
<1> QED BY <1>7 DEF Q

\* No element of S stands at two places.
LEMMA SortedOnce ==
  ASSUME NEW S, NEW R, Linear(R, S), NEW s, Sorts(s, S, R),
         NEW i \in 1 .. Cardinality(S), NEW j \in 1 .. Cardinality(S), s[i] = s[j]
  PROVE  i = j
<1>1. Cardinality(S) \in Nat /\ s[i] \in S /\ s[j] \in S
  BY FS_CardinalityType DEF Linear, Sorts
<1>2. ~(i < j) /\ ~(j < i)
  BY <1>1 DEF Linear, Sorts
<1> QED BY <1>1, <1>2

\* What filter keeps of sorted rows is sorted.
LEMMA KeptSorts ==
  ASSUME NEW S, NEW R, Linear(R, S), NEW s, Sorts(s, S, R),
         NEW I \in SUBSET (1 .. Cardinality(S)), NEW T,
         \A i \in I : s[i] \in T, \A x \in T : \E i \in I : s[i] = x
  PROVE  Sorts(Kept(s, I), T, R)
<1> DEFINE Q == {p \in I \X I : p[1] < p[2]}
<1>1. Cardinality(S) \in Nat
  BY FS_CardinalityType DEF Linear
<1>2. Linear(Q, I)
  BY <1>1, PlacesLinear
<1>3. \A i, j \in I : <<i, j>> \in Q => <<s[i], s[j]>> \in R
  BY DEF Sorts
<1>4. \A i, j \in I : s[i] = s[j] => i = j
  BY SortedOnce
<1> HIDE DEF Q
<1>5. Sorts(Taken(s, Arrange(I, Q)), T, R)
  BY <1>2, <1>3, <1>4, TakenSorts
<1> QED BY <1>5 DEF Kept, Q

\* Rows of which nothing is left out stay as they are.
LEMMA KeptAll ==
  ASSUME NEW n \in Nat, NEW V, NEW s \in [1 .. n -> V]
  PROVE  Kept(s, 1 .. n) = s
<1> DEFINE I == 1 .. n
           Q == {p \in I \X I : p[1] < p[2]}
           id == [i \in I |-> i]
<1>1. Cardinality(I) = n
  BY FS_Interval
<1>2. Linear(Q, I)
  BY PlacesLinear
<1>3. Sorts(id, I, Q)
  <2>1. id \in [1 .. n -> I] /\ \A i \in I : id[i] = i
    OBVIOUS
  <2>2. \A i, j \in 1 .. n : i < j => <<id[i], id[j]>> \in Q
    OBVIOUS
  <2> HIDE DEF id, Q
  <2> QED BY <1>1, <2>1, <2>2 DEF Sorts
<1>4. Arrange(I, Q) = id
  <2> HIDE DEF id, Q, I
  <2> QED BY <1>2, <1>3, ArrangeSorts, SortUnique
<1>5. Taken(s, id) = s
  BY DEF Taken
<1> QED BY <1>4, <1>5 DEF Kept

-----------------------------------------------------------------------------
(* Scans *)

Newer(S) == {p \in S \X S : NewerThan(p[1], p[2])}

\* Facts that identifiers tell apart are sorted in one way.
Sortable(S) ==
  /\ IsFiniteSet(S)
  /\ \A f \in S : f.ts \in Nat /\ f.id \in Nat
  /\ \A f, g \in S : f.id = g.id => f = g

LEMMA NewerLinear ==
  ASSUME NEW S, Sortable(S)
  PROVE  Linear(Newer(S), S)
<1>1. \A f, g \in S : <<f, g>> \in Newer(S) <=> NewerThan(f, g)
  BY DEF Newer
<1>2. \A f \in S : ~NewerThan(f, f)
  BY DEF NewerThan, Sortable
<1>3. \A f, g \in S : f # g => NewerThan(f, g) \/ NewerThan(g, f)
  BY DEF NewerThan, Sortable
<1>4. \A f, g, h \in S : NewerThan(f, g) /\ NewerThan(g, h) => NewerThan(f, h)
  BY DEF NewerThan, Sortable
<1> QED BY <1>1, <1>2, <1>3, <1>4 DEF Linear, Sortable

LEMMA ScanSorts ==
  ASSUME NEW S, Sortable(S)
  PROVE  Sorts(InOrder(S), S, Newer(S))
BY NewerLinear, ArrangeSorts DEF InOrder, Newer

\* Sorted rows as a sequence.
LEMMA SortedSeq ==
  ASSUME NEW S, NEW R, Linear(R, S), NEW s, Sorts(s, S, R)
  PROVE  /\ Cardinality(S) \in Nat /\ s \in [1 .. Cardinality(S) -> S]
         /\ s \in Seq(S) /\ Len(s) = Cardinality(S) /\ DOMAIN s = 1 .. Cardinality(S)
         /\ ToSet(s) = S
<1>1. Cardinality(S) \in Nat /\ s \in [1 .. Cardinality(S) -> S]
  BY FS_CardinalityType DEF Linear, Sorts
<1>2. ToSet(s) = S
  BY <1>1 DEF Sorts, ToSet
<1> QED BY <1>1, <1>2

LEMMA NewestRows ==
  ASSUME NEW S, Sortable(S), NEW s, Sorts(s, S, Newer(S))
  PROVE  /\ Cardinality(S) \in Nat /\ s \in [1 .. Cardinality(S) -> S]
         /\ s \in Seq(S) /\ Len(s) = Cardinality(S)
         /\ \A i, j \in 1 .. Cardinality(S) : i # j => s[i] # s[j]
         /\ \A i, j \in 1 .. Cardinality(S) : i < j => NewerThan(s[i], s[j])
<1>1. Linear(Newer(S), S)
  BY NewerLinear
<1>2. \A i, j \in 1 .. Cardinality(S) : i # j => s[i] # s[j]
  BY <1>1, SortedOnce
<1>3. \A i, j \in 1 .. Cardinality(S) : i < j => NewerThan(s[i], s[j])
  BY DEF Sorts, Newer
<1> QED BY <1>1, <1>2, <1>3, SortedSeq

LEMMA WholePage ==
  ASSUME NEW T, NEW s \in Seq(T)
  PROVE  Page(s, 0, None) = s
<1>1. Page(s, 0, None) = SubSeq(s, 1, Len(s))
  BY DEF Page
<1>2. SubSeq(s, 1, Len(s)) = s
  OBVIOUS
<1> QED BY <1>1, <1>2

-----------------------------------------------------------------------------
(* Recursion *)

\* Induction, for a set in place of a predicate, so that it can be cited.
LEMMA LeastOf ==
  ASSUME NEW T, T \subseteq Nat, T # {}
  PROVE  \E n \in T : \A m \in T : n <= m
<1>1. IsWellFoundedOn(OpToRel(<, Nat), Nat)
  BY NatLessThanWellFounded
<1>2. PICK n \in T : \A m \in T : <<m, n>> \notin OpToRel(<, Nat)
  BY <1>1, WFMin
<1>3. \A m \in T : ~(m < n)
  BY <1>2 DEF OpToRel
<1> QED BY <1>3

LEMMA AllByRank ==
  ASSUME NEW X, NEW rank \in [X -> Nat], NEW T,
         \A x \in X : (\A y \in X : rank[y] < rank[x] => y \in T) => x \in T
  PROVE  X \subseteq T
<1> SUFFICES ASSUME ~(X \subseteq T)
             PROVE  FALSE
  OBVIOUS
<1> DEFINE R == {rank[x] : x \in X \ T}
<1>1. R \subseteq Nat /\ R # {}
  OBVIOUS
<1>2. PICK n \in R : \A m \in R : n <= m
  BY <1>1, LeastOf
<1>3. PICK x \in X \ T : rank[x] = n
  BY <1>2
<1>4. \A y \in X : rank[y] < rank[x] => y \in T
  <2> SUFFICES ASSUME NEW y \in X, rank[y] < rank[x], y \notin T
               PROVE  FALSE
    OBVIOUS
  <2>1. rank[y] \in R /\ rank[y] \in Nat /\ rank[x] \in Nat
    OBVIOUS
  <2> HIDE DEF R
  <2>2. rank[x] <= rank[y]
    BY <1>2, <1>3, <2>1
  <2> QED BY <2>1, <2>2
<1> QED BY <1>3, <1>4

\* B[x] computes the value at x from all values, and looks at smaller arguments alone.
WellRanked(B, X, V, rank) ==
  /\ rank \in [X -> Nat]
  /\ B \in [X -> [[X -> V] -> V]]
  /\ \A x \in X : \A g, h \in [X -> V] :
       (\A y \in X : rank[y] < rank[x] => g[y] = h[y]) => B[x][g] = B[x][h]

\* What is a solution below n.
Upto(B, X, V, rank, n) ==
  {h \in [X -> V] : \A x \in X : rank[x] < n => h[x] = B[x][h]}

LEMMA UptoAll ==
  ASSUME NEW X, NEW V, NEW rank, NEW B, WellRanked(B, X, V, rank), V # {}, NEW n \in Nat
  PROVE  Upto(B, X, V, rank, n) # {}
<1> DEFINE T == {k \in Nat : Upto(B, X, V, rank, k) # {}}
           id == [k \in Nat |-> k]
<1>1. 0 \in T
  <2>1. PICK v \in V : TRUE
    OBVIOUS
  <2>2. [x \in X |-> v] \in [X -> V]
    OBVIOUS
  <2>3. \A x \in X : ~(rank[x] < 0)
    BY DEF WellRanked
  <2> QED BY <2>2, <2>3 DEF Upto
<1>2. ASSUME NEW k \in Nat, k \in T
      PROVE  k + 1 \in T
  <2>1. PICK g \in [X -> V] : \A x \in X : rank[x] < k => g[x] = B[x][g]
    BY <1>2 DEF Upto
  <2> DEFINE h == [x \in X |-> B[x][g]]
  <2>2. h \in [X -> V]
    BY DEF WellRanked
  <2>3. \A x \in X : h[x] = B[x][g]
    OBVIOUS
  <2> HIDE DEF h
  <2>4. \A x \in X : rank[x] < k => h[x] = g[x]
    BY <2>1, <2>3
  <2>5. ASSUME NEW x \in X, rank[x] < k + 1
        PROVE  h[x] = B[x][h]
    <3>1. \A y \in X : rank[y] < rank[x] => g[y] = h[y]
      <4>1. \A y \in X : rank[y] \in Nat
        BY DEF WellRanked
      <4> QED BY <2>4, <2>5, <4>1
    <3>2. B[x][g] = B[x][h]
      BY <2>2, <3>1 DEF WellRanked
    <3> QED BY <2>3, <3>2
  <2> QED BY <2>2, <2>5 DEF Upto
<1> HIDE DEF T
<1>3. \A k \in Nat : (\A j \in Nat : id[j] < id[k] => j \in T) => k \in T
  <2> SUFFICES ASSUME NEW k \in Nat, \A j \in Nat : id[j] < id[k] => j \in T
               PROVE  k \in T
    OBVIOUS
  <2>1. CASE k = 0
    BY <1>1, <2>1
  <2>2. CASE k # 0
    <3>1. k - 1 \in Nat /\ k - 1 < k /\ (k - 1) + 1 = k
      BY <2>2
    <3>2. k - 1 \in T
      BY <3>1
    <3> QED BY <1>2, <3>1, <3>2
  <2> QED BY <2>1, <2>2
<1>4. Nat \subseteq T
  <2>1. id \in [Nat -> Nat]
    OBVIOUS
  <2> HIDE DEF id
  <2> QED BY <1>3, <2>1, AllByRank
<1> QED BY <1>4 DEF T

LEMMA UptoAgree ==
  ASSUME NEW X, NEW V, NEW rank, NEW B, WellRanked(B, X, V, rank),
         NEW m \in Nat, NEW n \in Nat,
         NEW g \in Upto(B, X, V, rank, m), NEW h \in Upto(B, X, V, rank, n),
         NEW x \in X, rank[x] < m, rank[x] < n
  PROVE  g[x] = h[x]
<1> DEFINE T == {y \in X : rank[y] < m /\ rank[y] < n => g[y] = h[y]}
<1>1. rank \in [X -> Nat] /\ g \in [X -> V] /\ h \in [X -> V]
  BY DEF WellRanked, Upto
<1>2. ASSUME NEW y \in X, \A z \in X : rank[z] < rank[y] => z \in T
      PROVE  y \in T
  <2> SUFFICES ASSUME rank[y] < m, rank[y] < n
               PROVE  g[y] = h[y]
    OBVIOUS
  <2>1. g[y] = B[y][g] /\ h[y] = B[y][h]
    BY DEF Upto
  <2>2. \A z \in X : rank[z] < rank[y] => g[z] = h[z]
    <3> SUFFICES ASSUME NEW z \in X, rank[z] < rank[y]
                 PROVE  g[z] = h[z]
      OBVIOUS
    <3>1. rank[z] \in Nat /\ rank[y] \in Nat
      BY <1>1
    <3> QED BY <1>2, <3>1
  <2>3. B[y][g] = B[y][h]
    BY <1>1, <2>2 DEF WellRanked
  <2> QED BY <2>1, <2>3
<1>3. X \subseteq T
  <2> HIDE DEF T
  <2> QED BY <1>1, <1>2, AllByRank
<1> QED BY <1>3

\* A recursive definition that comes down to smaller arguments defines a function.
LEMMA Recursion ==
  ASSUME NEW X, NEW V, NEW rank, NEW B, WellRanked(B, X, V, rank), V # {}
  PROVE  \E h \in [X -> V] : \A x \in X : h[x] = B[x][h]
<1> DEFINE part(x) == CHOOSE g \in Upto(B, X, V, rank, rank[x] + 1) : TRUE
           h == [x \in X |-> part(x)[x]]
<1>1. rank \in [X -> Nat]
  BY DEF WellRanked
<1>2. ASSUME NEW x \in X
      PROVE  part(x) \in Upto(B, X, V, rank, rank[x] + 1)
  <2>1. rank[x] + 1 \in Nat
    BY <1>1
  <2> QED BY <2>1, UptoAll
<1> HIDE DEF part
<1>3. h \in [X -> V]
  BY <1>2 DEF Upto
<1>4. ASSUME NEW x \in X
      PROVE  h[x] = B[x][h]
  <2>1. part(x) \in [X -> V] /\ part(x)[x] = B[x][part(x)]
    <3>1. rank[x] < rank[x] + 1
      BY <1>1
    <3> QED BY <1>2, <3>1 DEF Upto
  <2>2. ASSUME NEW y \in X, rank[y] < rank[x]
        PROVE  part(x)[y] = h[y]
    <3>1. /\ rank[x] + 1 \in Nat /\ rank[y] + 1 \in Nat
          /\ rank[y] < rank[x] + 1 /\ rank[y] < rank[y] + 1
      BY <1>1, <2>2
    <3>2. part(x) \in Upto(B, X, V, rank, rank[x] + 1) /\ part(y) \in Upto(B, X, V, rank, rank[y] + 1)
      BY <1>2
    <3>3. part(x)[y] = part(y)[y]
      BY <3>1, <3>2, UptoAgree
    <3> QED BY <3>3
  <2>3. B[x][part(x)] = B[x][h]
    BY <1>3, <2>1, <2>2 DEF WellRanked
  <2> QED BY <2>1, <2>3
<1> QED BY <1>3, <1>4
=============================================================================
