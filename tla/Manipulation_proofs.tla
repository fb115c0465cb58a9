------------------------- MODULE Manipulation_proofs -------------------------
(***************************************************************************)
(* Proofs about query manipulation, for every list of lines and every      *)
(* query: matching the characters of names from either end is matching     *)
(* their labels.                                                           *)
(***************************************************************************)
EXTENDS Manipulation, FiniteSetTheorems, TLAPS

-----------------------------------------------------------------------------
(* The n-th of a finite set of numbers.                                    *)

\* The place of position i among the positions in S.
place(S, i) == Cardinality({j \in S : j <= i})

LEMMA PlacesIncrease ==
    ASSUME NEW S \in SUBSET Nat, IsFiniteSet(S), NEW i \in S, NEW k \in S
    PROVE  /\ place(S, i) \in 1..Cardinality(S)
           /\ i < k => place(S, i) < place(S, k)
<1>. DEFINE Upto(m) == {j \in S : j <= m}
<1>1. \A m \in S : /\ IsFiniteSet(Upto(m)) /\ Upto(m) \in SUBSET S
                   /\ Cardinality(Upto(m)) \in Nat
                   /\ Cardinality(Upto(m)) <= Cardinality(S)
  BY FS_Subset, FS_CardinalityType
<1>2. Upto(i) # {}
  OBVIOUS
<1>3. Cardinality(Upto(i)) # 0
  BY <1>1, <1>2, FS_EmptySet
<1>4. ASSUME i < k PROVE Cardinality(Upto(i)) < Cardinality(Upto(k))
  <2>1. \A m \in S : m \in Nat
    OBVIOUS
  <2>2. k \in Upto(k) /\ k \notin Upto(i)
    BY <1>4, <2>1
  <2>3. ASSUME NEW m \in Upto(i) PROVE m \in Upto(k)
    BY <1>4, <2>1
  <2>4. Upto(i) \in SUBSET Upto(k) /\ Upto(i) # Upto(k)
    <3> HIDE DEF Upto
    <3> QED
      BY <2>2, <2>3
  <2> HIDE DEF Upto
  <2>5. Cardinality(Upto(i)) <= Cardinality(Upto(k)) /\ Cardinality(Upto(k)) # Cardinality(Upto(i))
    BY <1>1, <2>4, FS_Subset
  <2> QED
    BY <1>1, <2>5
<1>5. Cardinality(S) \in Nat
  BY FS_CardinalityType
<1> QED
  BY <1>1, <1>3, <1>4, <1>5 DEF place

LEMMA PlacesAreTaken ==
    ASSUME NEW S \in SUBSET Nat, IsFiniteSet(S), NEW n \in 1..Cardinality(S)
    PROVE  \E i \in S : place(S, i) = n
<1>. DEFINE T == 1..Cardinality(S)
            f == [i \in S |-> place(S, i)]
<1>1. Cardinality(S) \in Nat
  BY FS_CardinalityType
<1>2. IsFiniteSet(T) /\ Cardinality(T) = Cardinality(S)
  BY <1>1, FS_Interval
<1>3. f \in [S -> T]
  BY PlacesIncrease
<1>4. \A i, k \in S : f[i] = f[k] => i = k
  <2> SUFFICES ASSUME NEW i \in S, NEW k \in S, f[i] = f[k], i # k PROVE FALSE
    OBVIOUS
  <2>1. i < k \/ k < i
    OBVIOUS
  <2>2. f[i] \in Nat /\ f[k] \in Nat
    BY <1>1, <1>3
  <2> QED
    BY <2>1, <2>2, PlacesIncrease
<1>5. f \in Injection(S, T)
  BY <1>3, <1>4 DEF Injection, IsInjective
<1>6. f \in Surjection(S, T)
  <2> HIDE DEF f, T
  <2> QED
    BY <1>2, <1>5, FS_Injection
<1>7. \E i \in S : f[i] = n
  BY <1>6 DEF Surjection
<1> QED
  BY <1>7

LEMMA Positions ==
    ASSUME NEW S \in SUBSET Nat, IsFiniteSet(S)
    PROVE  /\ \A n \in 1..Cardinality(S) : nth(S, n) \in S /\ place(S, nth(S, n)) = n
           /\ \A m, n \in 1..Cardinality(S) : m < n => nth(S, m) < nth(S, n)
           /\ \A i \in S : \E n \in 1..Cardinality(S) : nth(S, n) = i
<1>1. \A n \in 1..Cardinality(S) : nth(S, n) \in S /\ place(S, nth(S, n)) = n
  BY PlacesAreTaken DEF nth, place
<1>2. \A i, k \in S : i < k => place(S, i) < place(S, k)
  BY PlacesIncrease
<1>3. \A i \in S : place(S, i) \in 1..Cardinality(S)
  BY PlacesIncrease
<1>4. ASSUME NEW m \in 1..Cardinality(S), NEW n \in 1..Cardinality(S), m < n
      PROVE  nth(S, m) < nth(S, n)
  <2>1. PICK i \in S : i = nth(S, m) /\ place(S, i) = m
    BY <1>1
  <2>2. PICK k \in S : k = nth(S, n) /\ place(S, k) = n
    BY <1>1
  <2>3. i \in Nat /\ k \in Nat
    OBVIOUS
  <2>4. ~(k < i) /\ i # k
    BY <1>2, <1>4, <2>1, <2>2
  <2> QED
    BY <2>1, <2>2, <2>3, <2>4
<1>5. ASSUME NEW i \in S PROVE nth(S, place(S, i)) = i
  <2>1. PICK k \in S : k = nth(S, place(S, i)) /\ place(S, k) = place(S, i)
    BY <1>1, <1>3
  <2>2. i \in Nat /\ k \in Nat /\ place(S, i) \in Nat /\ place(S, k) \in Nat
    BY <1>3
  <2>3. ~(i < k) /\ ~(k < i)
    BY <1>2, <2>1, <2>2
  <2> QED
    BY <2>1, <2>2, <2>3
<1> QED
  BY <1>1, <1>3, <1>4, <1>5


\* Whatever lists S in increasing order, lists it as nth does.
LEMMA Enumerated ==
    ASSUME NEW S \in SUBSET Nat, NEW m \in Nat, NEW f \in [1..m -> S],
           \A i, j \in 1..m : i < j => f[i] < f[j],
           \A x \in S : \E i \in 1..m : f[i] = x
    PROVE  /\ IsFiniteSet(S) /\ Cardinality(S) = m
           /\ \A n \in 1..m : nth(S, n) = f[n]
<1>1. ASSUME NEW n \in 0..m
      PROVE  LET T == {f[i] : i \in 1..n} IN IsFiniteSet(T) /\ Cardinality(T) = n
  <2> DEFINE T == {f[i] : i \in 1..n}
             g == [i \in 1..n |-> f[i]]
  <2>1. IsFiniteSet(1..n) /\ Cardinality(1..n) = n
    BY FS_Interval
  <2>2. \A i, j \in 1..n : f[i] = f[j] => i = j
    <3>1. \A i \in 1..n : i \in 1..m /\ i \in Nat
      OBVIOUS
    <3>2. \A i \in 1..m : f[i] \in Nat
      OBVIOUS
    <3>3. \A i, j \in 1..n : i < j => f[i] < f[j]
      BY <3>1
    <3> HIDE DEF T, g
    <3> QED
      BY <3>1, <3>2, <3>3
  <2>3. g \in Bijection(1..n, T)
    BY <2>2 DEF Bijection, Injection, IsInjective, Surjection
  <2> HIDE DEF T, g
  <2>4. IsFiniteSet(T) /\ Cardinality(T) = Cardinality(1..n)
    BY <2>1, <2>3, FS_Bijection DEF ExistsBijection
  <2> QED
    BY <2>1, <2>4 DEF T
<1>2. S = {f[i] : i \in 1..m}
  OBVIOUS
<1>3. IsFiniteSet(S) /\ Cardinality(S) = m
  <2>1. m \in 0..m
    OBVIOUS
  <2> QED
    BY <1>1, <1>2, <2>1
<1>4. ASSUME NEW n \in 1..m PROVE place(S, f[n]) = n
  <2>1. \A i \in 1..m : f[i] \in Nat /\ (f[i] <= f[n] <=> i <= n)
    <3>1. \A i \in 1..m : f[i] \in Nat
      OBVIOUS
    <3>2. \A i \in 1..m : (i < n => f[i] < f[n]) /\ (n < i => f[n] < f[i])
      OBVIOUS
    <3> QED
      BY <3>1, <3>2
  <2>2. {j \in S : j <= f[n]} = {f[i] : i \in 1..n}
    <3>1. \A x \in S : x <= f[n] => \E i \in 1..n : x = f[i]
      BY <2>1
    <3>2. \A i \in 1..n : f[i] \in S /\ f[i] <= f[n]
      BY <2>1
    <3> QED
      BY <3>1, <3>2
  <2>3. n \in 0..m
    OBVIOUS
  <2> QED
    BY <1>1, <2>2, <2>3 DEF place
<1>5. ASSUME NEW n \in 1..m PROVE nth(S, n) = f[n]
  <2>1. nth(S, n) \in S /\ place(S, nth(S, n)) = n
    BY <1>3, Positions
  <2>2. PICK i \in 1..m : nth(S, n) = f[i]
    BY <2>1
  <2> QED
    BY <1>4, <2>1, <2>2
<1> QED
  BY <1>3, <1>5

LEMMA Smallest ==
    ASSUME NEW D \in SUBSET Nat, IsFiniteSet(D), D # {}
    PROVE  nth(D, 1) \in D /\ \A m \in D : nth(D, 1) <= m
<1>1. Cardinality(D) \in Nat /\ Cardinality(D) # 0
  BY FS_CardinalityType, FS_EmptySet
<1>2. 1 \in 1..Cardinality(D)
  BY <1>1
<1>3. nth(D, 1) \in D /\ \A m, n \in 1..Cardinality(D) : m < n => nth(D, m) < nth(D, n)
  BY <1>2, Positions
<1>4. ASSUME NEW m \in D PROVE nth(D, 1) <= m
  <2>1. PICK i \in 1..Cardinality(D) : nth(D, i) = m
    BY Positions
  <2>2. i = 1 \/ 1 < i
    BY <1>1
  <2>3. nth(D, 1) \in Nat /\ m \in Nat
    BY <1>3
  <2> QED
    BY <1>2, <1>3, <2>1, <2>2, <2>3
<1> QED
  BY <1>3, <1>4

-----------------------------------------------------------------------------
(* Beginnings and ends of sequences, element by element.                   *)

LEMMA SameElements ==
    ASSUME NEW C, NEW s \in Seq(C), NEW t \in Seq(C), Len(s) = Len(t),
           \A i \in 1..Len(s) : s[i] = t[i]
    PROVE  s = t
OBVIOUS

LEMMA Part ==
    ASSUME NEW C, NEW s \in Seq(C), NEW a \in Nat, NEW b \in Nat, a < b, b <= Len(s) + 1
    PROVE  /\ SubSeq(s, a + 1, b - 1) \in Seq(C)
           /\ Len(SubSeq(s, a + 1, b - 1)) = b - a - 1
           /\ \A i \in 1..(b - a - 1) : SubSeq(s, a + 1, b - 1)[i] = s[a + i]
<1> DEFINE x == a + 1
           y == b - 1
           u == SubSeq(s, x, y)
<1>1. Len(s) \in Nat /\ x \in Nat /\ x >= 1 /\ y \in Nat /\ x <= y + 1 /\ y <= Len(s)
  OBVIOUS
<1>2. y - x + 1 = b - a - 1 /\ \A i \in 1..(b - a - 1) : x + i - 1 = a + i
  OBVIOUS
<1> HIDE DEF x, y
<1>3. u \in Seq(C)
  BY <1>1
<1>4. Len(u) = y - x + 1 /\ \A i \in 1..(y - x + 1) : u[i] = s[x + i - 1]
  BY <1>1
<1> HIDE DEF u
<1>5. Len(u) = b - a - 1 /\ \A i \in 1..(b - a - 1) : u[i] = s[a + i]
  BY <1>2, <1>4
<1> QED
  BY <1>3, <1>5 DEF u, x, y

LEMMA PrefixIs ==
    ASSUME NEW C, NEW s \in Seq(C), NEW t \in Seq(C)
    PROVE  /\ IsPrefix(s, t) <=> Len(s) <= Len(t) /\ \A i \in 1..Len(s) : s[i] = t[i]
           /\ IsStrictPrefix(s, t) <=> Len(s) < Len(t) /\ \A i \in 1..Len(s) : s[i] = t[i]
<1>1. Len(s) \in Nat /\ Len(t) \in Nat
  OBVIOUS
<1>2. SubSeq(s, 1, Len(s)) = s
  OBVIOUS
<1>3. ASSUME Len(s) <= Len(t)
      PROVE  SubSeq(t, 1, Len(s)) = s <=> \A i \in 1..Len(s) : s[i] = t[i]
  <2> DEFINE u == SubSeq(t, 1, Len(s))
  <2>1. u \in Seq(C) /\ Len(u) = Len(s) /\ \A i \in 1..Len(s) : u[i] = t[i]
    BY <1>1, <1>3
  <2> HIDE DEF u
  <2>2. (\A i \in 1..Len(s) : s[i] = t[i]) => u = s
    BY <2>1, SameElements
  <2> QED
    BY <2>1, <2>2 DEF u
<1>4. IsPrefix(s, t) <=> Len(s) <= Len(t) /\ \A i \in 1..Len(s) : s[i] = t[i]
  BY <1>2, <1>3 DEF IsPrefix
<1>5. ASSUME Len(s) = Len(t), \A i \in 1..Len(s) : s[i] = t[i]
      PROVE  s = t
  BY <1>5, SameElements
<1>6. Len(s) <= Len(t) => (Len(s) < Len(t) \/ Len(s) = Len(t))
  BY <1>1
<1>7. Len(s) < Len(t) => s # t
  BY <1>1
<1> QED
  BY <1>1, <1>4, <1>5, <1>6, <1>7 DEF IsStrictPrefix

LEMMA ReverseIs ==
    ASSUME NEW C, NEW s \in Seq(C)
    PROVE  /\ Reverse(s) \in Seq(C) /\ Len(Reverse(s)) = Len(s)
           /\ \A i \in 1..Len(s) : Reverse(s)[i] = s[Len(s) - i + 1]
<1>1. Len(s) \in Nat
  OBVIOUS
<1>2. \A i \in 1..Len(s) : Len(s) - i + 1 \in 1..Len(s)
  BY <1>1
<1> QED
  BY <1>1, <1>2 DEF Reverse

LEMMA SuffixIs ==
    ASSUME NEW C, NEW s \in Seq(C), NEW t \in Seq(C)
    PROVE  IsSuffix(s, t) <=>
              Len(s) <= Len(t) /\ \A i \in 1..Len(s) : s[i] = t[Len(t) - Len(s) + i]
<1> DEFINE m == Len(s)
           n == Len(t)
<1>1. m \in Nat /\ n \in Nat
  OBVIOUS
<1>2. IsSuffix(s, t) <=> m <= n /\ \A i \in 1..m : Reverse(s)[i] = Reverse(t)[i]
  BY ReverseIs, PrefixIs DEF IsSuffix
<1>3. /\ \A i \in 1..m : Reverse(s)[i] = s[m - i + 1]
      /\ \A i \in 1..n : Reverse(t)[i] = t[n - i + 1]
  BY ReverseIs
<1> HIDE DEF m, n
<1>4. ASSUME m <= n
      PROVE  (\A i \in 1..m : Reverse(s)[i] = Reverse(t)[i]) <=> \A i \in 1..m : s[i] = t[n - m + i]
  <2>1. ASSUME \A i \in 1..m : Reverse(s)[i] = Reverse(t)[i], NEW i \in 1..m
        PROVE  s[i] = t[n - m + i]
    <3>1. /\ m - i + 1 \in 1..m /\ m - i + 1 \in 1..n
          /\ m - (m - i + 1) + 1 = i /\ n - (m - i + 1) + 1 = n - m + i
      BY <1>1, <1>4
    <3>2. Reverse(s)[m - i + 1] = Reverse(t)[m - i + 1]
      BY <2>1, <3>1
    <3>3. Reverse(s)[m - i + 1] = s[i]
      BY <1>3, <3>1
    <3>4. Reverse(t)[m - i + 1] = t[n - m + i]
      BY <1>3, <3>1
    <3> QED
      BY <3>2, <3>3, <3>4
  <2>2. ASSUME \A i \in 1..m : s[i] = t[n - m + i], NEW i \in 1..m
        PROVE  Reverse(s)[i] = Reverse(t)[i]
    <3>1. m - i + 1 \in 1..m /\ i \in 1..n /\ n - m + (m - i + 1) = n - i + 1
      BY <1>1, <1>4
    <3>2. s[m - i + 1] = t[n - m + (m - i + 1)]
      BY <2>2, <3>1
    <3> QED
      BY <1>3, <3>1, <3>2
  <2> QED
    BY <2>1, <2>2
<1> QED
  BY <1>2, <1>4 DEF m, n

-----------------------------------------------------------------------------
(* Labels.                                                                 *)

Str == Seq(Char)

\* How many labels s has, and where they are cut.
Pieces(s) == Cardinality(Cuts(s)) - 1
CutAt(s, n) == nth(Cuts(s), n)

InOrder(s) ==
    /\ Pieces(s) \in Nat /\ Pieces(s) >= 1
    /\ CutAt(s, 1) = 0 /\ CutAt(s, Pieces(s) + 1) = Len(s) + 1
    /\ \A n \in 1..(Pieces(s) + 1) : CutAt(s, n) \in Cuts(s) /\ CutAt(s, n) \in 0..(Len(s) + 1)
    /\ \A m, n \in 1..(Pieces(s) + 1) : m < n => CutAt(s, m) < CutAt(s, n)
    /\ \A c \in Cuts(s) : \E n \in 1..(Pieces(s) + 1) : CutAt(s, n) = c

LEMMA CutsInOrder ==
    ASSUME NEW s \in Str
    PROVE  InOrder(s)
<1> DEFINE S == Cuts(s)
<1>1. Len(s) \in Nat /\ DOMAIN s = 1..Len(s)
  BY DEF Str
<1>2. S \subseteq 0..(Len(s) + 1) /\ 0 \in S /\ Len(s) + 1 \in S
  BY <1>1 DEF Cuts
<1>3. S \in SUBSET Nat
  BY <1>1, <1>2
<1> HIDE DEF S
<1>4. IsFiniteSet(S)
  <2>1. IsFiniteSet(0..(Len(s) + 1))
    BY <1>1, FS_Interval
  <2> QED
    BY <1>2, <2>1, FS_Subset
<1> DEFINE k == Cardinality(S)
<1>5. k \in Nat
  BY <1>4, FS_CardinalityType
<1>6. /\ \A n \in 1..k : nth(S, n) \in S
      /\ \A m, n \in 1..k : m < n => nth(S, m) < nth(S, n)
      /\ \A i \in S : \E n \in 1..k : nth(S, n) = i
  BY <1>3, <1>4, Positions
<1> HIDE DEF k
<1>7. \A n \in 1..k : nth(S, n) \in 0..(Len(s) + 1)
  BY <1>2, <1>6
<1>8. PICK a \in 1..k : nth(S, a) = 0
  BY <1>2, <1>6
<1>9. PICK b \in 1..k : nth(S, b) = Len(s) + 1
  BY <1>2, <1>6
<1>10. 1 \in 1..k /\ k \in 1..k
  BY <1>5, <1>8
<1>11. nth(S, 1) = 0
  <2>1. nth(S, 1) >= 0 /\ ~(1 < a)
    BY <1>6, <1>7, <1>8, <1>10
  <2> QED
    BY <1>5, <1>8, <2>1
<1>12. nth(S, k) = Len(s) + 1
  <2>1. nth(S, k) <= Len(s) + 1 /\ ~(b < k)
    BY <1>1, <1>6, <1>7, <1>9, <1>10
  <2> QED
    BY <1>5, <1>9, <2>1
<1>13. k # 1
  BY <1>1, <1>11, <1>12
<1>14. k - 1 \in Nat /\ k - 1 >= 1 /\ (k - 1) + 1 = k
  BY <1>5, <1>10, <1>13
<1> QED
  BY <1>6, <1>7, <1>11, <1>12, <1>14 DEF InOrder, Pieces, CutAt, S, k

\* The labels are what lies between the cuts.
Between(s) ==
    /\ Labels(s) \in Seq(Str) /\ Len(Labels(s)) = Pieces(s)
    /\ \A n \in 1..Pieces(s) :
          /\ Labels(s)[n] = SubSeq(s, CutAt(s, n) + 1, CutAt(s, n + 1) - 1)
          /\ Labels(s)[n] \in Str
          /\ Len(Labels(s)[n]) = CutAt(s, n + 1) - CutAt(s, n) - 1
          /\ \A i \in 1..(CutAt(s, n + 1) - CutAt(s, n) - 1) : Labels(s)[n][i] = s[CutAt(s, n) + i]

LEMMA LabelsBetween ==
    ASSUME NEW s \in Str
    PROVE  Between(s)
<1>1. InOrder(s)
  BY CutsInOrder
<1>2. Pieces(s) \in Nat /\ Len(s) \in Nat
  BY <1>1 DEF InOrder, Str
<1>3. Labels(s) = [n \in 1..Pieces(s) |-> SubSeq(s, CutAt(s, n) + 1, CutAt(s, n + 1) - 1)]
  BY DEF Labels, Pieces, CutAt
<1>4. ASSUME NEW n \in 1..Pieces(s)
      PROVE  LET a == CutAt(s, n)
                 b == CutAt(s, n + 1)
                 l == SubSeq(s, a + 1, b - 1)
             IN  /\ l \in Str /\ Len(l) = b - a - 1
                 /\ \A i \in 1..(b - a - 1) : l[i] = s[a + i]
  <2> DEFINE a == CutAt(s, n)
             b == CutAt(s, n + 1)
  <2>1. n \in 1..(Pieces(s) + 1) /\ n + 1 \in 1..(Pieces(s) + 1) /\ n < n + 1
    BY <1>2
  <2>2. a \in 0..(Len(s) + 1) /\ b \in 0..(Len(s) + 1) /\ a < b
    BY <1>1, <2>1 DEF InOrder
  <2> HIDE DEF a, b
  <2>3. a \in Nat /\ b \in Nat /\ b <= Len(s) + 1
    BY <1>2, <2>2
  <2>4. /\ SubSeq(s, a + 1, b - 1) \in Str
        /\ Len(SubSeq(s, a + 1, b - 1)) = b - a - 1
        /\ \A i \in 1..(b - a - 1) : SubSeq(s, a + 1, b - 1)[i] = s[a + i]
    BY <2>2, <2>3, Part DEF Str
  <2> QED
    BY <2>4 DEF a, b
<1>5. Labels(s) \in [1..Pieces(s) -> Str]
  BY <1>3, <1>4
<1>6. Labels(s) \in Seq(Str) /\ Len(Labels(s)) = Pieces(s)
  <2> HIDE DEF Str
  <2> QED
    BY <1>2, <1>5
<1>7. \A n \in 1..Pieces(s) : Labels(s)[n] = SubSeq(s, CutAt(s, n) + 1, CutAt(s, n + 1) - 1)
  BY <1>3
<1> QED
  BY <1>4, <1>6, <1>7 DEF Between

LEMMA CutIs ==
    ASSUME NEW s \in Str
    PROVE  \A c : c \in Cuts(s) <=> c = 0 \/ c = Len(s) + 1 \/ (c \in 1..Len(s) /\ s[c] = ".")
<1>1. DOMAIN s = 1..Len(s)
  BY DEF Str
<1> QED
  BY <1>1 DEF Cuts

\* A piece of s between two cuts has the labels between them.
LEMMA Piece ==
    ASSUME NEW s \in Str, NEW p \in 1..(Pieces(s) + 1), NEW q \in 1..(Pieces(s) + 1), p < q,
           NEW t \in Str, Len(t) = CutAt(s, q) - CutAt(s, p) - 1,
           \A i \in 1..Len(t) : t[i] = s[CutAt(s, p) + i]
    PROVE  /\ Len(Labels(t)) = q - p
           /\ \A n \in 1..(q - p) : Labels(t)[n] = Labels(s)[p + n - 1]
<1> DEFINE a == CutAt(s, p)
           b == CutAt(s, q)
           m == q - p + 1
           C(n) == CutAt(s, p + n - 1)
           f == [n \in 1..m |-> C(n) - a]
<1>1. /\ Pieces(s) \in Nat /\ Len(s) \in Nat
      /\ \A n \in 1..(Pieces(s) + 1) : CutAt(s, n) \in Cuts(s) /\ CutAt(s, n) \in 0..(Len(s) + 1)
      /\ \A i, n \in 1..(Pieces(s) + 1) : i < n => CutAt(s, i) < CutAt(s, n)
      /\ \A c \in Cuts(s) : \E n \in 1..(Pieces(s) + 1) : CutAt(s, n) = c
  <2>1. InOrder(s)
    BY CutsInOrder
  <2>2. Len(s) \in Nat
    BY DEF Str
  <2> QED
    BY <2>1, <2>2 DEF InOrder
<1>2. a \in Nat /\ b \in Nat /\ a < b /\ b <= Len(s) + 1
  BY <1>1
<1>3. p \in Nat /\ q \in Nat /\ m \in Nat /\ m >= 2
  BY <1>1
<1>4. ASSUME NEW n \in 1..m
      PROVE  p + n - 1 \in 1..(Pieces(s) + 1)
  BY <1>1, <1>3
<1>5. Len(t) = b - a - 1 /\ \A i \in 1..(b - a - 1) : t[i] = s[a + i]
  OBVIOUS
<1>6. Len(t) \in Nat
  BY DEF Str
<1>7. /\ \A n \in 1..m : C(n) \in Nat /\ C(n) \in Cuts(s)
      /\ \A i, n \in 1..m : i < n => C(i) < C(n)
  <2>1. \A n \in 1..(Pieces(s) + 1) : CutAt(s, n) \in Nat
    BY <1>1
  <2>2. \A i, n \in 1..m : i < n => p + i - 1 < p + n - 1
    BY <1>3
  <2> QED
    BY <1>1, <1>4, <2>1, <2>2
<1>8. 1 \in 1..m /\ m \in 1..m /\ C(1) = a /\ C(m) = b
  <2>1. p + 1 - 1 = p /\ p + m - 1 = q
    BY <1>3
  <2> QED
    BY <1>3, <2>1
<1>9. \A n \in 1..m : f[n] = C(n) - a
  OBVIOUS
<1> HIDE DEF f, C, a, b
<1>10. ASSUME NEW n \in 1..m PROVE f[n] \in Cuts(t)
  <2>1. C(n) \in Nat /\ f[n] = C(n) - a
    BY <1>7, <1>9
  <2>2. CASE n = 1
    <3>1. f[n] = 0
      BY <1>2, <1>8, <2>1, <2>2
    <3> QED
      BY <3>1, CutIs
  <2>3. CASE n = m
    <3>1. f[n] = Len(t) + 1
      BY <1>2, <1>5, <1>8, <2>1, <2>3
    <3> QED
      BY <3>1, CutIs
  <2>4. CASE n # 1 /\ n # m
    <3>1. a < C(n) /\ C(n) < b
      <4>1. 1 < n /\ n < m
        BY <1>3, <2>4
      <4>2. 1 \in 1..m /\ m \in 1..m
        BY <1>8
      <4>3. C(1) < C(n)
        BY <1>7, <4>1, <4>2
      <4>4. C(n) < C(m)
        BY <1>7, <4>1, <4>2
      <4> QED
        BY <1>8, <4>3, <4>4
    <3>2. s[C(n)] = "."
      <4>0. Len(s) \in Nat
        BY <1>1
      <4>1. C(n) # 0 /\ C(n) # Len(s) + 1
        BY <1>2, <2>1, <3>1, <4>0
      <4> QED
        BY <1>7, <4>1, CutIs
    <3>3. f[n] \in 1..(b - a - 1) /\ a + f[n] = C(n)
      BY <1>2, <2>1, <3>1
    <3>4. t[f[n]] = "." /\ f[n] \in 1..Len(t)
      BY <1>5, <3>2, <3>3
    <3> QED
      BY <3>4, CutIs
  <2> QED
    BY <2>2, <2>3, <2>4
<1>11. ASSUME NEW i \in 1..m, NEW n \in 1..m, i < n PROVE f[i] < f[n]
  BY <1>2, <1>7, <1>9, <1>11
<1>12. ASSUME NEW x \in Cuts(t) PROVE \E n \in 1..m : f[n] = x
  <2>1. f[1] = 0 /\ f[m] = Len(t) + 1
    BY <1>2, <1>5, <1>8, <1>9
  <2>2. CASE x = 0 \/ x = Len(t) + 1
    BY <1>8, <2>1, <2>2
  <2>3. CASE ~(x = 0 \/ x = Len(t) + 1)
    <3>1. x \in 1..Len(t) /\ t[x] = "."
      BY <2>3, CutIs
    <3>2. x \in Nat /\ a + x \in 1..Len(s) /\ a < a + x /\ a + x < b
      <4>1. Len(s) \in Nat /\ Len(t) \in Nat
        BY <1>1, <1>6
      <4>2. x \in Nat /\ x >= 1 /\ x <= Len(t) /\ Len(t) = b - a - 1
        BY <1>5, <3>1, <4>1
      <4> QED
        BY <1>2, <4>1, <4>2
    <3>3. s[a + x] = "."
      BY <1>5, <3>1
    <3>4. a + x \in Cuts(s)
      BY <3>2, <3>3, CutIs
    <3>5. PICK k \in 1..(Pieces(s) + 1) : CutAt(s, k) = a + x
      BY <1>1, <3>4
    <3>6. p < k /\ k < q
      <4>1. CutAt(s, p) < CutAt(s, k) /\ CutAt(s, k) < CutAt(s, q)
        BY <3>2, <3>5 DEF a, b
      <4>2. CutAt(s, p) \in Nat /\ CutAt(s, k) \in Nat /\ CutAt(s, q) \in Nat
        BY <1>2, <3>2, <3>5 DEF a, b
      <4>3. (k < p => CutAt(s, k) < CutAt(s, p)) /\ (q < k => CutAt(s, q) < CutAt(s, k))
        BY <1>1
      <4>4. ~(k < p) /\ k # p /\ ~(q < k) /\ k # q
        BY <4>1, <4>2, <4>3
      <4>5. k \in Nat /\ p \in Nat /\ q \in Nat
        BY <1>1
      <4> QED
        BY <4>4, <4>5
    <3>7. k - p + 1 \in 1..m /\ p + (k - p + 1) - 1 = k
      BY <1>1, <1>3, <3>6
    <3>8. C(k - p + 1) = a + x
      BY <3>5, <3>7 DEF C
    <3> QED
      BY <1>2, <1>9, <3>2, <3>7, <3>8
  <2> QED
    BY <2>2, <2>3
<1>13. Cuts(t) \in SUBSET Nat
  BY <1>6, CutIs
<1>14. f \in [1..m -> Cuts(t)]
  BY <1>10 DEF f
<1> HIDE DEF m
<1>15. Cardinality(Cuts(t)) = m /\ \A n \in 1..m : CutAt(t, n) = f[n]
  BY <1>3, <1>11, <1>12, <1>13, <1>14, Enumerated DEF CutAt
<1>16. Pieces(t) = q - p
  BY <1>3, <1>15 DEF Pieces, m
<1>17. ASSUME NEW n \in 1..(q - p) PROVE Labels(t)[n] = Labels(s)[p + n - 1]
  <2> DEFINE k == p + n - 1
             c == C(n)
             d == C(n + 1)
             lt == Labels(t)[n]
             ls == Labels(s)[k]
  <2>1. n \in 1..m /\ n + 1 \in 1..m /\ n < n + 1
    BY <1>3 DEF m
  <2>2. k \in 1..Pieces(s) /\ CutAt(s, k) = c /\ CutAt(s, k + 1) = d
    <3>1. k \in 1..Pieces(s) /\ p + (n + 1) - 1 = k + 1
      BY <1>1, <1>3
    <3> QED
      BY <3>1 DEF C
  <2>3. CutAt(t, n) = c - a /\ CutAt(t, n + 1) = d - a
    BY <1>9, <1>15, <2>1
  <2>4. c \in Nat /\ d \in Nat /\ c < d /\ a <= c /\ d <= b
    <3>1. (n = 1 \/ 1 < n) /\ (n + 1 = m \/ n + 1 < m)
      BY <1>3, <2>1
    <3> QED
      BY <1>2, <1>7, <1>8, <2>1, <3>1
  <2>5. ls \in Str /\ Len(ls) = d - c - 1 /\ \A i \in 1..(d - c - 1) : ls[i] = s[c + i]
    <3> DEFINE x == CutAt(s, k)
               y == CutAt(s, k + 1)
    <3>1. ls \in Str /\ Len(ls) = y - x - 1 /\ \A i \in 1..(y - x - 1) : ls[i] = s[x + i]
      <4>1. Between(s)
        BY LabelsBetween
      <4> HIDE DEF k
      <4> QED
        BY <2>2, <4>1 DEF Between
    <3> HIDE DEF ls, c, d
    <3> QED
      BY <2>2, <3>1
  <2>6. /\ lt \in Str /\ Len(lt) = (d - a) - (c - a) - 1
        /\ \A i \in 1..((d - a) - (c - a) - 1) : lt[i] = t[(c - a) + i]
    <3> DEFINE x == CutAt(t, n)
               y == CutAt(t, n + 1)
    <3>1. /\ lt \in Str /\ Len(lt) = y - x - 1
          /\ \A i \in 1..(y - x - 1) : lt[i] = t[x + i]
      <4>1. n \in 1..Pieces(t) /\ Between(t)
        BY <1>16, LabelsBetween
      <4> QED
        BY <4>1 DEF Between
    <3> HIDE DEF lt, c, d
    <3> QED
      BY <2>3, <3>1
  <2> HIDE DEF c, d, ls, lt, k
  <2>7. (d - a) - (c - a) - 1 = d - c - 1
    BY <1>2, <2>4
  <2>8. ASSUME NEW i \in 1..(d - c - 1) PROVE lt[i] = ls[i]
    <3>1. (c - a) + i \in 1..(b - a - 1) /\ a + ((c - a) + i) = c + i
      BY <1>2, <2>4
    <3>2. t[(c - a) + i] = s[c + i]
      BY <1>5, <3>1
    <3> QED
      BY <2>5, <2>6, <2>7, <3>2
  <2>9. lt = ls
    BY <2>5, <2>6, <2>7, <2>8, SameElements DEF Str
  <2> QED
    BY <2>9 DEF lt, ls, k
<1>18. Len(Labels(t)) = q - p
  BY <1>16, LabelsBetween DEF Between
<1> QED
  BY <1>17, <1>18

\* What is no cut lies between two.
LEMMA PieceOf ==
    ASSUME NEW s \in Str, NEW i \in 1..Len(s), i \notin Cuts(s)
    PROVE  \E n \in 1..Pieces(s) : CutAt(s, n) < i /\ i < CutAt(s, n + 1)
<1> DEFINE k == Pieces(s)
           D == {n \in 1..(k + 1) : i < CutAt(s, n)}
<1>1. InOrder(s) /\ Len(s) \in Nat
  BY CutsInOrder DEF Str
<1>2. k \in Nat /\ CutAt(s, 1) = 0 /\ CutAt(s, k + 1) = Len(s) + 1
  BY <1>1 DEF InOrder
<1>3. \A n \in 1..(k + 1) : CutAt(s, n) \in Cuts(s) /\ CutAt(s, n) \in Nat
  BY <1>1 DEF InOrder
<1> HIDE DEF k
<1>4. k + 1 \in D
  BY <1>1, <1>2
<1>5. D \in SUBSET Nat /\ IsFiniteSet(D)
  <2>1. IsFiniteSet(1..(k + 1))
    BY <1>2, FS_Interval
  <2> QED
    BY <1>2, <2>1, FS_Subset
<1>6. PICK n \in D : \A m \in D : n <= m
  <2> HIDE DEF D
  <2> QED
    BY <1>4, <1>5, Smallest
<1>7. n \in 1..(k + 1) /\ i < CutAt(s, n) /\ n # 1
  BY <1>2
<1>8. n - 1 \in 1..k /\ n - 1 \in 1..(k + 1) /\ (n - 1) + 1 = n /\ ~(n <= n - 1)
  BY <1>2, <1>7
<1>9. ~(i < CutAt(s, n - 1)) /\ CutAt(s, n - 1) # i
  BY <1>3, <1>6, <1>8
<1>10. CutAt(s, n - 1) < i
  BY <1>3, <1>8, <1>9
<1> QED
  BY <1>7, <1>8, <1>10 DEF k

\* Nothing of a name is lost by splitting it.
LEMMA SameLabels ==
    ASSUME NEW s \in Str, NEW t \in Str, Labels(s) = Labels(t)
    PROVE  s = t
<1> DEFINE k == Pieces(s)
           D == {n \in 1..(k + 1) : CutAt(s, n) # CutAt(t, n)}
<1>1. Between(s) /\ Between(t) /\ InOrder(s) /\ InOrder(t)
  BY LabelsBetween, CutsInOrder
<1>2. Pieces(t) = k /\ k \in Nat /\ k >= 1 /\ Len(s) \in Nat /\ Len(t) \in Nat
  BY <1>1 DEF Between, InOrder, Str
<1>3. \A n \in 1..(k + 1) : CutAt(s, n) \in 0..(Len(s) + 1) /\ CutAt(t, n) \in 0..(Len(t) + 1)
  BY <1>1, <1>2 DEF InOrder
<1>4. CutAt(s, 1) = 0 /\ CutAt(t, 1) = 0 /\ CutAt(s, k + 1) = Len(s) + 1 /\ CutAt(t, k + 1) = Len(t) + 1
  BY <1>1, <1>2 DEF InOrder
<1>5. ASSUME NEW n \in 1..k
      PROVE  CutAt(s, n + 1) - CutAt(s, n) = CutAt(t, n + 1) - CutAt(t, n)
  <2>1. Len(Labels(s)[n]) = CutAt(s, n + 1) - CutAt(s, n) - 1
    BY <1>1 DEF Between
  <2>2. Len(Labels(t)[n]) = CutAt(t, n + 1) - CutAt(t, n) - 1
    BY <1>1, <1>2 DEF Between
  <2>3. n \in 1..(k + 1) /\ n + 1 \in 1..(k + 1)
    BY <1>2
  <2>4. /\ CutAt(s, n) \in Int /\ CutAt(s, n + 1) \in Int
        /\ CutAt(t, n) \in Int /\ CutAt(t, n + 1) \in Int
    BY <1>2, <1>3, <2>3
  <2>5. CutAt(s, n + 1) - CutAt(s, n) - 1 = CutAt(t, n + 1) - CutAt(t, n) - 1
    BY <2>1, <2>2
  <2> QED
    BY <2>4, <2>5
<1> HIDE DEF k
<1>6. D = {}
  <2> SUFFICES ASSUME D # {} PROVE FALSE
    OBVIOUS
  <2>1. D \in SUBSET Nat /\ IsFiniteSet(D)
    <3>1. IsFiniteSet(1..(k + 1))
      BY <1>2, FS_Interval
    <3> QED
      BY <1>2, <3>1, FS_Subset
  <2>2. PICK n \in D : \A m \in D : n <= m
    <3> HIDE DEF D
    <3> QED
      BY <2>1, Smallest
  <2>3. n \in 1..(k + 1) /\ CutAt(s, n) # CutAt(t, n)
    OBVIOUS
  <2>4. n # 1
    BY <1>4, <2>3
  <2>5. n - 1 \in 1..k /\ n - 1 \in 1..(k + 1) /\ (n - 1) + 1 = n /\ ~(n <= n - 1)
    BY <1>2, <2>3, <2>4
  <2>6. CutAt(s, n - 1) = CutAt(t, n - 1)
    BY <2>2, <2>5
  <2>7. CutAt(s, n) - CutAt(s, n - 1) = CutAt(t, n) - CutAt(t, n - 1)
    BY <1>5, <2>5
  <2>8. CutAt(s, n) \in Int /\ CutAt(t, n) \in Int /\ CutAt(t, n - 1) \in Int
    BY <1>2, <1>3, <2>3, <2>5
  <2> QED
    BY <2>3, <2>6, <2>7, <2>8
<1>7. \A n \in 1..(k + 1) : CutAt(s, n) = CutAt(t, n)
  BY <1>6
<1>8. Len(s) = Len(t)
  BY <1>2, <1>4, <1>7
<1>9. \A c : c \in Cuts(s) <=> c \in Cuts(t)
  <2>1. \A n \in 1..(k + 1) : CutAt(s, n) \in Cuts(s) /\ CutAt(t, n) \in Cuts(t)
    BY <1>1, <1>2 DEF InOrder, k
  <2>2. \A c \in Cuts(s) : \E n \in 1..(k + 1) : CutAt(s, n) = c
    BY <1>1 DEF InOrder, k
  <2>3. \A c \in Cuts(t) : \E n \in 1..(k + 1) : CutAt(t, n) = c
    BY <1>1, <1>2 DEF InOrder
  <2> QED
    BY <1>7, <2>1, <2>2, <2>3
<1>10. ASSUME NEW i \in 1..Len(s) PROVE s[i] = t[i]
  <2>1. CASE i \in Cuts(s)
    <3>1. i \in Cuts(t) /\ i # 0 /\ i # Len(s) + 1
      BY <1>2, <1>9, <2>1
    <3> QED
      BY <1>8, <2>1, <3>1, CutIs
  <2>2. CASE i \notin Cuts(s)
    <3>1. PICK n \in 1..k : CutAt(s, n) < i /\ i < CutAt(s, n + 1)
      BY <2>2, PieceOf DEF k
    <3>2. n \in 1..(k + 1) /\ n + 1 \in 1..(k + 1)
      BY <1>2
    <3> DEFINE a == CutAt(s, n)
               b == CutAt(s, n + 1)
    <3>3. CutAt(t, n) = a /\ CutAt(t, n + 1) = b /\ a \in Nat /\ b \in Nat
      BY <1>2, <1>3, <1>7, <3>2
    <3>4. \A j \in 1..(b - a - 1) : Labels(s)[n][j] = s[a + j]
      BY <1>1 DEF Between, k
    <3>5. \A j \in 1..(b - a - 1) : Labels(t)[n][j] = t[a + j]
      <4>1. n \in 1..Pieces(t)
        BY <1>2
      <4>2. \A j \in 1..(CutAt(t, n + 1) - CutAt(t, n) - 1) : Labels(t)[n][j] = t[CutAt(t, n) + j]
        BY <1>1, <4>1 DEF Between
      <4> QED
        BY <3>3, <4>2
    <3>6. i - a \in 1..(b - a - 1) /\ a + (i - a) = i
      BY <3>1, <3>3
    <3> QED
      BY <3>4, <3>5, <3>6
  <2> QED
    BY <2>1, <2>2
<1> QED
  BY <1>8, <1>10, SameElements DEF Str

\* A name ends with the labels of another if it ends with its characters, and
\* a label ends where they begin.
LEMMA SuffixOfLabels ==
    ASSUME NEW s \in Str, NEW t \in Str
    PROVE  IsSuffix(Labels(s), Labels(t)) <=>
              IsSuffix(s, t) /\ (Len(s) < Len(t) => t[Len(t) - Len(s)] = ".")
<1> DEFINE m == Len(s)
           n == Len(t)
           Ends == /\ m <= n /\ (\A i \in 1..m : s[i] = t[n - m + i])
                   /\ m < n => t[n - m] = "."
<1>1. Between(s) /\ Between(t) /\ InOrder(s) /\ InOrder(t)
  BY LabelsBetween, CutsInOrder
<1>2. m \in Nat /\ n \in Nat
  BY DEF Str
<1>3. Pieces(s) \in Nat /\ Pieces(s) >= 1 /\ Pieces(t) \in Nat /\ Pieces(t) >= 1
  BY <1>1 DEF InOrder
<1>4. /\ CutAt(t, Pieces(t) + 1) = n + 1
      /\ \A k \in 1..(Pieces(t) + 1) : CutAt(t, k) \in Cuts(t) /\ CutAt(t, k) \in 0..(n + 1)
      /\ \A j, k \in 1..(Pieces(t) + 1) : j < k => CutAt(t, j) < CutAt(t, k)
      /\ \A c \in Cuts(t) : \E k \in 1..(Pieces(t) + 1) : CutAt(t, k) = c
  BY <1>1 DEF InOrder
<1>5. /\ Labels(s) \in Seq(Str) /\ Len(Labels(s)) = Pieces(s)
      /\ Labels(t) \in Seq(Str) /\ Len(Labels(t)) = Pieces(t)
  BY <1>1 DEF Between
<1>6. IsSuffix(Labels(s), Labels(t)) <=>
         /\ Pieces(s) <= Pieces(t)
         /\ \A i \in 1..Pieces(s) : Labels(s)[i] = Labels(t)[Pieces(t) - Pieces(s) + i]
  <2> DEFINE ls == Labels(s)
             lt == Labels(t)
  <2>1. ls \in Seq(Str) /\ lt \in Seq(Str) /\ Len(ls) = Pieces(s) /\ Len(lt) = Pieces(t)
    BY <1>5
  <2> HIDE DEF ls, lt
  <2>2. IsSuffix(ls, lt) <=>
           Len(ls) <= Len(lt) /\ \A i \in 1..Len(ls) : ls[i] = lt[Len(lt) - Len(ls) + i]
    BY <2>1, SuffixIs
  <2>3. IsSuffix(ls, lt) <=>
           Pieces(s) <= Pieces(t)
           /\ \A i \in 1..Pieces(s) : ls[i] = lt[Pieces(t) - Pieces(s) + i]
    BY <2>1, <2>2
  <2> QED
    BY <2>3 DEF ls, lt
<1>7. IsSuffix(s, t) <=> m <= n /\ \A i \in 1..m : s[i] = t[n - m + i]
  BY SuffixIs DEF Str
<1> HIDE DEF m, n
<1>8. ASSUME IsSuffix(Labels(s), Labels(t)) PROVE Ends
  <2> DEFINE p == Pieces(t) - Pieces(s) + 1
             q == Pieces(t) + 1
             a == CutAt(t, p)
             u == SubSeq(t, a + 1, (n + 1) - 1)
  <2>1. p \in 1..q /\ p < q /\ q \in 1..q /\ q - p = Pieces(s)
    BY <1>3, <1>6, <1>8
  <2>2. a \in Nat /\ a < n + 1 /\ a \in Cuts(t)
    BY <1>2, <1>4, <2>1
  <2>3. u \in Str /\ Len(u) = (n + 1) - a - 1 /\ \A i \in 1..((n + 1) - a - 1) : u[i] = t[a + i]
    <3> HIDE DEF a
    <3> QED
      BY <1>2, <2>2, Part DEF Str, n
  <2> HIDE DEF u
  <2>4. /\ Len(Labels(u)) = q - p
        /\ \A i \in 1..(q - p) : Labels(u)[i] = Labels(t)[p + i - 1]
    <3>1. /\ p \in 1..(Pieces(t) + 1) /\ q \in 1..(Pieces(t) + 1)
          /\ Len(u) = CutAt(t, q) - CutAt(t, p) - 1
          /\ \A i \in 1..Len(u) : u[i] = t[CutAt(t, p) + i]
      BY <1>4, <2>1, <2>3
    <3> HIDE DEF p, q
    <3> QED
      BY <2>1, <2>3, <3>1, Piece
  <2>5. Labels(u) = Labels(s)
    <3>1. Labels(u) \in Seq(Str)
      BY <2>3, LabelsBetween DEF Between
    <3>2. ASSUME NEW i \in 1..Pieces(s) PROVE Labels(u)[i] = Labels(s)[i]
      <4>1. p + i - 1 = Pieces(t) - Pieces(s) + i
        BY <1>3
      <4> QED
        BY <1>6, <1>8, <2>1, <2>4, <4>1
    <3> QED
      BY <1>5, <2>1, <2>4, <3>1, <3>2, SameElements
  <2>6. u = s
    BY <2>3, <2>5, SameLabels
  <2> HIDE DEF a
  <2>7. m <= n /\ a = n - m
    BY <1>2, <2>2, <2>3, <2>6 DEF m
  <2>8. \A i \in 1..m : s[i] = t[n - m + i]
    BY <1>2, <2>3, <2>6, <2>7
  <2>9. m < n => t[n - m] = "."
    <3>1. m < n => n - m # 0 /\ n - m # n + 1
      BY <1>2
    <3> QED
      BY <2>2, <2>7, <3>1, CutIs DEF n
  <2> QED
    BY <2>7, <2>8, <2>9
<1>9. ASSUME Ends PROVE IsSuffix(Labels(s), Labels(t))
  <2> DEFINE a == n - m
             q == Pieces(t) + 1
  <2>1. a \in Cuts(t) /\ a \in 0..n
    <3>1. a = 0 \/ a \in 1..n
      BY <1>2, <1>9
    <3>2. a \in 1..n => t[a] = "."
      BY <1>2, <1>9
    <3> QED
      BY <3>1, <3>2, CutIs DEF n
  <2>2. PICK p \in 1..q : CutAt(t, p) = a
    BY <1>4, <2>1
  <2>3. p < q /\ q \in 1..q /\ CutAt(t, q) = n + 1
    <3>1. p # q
      BY <1>2, <1>4, <2>1, <2>2
    <3> QED
      BY <1>3, <1>4, <3>1
  <2>4. m = (n + 1) - a - 1 /\ \A i \in 1..m : s[i] = t[a + i]
    BY <1>2, <1>9
  <2>5. /\ Pieces(s) = q - p
        /\ \A i \in 1..(q - p) : Labels(s)[i] = Labels(t)[p + i - 1]
    <3>1. /\ q \in 1..(Pieces(t) + 1)
          /\ Len(s) = CutAt(t, q) - CutAt(t, p) - 1
          /\ \A i \in 1..Len(s) : s[i] = t[CutAt(t, p) + i]
      BY <2>2, <2>3, <2>4 DEF m
    <3> HIDE DEF a, q
    <3>2. /\ Len(Labels(s)) = q - p
          /\ \A i \in 1..(q - p) : Labels(s)[i] = Labels(t)[p + i - 1]
      BY <2>2, <2>3, <3>1, Piece DEF q
    <3> QED
      BY <1>5, <3>2
  <2>6. /\ Pieces(s) <= Pieces(t)
        /\ \A i \in 1..Pieces(s) : p + i - 1 = Pieces(t) - Pieces(s) + i
    BY <1>3, <2>3, <2>5
  <2> QED
    BY <1>6, <2>5, <2>6
<1> QED
  BY <1>7, <1>8, <1>9 DEF m, n

\* A name begins with the labels of another and has more, if it begins with its
\* characters and a dot.
LEMMA PrefixOfLabels ==
    ASSUME NEW s \in Str, NEW t \in Str
    PROVE  IsStrictPrefix(Labels(s), Labels(t)) <=>
              IsPrefix(s, t) /\ Len(s) < Len(t) /\ t[Len(s) + 1] = "."
<1> DEFINE m == Len(s)
           n == Len(t)
           Begins == m < n /\ (\A i \in 1..m : s[i] = t[i]) /\ t[m + 1] = "."
<1>1. Between(s) /\ Between(t) /\ InOrder(s) /\ InOrder(t)
  BY LabelsBetween, CutsInOrder
<1>2. m \in Nat /\ n \in Nat
  BY DEF Str
<1>3. Pieces(s) \in Nat /\ Pieces(s) >= 1 /\ Pieces(t) \in Nat /\ Pieces(t) >= 1
  BY <1>1 DEF InOrder
<1>4. /\ CutAt(t, 1) = 0 /\ CutAt(t, Pieces(t) + 1) = n + 1
      /\ \A k \in 1..(Pieces(t) + 1) : CutAt(t, k) \in Cuts(t) /\ CutAt(t, k) \in 0..(n + 1)
      /\ \A j, k \in 1..(Pieces(t) + 1) : j < k => CutAt(t, j) < CutAt(t, k)
      /\ \A c \in Cuts(t) : \E k \in 1..(Pieces(t) + 1) : CutAt(t, k) = c
  BY <1>1 DEF InOrder
<1>5. /\ Labels(s) \in Seq(Str) /\ Len(Labels(s)) = Pieces(s)
      /\ Labels(t) \in Seq(Str) /\ Len(Labels(t)) = Pieces(t)
  BY <1>1 DEF Between
<1>6. IsStrictPrefix(Labels(s), Labels(t)) <=>
         Pieces(s) < Pieces(t) /\ \A i \in 1..Pieces(s) : Labels(s)[i] = Labels(t)[i]
  BY <1>5, PrefixIs
<1>7. IsPrefix(s, t) <=> m <= n /\ \A i \in 1..m : s[i] = t[i]
  BY PrefixIs DEF Str
<1> HIDE DEF m, n
<1>8. ASSUME IsStrictPrefix(Labels(s), Labels(t)) PROVE Begins
  <2> DEFINE q == Pieces(s) + 1
             b == CutAt(t, q)
             u == SubSeq(t, 0 + 1, b - 1)
  <2>1. 1 \in 1..(Pieces(t) + 1) /\ q \in 1..(Pieces(t) + 1) /\ 1 < q /\ q < Pieces(t) + 1
    BY <1>3, <1>6, <1>8
  <2>2. b \in Nat /\ 0 < b /\ b < n + 1 /\ b \in Cuts(t)
    <3>1. CutAt(t, 1) < b /\ b < CutAt(t, Pieces(t) + 1)
      BY <1>3, <1>4, <2>1
    <3> QED
      BY <1>2, <1>4, <2>1, <3>1
  <2>3. u \in Str /\ Len(u) = b - 0 - 1 /\ \A i \in 1..(b - 0 - 1) : u[i] = t[0 + i]
    <3> HIDE DEF b
    <3>1. 0 \in Nat /\ b <= n + 1
      BY <1>2, <2>2
    <3> QED
      BY <2>2, <3>1, Part DEF Str, n
  <2> HIDE DEF u
  <2>4. /\ Len(Labels(u)) = q - 1
        /\ \A i \in 1..(q - 1) : Labels(u)[i] = Labels(t)[1 + i - 1]
    <3>1. /\ Len(u) = CutAt(t, q) - CutAt(t, 1) - 1
          /\ \A i \in 1..Len(u) : u[i] = t[CutAt(t, 1) + i]
      BY <1>4, <2>3
    <3> HIDE DEF q
    <3> QED
      BY <2>1, <2>3, <3>1, Piece
  <2>5. Labels(u) = Labels(s)
    <3>1. Labels(u) \in Seq(Str)
      BY <2>3, LabelsBetween DEF Between
    <3>2. q - 1 = Pieces(s)
      BY <1>3
    <3>3. ASSUME NEW i \in 1..Pieces(s) PROVE Labels(u)[i] = Labels(s)[i]
      <4>1. 1 + i - 1 = i
        OBVIOUS
      <4> QED
        BY <1>6, <1>8, <2>4, <3>2, <4>1
    <3> QED
      BY <1>5, <2>4, <3>1, <3>2, <3>3, SameElements
  <2>6. u = s
    BY <2>3, <2>5, SameLabels
  <2> HIDE DEF b
  <2>7. b = m + 1
    BY <2>2, <2>3, <2>6 DEF m
  <2>8. ASSUME NEW i \in 1..m PROVE s[i] = t[i]
    <3>1. i \in 1..(b - 0 - 1) /\ 0 + i = i
      BY <1>2, <2>7
    <3> QED
      BY <2>3, <2>6, <3>1
  <2>9. t[b] = "."
    <3>1. b # 0 /\ b # n + 1
      BY <1>2, <2>2
    <3> QED
      BY <2>2, <3>1, CutIs DEF n
  <2> QED
    BY <1>2, <2>2, <2>7, <2>8, <2>9
<1>9. ASSUME Begins PROVE IsStrictPrefix(Labels(s), Labels(t))
  <2>1. m + 1 \in Cuts(t)
    <3>1. m + 1 \in 1..n
      BY <1>2, <1>9
    <3> QED
      BY <1>9, <3>1, CutIs DEF n
  <2>2. PICK q \in 1..(Pieces(t) + 1) : CutAt(t, q) = m + 1
    BY <1>4, <2>1
  <2>3. 1 < q /\ q <= Pieces(t) /\ 1 \in 1..(Pieces(t) + 1)
    <3>1. q # 1 /\ q # Pieces(t) + 1
      BY <1>2, <1>4, <1>9, <2>2
    <3> QED
      BY <1>3, <3>1
  <2>4. /\ Len(s) = CutAt(t, q) - CutAt(t, 1) - 1
        /\ \A i \in 1..Len(s) : s[i] = t[CutAt(t, 1) + i]
    <3>1. m = (m + 1) - 0 - 1 /\ \A i \in 1..m : 0 + i = i
      BY <1>2
    <3> QED
      BY <1>4, <1>9, <2>2, <3>1 DEF m
  <2>5. /\ Len(Labels(s)) = q - 1
        /\ \A i \in 1..(q - 1) : Labels(s)[i] = Labels(t)[1 + i - 1]
    BY <2>3, <2>4, Piece
  <2>6. Pieces(s) < Pieces(t) /\ \A i \in 1..Pieces(s) : 1 + i - 1 = i /\ i \in 1..(q - 1)
    BY <1>3, <1>5, <2>3, <2>5
  <2> QED
    BY <1>6, <2>5, <2>6
<1> QED
  BY <1>2, <1>7, <1>8, <1>9 DEF m, n

\* Without a dot there is one label.
LEMMA Undotted ==
    ASSUME NEW s \in Str
    PROVE  /\ Len(Labels(s)) = 1 <=> \A i \in 1..Len(s) : s[i] # "."
           /\ Len(Labels(s)) = 1 => Labels(s) = <<s>>
<1>1. Between(s) /\ InOrder(s) /\ Len(s) \in Nat
  BY LabelsBetween, CutsInOrder DEF Str
<1>2. Labels(s) \in Seq(Str) /\ Len(Labels(s)) = Pieces(s) /\ Pieces(s) \in Nat
  BY <1>1 DEF Between, InOrder
<1>3. ASSUME Pieces(s) = 1
      PROVE  Labels(s) = <<s>> /\ \A i \in 1..Len(s) : s[i] # "."
  <2>1. CutAt(s, 1) = 0 /\ CutAt(s, 2) = Len(s) + 1
    BY <1>1, <1>3 DEF InOrder
  <2>2. \A c \in Cuts(s) : c = 0 \/ c = Len(s) + 1
    <3>1. \A c \in Cuts(s) : \E k \in 1..2 : CutAt(s, k) = c
      BY <1>1, <1>3 DEF InOrder
    <3>2. \A k \in 1..2 : k = 1 \/ k = 2
      OBVIOUS
    <3> QED
      BY <2>1, <3>1, <3>2
  <2>3. \A i \in 1..Len(s) : s[i] # "."
    <3>1. \A i \in 1..Len(s) : i # 0 /\ i # Len(s) + 1
      BY <1>1
    <3> QED
      BY <2>2, <3>1, CutIs
  <2>4. /\ Labels(s)[1] \in Str
        /\ Len(Labels(s)[1]) = CutAt(s, 2) - CutAt(s, 1) - 1
        /\ \A i \in 1..(CutAt(s, 2) - CutAt(s, 1) - 1) : Labels(s)[1][i] = s[CutAt(s, 1) + i]
    <3>1. 1 \in 1..Pieces(s) /\ 1 + 1 = 2
      BY <1>3
    <3> QED
      BY <1>1, <3>1 DEF Between
  <2>5. (Len(s) + 1) - 0 - 1 = Len(s) /\ \A i \in 1..Len(s) : 0 + i = i
    BY <1>1
  <2>6. Labels(s)[1] = s
    <3> DEFINE l == Labels(s)[1]
    <3>1. l \in Str /\ Len(l) = Len(s) /\ \A i \in 1..Len(s) : l[i] = s[i]
      BY <2>1, <2>4, <2>5
    <3> HIDE DEF l
    <3>2. l = s
      BY <3>1, SameElements DEF Str
    <3> QED
      BY <3>2 DEF l
  <2>7. <<s>> \in Seq(Str) /\ Len(<<s>>) = 1 /\ <<s>>[1] = s
    OBVIOUS
  <2>8. \A i \in 1..1 : Labels(s)[i] = <<s>>[i]
    BY <2>6, <2>7
  <2>9. Labels(s) = <<s>>
    BY <1>2, <1>3, <2>7, <2>8, SameElements
  <2> QED
    BY <2>3, <2>9
<1>4. ASSUME \A i \in 1..Len(s) : s[i] # "."
      PROVE  Pieces(s) = 1
  <2> DEFINE m == 2
             f == [k \in 1..m |-> IF k = 1 THEN 0 ELSE Len(s) + 1]
  <2>1. Cuts(s) \in SUBSET Nat /\ f \in [1..m -> Cuts(s)]
    BY <1>1, <1>4, CutIs
  <2>2. m \in Nat /\ \A i, j \in 1..m : i < j => f[i] < f[j]
    BY <1>1
  <2>3. \A x \in Cuts(s) : \E i \in 1..m : f[i] = x
    <3>1. f[1] = 0 /\ f[2] = Len(s) + 1 /\ 1 \in 1..m /\ 2 \in 1..m
      OBVIOUS
    <3> QED
      BY <1>4, <3>1, CutIs
  <2> HIDE DEF f, m
  <2>4. Cardinality(Cuts(s)) = m
    BY <2>1, <2>2, <2>3, Enumerated
  <2> QED
    BY <2>4 DEF Pieces, m
<1> QED
  BY <1>2, <1>3, <1>4

-----------------------------------------------------------------------------
(* Lower case and stars.                                                   *)

LEMMA LowerChar ==
    ASSUME NEW c \in Char
    PROVE  /\ lower(c) \in Char
           /\ lower(c) = "." <=> c = "."
           /\ lower(c) = "*" <=> c = "*"
           /\ lower(c) \in Letter <=> c \in Letter
BY DEF Char, Letter, lower, LowerOf

LEMMA LowerIs ==
    ASSUME NEW s \in Str
    PROVE  /\ to_ascii_lowercase(s) \in Str /\ Len(to_ascii_lowercase(s)) = Len(s)
           /\ \A i \in 1..Len(s) : s[i] \in Char /\ to_ascii_lowercase(s)[i] = lower(s[i])
<1>1. Len(s) \in Nat /\ \A i \in 1..Len(s) : s[i] \in Char
  BY DEF Str
<1>2. DOMAIN s = 1..Len(s)
  BY DEF Str
<1>3. to_ascii_lowercase(s) = [i \in 1..Len(s) |-> lower(s[i])]
  BY <1>2 DEF to_ascii_lowercase
<1>4. \A i \in 1..Len(s) : lower(s[i]) \in Char
  BY <1>1, LowerChar
<1> HIDE DEF Str
<1> QED
  BY <1>1, <1>3, <1>4 DEF Str

\* Lower case changes no cut.
LEMMA LowerLabels ==
    ASSUME NEW s \in Str
    PROVE  /\ Len(Labels(to_ascii_lowercase(s))) = Len(Labels(s))
           /\ \A n \in 1..Len(Labels(s)) :
                 Labels(to_ascii_lowercase(s))[n] = to_ascii_lowercase(Labels(s)[n])
<1> DEFINE t == to_ascii_lowercase(s)
<1>1. t \in Str /\ Len(t) = Len(s) /\ \A i \in 1..Len(s) : s[i] \in Char /\ t[i] = lower(s[i])
  BY LowerIs
<1> HIDE DEF t
<1>2. \A i \in 1..Len(s) : t[i] = "." <=> s[i] = "."
  BY <1>1, LowerChar
<1>3. Cuts(t) = Cuts(s)
  <2>1. \A c : c \in Cuts(t) <=> c \in Cuts(s)
    BY <1>1, <1>2, CutIs
  <2> QED
    BY <2>1
<1>4. Pieces(t) = Pieces(s) /\ \A n : CutAt(t, n) = CutAt(s, n)
  BY <1>3 DEF Pieces, CutAt
<1>5. Between(s) /\ Between(t) /\ InOrder(s) /\ Len(s) \in Nat
  BY <1>1, LabelsBetween, CutsInOrder DEF Str
<1>6. /\ Len(Labels(t)) = Pieces(s) /\ Len(Labels(s)) = Pieces(s)
  BY <1>4, <1>5 DEF Between
<1>7. ASSUME NEW n \in 1..Pieces(s) PROVE Labels(t)[n] = to_ascii_lowercase(Labels(s)[n])
  <2> DEFINE a == CutAt(s, n)
             b == CutAt(s, n + 1)
             ls == Labels(s)[n]
             lt == Labels(t)[n]
             k == to_ascii_lowercase(ls)
  <2>1. ls \in Str /\ Len(ls) = b - a - 1 /\ \A i \in 1..(b - a - 1) : ls[i] = s[a + i]
    BY <1>5 DEF Between
  <2>2. /\ lt \in Str /\ Len(lt) = CutAt(t, n + 1) - CutAt(t, n) - 1
        /\ \A i \in 1..(CutAt(t, n + 1) - CutAt(t, n) - 1) : lt[i] = t[CutAt(t, n) + i]
    <3>1. n \in 1..Pieces(t)
      BY <1>4
    <3> QED
      BY <1>5, <3>1 DEF Between
  <2>3. a \in Nat /\ b \in Nat /\ a < b /\ b <= Len(s) + 1
    <3>1. n \in 1..(Pieces(s) + 1) /\ n + 1 \in 1..(Pieces(s) + 1) /\ n < n + 1
      BY <1>5 DEF InOrder
    <3> QED
      BY <1>5, <3>1 DEF InOrder
  <2> HIDE DEF a, b, ls, lt
  <2>4. Len(lt) = b - a - 1 /\ \A i \in 1..(b - a - 1) : lt[i] = t[a + i]
    BY <1>4, <2>2 DEF a, b
  <2>5. k \in Str /\ Len(k) = b - a - 1 /\ \A i \in 1..(b - a - 1) : k[i] = lower(ls[i])
    BY <2>1, LowerIs
  <2> HIDE DEF k
  <2>6. ASSUME NEW i \in 1..(b - a - 1) PROVE lt[i] = k[i]
    <3>1. a + i \in 1..Len(s)
      BY <1>5, <2>3
    <3> QED
      BY <1>1, <2>1, <2>4, <2>5, <3>1
  <2>7. lt = k
    BY <2>2, <2>4, <2>5, <2>6, SameElements DEF Str
  <2> QED
    BY <2>7 DEF lt, k, ls
<1> QED
  BY <1>6, <1>7 DEF t

Star == <<"*">>

LEMMA StarLabels == Star \in Str /\ Len(Star) = 1 /\ Star[1] = "*" /\ Labels(Star) = <<Star>>
<1>1. Star \in Str /\ Len(Star) = 1 /\ Star[1] = "*"
  BY DEF Star, Str, Char
<1> QED
  BY <1>1, Undotted

LEMMA NothingLabels == <<>> \in Str /\ Len(<<>>) = 0 /\ Labels(<<>>) = << <<>> >>
<1>1. <<>> \in Str /\ Len(<<>>) = 0 /\ \A i \in 1..Len(<<>>) : <<>>[i] # "."
  BY DEF Str
<1> QED
  BY <1>1, Undotted

LEMMA StarAndDot ==
    ASSUME NEW d \in Str
    PROVE  starts_with_star(d) <=> Len(d) > 2 /\ d[1] = "*" /\ d[2] = "."
<1> DEFINE s == <<"*", ".">>
<1>1. s \in Seq(Char) /\ Len(s) = 2 /\ s[1] = "*" /\ s[2] = "."
  BY DEF Char
<1> HIDE DEF s
<1>2. d \in Seq(Char)
  BY DEF Str
<1>3. IsPrefix(s, d) <=> Len(s) <= Len(d) /\ \A i \in 1..Len(s) : s[i] = d[i]
  BY <1>1, <1>2, PrefixIs
<1>4. IsPrefix(s, d) <=> 2 <= Len(d) /\ d[1] = "*" /\ d[2] = "."
  <2>1. IsPrefix(s, d) <=> 2 <= Len(d) /\ \A i \in 1..2 : s[i] = d[i]
    BY <1>1, <1>3
  <2>2. (\A i \in 1..2 : s[i] = d[i]) <=> s[1] = d[1] /\ s[2] = d[2]
    OBVIOUS
  <2> QED
    BY <1>1, <2>1, <2>2
<1>5. starts_with_star(d) <=> Len(d) > 2 /\ IsPrefix(s, d)
  BY DEF starts_with_star, s
<1>6. Len(d) \in Nat
  BY DEF Str
<1>7. Len(d) > 2 => 2 <= Len(d)
  BY <1>6
<1> QED
  BY <1>4, <1>5, <1>7

\* The star at the beginning of a line is a label, and the rest of the line
\* has the rest of the labels.
LEMMA StartsWithStar ==
    ASSUME NEW d \in Str
    PROVE  /\ starts_with_star(d) <=>
                 Len(Labels(d)) > 1 /\ Labels(d)[1] = Star /\ Tail(Labels(d)) # << <<>> >>
           /\ starts_with_star(d) =>
                 SubSeq(d, 3, Len(d)) \in Str /\ Labels(SubSeq(d, 3, Len(d))) = Tail(Labels(d))
<1> DEFINE u == SubSeq(d, 3, Len(d))
<1>1. Between(d) /\ InOrder(d) /\ Len(d) \in Nat
  BY LabelsBetween, CutsInOrder DEF Str
<1>2. Labels(d) \in Seq(Str) /\ Len(Labels(d)) = Pieces(d) /\ Pieces(d) \in Nat
  BY <1>1 DEF Between, InOrder
<1>3. starts_with_star(d) <=> Len(d) > 2 /\ d[1] = "*" /\ d[2] = "."
  BY StarAndDot
<1>4. Len(d) > 1 /\ d[1] = "*" /\ d[2] = "." <=> Pieces(d) > 1 /\ Labels(d)[1] = Star
  <2>1. IsStrictPrefix(Labels(Star), Labels(d)) <=> IsPrefix(Star, d) /\ 1 < Len(d) /\ d[2] = "."
    <3>1. IsStrictPrefix(Labels(Star), Labels(d)) <=>
             IsPrefix(Star, d) /\ Len(Star) < Len(d) /\ d[Len(Star) + 1] = "."
      BY StarLabels, PrefixOfLabels
    <3>2. Len(Star) = 1 /\ 1 + 1 = 2
      BY StarLabels
    <3> QED
      BY <3>1, <3>2
  <2>2. IsPrefix(Star, d) <=> 1 <= Len(d) /\ d[1] = "*"
    <3>1. Star \in Seq(Char) /\ d \in Seq(Char)
      BY StarLabels DEF Str
    <3>2. IsPrefix(Star, d) <=> Len(Star) <= Len(d) /\ \A i \in 1..Len(Star) : Star[i] = d[i]
      BY <3>1, PrefixIs
    <3>3. (\A i \in 1..1 : Star[i] = d[i]) <=> Star[1] = d[1]
      OBVIOUS
    <3> QED
      BY <3>2, <3>3, StarLabels
  <2>3. IsStrictPrefix(Labels(Star), Labels(d)) <=> 1 < Pieces(d) /\ Labels(d)[1] = Star
    <3> DEFINE l == <<Star>>
               ls == Labels(d)
    <3>1. l \in Seq(Str) /\ Len(l) = 1 /\ l[1] = Star
      BY StarLabels
    <3> HIDE DEF l, ls
    <3>2. ls \in Seq(Str) /\ Len(ls) = Pieces(d)
      BY <1>2 DEF ls
    <3>3. IsStrictPrefix(l, ls) <=> Len(l) < Len(ls) /\ \A i \in 1..Len(l) : l[i] = ls[i]
      <4>1. l \in Seq(Str) /\ ls \in Seq(Str)
        BY <3>1, <3>2
      <4> QED
        BY ONLY <4>1, PrefixIs
    <3>4. (\A i \in 1..1 : l[i] = ls[i]) <=> l[1] = ls[1]
      OBVIOUS
    <3>5. IsStrictPrefix(l, ls) <=> 1 < Pieces(d) /\ ls[1] = Star
      BY <3>1, <3>2, <3>3, <3>4
    <3> QED
      BY <3>5, StarLabels DEF l, ls
  <2> QED
    BY <1>1, <1>2, <2>1, <2>2, <2>3
<1>5. ASSUME Len(d) > 1, d[1] = "*", d[2] = "."
      PROVE  u \in Str /\ Len(u) = Len(d) - 2 /\ Labels(u) = Tail(Labels(d))
  <2>1. Pieces(d) > 1 /\ Labels(d)[1] = Star
    BY <1>4, <1>5
  <2>2. 1 \in 1..Pieces(d) /\ 2 \in 1..(Pieces(d) + 1) /\ Pieces(d) + 1 \in 1..(Pieces(d) + 1)
        /\ 2 < Pieces(d) + 1
    BY <1>2, <2>1
  <2>3. CutAt(d, 2) = 2 /\ CutAt(d, Pieces(d) + 1) = Len(d) + 1
    <3>1. Len(Labels(d)[1]) = CutAt(d, 1 + 1) - CutAt(d, 1) - 1
      BY <1>1, <2>2 DEF Between
    <3>2. CutAt(d, 1) = 0 /\ CutAt(d, 2) \in Int
      BY <1>1, <2>2 DEF InOrder
    <3>3. CutAt(d, Pieces(d) + 1) = Len(d) + 1
      BY <1>1 DEF InOrder
    <3>4. 1 + 1 = 2
      OBVIOUS
    <3>5. 1 = CutAt(d, 2) - 0 - 1
      BY <2>1, <3>1, <3>2, <3>4, StarLabels
    <3> QED
      BY <3>2, <3>3, <3>5
  <2>4. u \in Str /\ Len(u) = Len(d) - 2 /\ \A i \in 1..(Len(d) - 2) : u[i] = d[2 + i]
    <3>1. Len(d) + 1 \in Nat /\ 2 < Len(d) + 1 /\ 2 + 1 = 3 /\ (Len(d) + 1) - 1 = Len(d)
          /\ (Len(d) + 1) - 2 - 1 = Len(d) - 2
      BY <1>1, <1>5
    <3> HIDE DEF u
    <3>2. /\ SubSeq(d, 2 + 1, (Len(d) + 1) - 1) \in Str
          /\ Len(SubSeq(d, 2 + 1, (Len(d) + 1) - 1)) = (Len(d) + 1) - 2 - 1
          /\ \A i \in 1..((Len(d) + 1) - 2 - 1) : SubSeq(d, 2 + 1, (Len(d) + 1) - 1)[i] = d[2 + i]
      BY <3>1, Part DEF Str
    <3> QED
      BY <3>1, <3>2 DEF u
  <2> HIDE DEF u
  <2>5. /\ Len(u) = CutAt(d, Pieces(d) + 1) - CutAt(d, 2) - 1
        /\ \A i \in 1..Len(u) : u[i] = d[CutAt(d, 2) + i]
    BY <1>1, <2>3, <2>4
  <2>6. /\ Len(Labels(u)) = (Pieces(d) + 1) - 2
        /\ \A n \in 1..((Pieces(d) + 1) - 2) : Labels(u)[n] = Labels(d)[2 + n - 1]
    BY <2>2, <2>4, <2>5, Piece
  <2>7. Labels(u) = Tail(Labels(d))
    <3> DEFINE ls == Labels(d)
               t == Tail(ls)
    <3> HIDE DEF ls
    <3>1. ls \in Seq(Str) /\ Len(ls) > 1 /\ Len(ls) \in Nat
      BY <1>2, <2>1 DEF ls
    <3>2. t \in Seq(Str) /\ Len(t) = Len(ls) - 1 /\ \A n \in 1..(Len(ls) - 1) : t[n] = ls[n + 1]
      BY <3>1
    <3> HIDE DEF t
    <3>3. Labels(u) \in Seq(Str)
      BY <2>4, LabelsBetween DEF Between
    <3>4. /\ Len(Labels(u)) = Len(t)
          /\ \A n \in 1..Len(t) : n \in 1..((Pieces(d) + 1) - 2) /\ 2 + n - 1 = n + 1
      BY <1>2, <2>6, <3>1, <3>2 DEF ls
    <3>5. \A n \in 1..Len(Labels(u)) : Labels(u)[n] = t[n]
      BY <2>6, <3>2, <3>4 DEF ls
    <3>6. Labels(u) = t
      BY <3>2, <3>3, <3>4, <3>5, SameElements
    <3> QED
      BY <3>6 DEF t, ls
  <2> QED
    BY <2>4, <2>7
<1> HIDE DEF u
<1>6. ASSUME Len(d) > 1, d[1] = "*", d[2] = "."
      PROVE  Tail(Labels(d)) = << <<>> >> <=> Len(d) = 2
  <2>1. u \in Str /\ Len(u) = Len(d) - 2 /\ Labels(u) = Tail(Labels(d))
    BY <1>5, <1>6
  <2>2. Labels(u) = << <<>> >> <=> u = <<>>
    <3>1. Labels(u) = Labels(<<>>) => u = <<>>
      BY <2>1, NothingLabels, SameLabels
    <3> QED
      BY <3>1, NothingLabels
  <2>3. u = <<>> <=> Len(u) = 0
    <3>1. u \in Seq(Char)
      BY <2>1 DEF Str
    <3> QED
      BY <3>1
  <2> QED
    BY <1>1, <2>1, <2>2, <2>3
<1>7. Len(d) > 2 <=> Len(d) > 1 /\ Len(d) # 2
  <2>1. \A n \in Nat : n > 2 <=> n > 1 /\ n # 2
    OBVIOUS
  <2> QED
    BY <1>1, <2>1
<1> QED
  BY <1>2, <1>3, <1>4, <1>5, <1>6, <1>7 DEF u

\* The star at the end of a line is a label, and what is in front of it has the
\* labels in front.
LEMMA EndsWithStar ==
    ASSUME NEW d \in Str, Len(Labels(d)) > 1
    PROVE  /\ IsSuffix(<<".", "*">>, d) <=> Last(Labels(d)) = Star
           /\ Last(Labels(d)) = Star =>
                 /\ Len(d) >= 2 /\ SubSeq(d, 1, Len(d) - 2) \in Str
                 /\ Labels(SubSeq(d, 1, Len(d) - 2)) = Front(Labels(d))
<1> DEFINE u == SubSeq(d, 1, Len(d) - 2)
           n == Len(d)
           k == Pieces(d)
           EndsSo == n >= 2 /\ d[n - 1] = "." /\ d[n] = "*"
<1>1. Between(d) /\ InOrder(d) /\ n \in Nat
  BY LabelsBetween, CutsInOrder DEF Str
<1>2. Labels(d) \in Seq(Str) /\ Len(Labels(d)) = k /\ k \in Nat /\ k > 1
  BY <1>1 DEF Between, InOrder
<1>3. IsSuffix(<<".", "*">>, d) <=> EndsSo
  <2> DEFINE s == <<".", "*">>
  <2>1. s \in Seq(Char) /\ Len(s) = 2 /\ s[1] = "." /\ s[2] = "*"
    BY DEF Char
  <2> HIDE DEF s
  <2>2. d \in Seq(Char)
    BY DEF Str
  <2>3. IsSuffix(s, d) <=> Len(s) <= Len(d) /\ \A i \in 1..Len(s) : s[i] = d[Len(d) - Len(s) + i]
    BY <2>1, <2>2, SuffixIs
  <2>4. \A i \in 1..2 : i = 1 \/ i = 2
    OBVIOUS
  <2>5. n - 2 + 1 = n - 1 /\ n - 2 + 2 = n /\ 1 \in 1..2 /\ 2 \in 1..2
    BY <1>1
  <2> HIDE DEF n
  <2>6. IsSuffix(s, d) <=> 2 <= n /\ \A i \in 1..2 : s[i] = d[n - 2 + i]
    BY <2>1, <2>3 DEF n
  <2>7. (\A i \in 1..2 : s[i] = d[n - 2 + i]) <=> s[1] = d[n - 1] /\ s[2] = d[n]
    BY <2>4, <2>5
  <2> QED
    BY <1>1, <2>1, <2>6, <2>7 DEF s
<1> HIDE DEF n, k
<1>4. Last(Labels(d)) = Star <=> EndsSo
  <2>1. IsSuffix(Labels(Star), Labels(d)) <=>
           IsSuffix(Star, d) /\ (Len(Star) < Len(d) => d[Len(d) - Len(Star)] = ".")
    BY StarLabels, SuffixOfLabels
  <2>2. IsSuffix(Star, d) <=>
           Len(Star) <= Len(d) /\ \A i \in 1..Len(Star) : Star[i] = d[Len(d) - Len(Star) + i]
    <3>1. Star \in Seq(Char) /\ d \in Seq(Char)
      BY StarLabels DEF Str
    <3> QED
      BY <3>1, SuffixIs
  <2>3. n - 1 + 1 = n /\ \A i \in 1..1 : i = 1
    BY <1>1
  <2>4. IsSuffix(Star, d) <=> 1 <= n /\ d[n] = "*"
    BY <2>2, <2>3, StarLabels DEF n
  <2>5. IsSuffix(Labels(Star), Labels(d)) <=> 1 <= n /\ d[n] = "*" /\ (1 < n => d[n - 1] = ".")
    BY <2>1, <2>4, StarLabels DEF n
  <2>6. IsSuffix(Labels(Star), Labels(d)) <=> Last(Labels(d)) = Star
    <3> DEFINE l == <<Star>>
               ls == Labels(d)
    <3>1. l \in Seq(Str) /\ Len(l) = 1 /\ l[1] = Star
      BY StarLabels
    <3> HIDE DEF l, ls
    <3>2. ls \in Seq(Str) /\ Len(ls) = k
      BY <1>2 DEF ls
    <3>3. IsSuffix(l, ls) <=> Len(l) <= Len(ls) /\ \A i \in 1..Len(l) : l[i] = ls[Len(ls) - Len(l) + i]
      BY <3>1, <3>2, SuffixIs
    <3>4. 1 <= k /\ k - 1 + 1 = k
      BY <1>2
    <3>5. IsSuffix(l, ls) <=> ls[k] = Star
      BY <2>3, <3>1, <3>2, <3>3, <3>4
    <3> QED
      BY <3>2, <3>5, StarLabels DEF l, ls, Last
  <2>7. ~(n = 1 /\ d[n] = "*")
    <3> SUFFICES ASSUME n = 1, d[n] = "*" PROVE FALSE
      OBVIOUS
    <3>1. \A i \in 1..Len(d) : d[i] # "."
      BY DEF n
    <3> QED
      BY <1>2, <3>1, Undotted
  <2>8. n >= 2 <=> 1 <= n /\ n # 1
    BY <1>1
  <2>9. n >= 2 <=> 1 < n
    BY <1>1
  <2> QED
    BY <2>5, <2>6, <2>7, <2>8, <2>9
<1>5. ASSUME EndsSo
      PROVE  u \in Str /\ Labels(u) = Front(Labels(d))
  <2>1. n - 1 \in Cuts(d) /\ n - 1 # n + 1
    <3>1. n - 1 \in 1..n
      BY <1>1, <1>5
    <3> QED
      BY <1>1, <1>5, <3>1, CutIs DEF n
  <2>2. CutAt(d, 1) = 0 /\ CutAt(d, k + 1) = n + 1 /\ 1 \in 1..k /\ k \in 1..(k + 1) /\ 1 < k
        /\ 1 \in 1..(k + 1)
    BY <1>1, <1>2 DEF InOrder, k, n
  <2>3. CutAt(d, k) = n - 1
    <3>1. Len(Labels(d)[k]) = CutAt(d, k + 1) - CutAt(d, k) - 1
      <4>1. k \in 1..Pieces(d)
        BY <1>2 DEF k
      <4> QED
        BY <1>1, <4>1 DEF Between
    <3>2. CutAt(d, k) \in Int
      BY <1>1, <2>2 DEF InOrder, k
    <3>3. Labels(d)[k] = Star
      BY <1>2, <1>4, <1>5 DEF Last
    <3>4. 1 = (n + 1) - CutAt(d, k) - 1
      BY <2>2, <3>1, <3>3, StarLabels
    <3> QED
      BY <1>1, <3>2, <3>4
  <2>4. /\ u \in Str /\ Len(u) = (n - 1) - 0 - 1
        /\ \A i \in 1..((n - 1) - 0 - 1) : u[i] = d[0 + i]
    <3>1. 0 \in Nat /\ n - 1 \in Nat /\ 0 < n - 1 /\ n - 1 <= n + 1
          /\ 0 + 1 = 1 /\ (n - 1) - 1 = n - 2
      BY <1>1, <1>5
    <3>2. d \in Seq(Char) /\ n - 1 <= Len(d) + 1
      BY <3>1 DEF Str, n
    <3> HIDE DEF u
    <3>3. /\ SubSeq(d, 0 + 1, (n - 1) - 1) \in Seq(Char)
          /\ Len(SubSeq(d, 0 + 1, (n - 1) - 1)) = (n - 1) - 0 - 1
          /\ \A i \in 1..((n - 1) - 0 - 1) : SubSeq(d, 0 + 1, (n - 1) - 1)[i] = d[0 + i]
      BY <3>1, <3>2, Part
    <3> QED
      BY <3>1, <3>3 DEF u, n, Str
  <2> HIDE DEF u
  <2>5. /\ Len(u) = CutAt(d, k) - CutAt(d, 1) - 1
        /\ \A i \in 1..Len(u) : u[i] = d[CutAt(d, 1) + i]
    BY <2>2, <2>3, <2>4
  <2>6. /\ Len(Labels(u)) = k - 1
        /\ \A i \in 1..(k - 1) : Labels(u)[i] = Labels(d)[1 + i - 1]
    <3>1. 1 \in 1..(Pieces(d) + 1) /\ k \in 1..(Pieces(d) + 1)
      BY <2>2 DEF k
    <3> QED
      BY <2>2, <2>4, <2>5, <3>1, Piece
  <2>7. Labels(u) = Front(Labels(d))
    <3> DEFINE ls == Labels(d)
               t == Front(ls)
    <3> HIDE DEF ls
    <3>1. ls \in Seq(Str) /\ Len(ls) = k
      BY <1>2 DEF ls
    <3>2. t \in Seq(Str) /\ Len(t) = k - 1 /\ \A i \in 1..(k - 1) : t[i] = ls[i]
      BY <1>2, <3>1 DEF Front
    <3> HIDE DEF t
    <3>3. Labels(u) \in Seq(Str)
      BY <2>4, LabelsBetween DEF Between
    <3>4. \A i \in 1..(k - 1) : 1 + i - 1 = i
      OBVIOUS
    <3>5. \A i \in 1..Len(Labels(u)) : Labels(u)[i] = t[i]
      BY <2>6, <3>2, <3>4 DEF ls
    <3>6. Labels(u) = t
      BY <2>6, <3>2, <3>3, <3>5, SameElements
    <3> QED
      BY <3>6 DEF t, ls
  <2> QED
    BY <2>4, <2>7
<1>6. EndsSo => Len(d) >= 2
  BY DEF n
<1> QED
  BY <1>3, <1>4, <1>5, <1>6 DEF u

LEMMA LowerLabel ==
    ASSUME NEW l \in Str
    PROVE  /\ IsLabel(to_ascii_lowercase(l)) <=> IsLabel(l)
           /\ IsTopLevel(to_ascii_lowercase(l)) <=> IsTopLevel(l)
           /\ to_ascii_lowercase(l) = Star <=> l = Star
<1> DEFINE t == to_ascii_lowercase(l)
<1>1. t \in Str /\ Len(t) = Len(l) /\ \A i \in 1..Len(l) : l[i] \in Char /\ t[i] = lower(l[i])
  BY LowerIs
<1> HIDE DEF t
<1>2. l \in Seq(Char) /\ t \in Seq(Char) /\ Len(l) \in Nat
  BY <1>1 DEF Str
<1>3. t = <<>> <=> l = <<>>
  BY <1>1, <1>2
<1>4. DOMAIN l = 1..Len(l) /\ DOMAIN t = 1..Len(l)
  BY <1>1, <1>2
<1>5. \A i \in 1..Len(l) : t[i] \in Letter <=> l[i] \in Letter
  BY <1>1, LowerChar
<1>6. ToSet(t) \subseteq Letter <=> ToSet(l) \subseteq Letter
  BY <1>4, <1>5 DEF ToSet
<1>7. IsLabel(t) <=> IsLabel(l)
  BY <1>3, <1>6 DEF IsLabel
<1>8. \A s \in Str : s = Star <=> Len(s) = 1 /\ s[1] = "*"
  <2> TAKE s \in Str
  <2>1. s \in Seq(Char) /\ Star \in Seq(Char) /\ Len(Star) = 1 /\ Star[1] = "*"
    BY StarLabels DEF Str
  <2>2. ASSUME Len(s) = 1, s[1] = "*" PROVE s = Star
    <3>1. \A i \in 1..Len(s) : s[i] = Star[i]
      <4>1. \A i \in 1..1 : i = 1
        OBVIOUS
      <4> QED
        BY <2>1, <2>2, <4>1
    <3> QED
      BY <2>1, <2>2, <3>1, SameElements
  <2> QED
    BY <2>1, <2>2
<1>9. Len(l) = 1 => (t[1] = "*" <=> l[1] = "*")
  <2>1. Len(l) = 1 => 1 \in 1..Len(l)
    OBVIOUS
  <2> QED
    BY <1>1, <2>1, LowerChar
<1>10. t = Star <=> l = Star
  BY <1>1, <1>8, <1>9
<1> QED
  BY <1>1, <1>7, <1>10 DEF IsTopLevel, t

Valid(d) == IsDomainOrPrefix(d) \/ Len(Labels(d)) = 1

LEMMA LowerValid ==
    ASSUME NEW d \in Str
    PROVE  Valid(to_ascii_lowercase(d)) <=> Valid(d)
<1> DEFINE t == to_ascii_lowercase(d)
           ls == Labels(d)
           lt == Labels(t)
<1>1. t \in Str
  BY LowerIs
<1>2. ls \in Seq(Str) /\ lt \in Seq(Str) /\ Len(ls) \in Nat /\ Len(ls) >= 1
  <2>1. Between(d) /\ Between(t) /\ InOrder(d)
    BY <1>1, LabelsBetween, CutsInOrder
  <2> QED
    BY <2>1 DEF Between, InOrder
<1>3. Len(lt) = Len(ls) /\ \A n \in 1..Len(ls) : lt[n] = to_ascii_lowercase(ls[n])
  BY LowerLabels
<1> HIDE DEF t, ls, lt
<1>4. \A n \in 1..Len(ls) : ls[n] \in Str
  BY <1>2
<1>5. \A n \in 1..Len(ls) : /\ IsLabel(lt[n]) <=> IsLabel(ls[n])
                            /\ IsTopLevel(lt[n]) <=> IsTopLevel(ls[n])
                            /\ lt[n] = Star <=> ls[n] = Star
  BY <1>3, <1>4, LowerLabel
<1>6. Len(ls) \in 1..Len(ls) /\ \A i \in 1..(Len(ls) - 1) : i \in 1..Len(ls)
  BY <1>2
<1>7. IsDomainOrPrefix(d) <=>
         /\ Len(ls) >= 2 /\ (IsTopLevel(ls[Len(ls)]) \/ ls[Len(ls)] = Star)
         /\ \A i \in 1..(Len(ls) - 1) : IsLabel(ls[i])
  BY DEF IsDomainOrPrefix, Last, Star, ls
<1>8. IsDomainOrPrefix(t) <=>
         /\ Len(lt) >= 2 /\ (IsTopLevel(lt[Len(lt)]) \/ lt[Len(lt)] = Star)
         /\ \A i \in 1..(Len(lt) - 1) : IsLabel(lt[i])
  BY DEF IsDomainOrPrefix, Last, Star, lt
<1>9. IsDomainOrPrefix(t) <=> IsDomainOrPrefix(d)
  BY <1>3, <1>5, <1>6, <1>7, <1>8
<1> QED
  BY <1>3, <1>9 DEF Valid, t, ls, lt

LEMMA LowerWithoutStar ==
    ASSUME NEW d \in Str
    PROVE  /\ without_star(d) \in Str
           /\ without_star(to_ascii_lowercase(d)) = to_ascii_lowercase(without_star(d))
<1> DEFINE t == to_ascii_lowercase(d)
           n == Len(d)
           u == SubSeq(d, 2 + 1, (n + 1) - 1)
           v == SubSeq(t, 2 + 1, (n + 1) - 1)
           w == to_ascii_lowercase(u)
<1>1. t \in Str /\ Len(t) = n /\ \A i \in 1..n : d[i] \in Char /\ t[i] = lower(d[i])
  BY LowerIs
<1>2. d \in Seq(Char) /\ n \in Nat /\ (n + 1) - 1 = n /\ 2 + 1 = 3
  BY DEF Str
<1> HIDE DEF t, n
<1>3. starts_with_star(t) <=> starts_with_star(d)
  <2>1. n > 2 => 1 \in 1..n /\ 2 \in 1..n
    BY <1>2
  <2>2. n > 2 => (t[1] = "*" <=> d[1] = "*") /\ (t[2] = "." <=> d[2] = ".")
    BY <1>1, <2>1, LowerChar
  <2>3. starts_with_star(d) <=> n > 2 /\ d[1] = "*" /\ d[2] = "."
    BY StarAndDot DEF n
  <2>4. starts_with_star(t) <=> n > 2 /\ t[1] = "*" /\ t[2] = "."
    BY <1>1, StarAndDot
  <2> QED
    BY <2>2, <2>3, <2>4
<1>4. ASSUME n > 2
      PROVE  /\ u \in Str /\ Len(u) = (n + 1) - 2 - 1
             /\ \A i \in 1..((n + 1) - 2 - 1) : u[i] = d[2 + i]
             /\ v \in Str /\ Len(v) = (n + 1) - 2 - 1
             /\ \A i \in 1..((n + 1) - 2 - 1) : v[i] = t[2 + i]
  <2>1. 2 \in Nat /\ n + 1 \in Nat /\ 2 < n + 1 /\ n + 1 <= n + 1
    BY <1>2, <1>4
  <2>2. t \in Seq(Char) /\ n + 1 <= Len(t) + 1 /\ n + 1 <= Len(d) + 1
    BY <1>1, <2>1 DEF Str, n
  <2> HIDE DEF u, v
  <2>3. /\ u \in Seq(Char) /\ Len(u) = (n + 1) - 2 - 1
        /\ \A i \in 1..((n + 1) - 2 - 1) : u[i] = d[2 + i]
    BY <1>2, <2>1, <2>2, Part DEF u
  <2>4. /\ v \in Seq(Char) /\ Len(v) = (n + 1) - 2 - 1
        /\ \A i \in 1..((n + 1) - 2 - 1) : v[i] = t[2 + i]
    BY <2>1, <2>2, Part DEF v
  <2> QED
    BY <2>3, <2>4 DEF Str
<1> HIDE DEF u, v
<1>5. ASSUME n > 2 PROVE v = w
  <2>1. w \in Str /\ Len(w) = Len(u) /\ \A i \in 1..Len(u) : w[i] = lower(u[i])
    BY <1>4, <1>5, LowerIs
  <2> HIDE DEF w
  <2>2. ASSUME NEW i \in 1..((n + 1) - 2 - 1) PROVE v[i] = w[i]
    <3>1. 2 + i \in 1..n
      BY <1>2
    <3> QED
      BY <1>1, <1>4, <1>5, <2>1, <3>1
  <2>3. v \in Seq(Char) /\ w \in Seq(Char) /\ Len(v) = Len(w) /\ Len(v) = (n + 1) - 2 - 1
    BY <1>4, <1>5, <2>1 DEF Str
  <2> QED
    BY <2>2, <2>3, SameElements
<1>6. without_star(d) = IF starts_with_star(d) THEN u ELSE d
  BY <1>2 DEF without_star, u, n
<1>7. without_star(t) = IF starts_with_star(t) THEN v ELSE t
  BY <1>1, <1>2 DEF without_star, v
<1>8. starts_with_star(d) => n > 2
  BY DEF starts_with_star, n
<1> QED
  BY <1>3, <1>4, <1>5, <1>6, <1>7, <1>8 DEF t

\* What becomes of a line.
entry(line) == without_star(to_ascii_lowercase(line))

LEMMA Entries ==
    ASSUME NEW lines \in Seq(Str)
    PROVE  \A y : y \in block_dict(lines) <=>
              \E line \in ToSet(lines) : y = entry(line) /\ Valid(entry(line))
<1>1. \A line \in ToSet(lines) : line \in Str
  BY DEF ToSet
<1>2. \A line \in Str : entry(line) = to_ascii_lowercase(without_star(line)) /\ without_star(line) \in Str
  BY LowerWithoutStar DEF entry
<1>3. \A line \in Str : Valid(entry(line)) <=> Valid(without_star(line))
  BY <1>2, LowerValid
<1>4. \A y : y \in block_dict(lines) <=>
         \E line \in ToSet(lines) : Valid(without_star(line)) /\ y = to_ascii_lowercase(without_star(line))
  BY DEF block_dict, Valid
<1> QED
  BY <1>1, <1>2, <1>3, <1>4

-----------------------------------------------------------------------------
(* Blocking.                                                               *)

\* How an entry blocks, by its labels.
Fits(ls, labels) ==
    IF Len(ls) = 1 THEN IsSuffix(ls, labels)
    ELSE /\ \A i \in 1..(Len(ls) - 1) : IsLabel(ls[i])
         /\ IF Last(ls) = Star THEN IsStrictPrefix(Front(ls), labels)
            ELSE IsTopLevel(Last(ls)) /\ IsSuffix(ls, labels)

LEMMA BlocksByEntry ==
    ASSUME NEW line \in Str, NEW labels
    PROVE  Blocks(line, labels) <=> Fits(Labels(entry(line)), labels)
<1> DEFINE d == to_ascii_lowercase(line)
           ls == Labels(d)
           rule == IF Len(ls) > 1 /\ ls[1] = <<"*">> /\ Tail(ls) # << <<>> >> THEN Tail(ls) ELSE ls
<1>1. d \in Str
  BY LowerIs
<1>2. Labels(entry(line)) = rule
  <2>1. starts_with_star(d) <=> Len(ls) > 1 /\ ls[1] = <<"*">> /\ Tail(ls) # << <<>> >>
    BY <1>1, StartsWithStar DEF Star
  <2>2. starts_with_star(d) => Labels(SubSeq(d, 3, Len(d))) = Tail(ls)
    BY <1>1, StartsWithStar
  <2> HIDE DEF d
  <2> QED
    BY <2>1, <2>2 DEF entry, without_star, d
<1>3. Blocks(line, labels) <=> Fits(rule, labels)
  <2> HIDE DEF rule
  <2> QED
    BY DEF Blocks, Fits, Star, rule
<1> QED
  BY <1>2, <1>3

\* How an entry is matched.
SuffixMatches(found, rev) ==
    IsPrefix(found, rev) /\ (Len(found) < Len(rev) => rev[Len(found) + 1] = ".")

PrefixMatches(found, name) ==
    IsPrefix(found, name) /\ Len(found) < Len(name) /\ name[Len(found) + 1] = "."

Matches(d, name) ==
    IF ends_with_star(d) THEN PrefixMatches(SubSeq(d, 1, Len(d) - 2), name)
    ELSE SuffixMatches(Reverse(d), Reverse(name))

LEMMA SuffixMatched ==
    ASSUME NEW d \in Str, NEW name \in Str
    PROVE  SuffixMatches(Reverse(d), Reverse(name)) <=> IsSuffix(Labels(d), Labels(name))
<1> DEFINE m == Len(d)
           n == Len(name)
<1>1. m \in Nat /\ n \in Nat /\ d \in Seq(Char) /\ name \in Seq(Char)
  BY DEF Str
<1>2. /\ Len(Reverse(d)) = m /\ Len(Reverse(name)) = n
      /\ \A i \in 1..n : Reverse(name)[i] = name[n - i + 1]
  BY <1>1, ReverseIs
<1>3. IsSuffix(Labels(d), Labels(name)) <=>
         IsSuffix(d, name) /\ (m < n => name[n - m] = ".")
  BY SuffixOfLabels
<1> HIDE DEF m, n
<1>4. m < n => Reverse(name)[m + 1] = name[n - m]
  <2>1. m < n => m + 1 \in 1..n /\ n - (m + 1) + 1 = n - m
    BY <1>1
  <2> QED
    BY <1>2, <2>1
<1> QED
  BY <1>2, <1>3, <1>4 DEF SuffixMatches, IsSuffix

\* An entry that is valid matches the names that it means, and what is not
\* valid means none.
LEMMA EntryBlocks ==
    ASSUME NEW d \in Str, NEW name \in Str
    PROVE  Valid(d) /\ Matches(d, name) <=> Fits(Labels(d), Labels(name))
<1> DEFINE ls == Labels(d)
           labels == Labels(name)
           k == Len(ls)
           e == SubSeq(d, 1, Len(d) - 2)
<1>1. ls \in Seq(Str) /\ k \in Nat /\ k >= 1
  <2>1. Between(d) /\ InOrder(d)
    BY LabelsBetween, CutsInOrder
  <2> QED
    BY <2>1 DEF Between, InOrder
<1>2. SuffixMatches(Reverse(d), Reverse(name)) <=> IsSuffix(ls, labels)
  BY SuffixMatched
<1>3. CASE k = 1
  <2>1. ~ends_with_star(d)
    <3> SUFFICES ASSUME IsSuffix(<<".", "*">>, d) PROVE FALSE
      BY DEF ends_with_star
    <3>1. \A i \in 1..Len(d) : d[i] # "."
      BY <1>3, Undotted
    <3> DEFINE s == <<".", "*">>
    <3>2. s \in Seq(Char) /\ Len(s) = 2 /\ s[1] = "."
      BY DEF Char
    <3> HIDE DEF s
    <3>3. d \in Seq(Char) /\ Len(d) \in Nat /\ IsSuffix(s, d)
      BY DEF Str, s
    <3>4. Len(s) <= Len(d) /\ \A i \in 1..Len(s) : s[i] = d[Len(d) - Len(s) + i]
      BY <3>2, <3>3, SuffixIs
    <3>5. 2 <= Len(d) /\ 1 \in 1..2
      BY <3>2, <3>4
    <3>6. Len(d) - 2 + 1 \in 1..Len(d)
      BY <3>3, <3>5
    <3>7. d[Len(d) - 2 + 1] = "."
      BY <3>2, <3>4, <3>5
    <3> QED
      BY <3>1, <3>6, <3>7
  <2>2. Valid(d)
    BY <1>3 DEF Valid
  <2> HIDE DEF ls, labels
  <2>3. Fits(ls, labels) <=> IsSuffix(ls, labels)
    BY <1>3 DEF Fits
  <2>4. Matches(d, name) <=> SuffixMatches(Reverse(d), Reverse(name))
    BY <2>1 DEF Matches
  <2> QED
    BY <1>2, <2>2, <2>3, <2>4 DEF ls, labels
<1>4. CASE k # 1
  <2>1. k > 1 /\ k >= 2
    <3>1. \A n \in Nat : n >= 1 /\ n # 1 => n > 1 /\ n >= 2
      OBVIOUS
    <3> QED
      BY <1>1, <1>4, <3>1
  <2>2. /\ IsSuffix(<<".", "*">>, d) <=> Last(ls) = Star
        /\ Last(ls) = Star => Len(d) >= 2 /\ e \in Str /\ Labels(e) = Front(ls)
    BY <2>1, EndsWithStar
  <2>3. Valid(d) <=>
           /\ IsTopLevel(Last(ls)) \/ Last(ls) = Star
           /\ \A i \in 1..(k - 1) : IsLabel(ls[i])
    BY <1>4, <2>1 DEF Valid, IsDomainOrPrefix, Star
  <2>4. ASSUME Last(ls) = Star, IsLabel(ls[1])
        PROVE  Len(d) > 2
    <3> SUFFICES ASSUME Len(d) = 2 PROVE FALSE
      <4>1. Len(d) \in Nat
        BY DEF Str
      <4>2. \A n \in Nat : n >= 2 /\ n # 2 => n > 2
        OBVIOUS
      <4> QED
        BY <2>2, <2>4, <4>1, <4>2
    <3>1. e \in Seq(Char) /\ Len(e) = 0
      <4>1. d \in Seq(Char)
        BY DEF Str
      <4> QED
        BY <4>1
    <3> HIDE DEF e
    <3>2. e = <<>>
      BY <3>1
    <3>3. Front(ls) = << <<>> >>
      BY <2>2, <2>4, <3>2, NothingLabels
    <3> HIDE DEF ls
    <3>4. Front(ls)[1] = ls[1]
      BY <1>1, <2>1 DEF Front
    <3>5. ls[1] = <<>>
      BY <3>3, <3>4
    <3> QED
      BY <2>4, <3>5 DEF IsLabel
  <2>5. ends_with_star(d) => Last(ls) = Star
    BY <2>2 DEF ends_with_star
  <2>6. Last(ls) = Star /\ IsLabel(ls[1]) => ends_with_star(d)
    BY <2>2, <2>4 DEF ends_with_star
  <2>7. Last(ls) = Star => (PrefixMatches(e, name) <=> IsStrictPrefix(Front(ls), labels))
    <3> HIDE DEF e
    <3>1. e \in Str => (PrefixMatches(e, name) <=> IsStrictPrefix(Labels(e), Labels(name)))
      BY PrefixOfLabels DEF PrefixMatches
    <3> QED
      BY <2>2, <3>1
  <2>8. Matches(d, name) <=> IF ends_with_star(d) THEN PrefixMatches(e, name) ELSE IsSuffix(ls, labels)
    BY <1>2 DEF Matches
  <2>9. 1 \in 1..(k - 1)
    BY <1>1, <2>1
  <2>10. Fits(ls, labels) <=>
            /\ \A i \in 1..(k - 1) : IsLabel(ls[i])
            /\ IF Last(ls) = Star THEN IsStrictPrefix(Front(ls), labels)
               ELSE IsTopLevel(Last(ls)) /\ IsSuffix(ls, labels)
    <3> HIDE DEF labels, ls
    <3> QED
      BY <1>4 DEF Fits, k
  <2> DEFINE all == \A i \in 1..(k - 1) : IsLabel(ls[i])
  <2>11. all => IsLabel(ls[1])
    BY <2>9
  <2> HIDE DEF all
  <2> QED
    BY <2>3, <2>5, <2>6, <2>7, <2>8, <2>10, <2>11 DEF all
<1> QED
  BY <1>3, <1>4

LEMMA LowerTwice ==
    ASSUME NEW s \in Str
    PROVE  to_ascii_lowercase(to_ascii_lowercase(s)) = to_ascii_lowercase(s)
<1> DEFINE t == to_ascii_lowercase(s)
           u == to_ascii_lowercase(t)
<1>1. t \in Str /\ Len(t) = Len(s) /\ \A i \in 1..Len(s) : s[i] \in Char /\ t[i] = lower(s[i])
  BY LowerIs
<1> HIDE DEF t
<1>2. u \in Str /\ Len(u) = Len(t) /\ \A i \in 1..Len(t) : u[i] = lower(t[i])
  BY <1>1, LowerIs
<1> HIDE DEF u
<1>3. \A c \in Char : lower(lower(c)) = lower(c)
  BY DEF Char, Letter, lower, LowerOf
<1>4. \A i \in 1..Len(u) : u[i] = t[i]
  BY <1>1, <1>2, <1>3
<1>5. u = t
  BY <1>1, <1>2, <1>4, SameElements DEF Str
<1> QED
  BY <1>5 DEF u, t

\* The first half of BlockedByLabels: the rules match what the lines mean.
LEMMA BlockRuleMeansLines ==
    ASSUME NEW lines \in Seq(Str), NEW key, key.name \in Str, Len(key.name) >= 1,
           to_ascii_lowercase(key.name) = key.name
    PROVE  in_blocklist(DomainBlockRule(lines), key) <=>
              \E line \in ToSet(lines) : Blocks(line, Labels(Front(key.name)))
<1> DEFINE dict == block_dict(lines)
           name == Front(key.name)
           rule == DomainBlockRule(lines)
<1>1. name \in Str
  <2> DEFINE s == key.name
  <2>1. s \in Seq(Char) /\ Len(s) >= 1
    BY DEF Str
  <2> HIDE DEF s
  <2>2. Front(s) \in Seq(Char)
    BY <2>1 DEF Front
  <2> QED
    BY <2>2 DEF s, Str
<1>2. Front(to_ascii_lowercase(key.name)) = name
  OBVIOUS
<1> HIDE DEF name, dict
<1>3. \A line \in ToSet(lines) : line \in Str /\ entry(line) \in Str
  <2>1. \A line \in ToSet(lines) : line \in Str
    BY DEF ToSet
  <2>2. \A line \in Str : to_ascii_lowercase(line) \in Str
    BY LowerIs
  <2> QED
    BY <2>1, <2>2, LowerWithoutStar DEF entry
<1>4. \A d : d \in rule.suffix_dict <=> \E x \in dict : ~ends_with_star(x) /\ d = Reverse(x)
  BY DEF DomainBlockRule, dict
<1>5. \A d : d \in rule.prefix_dict <=> \E x \in dict : ends_with_star(x) /\ d = SubSeq(x, 1, Len(x) - 2)
  BY DEF DomainBlockRule, dict
<1> HIDE DEF rule
<1>6. find_suffix_match(rule, name) <=>
         \E x \in dict : ~ends_with_star(x) /\ SuffixMatches(Reverse(x), Reverse(name))
  BY <1>4 DEF find_suffix_match, SuffixMatches
<1>7. find_prefix_match(rule, name) <=>
         \E x \in dict : ends_with_star(x) /\ PrefixMatches(SubSeq(x, 1, Len(x) - 2), name)
  BY <1>5 DEF find_prefix_match, PrefixMatches
<1>8. in_blocklist(rule, key) <=> \E x \in dict : Matches(x, name)
  <2>1. in_blocklist(rule, key) <=> find_suffix_match(rule, name) \/ find_prefix_match(rule, name)
    BY <1>2 DEF in_blocklist
  <2> QED
    BY <1>6, <1>7, <2>1 DEF Matches
<1>9. \A x : x \in dict <=> \E line \in ToSet(lines) : x = entry(line) /\ Valid(entry(line))
  BY Entries DEF dict
<1>10. in_blocklist(rule, key) <=>
          \E line \in ToSet(lines) : Valid(entry(line)) /\ Matches(entry(line), name)
  BY <1>8, <1>9
<1>11. \A line \in ToSet(lines) :
          Valid(entry(line)) /\ Matches(entry(line), name) <=> Blocks(line, Labels(name))
  <2> TAKE line \in ToSet(lines)
  <2>1. Valid(entry(line)) /\ Matches(entry(line), name) <=> Fits(Labels(entry(line)), Labels(name))
    BY <1>1, <1>3, EntryBlocks
  <2>2. Blocks(line, Labels(name)) <=> Fits(Labels(entry(line)), Labels(name))
    BY <1>3, BlocksByEntry
  <2> QED
    BY <2>1, <2>2
<1> QED
  BY <1>10, <1>11 DEF rule, name

-----------------------------------------------------------------------------
(* The first question.                                                     *)

LowerStr == Seq(DOMAIN Order)
LowerKey == [name : LowerStr, type : DOMAIN TypeOrder]

LEMMA Orders ==
    /\ \A c \in DOMAIN Order : Order[c] \in Nat
    /\ \A c, d \in DOMAIN Order : Order[c] = Order[d] => c = d
    /\ \A c \in DOMAIN TypeOrder : TypeOrder[c] \in Nat
    /\ \A c, d \in DOMAIN TypeOrder : TypeOrder[c] = TypeOrder[d] => c = d
BY DEF Order, TypeOrder

\* The order of strings, element by element.
LessAt(s, t, i) ==
    /\ i \in 1..Len(s) /\ i \in 1..Len(t)
    /\ Order[s[i]] < Order[t[i]] /\ \A j \in 1..(i - 1) : s[j] = t[j]

Shorter(s, t) == Len(s) < Len(t) /\ \A j \in 1..Len(s) : s[j] = t[j]

LEMMA StringLessIs ==
    ASSUME NEW s \in LowerStr, NEW t \in LowerStr
    PROVE  StringLess(s, t) <=> Shorter(s, t) \/ \E i \in 1..Len(s) : LessAt(s, t, i)
<1>1. s \in Seq(DOMAIN Order) /\ t \in Seq(DOMAIN Order)
  BY DEF LowerStr
<1>2. DOMAIN s = 1..Len(s) /\ DOMAIN t = 1..Len(t)
  BY <1>1
<1>3. IsStrictPrefix(s, t) <=> Shorter(s, t)
  BY <1>1, PrefixIs DEF Shorter
<1> QED
  BY <1>2, <1>3 DEF StringLess, LessAt

LEMMA StringLessIrreflexive ==
    ASSUME NEW s \in LowerStr
    PROVE  ~StringLess(s, s)
<1>1. Len(s) \in Nat /\ \A i \in 1..Len(s) : s[i] \in DOMAIN Order
  BY DEF LowerStr
<1>2. ~Shorter(s, s)
  BY <1>1 DEF Shorter
<1>3. \A i \in 1..Len(s) : ~LessAt(s, s, i)
  BY <1>1, Orders DEF LessAt
<1> QED
  BY <1>2, <1>3, StringLessIs

LEMMA StringLessTransitive ==
    ASSUME NEW s \in LowerStr, NEW t \in LowerStr, NEW u \in LowerStr,
           StringLess(s, t), StringLess(t, u)
    PROVE  StringLess(s, u)
<1>1. Len(s) \in Nat /\ Len(t) \in Nat /\ Len(u) \in Nat
  BY DEF LowerStr
<1>2. /\ \A i \in 1..Len(s) : Order[s[i]] \in Nat
      /\ \A i \in 1..Len(t) : Order[t[i]] \in Nat
      /\ \A i \in 1..Len(u) : Order[u[i]] \in Nat
  BY Orders DEF LowerStr
<1>3. SUFFICES Shorter(s, u) \/ \E i \in 1..Len(s) : LessAt(s, u, i)
  BY StringLessIs
<1>4. Shorter(s, t) \/ \E i \in 1..Len(s) : LessAt(s, t, i)
  BY StringLessIs
<1>5. Shorter(t, u) \/ \E i \in 1..Len(t) : LessAt(t, u, i)
  BY StringLessIs
<1>6. CASE Shorter(s, t) /\ Shorter(t, u)
  <2>1. \A j \in 1..Len(s) : j \in 1..Len(t)
    BY <1>1, <1>6 DEF Shorter
  <2> QED
    BY <1>1, <1>6, <2>1 DEF Shorter
<1>7. ASSUME Shorter(s, t), NEW i \in 1..Len(t), LessAt(t, u, i)
      PROVE  Shorter(s, u) \/ \E k \in 1..Len(s) : LessAt(s, u, k)
  <2>1. CASE i <= Len(s)
    <3>1. i \in 1..Len(s) /\ \A j \in 1..(i - 1) : j \in 1..Len(s)
      BY <1>1, <2>1
    <3>2. LessAt(s, u, i)
      BY <1>7, <3>1 DEF Shorter, LessAt
    <3> QED
      BY <3>1, <3>2
  <2>2. CASE Len(s) < i
    <3>1. Len(s) < Len(u) /\ \A j \in 1..Len(s) : j \in 1..(i - 1)
      BY <1>1, <1>7, <2>2 DEF LessAt
    <3>2. Shorter(s, u)
      BY <1>7, <3>1 DEF Shorter, LessAt
    <3> QED
      BY <3>2
  <2> QED
    BY <1>1, <2>1, <2>2
<1>8. ASSUME NEW i \in 1..Len(s), LessAt(s, t, i), Shorter(t, u)
      PROVE  LessAt(s, u, i)
  <2>1. i \in 1..Len(t) /\ i \in 1..Len(u) /\ \A j \in 1..(i - 1) : j \in 1..Len(t)
    BY <1>1, <1>8 DEF LessAt, Shorter
  <2> QED
    BY <1>8, <2>1 DEF LessAt, Shorter
<1>9. ASSUME NEW i \in 1..Len(s), LessAt(s, t, i), NEW k \in 1..Len(t), LessAt(t, u, k)
      PROVE  \E m \in 1..Len(s) : LessAt(s, u, m)
  <2>1. i \in 1..Len(t) /\ k \in 1..Len(u)
    BY <1>9 DEF LessAt
  <2>2. CASE i <= k
    <3>1. i \in 1..Len(u) /\ \A j \in 1..(i - 1) : j \in 1..(k - 1)
      BY <1>1, <2>1, <2>2
    <3>2. Order[s[i]] < Order[t[i]] /\ (Order[t[i]] = Order[u[i]] \/ Order[t[i]] < Order[u[i]])
      <4>1. i = k \/ i \in 1..(k - 1)
        BY <2>1, <2>2
      <4> QED
        BY <1>9, <4>1 DEF LessAt
    <3>3. Order[s[i]] < Order[u[i]]
      <4>1. Order[s[i]] \in Nat /\ Order[t[i]] \in Nat /\ Order[u[i]] \in Nat
        BY <1>2, <2>1, <3>1
      <4> QED
        BY <3>2, <4>1
    <3>4. LessAt(s, u, i)
      BY <1>9, <3>1, <3>3 DEF LessAt
    <3> QED
      BY <3>4
  <2>3. CASE k < i
    <3>1. k \in 1..Len(s) /\ k \in 1..(i - 1) /\ \A j \in 1..(k - 1) : j \in 1..(i - 1)
      BY <1>1, <2>1, <2>3
    <3>2. LessAt(s, u, k)
      BY <1>9, <2>1, <3>1 DEF LessAt
    <3> QED
      BY <3>1, <3>2
  <2> QED
    BY <2>2, <2>3
<1> QED
  BY <1>4, <1>5, <1>6, <1>7, <1>8, <1>9

LEMMA StringLessTotal ==
    ASSUME NEW s \in LowerStr, NEW t \in LowerStr, s # t
    PROVE  StringLess(s, t) \/ StringLess(t, s)
<1> DEFINE D == {i \in 1..Len(s) : i <= Len(t) /\ s[i] # t[i]}
<1>1. Len(s) \in Nat /\ Len(t) \in Nat /\ s \in Seq(DOMAIN Order) /\ t \in Seq(DOMAIN Order)
  BY DEF LowerStr
<1>2. SUFFICES \/ Shorter(s, t) \/ \E i \in 1..Len(s) : LessAt(s, t, i)
               \/ Shorter(t, s) \/ \E i \in 1..Len(t) : LessAt(t, s, i)
  BY StringLessIs
<1>3. CASE D = {}
  <2>1. \A i \in 1..Len(s) : i <= Len(t) => s[i] = t[i]
    BY <1>3
  <2>2. CASE Len(s) < Len(t)
    BY <1>1, <2>1, <2>2 DEF Shorter
  <2>3. CASE Len(t) < Len(s)
    BY <1>1, <2>1, <2>3 DEF Shorter
  <2>4. CASE Len(s) = Len(t)
    <3>1. \A i \in 1..Len(s) : s[i] = t[i]
      BY <1>1, <2>1, <2>4
    <3> QED
      BY <1>1, <2>4, <3>1, SameElements
  <2> QED
    BY <1>1, <2>2, <2>3, <2>4
<1>4. CASE D # {}
  <2>1. D \in SUBSET Nat /\ IsFiniteSet(D)
    <3>1. IsFiniteSet(1..Len(s))
      BY <1>1, FS_Interval
    <3> QED
      BY <1>1, <3>1, FS_Subset
  <2>2. PICK i \in D : \A m \in D : i <= m
    <3> HIDE DEF D
    <3> QED
      BY <1>4, <2>1, Smallest
  <2>3. i \in 1..Len(s) /\ i \in 1..Len(t) /\ s[i] # t[i]
    BY <1>1
  <2>4. \A j \in 1..(i - 1) : s[j] = t[j]
    <3> TAKE j \in 1..(i - 1)
    <3>1. j \in 1..Len(s) /\ j <= Len(t) /\ ~(i <= j)
      BY <1>1, <2>3
    <3> QED
      BY <2>2, <3>1
  <2>5. s[i] \in DOMAIN Order /\ t[i] \in DOMAIN Order
    BY <1>1, <2>3
  <2>6. Order[s[i]] < Order[t[i]] \/ Order[t[i]] < Order[s[i]]
    <3>1. Order[s[i]] \in Nat /\ Order[t[i]] \in Nat /\ Order[s[i]] # Order[t[i]]
      BY <2>3, <2>5, Orders
    <3> QED
      BY <3>1
  <2> QED
    BY <2>3, <2>4, <2>6 DEF LessAt
<1> QED
  BY <1>3, <1>4

LEMMA KeysAreOrdered ==
    ASSUME NEW k \in LowerKey, NEW l \in LowerKey, NEW m \in LowerKey
    PROVE  /\ ~KeyLess(k, k)
           /\ KeyLess(k, l) /\ KeyLess(l, m) => KeyLess(k, m)
           /\ k # l => KeyLess(k, l) \/ KeyLess(l, k)
<1>1. /\ k.name \in LowerStr /\ l.name \in LowerStr /\ m.name \in LowerStr
      /\ k.type \in DOMAIN TypeOrder /\ l.type \in DOMAIN TypeOrder /\ m.type \in DOMAIN TypeOrder
  BY DEF LowerKey
<1>2. /\ TypeOrder[k.type] \in Nat /\ TypeOrder[l.type] \in Nat /\ TypeOrder[m.type] \in Nat
      /\ k.type # l.type => TypeOrder[k.type] # TypeOrder[l.type]
  BY <1>1, Orders
<1>3. k # l => k.name # l.name \/ k.type # l.type
  BY DEF LowerKey
<1>4. ~KeyLess(k, k)
  BY <1>1, <1>2, StringLessIrreflexive DEF KeyLess
<1>5. ASSUME KeyLess(k, l), KeyLess(l, m) PROVE KeyLess(k, m)
  <2>1. StringLess(k.name, l.name) /\ StringLess(l.name, m.name) => StringLess(k.name, m.name)
    BY <1>1, StringLessTransitive
  <2> QED
    BY <1>2, <1>5, <2>1 DEF KeyLess
<1>6. ASSUME k # l PROVE KeyLess(k, l) \/ KeyLess(l, k)
  <2>1. k.name # l.name => StringLess(k.name, l.name) \/ StringLess(l.name, k.name)
    BY <1>1, StringLessTotal
  <2>2. k.name = l.name => TypeOrder[k.type] < TypeOrder[l.type] \/ TypeOrder[l.type] < TypeOrder[k.type]
    BY <1>2, <1>3, <1>6
  <2> QED
    BY <2>1, <2>2 DEF KeyLess
<1> QED
  BY <1>4, <1>5, <1>6

\* The questions that are sorted before the i-th.
Before(keys, S, i) == {j \in S : KeyLess(keys[j], keys[i]) \/ (keys[j] = keys[i] /\ j < i)}

\* There is a first question, and no question is less.
LEMMA Earliest ==
    ASSUME NEW n \in Nat, n >= 1, NEW keys \in [1..n -> LowerKey]
    PROVE  /\ \E i \in 1..n : Cardinality(Before(keys, 1..n, i)) = 0
           /\ \A i \in 1..n : Cardinality(Before(keys, 1..n, i)) = 0 =>
                 \A j \in 1..n : ~KeyLess(keys[j], keys[i])
<1> DEFINE S == 1..n
           B(i) == Before(keys, S, i)
           D == {Cardinality(B(i)) : i \in S}
<1>1. IsFiniteSet(S) /\ Cardinality(S) \in Nat
  BY FS_Interval, FS_CardinalityType
<1>2. \A i \in S : keys[i] \in LowerKey /\ i \in Nat
  OBVIOUS
<1>3. 1 \in S
  OBVIOUS
<1> HIDE DEF S
<1>4. \A i \in S : /\ IsFiniteSet(B(i)) /\ Cardinality(B(i)) \in Nat
                   /\ Cardinality(B(i)) <= Cardinality(S)
  <2>1. \A i \in S : B(i) \in SUBSET S
    BY DEF Before
  <2> QED
    BY <1>1, <2>1, FS_Subset, FS_CardinalityType
<1>5. PICK i \in S : \A j \in S : Cardinality(B(i)) <= Cardinality(B(j))
  <2>1. D \in SUBSET (0..Cardinality(S))
    BY <1>1, <1>4
  <2>2. D \in SUBSET Nat /\ IsFiniteSet(D)
    <3>1. IsFiniteSet(0..Cardinality(S))
      BY <1>1, FS_Interval
    <3> QED
      BY <1>1, <2>1, <3>1, FS_Subset
  <2>3. D # {}
    BY <1>3
  <2>4. PICK c \in D : \A m \in D : c <= m
    <3> HIDE DEF D
    <3> QED
      BY <2>2, <2>3, Smallest
  <2>5. PICK i \in S : c = Cardinality(B(i))
    OBVIOUS
  <2> QED
    BY <2>4, <2>5
<1>6. Cardinality(B(i)) = 0
  <2> SUFFICES ASSUME B(i) # {} PROVE FALSE
    BY FS_EmptySet
  <2>1. PICK j \in S : j \in B(i)
    BY DEF Before
  <2>2. KeyLess(keys[j], keys[i]) \/ (keys[j] = keys[i] /\ j < i)
    BY <2>1 DEF Before
  <2>3. ASSUME NEW k \in B(j) PROVE k \in B(i)
    <3>1. k \in S /\ (KeyLess(keys[k], keys[j]) \/ (keys[k] = keys[j] /\ k < j))
      BY <2>3 DEF Before
    <3>2. keys[i] \in LowerKey /\ keys[j] \in LowerKey /\ keys[k] \in LowerKey
          /\ i \in Nat /\ j \in Nat /\ k \in Nat
      BY <1>2, <3>1
    <3>3. KeyLess(keys[k], keys[j]) /\ KeyLess(keys[j], keys[i]) => KeyLess(keys[k], keys[i])
      BY <3>2, KeysAreOrdered
    <3>4. k < j /\ j < i => k < i
      BY <3>2
    <3>5. KeyLess(keys[k], keys[i]) \/ (keys[k] = keys[i] /\ k < i)
      BY <2>2, <3>1, <3>3, <3>4
    <3> QED
      BY <3>1, <3>5 DEF Before
  <2>4. j \notin B(j)
    <3>1. ~KeyLess(keys[j], keys[j]) /\ ~(j < j)
      BY <1>2, KeysAreOrdered
    <3> QED
      BY <3>1 DEF Before
  <2> HIDE DEF B
  <2>5. B(j) \in SUBSET B(i) /\ B(i) # B(j)
    BY <2>1, <2>3, <2>4
  <2>6. Cardinality(B(j)) <= Cardinality(B(i)) /\ Cardinality(B(i)) # Cardinality(B(j))
    BY <1>4, <2>5, FS_Subset
  <2> QED
    BY <1>4, <1>5, <2>6
<1>7. ASSUME NEW k \in S, Cardinality(B(k)) = 0
      PROVE  \A j \in S : ~KeyLess(keys[j], keys[k])
  <2>1. B(k) = {}
    <3> HIDE DEF B
    <3> QED
      BY <1>4, <1>7, FS_EmptySet
  <2> QED
    BY <2>1 DEF Before
<1> QED
  BY <1>6, <1>7 DEF S

lower_key(k) == [k EXCEPT !.name = to_ascii_lowercase(@)]

Question == [name : Str, type : DOMAIN TypeOrder]

LEMMA LowerKeyIs ==
    ASSUME NEW k \in Question
    PROVE  /\ lower_key(k) \in LowerKey
           /\ lower_key(k).name = to_ascii_lowercase(k.name) /\ lower_key(k).type = k.type
<1>1. k.name \in Str /\ k.type \in DOMAIN TypeOrder
  BY DEF Question
<1> DEFINE s == k.name
           t == to_ascii_lowercase(s)
<1>2. t \in Str /\ Len(t) = Len(s) /\ \A i \in 1..Len(s) : s[i] \in Char /\ t[i] = lower(s[i])
  BY <1>1, LowerIs
<1>3. lower_key(k) = [name |-> t, type |-> k.type]
  BY DEF lower_key, Question
<1> HIDE DEF s, t
<1>4. \A c \in Char : lower(c) \in DOMAIN Order
  BY DEF Char, Letter, lower, LowerOf, Order
<1>5. t \in Seq(Char) /\ \A i \in 1..Len(t) : t[i] \in DOMAIN Order
  BY <1>2, <1>4 DEF Str
<1>6. t \in Seq(DOMAIN Order)
  BY <1>5
<1> QED
  BY <1>1, <1>3, <1>6 DEF LowerKey, LowerStr, s, t

\* The smallest question of a query, as the properties have it.
first_key(q) ==
    LET keys == {[k EXCEPT !.name = to_ascii_lowercase(@)] : k \in ToSet(q)}
    IN  CHOOSE k \in keys : \A l \in keys : ~KeyLess(l, k)

\* The request is sorted as far as its first key goes.
LEMMA FirstIsSmallest ==
    ASSUME NEW q \in Message
    PROVE  /\ Request(q)[1] = first_key(q)
           /\ first_key(q).name \in Str /\ Len(first_key(q).name) >= 1
           /\ to_ascii_lowercase(first_key(q).name) = first_key(q).name
           /\ first_key(q).type \in DOMAIN TypeOrder
<1> DEFINE n == Len(q)
           keys == [i \in 1..n |-> lower_key(q[i])]
           K == {lower_key(k) : k \in ToSet(q)}
<1>1. q # <<>> /\ q \in Seq(Question) /\ \A i \in DOMAIN q : q[i].name # <<>>
  BY ManipulationAssumption DEF Question, Str
<1>2. n \in Nat /\ n >= 1 /\ DOMAIN q = 1..n /\ \A i \in 1..n : q[i] \in Question
  BY <1>1
<1> HIDE DEF n
<1>3. keys \in [1..n -> LowerKey] /\ \A i \in 1..n : keys[i] = lower_key(q[i])
  BY <1>2, LowerKeyIs
<1> HIDE DEF keys
<1>4. /\ \E i \in 1..n : Cardinality(Before(keys, 1..n, i)) = 0
      /\ \A i \in 1..n : Cardinality(Before(keys, 1..n, i)) = 0 =>
            \A j \in 1..n : ~KeyLess(keys[j], keys[i])
  BY <1>2, <1>3, Earliest
<1> DEFINE first == CHOOSE i \in 1..n : Cardinality(Before(keys, 1..n, i)) = 0
<1>5. Request(q)[1] = keys[first]
  <2>1. keys = [i \in DOMAIN q |-> [q[i] EXCEPT !.name = to_ascii_lowercase(@)]]
    BY <1>2 DEF keys, lower_key
  <2>2. Request(q) = [m \in 1..n |->
                         keys[CHOOSE i \in 1..n : Cardinality(Before(keys, 1..n, i)) = m - 1]]
    BY <1>2, <2>1 DEF Request, Before
  <2>3. 1 \in 1..n /\ 1 - 1 = 0
    BY <1>2
  <2> QED
    BY <2>2, <2>3
<1>6. first \in 1..n /\ Cardinality(Before(keys, 1..n, first)) = 0
  BY <1>4
<1> HIDE DEF first
<1>7. \A k : k \in K <=> \E i \in 1..n : k = keys[i]
  BY <1>2, <1>3 DEF ToSet
<1>8. K \subseteq LowerKey
  BY <1>3, <1>7
<1>9. first_key(q) = CHOOSE k \in K : \A l \in K : ~KeyLess(l, k)
  BY DEF first_key, lower_key
<1> HIDE DEF K
<1>10. keys[first] \in K /\ \A l \in K : ~KeyLess(l, keys[first])
  BY <1>4, <1>6, <1>7
<1>11. \A k \in K : (\A l \in K : ~KeyLess(l, k)) => k = keys[first]
  BY <1>8, <1>10, KeysAreOrdered
<1>12. first_key(q) = keys[first]
  BY <1>9, <1>10, <1>11
<1>13. q[first] \in Question /\ keys[first] = lower_key(q[first]) /\ q[first].name # <<>>
  BY <1>1, <1>2, <1>3, <1>6
<1> DEFINE s == q[first].name
<1>14. s \in Str /\ s # <<>> /\ keys[first].name = to_ascii_lowercase(s)
       /\ keys[first].type \in DOMAIN TypeOrder
  BY <1>13, LowerKeyIs DEF Question
<1> HIDE DEF s
<1>15. Len(s) >= 1
  <2>1. s \in Seq(Char)
    BY <1>14 DEF Str
  <2> QED
    BY <1>14, <2>1
<1>16. to_ascii_lowercase(s) \in Str /\ Len(to_ascii_lowercase(s)) = Len(s)
       /\ to_ascii_lowercase(to_ascii_lowercase(s)) = to_ascii_lowercase(s)
  BY <1>14, LowerIs, LowerTwice
<1> QED
  BY <1>5, <1>12, <1>14, <1>15, <1>16

-----------------------------------------------------------------------------
(* Overriding.                                                             *)

OverrideLines(lines) ==
    /\ Len(lines) \in Nat /\ DOMAIN lines = 1..Len(lines)
    /\ \A i \in DOMAIN lines : lines[i].name \in Str /\ lines[i].target # None

\* The lines that override a question, as Overriding has them.
overriding(lines, key) ==
    {i \in DOMAIN lines :
        /\ IsDomain(lines[i].name)
        /\ Labels(to_ascii_lowercase(lines[i].name)) = Labels(Front(key.name))
        /\ <<lines[i].target.version, key.type>> \in {<<"v4", "A">>, <<"v6", "AAAA">>}}

\* The rule has the target of the first of them.
LEMMA OverrideRuleMeansLines ==
    ASSUME NEW lines, OverrideLines(lines),
           NEW key, key.name \in Str, Len(key.name) >= 1,
           to_ascii_lowercase(key.name) = key.name
    PROVE  LET found == find_mapping(DomainOverrideRule(lines), key)
           IN  /\ found # None <=> overriding(lines, key) # {}
               /\ \A i \in overriding(lines, key) :
                     (\A j \in overriding(lines, key) : i <= j) => found = lines[i].target
<1> DEFINE name == Front(key.name)
           kept == {i \in DOMAIN lines :
                       IsDomain(lines[i].name) /\ lines[i].target.version \in DOMAIN AddressType}
           low(i) == to_ascii_lowercase(lines[i].name)
           all == [i \in DOMAIN lines |-> lines[i].target]
           P == {i \in kept : low(i) = name}
           O == overriding(lines, key)
           rule == DomainOverrideRule(lines)
           targets == IF name \in DOMAIN rule THEN rule[name] ELSE <<>>
           fits == {n \in DOMAIN targets : AddressType[targets[n].version] = key.type}
           k == Cardinality(P)
           found == find_mapping(rule, key)
<1>1. name \in Str
  <2> DEFINE s == key.name
  <2>1. s \in Seq(Char) /\ Len(s) >= 1
    BY DEF Str
  <2> HIDE DEF s
  <2>2. Front(s) \in Seq(Char)
    BY <2>1 DEF Front
  <2> QED
    BY <2>2 DEF s, Str
<1>2. found = IF fits = {} THEN None ELSE targets[nth(fits, 1)]
  BY DEF find_mapping
<1>3. /\ DOMAIN rule = {low(i) : i \in kept}
      /\ name \in DOMAIN rule => rule[name] = at_positions(all, P)
  BY DEF DomainOverrideRule
<1>4. \A i \in DOMAIN lines : low(i) \in Str
  BY LowerIs DEF OverrideLines
<1>5. \A i \in DOMAIN lines : Labels(low(i)) = Labels(name) <=> low(i) = name
  BY <1>1, <1>4, SameLabels
<1> HIDE DEF name
<1>6. \A v : /\ <<v, key.type>> \in {<<"v4", "A">>, <<"v6", "AAAA">>} <=>
                   v \in DOMAIN AddressType /\ AddressType[v] = key.type
  BY DEF AddressType
<1>7. \A i : i \in O <=> i \in P /\ AddressType[lines[i].target.version] = key.type
  BY <1>5, <1>6 DEF overriding, name
<1>8. P \in SUBSET (1..Len(lines)) /\ Len(lines) \in Nat
  BY DEF OverrideLines
<1>9. P \in SUBSET Nat /\ IsFiniteSet(P)
  <2>1. IsFiniteSet(1..Len(lines))
    BY <1>8, FS_Interval
  <2> HIDE DEF P
  <2>2. IsFiniteSet(P)
    BY <1>8, <2>1, FS_Subset
  <2>3. 1..Len(lines) \subseteq Nat
    BY <1>8
  <2> QED
    BY <1>8, <2>2, <2>3
<1>10. \A i \in P : i \in DOMAIN lines /\ all[i] = lines[i].target
  OBVIOUS
<1>11. name \in DOMAIN rule <=> P # {}
  BY <1>3
<1> HIDE DEF O, P, all, rule, found
<1>12. k \in Nat /\ (P = {} <=> k = 0)
  BY <1>9, FS_CardinalityType, FS_EmptySet
<1>13. /\ \A n \in 1..k : nth(P, n) \in P
       /\ \A m, n \in 1..k : m < n => nth(P, m) < nth(P, n)
       /\ \A i \in P : \E n \in 1..k : nth(P, n) = i
  BY <1>9, Positions
<1>14. DOMAIN targets = 1..k /\ \A n \in 1..k : targets[n] = lines[nth(P, n)].target
  <2>1. CASE P = {}
    <3>1. targets = <<>> /\ k = 0
      BY <1>11, <1>12, <2>1
    <3>2. 1..k = {} /\ DOMAIN <<>> = {}
      BY <3>1
    <3> HIDE DEF k
    <3> QED
      BY <3>1, <3>2
  <2>2. CASE P # {}
    <3>1. targets = at_positions(all, P)
      BY <1>3, <1>11, <2>2
    <3>2. at_positions(all, P) = [n \in 1..k |-> all[nth(P, n)]]
      BY DEF at_positions
    <3> HIDE DEF targets, k
    <3> QED
      BY <1>10, <1>13, <3>1, <3>2
  <2> QED
    BY <2>1, <2>2
<1> HIDE DEF targets, k
<1>15. \A n : n \in fits <=> n \in 1..k /\ nth(P, n) \in O
  BY <1>7, <1>13, <1>14
<1>16. fits \in SUBSET Nat /\ IsFiniteSet(fits)
  <2>1. IsFiniteSet(1..k) /\ fits \in SUBSET (1..k)
    BY <1>12, <1>14, FS_Interval
  <2> HIDE DEF fits
  <2>2. IsFiniteSet(fits)
    BY <2>1, FS_Subset
  <2>3. 1..k \subseteq Nat
    BY <1>12
  <2> QED
    BY <2>1, <2>2, <2>3
<1> HIDE DEF fits
<1>17. fits # {} => /\ nth(fits, 1) \in fits /\ \A m \in fits : nth(fits, 1) <= m
                    /\ found = lines[nth(P, nth(fits, 1))].target
  <2>1. fits # {} => nth(fits, 1) \in fits /\ \A m \in fits : nth(fits, 1) <= m
    BY <1>16, Smallest
  <2> QED
    BY <1>2, <1>14, <1>15, <2>1
<1>18. fits # {} <=> O # {}
  <2>1. \A i \in O : i \in P
    BY <1>7
  <2> QED
    BY <1>13, <1>15, <2>1
<1>19. found # None <=> O # {}
  <2>1. \A i \in P : lines[i].target # None
    BY <1>10 DEF OverrideLines
  <2>2. fits # {} => found # None
    BY <1>13, <1>15, <1>17, <2>1
  <2> QED
    BY <1>2, <1>18, <2>2
<1>20. ASSUME NEW i \in O, \A j \in O : i <= j
       PROVE  found = lines[i].target
  <2>1. i \in P
    BY <1>7
  <2>2. PICK m \in 1..k : nth(P, m) = i
    BY <1>13, <2>1
  <2>3. m \in fits
    BY <1>15, <2>2
  <2> DEFINE f == nth(fits, 1)
  <2>4. f \in 1..k /\ f <= m /\ nth(P, f) \in O /\ found = lines[nth(P, f)].target
    BY <1>15, <1>17, <2>3
  <2> HIDE DEF f
  <2>5. ~(f < m)
    <3> SUFFICES ASSUME f < m PROVE FALSE
      OBVIOUS
    <3>1. nth(P, f) < i /\ i <= nth(P, f)
      BY <1>13, <1>20, <2>2, <2>4
    <3>2. i \in Nat /\ nth(P, f) \in Nat
      BY <1>9, <1>13, <2>1, <2>4
    <3> QED
      BY <3>1, <3>2
  <2>6. f = m
    BY <1>12, <2>4, <2>5
  <2> QED
    BY <2>2, <2>4, <2>6
<1> QED
  BY <1>19, <1>20 DEF O, found, rule

-----------------------------------------------------------------------------
(* The machine.                                                            *)

\* What is kept: a configuration that may be given, the rules made from it,
\* and the result of the rules for the query.
Applied ==
    /\ config \in Config
    /\ manipulators # None => manipulators = rules_of(config)
    /\ query # None => query \in Message /\ result = apply(rules_of(config), query)

\* Rules are made once from the lines of the configuration, and every query
\* is done with by those rules (TryFrom for QueryManipulators, apply).
LEMMA ResultIsOfTheRules == Spec => []Applied
<1>1. Init => Applied
  BY DEF Init, Applied
<1>2. Applied /\ [Next]_vars => Applied'
  <2> SUFFICES ASSUME Applied, [Next]_vars PROVE Applied'
    OBVIOUS
  <2>1. CASE New
    <3>1. query = query' /\ config' = config /\ result' = result /\ manipulators' = rules_of(config)
      BY <2>1 DEF New
    <3> QED
      BY <3>1 DEF Applied
  <2>2. ASSUME NEW q \in Message, Query(q) PROVE Applied'
    <3>1. /\ manipulators # None /\ query' = q /\ result' = apply(manipulators, q)
          /\ config' = config /\ manipulators' = manipulators
      BY <2>2 DEF Query
    <3>2. manipulators = rules_of(config)
      BY <3>1 DEF Applied
    <3> QED
      BY <3>1, <3>2 DEF Applied
  <2>3. CASE UNCHANGED vars
    BY <2>3 DEF vars, Applied
  <2> QED
    BY <2>1, <2>2, <2>3 DEF Next
<1> QED
  BY <1>1, <1>2, PTL DEF Spec

\* What the rules do with a query, in terms of the lines.
LEMMA Decided ==
    ASSUME NEW c \in Config, NEW q \in Message
    PROVE  LET key == first_key(q)
               r == apply(rules_of(c), q)
               O == overriding(lines_of(c.domain_override), key)
               lines == lines_of(c.domain_block)
           IN  /\ r.kind = "NoError" <=> O # {}
               /\ \A i \in O : (\A j \in O : i <= j) =>
                     r.address = lines_of(c.domain_override)[i].target /\ r.questions = q
               /\ O = {} => (r.kind = "NXDomain" <=>
                     \E line \in ToSet(lines) : Blocks(line, Labels(Front(key.name))))
<1> DEFINE key == first_key(q)
           o == lines_of(c.domain_override)
           b == lines_of(c.domain_block)
           O == overriding(o, key)
           found == find_mapping(DomainOverrideRule(o), key)
           blocked == in_blocklist(DomainBlockRule(b), key)
           r == apply(rules_of(c), q)
<1>1. /\ Request(q)[1] = key /\ key.name \in Str /\ Len(key.name) >= 1
      /\ to_ascii_lowercase(key.name) = key.name
  BY FirstIsSmallest
<1>2. OverrideLines(o)
  <2>1. CASE c.domain_override = None
    <3>1. o = <<>>
      BY <2>1 DEF lines_of
    <3> HIDE DEF o
    <3> QED
      BY <3>1 DEF OverrideLines
  <2>2. CASE c.domain_override # None
    <3>1. o = c.domain_override
      BY <2>2 DEF lines_of
    <3> HIDE DEF o
    <3> QED
      BY <2>2, <3>1, ManipulationAssumption DEF OverrideLines, Str
  <2> QED
    BY <2>1, <2>2
<1>3. b \in Seq(Str)
  <2>1. b \in Seq(Str \ {<<>>})
    BY ManipulationAssumption DEF lines_of, Str
  <2> HIDE DEF b
  <2> QED
    BY <2>1
<1> HIDE DEF key, o, b
<1>4. /\ found # None <=> O # {}
      /\ \A i \in O : (\A j \in O : i <= j) => found = o[i].target
  BY <1>1, <1>2, OverrideRuleMeansLines
<1>5. blocked <=> \E line \in ToSet(b) : Blocks(line, Labels(Front(key.name)))
  BY <1>1, <1>3, BlockRuleMeansLines
<1>6. r = IF found # None THEN Answer(q, key, found)
          ELSE IF blocked THEN NXDomain(q) ELSE PassThrough
  BY <1>1 DEF apply, rules_of, o, b
<1> HIDE DEF found, blocked, r, O
<1>7. found # None => r.kind = "NoError" /\ r.address = found /\ r.questions = q
  BY <1>6 DEF Answer
<1>8. found = None /\ blocked => r.kind = "NXDomain"
  BY <1>6 DEF NXDomain
<1>9. found = None /\ ~blocked => r.kind = "PassThrough"
  BY <1>6 DEF PassThrough
<1> QED
  BY <1>4, <1>5, <1>7, <1>8, <1>9 DEF key, o, b, O, r

LEMMA OverridingIs ==
    Applied /\ query # None =>
       /\ FirstKey = first_key(query) /\ QueryLabels = Labels(Front(first_key(query).name))
       /\ Overriding = overriding(lines_of(config.domain_override), first_key(query))
<1> SUFFICES ASSUME Applied, query # None
             PROVE  /\ FirstKey = first_key(query)
                    /\ QueryLabels = Labels(Front(first_key(query).name))
                    /\ Overriding = overriding(lines_of(config.domain_override), first_key(query))
  OBVIOUS
<1>1. FirstKey = first_key(query)
  BY DEF FirstKey, first_key
<1>2. QueryLabels = Labels(Front(first_key(query).name))
  BY <1>1 DEF QueryLabels
<1>3. CASE config.domain_override = None
  <2>1. Overriding = {}
    BY <1>3 DEF Overriding
  <2>2. lines_of(config.domain_override) = <<>> /\ DOMAIN <<>> = {}
    BY <1>3 DEF lines_of
  <2>3. overriding(lines_of(config.domain_override), first_key(query)) = {}
    BY <2>2 DEF overriding
  <2> QED
    BY <1>1, <1>2, <2>1, <2>3
<1>4. CASE config.domain_override # None
  <2>1. lines_of(config.domain_override) = config.domain_override
    BY <1>4 DEF lines_of
  <2> QED
    BY <1>1, <1>2, <1>4, <2>1 DEF Overriding, overriding
<1> QED
  BY <1>3, <1>4

\* Matching reversed names from the front, character by character, blocks the
\* names that the lines mean by their labels, in any case of letters
\* (DomainBlockRule, in_blocklist).
THEOREM BlocksWhatLinesMean == Spec => []BlockedByLabels
<1>1. Applied => BlockedByLabels
  <2> SUFFICES ASSUME Applied, query # None, Overriding = {}
               PROVE  result.kind = "NXDomain"
                      <=> config.domain_block # None
                          /\ \E line \in ToSet(config.domain_block) : Blocks(line, QueryLabels)
    BY DEF BlockedByLabels
  <2>1. config \in Config /\ query \in Message /\ result = apply(rules_of(config), query)
    BY DEF Applied
  <2>2. result.kind = "NXDomain"
        <=> \E line \in ToSet(lines_of(config.domain_block)) : Blocks(line, QueryLabels)
    BY <2>1, OverridingIs, Decided
  <2>3. config.domain_block = None => ToSet(lines_of(config.domain_block)) = {}
    BY DEF lines_of, ToSet
  <2>4. config.domain_block # None => lines_of(config.domain_block) = config.domain_block
    BY DEF lines_of
  <2> QED
    BY <2>2, <2>3, <2>4
<1> QED
  BY <1>1, ResultIsOfTheRules, PTL

\* A query that a line overrides gets the address of the first such line, with
\* the questions as they were asked, whatever blocks its name (find_mapping,
\* QueryManipulators::apply).
THEOREM FirstLineOverrides == Spec => []OverriddenBeforeBlocked
<1>1. Applied => OverriddenBeforeBlocked
  <2> SUFFICES ASSUME Applied, query # None
               PROVE  /\ result.kind = "NoError" <=> Overriding # {}
                      /\ \A i \in Overriding :
                            (\A j \in Overriding : i <= j) =>
                               /\ result.address = config.domain_override[i].target
                               /\ result.questions = query
    BY DEF OverriddenBeforeBlocked
  <2>1. config \in Config /\ query \in Message /\ result = apply(rules_of(config), query)
    BY DEF Applied
  <2> DEFINE O == overriding(lines_of(config.domain_override), first_key(query))
  <2>2. Overriding = O
    BY OverridingIs
  <2>3. /\ result.kind = "NoError" <=> O # {}
        /\ \A i \in O : (\A j \in O : i <= j) =>
              result.address = lines_of(config.domain_override)[i].target /\ result.questions = query
    BY <2>1, Decided
  <2>4. \A i \in Overriding : lines_of(config.domain_override) = config.domain_override
    BY DEF Overriding, lines_of
  <2> HIDE DEF O
  <2> QED
    BY <2>2, <2>3, <2>4
<1> QED
  BY <1>1, ResultIsOfTheRules, PTL

=============================================================================
