---------------------------- MODULE RecallProofs ----------------------------
(***************************************************************************)
(* Proofs about module Recall, with the lemmas about sorting and the page  *)
(* builder that they need.                                                 *)
(***************************************************************************)
EXTENDS Recall, SharedProofs

-----------------------------------------------------------------------------
(* Sorting.                                                                *)

StrictOrder(S, R) ==
    /\ \A x \in S : <<x, x>> \notin R
    /\ \A x, y \in S : x # y => <<x, y>> \in R \/ <<y, x>> \in R
    /\ \A x, y, z \in S : <<x, y>> \in R /\ <<y, z>> \in R => <<x, z>> \in R

\* Sorted lists each element of a finite set once, in the order of R.
LEMMA SortedLists ==
    ASSUME NEW S, IsFiniteSet(S), NEW R, StrictOrder(S, R)
    PROVE  /\ Cardinality(S) \in Nat
           /\ Sorted(S, R) \in [1 .. Cardinality(S) -> S]
           /\ \A x \in S : \E i \in 1 .. Cardinality(S) : Sorted(S, R)[i] = x
           /\ \A i, j \in 1 .. Cardinality(S) :
                  i < j <=> <<Sorted(S, R)[i], Sorted(S, R)[j]>> \in R
<1> DEFINE n == Cardinality(S)
           Ahd(x) == {y \in S : <<y, x>> \in R}
           place == [x \in S |-> Cardinality(Ahd(x))]
           s == Sorted(S, R)
<1>1. n \in Nat
  BY FS_CardinalityType
<1>2. ASSUME NEW x \in S PROVE IsFiniteSet(Ahd(x)) /\ Cardinality(Ahd(x)) \in 0 .. n - 1
  <2>1. Ahd(x) \in SUBSET (S \ {x})
    BY DEF StrictOrder
  <2>2. IsFiniteSet(S \ {x}) /\ Cardinality(S \ {x}) = n - 1
    BY FS_RemoveElement
  <2>3. IsFiniteSet(Ahd(x)) /\ Cardinality(Ahd(x)) <= n - 1
    <3> DEFINE A == Ahd(x)
               W == S \ {x}
    <3>1. IsFiniteSet(W) /\ A \in SUBSET W /\ Cardinality(W) = n - 1
      BY <2>1, <2>2
    <3> HIDE DEF A, W
    <3>2. IsFiniteSet(A) /\ Cardinality(A) <= Cardinality(W)
      BY <3>1, FS_Subset
    <3>3. IsFiniteSet(A) /\ Cardinality(A) <= n - 1
      BY <3>1, <3>2
    <3> QED
      BY <3>3 DEF A
  <2>4. Cardinality(Ahd(x)) \in Nat
    BY <2>3, FS_CardinalityType
  <2> QED
    BY <1>1, <2>3, <2>4
<1>. place \in [S -> 0 .. n - 1] /\ \A x \in S : place[x] \in Int
  <2> HIDE DEF Ahd, n
  <2> QED
    BY <1>1, <1>2
<1>3. ASSUME NEW x \in S, NEW y \in S, <<x, y>> \in R PROVE place[x] < place[y]
  <2>1. Ahd(x) \in SUBSET Ahd(y) /\ x \in Ahd(y) /\ x \notin Ahd(x)
    BY <1>3 DEF StrictOrder
  <2>2. IsFiniteSet(Ahd(y))
    BY <1>2
  <2>3. /\ Cardinality(Ahd(x)) <= Cardinality(Ahd(y))
        /\ Cardinality(Ahd(y)) = Cardinality(Ahd(x)) => Ahd(y) = Ahd(x)
    <3> HIDE DEF Ahd
    <3> QED
      BY <2>1, <2>2, FS_Subset
  <2>4. place[x] <= place[y] /\ place[x] # place[y]
    <3> HIDE DEF Ahd
    <3> QED
      BY <2>1, <2>3
  <2> HIDE DEF place
  <2> QED
    BY <2>4
<1>4. \A x, y \in S : place[x] < place[y] <=> <<x, y>> \in R
  <2> SUFFICES ASSUME NEW x \in S, NEW y \in S, place[x] < place[y] PROVE <<x, y>> \in R
    BY <1>3
  <2>1. x # y /\ <<y, x>> \notin R
    <3> HIDE DEF place
    <3> QED
      BY <1>3
  <2> QED
    BY <2>1 DEF StrictOrder
<1>5. \A x, y \in S : place[x] = place[y] => x = y
  <2> SUFFICES ASSUME NEW x \in S, NEW y \in S, place[x] = place[y], x # y PROVE FALSE
    OBVIOUS
  <2>1. <<x, y>> \in R \/ <<y, x>> \in R
    BY DEF StrictOrder
  <2> HIDE DEF place
  <2> QED
    BY <1>3, <2>1
<1>6. \A k \in 0 .. n - 1 : \E x \in S : place[x] = k
  <2>2. place \in Injection(S, 0 .. n - 1)
    <3> HIDE DEF place
    <3> QED
      BY <1>5, Fun_IsInj
  <2>3. IsFiniteSet(0 .. n - 1) /\ Cardinality(0 .. n - 1) = n
    BY <1>1, FS_Interval
  <2>4. place \in Surjection(S, 0 .. n - 1)
    <3> HIDE DEF place
    <3> QED
      BY <2>2, <2>3, FS_Injection
  <2> HIDE DEF place, n
  <2> QED
    BY <2>4 DEF Surjection
<1>7. \A i \in 1 .. n : s[i] \in S /\ place[s[i]] = i - 1
  <2> SUFFICES ASSUME NEW i \in 1 .. n PROVE s[i] \in S /\ place[s[i]] = i - 1
    OBVIOUS
  <2>1. \E x \in S : Cardinality({y \in S : <<y, x>> \in R}) = i - 1
    <3>1. i - 1 \in 0 .. n - 1
      BY <1>1
    <3> QED
      BY <1>6, <3>1
  <2>2. s[i] = CHOOSE x \in S : Cardinality({y \in S : <<y, x>> \in R}) = i - 1
    BY DEF Sorted
  <2>3. s[i] \in S /\ Cardinality({y \in S : <<y, s[i]>> \in R}) = i - 1
    <3> HIDE DEF s
    <3> QED
      BY <2>1, <2>2
  <2> QED
    BY <2>3
<1>8. s \in [1 .. n -> S]
  <2> DEFINE e(i) == CHOOSE x \in S : Cardinality({y \in S : <<y, x>> \in R}) = i - 1
  <2>1. s = [i \in 1 .. n |-> e(i)]
    BY DEF Sorted
  <2> HIDE DEF s, e, place
  <2> QED
    BY <1>7, <2>1
<1>9. \A x \in S : \E i \in 1 .. n : s[i] = x
  <2> SUFFICES ASSUME NEW x \in S PROVE \E i \in 1 .. n : s[i] = x
    OBVIOUS
  <2> HIDE DEF place, s
  <2>2. place[x] + 1 \in 1 .. n /\ place[x] \in Int
    BY <1>1
  <2> QED
    BY <1>5, <1>7, <2>2
<1>10. \A i, j \in 1 .. n : i < j <=> <<s[i], s[j]>> \in R
  <2> HIDE DEF place, s
  <2> QED
    BY <1>1, <1>4, <1>7
<1> QED
  BY <1>1, <1>8, <1>9, <1>10

\* Numbers in ascending order.
LEMMA AscendingLists ==
    ASSUME NEW S \in SUBSET Int, IsFiniteSet(S)
    PROVE  /\ Cardinality(S) \in Nat
           /\ Ascending(S) \in [1 .. Cardinality(S) -> S]
           /\ \A x \in S : \E i \in 1 .. Cardinality(S) : Ascending(S)[i] = x
           /\ \A i, j \in 1 .. Cardinality(S) : i < j <=> Ascending(S)[i] < Ascending(S)[j]
<1> DEFINE R == {p \in S \X S : p[1] < p[2]}
<1>1. \A x, y \in S : <<x, y>> \in R <=> x < y
  OBVIOUS
<1>2. StrictOrder(S, R)
  <2> HIDE DEF R
  <2> QED
    BY <1>1 DEF StrictOrder
<1>3. Ascending(S) = Sorted(S, R)
  BY DEF Ascending
<1> HIDE DEF R
<1>4. /\ Cardinality(S) \in Nat
      /\ Sorted(S, R) \in [1 .. Cardinality(S) -> S]
      /\ \A x \in S : \E i \in 1 .. Cardinality(S) : Sorted(S, R)[i] = x
      /\ \A i, j \in 1 .. Cardinality(S) :
             i < j <=> <<Sorted(S, R)[i], Sorted(S, R)[j]>> \in R
  BY <1>2, SortedLists
<1> QED
  BY <1>1, <1>3, <1>4

\* The places of the elements that Keep leaves, and how many they are.
Places(seq, S) == Ascending({i \in DOMAIN seq : seq[i] \in S})
Kept(seq, S) == Cardinality({i \in DOMAIN seq : seq[i] \in S})

\* Keep leaves the elements in S, in their order.
LEMMA KeepPlaces ==
    ASSUME NEW D, NEW seq \in Seq(D), NEW S
    PROVE  /\ Kept(seq, S) \in 0 .. Len(seq)
           /\ Keep(seq, S) \in [1 .. Kept(seq, S) -> D \cap S]
           /\ \A i \in 1 .. Kept(seq, S) :
                 Places(seq, S)[i] \in 1 .. Len(seq) /\ Keep(seq, S)[i] = seq[Places(seq, S)[i]]
           /\ \A i, j \in 1 .. Kept(seq, S) : i < j <=> Places(seq, S)[i] < Places(seq, S)[j]
           /\ \A j \in 1 .. Len(seq) :
                 seq[j] \in S => \E i \in 1 .. Kept(seq, S) : Places(seq, S)[i] = j
<1> DEFINE n == Len(seq)
           P == {i \in DOMAIN seq : seq[i] \in S}
           m == Cardinality(P)
           a == Ascending(P)
<1>1. n \in Nat /\ DOMAIN seq = 1 .. n /\ \A i \in 1 .. n : seq[i] \in D
  OBVIOUS
<1>2. P \in SUBSET (1 .. n) /\ P \in SUBSET Int
  BY <1>1
<1>3. IsFiniteSet(P) /\ m \in 0 .. n
  <2>1. IsFiniteSet(1 .. n) /\ Cardinality(1 .. n) = n
    <3> HIDE DEF n
    <3> QED
      BY <1>1, FS_Interval
  <2>2. IsFiniteSet(P) /\ Cardinality(P) <= n
    <3> HIDE DEF P
    <3> QED
      BY <1>2, <2>1, FS_Subset
  <2>3. Cardinality(P) \in Nat
    <3> HIDE DEF P
    <3> QED
      BY <2>2, FS_CardinalityType
  <2> HIDE DEF P
  <2> QED
    BY <1>1, <2>2, <2>3
<1>4. /\ a \in [1 .. m -> P]
      /\ \A x \in P : \E i \in 1 .. m : a[i] = x
      /\ \A i, j \in 1 .. m : i < j <=> a[i] < a[j]
  <2> HIDE DEF P
  <2> QED
    BY <1>2, <1>3, AscendingLists
<1>5. Keep(seq, S) = [i \in 1 .. m |-> seq[a[i]]]
  <2>1. Keep(seq, S) = [i \in DOMAIN a |-> seq[a[i]]]
    BY DEF Keep
  <2> HIDE DEF P, a
  <2> QED
    BY <1>4, <2>1
<1>6. \A x : x \in P <=> x \in 1 .. n /\ seq[x] \in S
  BY <1>1
<1>7. Kept(seq, S) = m /\ Places(seq, S) = a
  BY DEF Kept, Places
<1> HIDE DEF P, a, m, n
<1>8. \A i \in 1 .. m : a[i] \in P
  BY <1>4
<1>9. \A i \in 1 .. m : a[i] \in 1 .. n /\ seq[a[i]] \in S /\ seq[a[i]] \in D
  BY <1>1, <1>6, <1>8
<1>10. /\ Keep(seq, S) \in [1 .. m -> D \cap S]
       /\ \A i \in 1 .. m : Keep(seq, S)[i] = seq[a[i]]
  BY <1>5, <1>9
<1>11. \A j \in 1 .. n : seq[j] \in S => \E i \in 1 .. m : a[i] = j
  BY <1>4, <1>6
<1> QED
  BY <1>3, <1>4, <1>7, <1>9, <1>10, <1>11 DEF n

\* What it leaves, as a set and as a sequence without repetitions.
LEMMA KeepElements ==
    ASSUME NEW D, NEW seq \in Seq(D), NEW S
    PROVE  /\ Keep(seq, S) \in Seq(D \cap S) /\ Keep(seq, S) \in Seq(D)
           /\ Len(Keep(seq, S)) <= Len(seq)
           /\ ToSet(Keep(seq, S)) = ToSet(seq) \cap S
           /\ IsInjective(seq) => IsInjective(Keep(seq, S))
<1> DEFINE k  == Keep(seq, S)
           m  == Kept(seq, S)
           at == Places(seq, S)
<1> HIDE DEF k, m, at
<1>1. /\ m \in 0 .. Len(seq)
      /\ k \in [1 .. m -> D \cap S]
      /\ \A i \in 1 .. m : at[i] \in 1 .. Len(seq) /\ k[i] = seq[at[i]]
      /\ \A i, j \in 1 .. m : i < j <=> at[i] < at[j]
      /\ \A j \in 1 .. Len(seq) : seq[j] \in S => \E i \in 1 .. m : at[i] = j
  <2>1. m \in 0 .. Len(seq) /\ k \in [1 .. m -> D \cap S]
    BY KeepPlaces DEF k, m
  <2>2. \A i \in 1 .. m : at[i] \in 1 .. Len(seq) /\ k[i] = seq[at[i]]
    BY KeepPlaces DEF k, m, at
  <2>3. \A i, j \in 1 .. m : i < j <=> at[i] < at[j]
    BY KeepPlaces DEF m, at
  <2>4. \A j \in 1 .. Len(seq) : seq[j] \in S => \E i \in 1 .. m : at[i] = j
    BY KeepPlaces DEF m, at
  <2> QED
    BY <2>1, <2>2, <2>3, <2>4
<1>2. m \in Nat /\ m <= Len(seq) /\ Len(seq) \in Nat /\ DOMAIN seq = 1 .. Len(seq)
  BY <1>1
<1>3. k \in Seq(D \cap S) /\ k \in Seq(D) /\ Len(k) = m /\ DOMAIN k = 1 .. m
  BY <1>1, <1>2
<1>4. ToSet(k) = ToSet(seq) \cap S
  <2>1. \A x \in ToSet(k) : x \in ToSet(seq) \cap S
    BY <1>1, <1>2, <1>3 DEF ToSet
  <2>2. \A x \in ToSet(seq) \cap S : x \in ToSet(k)
    BY <1>1, <1>2, <1>3 DEF ToSet
  <2> QED
    BY <2>1, <2>2
<1>5. IsInjective(seq) => IsInjective(k)
  <2> SUFFICES ASSUME IsInjective(seq), NEW i \in 1 .. m, NEW j \in 1 .. m, k[i] = k[j]
               PROVE  i = j
    BY <1>3 DEF IsInjective
  <2>1. at[i] = at[j] /\ at[i] \in Int
    BY <1>1, <1>2 DEF IsInjective
  <2>2. ~ (i < j) /\ ~ (j < i)
    BY <1>1, <2>1
  <2> QED
    BY <2>2
<1> QED
  BY <1>2, <1>3, <1>4, <1>5 DEF k

\* A sequence without repetitions is as long as its set is large.
LEMMA DistinctLen ==
    ASSUME NEW D, NEW seq \in Seq(D), IsInjective(seq)
    PROVE  IsFiniteSet(ToSet(seq)) /\ Cardinality(ToSet(seq)) = Len(seq)
<1>1. Len(seq) \in Nat /\ seq \in [1 .. Len(seq) -> D]
  OBVIOUS
<1>2. seq \in [1 .. Len(seq) -> ToSet(seq)] /\ \A x \in ToSet(seq) : \E i \in 1 .. Len(seq) : seq[i] = x
  BY <1>1 DEF ToSet
<1>3. seq \in Bijection(1 .. Len(seq), ToSet(seq))
  <2>1. \A i, j \in 1 .. Len(seq) : seq[i] = seq[j] => i = j
    BY DEF IsInjective
  <2>2. seq \in Surjection(1 .. Len(seq), ToSet(seq))
    BY <1>2 DEF Surjection
  <2>3. IsInjective(seq)
    OBVIOUS
  <2>4. seq \in Injection(1 .. Len(seq), ToSet(seq))
    BY <1>2, <2>1, <2>3 DEF Injection
  <2> QED
    BY <2>2, <2>4 DEF Bijection
<1>4. IsFiniteSet(1 .. Len(seq)) /\ Cardinality(1 .. Len(seq)) = Len(seq)
  <2> DEFINE n == Len(seq)
  <2>1. n \in Nat /\ 1 \in Int /\ n \in Int
    BY <1>1
  <2> HIDE DEF n
  <2>2. IsFiniteSet(1 .. n) /\ Cardinality(1 .. n) = IF 1 > n THEN 0 ELSE n - 1 + 1
    BY <2>1, FS_Interval
  <2>3. IsFiniteSet(1 .. n) /\ Cardinality(1 .. n) = n
    BY <2>1, <2>2
  <2> QED
    BY <2>3 DEF n
<1> QED
  BY <1>3, <1>4, FS_Bijection DEF ExistsBijection

-----------------------------------------------------------------------------
(* The elements of sequences of sequences.                                 *)

\* The elements of sequences, and sequences that have each element once, all
\* together.
Elements(seqs) == UNION {ToSet(seqs[i]) : i \in DOMAIN seqs}

Apart(seqs) ==
    /\ \A i \in DOMAIN seqs : IsInjective(seqs[i])
    /\ \A i, j \in DOMAIN seqs : i # j => ToSet(seqs[i]) \cap ToSet(seqs[j]) = {}

\* Flattened, they are a sequence of the same elements, without repetitions.
LEMMA FlattenElements ==
    ASSUME NEW D, NEW seqs \in Seq(Seq(D))
    PROVE  /\ FlattenSeq(seqs) \in Seq(D)
           /\ ToSet(FlattenSeq(seqs)) = Elements(seqs)
           /\ Apart(seqs) => IsInjective(FlattenSeq(seqs))
<1> DEFINE n == Len(seqs)
           flat == FlattenSeq(seqs)
           l == Len(flat)
<1>1. flat \in Seq(D)
  BY FlattenPlaces
<1>. PICK row, col : Placed(flat, row, col, seqs, n)
  BY FlattenPlaces
<1> HIDE DEF flat
<1>2. /\ row \in [1 .. l -> 1 .. n]
      /\ \A x \in 1 .. l : col[x] \in 1 .. Len(seqs[row[x]]) /\ flat[x] = seqs[row[x]][col[x]]
      /\ \A x, y \in 1 .. l : row[x] = row[y] /\ col[x] = col[y] => x = y
      /\ \A i \in 1 .. n : \A j \in 1 .. Len(seqs[i]) : \E x \in 1 .. l : row[x] = i /\ col[x] = j
  BY DEF Placed
<1>3. DOMAIN flat = 1 .. l /\ DOMAIN seqs = 1 .. n /\ \A i \in 1 .. n : DOMAIN seqs[i] = 1 .. Len(seqs[i])
  BY <1>1
<1>4. ASSUME NEW x \in 1 .. l PROVE row[x] \in DOMAIN seqs /\ flat[x] \in ToSet(seqs[row[x]])
  <2>1. row[x] \in 1 .. n /\ col[x] \in DOMAIN seqs[row[x]]
    BY <1>2, <1>3
  <2> QED
    BY <1>2, <1>3, <2>1 DEF ToSet
<1> HIDE DEF n, l
<1>5. ToSet(flat) = Elements(seqs)
  <2>1. ASSUME NEW v \in ToSet(flat) PROVE v \in Elements(seqs)
    <3>1. PICK x \in 1 .. l : v = flat[x]
      BY <1>3 DEF ToSet
    <3> QED
      BY <1>4, <3>1 DEF Elements
  <2>2. ASSUME NEW v \in Elements(seqs) PROVE v \in ToSet(flat)
    <3>1. PICK i \in 1 .. n : v \in ToSet(seqs[i])
      BY <1>3 DEF Elements
    <3>2. PICK j \in 1 .. Len(seqs[i]) : v = seqs[i][j]
      BY <1>3, <3>1 DEF ToSet
    <3>3. PICK x \in 1 .. l : row[x] = i /\ col[x] = j
      BY <1>2
    <3>4. flat[x] = v
      BY <1>2, <3>2, <3>3
    <3> QED
      BY <1>3, <3>4 DEF ToSet
  <2> QED
    BY <2>1, <2>2
<1>6. Apart(seqs) => IsInjective(flat)
  <2> SUFFICES ASSUME Apart(seqs), NEW x \in 1 .. l, NEW y \in 1 .. l, flat[x] = flat[y] PROVE x = y
    BY <1>3 DEF IsInjective
  <2>1. row[x] = row[y]
    BY <1>4 DEF Apart
  <2>2. IsInjective(seqs[row[x]]) /\ col[x] \in DOMAIN seqs[row[x]] /\ col[y] \in DOMAIN seqs[row[x]]
    BY <1>2, <1>3, <1>4, <2>1 DEF Apart
  <2>3. seqs[row[x]][col[x]] = seqs[row[x]][col[y]]
    BY <1>2, <2>1
  <2>4. col[x] = col[y]
    BY <2>2, <2>3 DEF IsInjective
  <2> QED
    BY <1>2, <2>1, <2>4
<1> QED
  BY <1>1, <1>5, <1>6 DEF flat

\* Flattened groups of sequences: the same sequences, apart if the groups are.
LEMMA FlattenGroups ==
    ASSUME NEW D, NEW groups \in Seq(Seq(Seq(D)))
    PROVE  /\ FlattenSeq(groups) \in Seq(Seq(D))
           /\ ToSet(FlattenSeq(groups)) = Elements(groups)
           /\ Elements(FlattenSeq(groups)) = UNION {Elements(groups[i]) : i \in DOMAIN groups}
           /\ (/\ \A i \in DOMAIN groups : Apart(groups[i])
               /\ \A i, j \in DOMAIN groups :
                      i # j => Elements(groups[i]) \cap Elements(groups[j]) = {})
              => Apart(FlattenSeq(groups))
<1> DEFINE n == Len(groups)
           flat == FlattenSeq(groups)
           l == Len(flat)
<1>1. flat \in Seq(Seq(D))
  BY FlattenPlaces
<1>. PICK row, col : Placed(flat, row, col, groups, n)
  BY FlattenPlaces
<1>0. ToSet(flat) = Elements(groups)
  <2>1. groups \in Seq(Seq(Seq(D)))
    OBVIOUS
  <2> DEFINE P == Seq(D)
  <2> HIDE DEF P
  <2> QED
    BY <2>1, FlattenElements DEF P
<1> HIDE DEF flat
<1>2. /\ row \in [1 .. l -> 1 .. n]
      /\ \A x \in 1 .. l : col[x] \in 1 .. Len(groups[row[x]]) /\ flat[x] = groups[row[x]][col[x]]
      /\ \A x, y \in 1 .. l : row[x] = row[y] /\ col[x] = col[y] => x = y
      /\ \A i \in 1 .. n : \A j \in 1 .. Len(groups[i]) : \E x \in 1 .. l : row[x] = i /\ col[x] = j
  BY DEF Placed
<1>3. DOMAIN flat = 1 .. l /\ DOMAIN groups = 1 .. n /\ \A i \in 1 .. n : DOMAIN groups[i] = 1 .. Len(groups[i])
  BY <1>1
<1> HIDE DEF n, l
<1>4. ASSUME NEW x \in 1 .. l
      PROVE  /\ row[x] \in DOMAIN groups /\ col[x] \in DOMAIN groups[row[x]]
             /\ flat[x] = groups[row[x]][col[x]]
             /\ ToSet(flat[x]) \subseteq Elements(groups[row[x]])
  <2>1. row[x] \in 1 .. n /\ col[x] \in DOMAIN groups[row[x]] /\ flat[x] = groups[row[x]][col[x]]
    BY <1>2, <1>3
  <2> QED
    BY <1>3, <2>1 DEF Elements
<1>5. Elements(flat) = UNION {Elements(groups[i]) : i \in DOMAIN groups}
  <2>1. ASSUME NEW v \in Elements(flat) PROVE v \in UNION {Elements(groups[i]) : i \in DOMAIN groups}
    <3>1. PICK x \in 1 .. l : v \in ToSet(flat[x])
      BY <1>3 DEF Elements
    <3>2. row[x] \in DOMAIN groups /\ v \in Elements(groups[row[x]])
      BY <1>4, <3>1
    <3> QED
      BY <3>2
  <2>2. ASSUME NEW i \in DOMAIN groups, NEW v \in Elements(groups[i]) PROVE v \in Elements(flat)
    <3>1. PICK j \in 1 .. Len(groups[i]) : v \in ToSet(groups[i][j])
      BY <1>3 DEF Elements
    <3>2. PICK x \in 1 .. l : row[x] = i /\ col[x] = j
      BY <1>2, <1>3
    <3>3. v \in ToSet(flat[x])
      BY <1>2, <3>1, <3>2
    <3> QED
      BY <1>3, <3>3 DEF Elements
  <2> QED
    BY <2>1, <2>2
<1>6. ASSUME \A i \in DOMAIN groups : Apart(groups[i]),
             \A i, j \in DOMAIN groups : i # j => Elements(groups[i]) \cap Elements(groups[j]) = {}
      PROVE  Apart(flat)
  <2>1. ASSUME NEW x \in 1 .. l PROVE IsInjective(flat[x])
    <3>1. row[x] \in DOMAIN groups /\ col[x] \in DOMAIN groups[row[x]] /\ flat[x] = groups[row[x]][col[x]]
      BY <1>4
    <3>2. Apart(groups[row[x]])
      BY <1>6, <3>1
    <3> QED
      BY <3>1, <3>2 DEF Apart
  <2>2. ASSUME NEW x \in 1 .. l, NEW y \in 1 .. l, x # y PROVE ToSet(flat[x]) \cap ToSet(flat[y]) = {}
    <3>1. CASE row[x] = row[y]
      <4>1. col[x] # col[y]
        BY <1>2, <2>2, <3>1
      <4>2. Apart(groups[row[x]]) /\ col[y] \in DOMAIN groups[row[x]] /\ flat[y] = groups[row[x]][col[y]]
        BY <1>4, <1>6, <3>1
      <4> QED
        BY <1>4, <4>1, <4>2 DEF Apart
    <3>2. CASE row[x] # row[y]
      <4>1. Elements(groups[row[x]]) \cap Elements(groups[row[y]]) = {}
        BY <1>4, <1>6, <3>2
      <4> QED
        BY <1>4, <4>1
    <3> QED
      BY <3>1, <3>2
  <2> QED
    BY <1>3, <2>1, <2>2 DEF Apart
<1> QED
  BY <1>0, <1>1, <1>5, <1>6 DEF flat

-----------------------------------------------------------------------------
(* Pages of limited size.                                                  *)

\* The bytes of a page, cell by cell.
LEMMA BytesSteps ==
    ASSUME NEW seq \in Seq(Cell)
    PROVE  \E f : /\ f[0] = 0 /\ Bytes(seq) = f[Len(seq)]
                  /\ \A k \in 1 .. Len(seq) : f[k] = f[k - 1] + Attr[seq[k]].size
<1> DEFINE n == Len(seq)
           U == Int
           G == [p \in U \X (1 .. n) |-> p[1] + Attr[seq[p[2]]].size]
           Solves(h) == h = [s \in SUBSET (1 .. n) |->
                                IF s = {} THEN 0 ELSE h[s \ {Max(s)}] + Attr[seq[Max(s)]].size]
           iter == CHOOSE h : Solves(h)
<1>1. n \in Nat /\ DOMAIN seq = 1 .. n /\ \A i \in 1 .. n : seq[i] \in Cell
  OBVIOUS
<1>2. StepIn(G, U, n)
  <2>1. ASSUME NEW p \in U \X (1 .. n) PROVE p[1] + Attr[seq[p[2]]].size \in U
    BY <1>1, BuilderAssumption DEF Cell
  <2> QED
    BY <2>1 DEF StepIn
<1>. PICK f : FoldOf(f, U, 0, n, G)
  <2>1. 0 \in U
    OBVIOUS
  <2> HIDE DEF U, G, n
  <2> QED
    BY <1>1, <1>2, <2>1, FoldExists
<1>3. /\ f \in [SUBSET (1 .. n) -> U]
      /\ f = [s \in SUBSET (1 .. n) |-> IF s = {} THEN 0 ELSE G[<<f[s \ {Max(s)}], Max(s)>>]]
  BY DEF FoldOf
<1>4. ASSUME NEW s \in SUBSET (1 .. n), s # {}
      PROVE  G[<<f[s \ {Max(s)}], Max(s)>>] = f[s \ {Max(s)}] + Attr[seq[Max(s)]].size
  <2>1. Max(s) \in 1 .. n
    <3> HIDE DEF n
    <3> QED
      BY <1>1, <1>4, HasLargest
  <2>2. s \ {Max(s)} \in SUBSET (1 .. n)
    OBVIOUS
  <2>3. <<f[s \ {Max(s)}], Max(s)>> \in U \X (1 .. n)
    BY <1>3, <2>1, <2>2
  <2> QED
    BY <2>3
<1>5. Solves(f)
  <2> HIDE DEF G, n, U
  <2> QED
    BY <1>3, <1>4
<1>6. Solves(iter)
  <2> HIDE DEF Solves
  <2> QED
    BY <1>5
<1>7. Bytes(seq) = iter[1 .. n]
  BY <1>1 DEF Bytes, FoldLeft, MapThenFoldSet
<1> HIDE DEF iter
<1> DEFINE g == [k \in 0 .. n |-> iter[1 .. k]]
<1>8. g[0] = 0 /\ g[n] = Bytes(seq)
  <2>1. 1 .. 0 = {} /\ {} \in SUBSET (1 .. n) /\ 0 \in 0 .. n /\ n \in 0 .. n
    BY <1>1
  <2> HIDE DEF n
  <2> QED
    BY <1>6, <1>7, <2>1
<1>9. ASSUME NEW k \in 1 .. n PROVE g[k] = g[k - 1] + Attr[seq[k]].size
  <2>1. k \in Nat \ {0} /\ k \in 0 .. n /\ k - 1 \in 0 .. n /\ 1 .. k \in SUBSET (1 .. n)
    BY <1>1
  <2>2. 1 .. k # {} /\ Max(1 .. k) = k /\ (1 .. k) \ {k} = 1 .. k - 1
    BY <2>1, FirstNumbers
  <2>3. iter[1 .. k] = iter[1 .. k - 1] + Attr[seq[k]].size
    <3> HIDE DEF n
    <3> QED
      BY <1>6, <2>1, <2>2
  <2> QED
    BY <2>1, <2>3
<1> HIDE DEF g
<1> QED
  BY <1>8, <1>9

\* One more cell.
LEMMA BytesAppend ==
    ASSUME NEW seq \in Seq(Cell), NEW c \in Cell
    PROVE  /\ Bytes(seq) \in Nat /\ Attr[c].size \in Nat
           /\ Bytes(Append(seq, c)) = Bytes(seq) + Attr[c].size
<1> DEFINE n == Len(seq)
           more == Append(seq, c)
<1>1. n \in Nat /\ \A i \in 1 .. n : seq[i] \in Cell
  OBVIOUS
<1>2. more \in Seq(Cell) /\ Len(more) = n + 1 /\ more[n + 1] = c /\ \A i \in 1 .. n : more[i] = seq[i]
  BY AppendProperties
<1>3. \A d \in Cell : Attr[d].size \in Nat
  BY BuilderAssumption DEF Cell
<1>. PICK f : /\ f[0] = 0 /\ Bytes(seq) = f[n]
              /\ \A k \in 1 .. n : f[k] = f[k - 1] + Attr[seq[k]].size
  BY BytesSteps
<1>. PICK g : /\ g[0] = 0 /\ Bytes(more) = g[Len(more)]
              /\ \A k \in 1 .. Len(more) : g[k] = g[k - 1] + Attr[more[k]].size
  BY <1>2, BytesSteps
<1> HIDE DEF n, more
<1> DEFINE T == {k \in 0 .. n : f[k] = g[k] /\ f[k] \in Nat}
<1>4. 0 \in T
  BY <1>1
<1>5. \A k \in 0 .. n - 1 : k \in T => k + 1 \in T
  <2> SUFFICES ASSUME NEW k \in 0 .. n - 1, k \in T PROVE k + 1 \in T
    OBVIOUS
  <2>1. k + 1 \in 1 .. n /\ k + 1 \in 1 .. n + 1 /\ (k + 1) - 1 = k /\ k + 1 \in 0 .. n
    BY <1>1
  <2>2. more[k + 1] = seq[k + 1] /\ seq[k + 1] \in Cell
    BY <1>1, <1>2, <2>1
  <2>3. f[k + 1] = f[k] + Attr[seq[k + 1]].size /\ g[k + 1] = g[k] + Attr[seq[k + 1]].size
    BY <1>2, <2>1, <2>2
  <2> QED
    BY <1>3, <2>1, <2>2, <2>3
<1>6. n \in T
  <2>1. \A k \in 0 .. n : k \in T
    <3> HIDE DEF T
    <3> QED
      BY <1>1, <1>4, <1>5, UpTo
  <2> HIDE DEF T
  <2> QED
    BY <1>1, <2>1
<1>7. g[n + 1] = g[n] + Attr[c].size
  <2>1. n + 1 \in 1 .. n + 1 /\ (n + 1) - 1 = n
    BY <1>1
  <2> QED
    BY <1>2, <2>1
<1> QED
  BY <1>2, <1>3, <1>6, <1>7 DEF n, more

\* One more element.
LEMMA AppendElements ==
    ASSUME NEW D, NEW seq \in Seq(D), NEW e \in D
    PROVE  /\ ToSet(Append(seq, e)) = ToSet(seq) \cup {e}
           /\ IsInjective(seq) /\ e \notin ToSet(seq) => IsInjective(Append(seq, e))
<1> DEFINE n == Len(seq)
           more == Append(seq, e)
<1>1. n \in Nat /\ DOMAIN seq = 1 .. n
  OBVIOUS
<1>2. more \in Seq(D) /\ Len(more) = n + 1 /\ more[n + 1] = e /\ \A i \in 1 .. n : more[i] = seq[i]
  BY AppendProperties
<1>3. DOMAIN more = 1 .. n + 1
  BY <1>2
<1> HIDE DEF n, more
<1>5. \A i \in 1 .. n + 1 : i \in 1 .. n \/ i = n + 1
  BY <1>1
<1>6. \A i \in 1 .. n : i \in 1 .. n + 1
  BY <1>1
<1>7. n + 1 \in 1 .. n + 1
  BY <1>1
<1>8. ToSet(more) = ToSet(seq) \cup {e}
  <2>1. ASSUME NEW v \in ToSet(more) PROVE v \in ToSet(seq) \cup {e}
    BY <1>1, <1>2, <1>3, <1>5 DEF ToSet
  <2>2. ASSUME NEW v \in ToSet(seq) \cup {e} PROVE v \in ToSet(more)
    BY <1>1, <1>2, <1>3, <1>6, <1>7 DEF ToSet
  <2> QED
    BY <2>1, <2>2
<1>9. ASSUME IsInjective(seq), e \notin ToSet(seq) PROVE IsInjective(more)
  <2>1. \A i \in 1 .. n : seq[i] # e
    BY <1>1, <1>9 DEF ToSet
  <2> SUFFICES ASSUME NEW i \in 1 .. n + 1, NEW j \in 1 .. n + 1, more[i] = more[j] PROVE i = j
    BY <1>3 DEF IsInjective
  <2>2. CASE i \in 1 .. n /\ j \in 1 .. n
    BY <1>1, <1>2, <1>9, <2>2 DEF IsInjective
  <2>3. CASE ~(i \in 1 .. n /\ j \in 1 .. n)
    BY <1>2, <1>5, <2>1, <2>3
  <2> QED
    BY <2>2, <2>3
<1> QED
  BY <1>8, <1>9 DEF more

\* Within the limits, which a single cell may exceed.
Fits(p) == /\ p \in Seq(Cell) /\ Len(p) <= MaxCells
           /\ Len(p) <= 1 \/ Bytes(p) <= TargetBytes

\* What a cell does to a sequence of parts: it starts one or joins one.
Started(parts, new, c) ==
    LET l == Len(parts)
    IN  /\ new \in Seq(Seq(Cell)) /\ Len(new) = l + 1 /\ new[l + 1] = <<c>>
        /\ \A i \in 1 .. l : new[i] = parts[i]

Joined(parts, new, c, i) ==
    LET l == Len(parts)
    IN  /\ new \in Seq(Seq(Cell)) /\ Len(new) = l /\ i \in 1 .. l /\ new[i] = Append(parts[i], c)
        /\ \A j \in 1 .. l : j # i => new[j] = parts[j]

\* In either case it is put into a part, and no other changes.
PutAt(parts, new, c, i) ==
    /\ i \in DOMAIN new
    /\ \A j \in DOMAIN new : j # i => j \in DOMAIN parts /\ new[j] = parts[j]
    /\ \A j \in DOMAIN parts : j \in DOMAIN new
    /\ c \in ToSet(new[i])
    /\ i \in DOMAIN parts => ToSet(parts[i]) \subseteq ToSet(new[i])
    /\ \A d \in ToSet(new[i]) : d = c \/ (i \in DOMAIN parts /\ d \in ToSet(parts[i]))
    /\ Apart(parts) /\ c \notin Elements(parts) => IsInjective(new[i])

\* What the parts are after k cells of a sequence.
Spread(parts, seq, k) ==
    /\ parts \in Seq(Seq(Cell)) /\ Elements(parts) = {seq[j] : j \in 1 .. k}
    /\ IsInjective(seq) => Apart(parts)

LEMMA StartedPuts ==
    ASSUME NEW parts \in Seq(Seq(Cell)), NEW c \in Cell, NEW new, Started(parts, new, c)
    PROVE  PutAt(parts, new, c, Len(parts) + 1)
<1> DEFINE l == Len(parts)
<1>1. l \in Nat /\ DOMAIN parts = 1 .. l
  OBVIOUS
<1>2. new \in Seq(Seq(Cell)) /\ Len(new) = l + 1 /\ new[l + 1] = <<c>> /\ \A i \in 1 .. l : new[i] = parts[i]
  BY DEF Started
<1>3. DOMAIN new = 1 .. l + 1
  BY <1>2
<1>4. ToSet(<<c>>) = {c} /\ IsInjective(<<c>>)
  BY DEF ToSet, IsInjective
<1> HIDE DEF l
<1>5. \A i \in 1 .. l + 1 : i \in 1 .. l \/ i = l + 1
  BY <1>1
<1>6. l + 1 \in 1 .. l + 1 /\ l + 1 \notin 1 .. l /\ \A i \in 1 .. l : i \in 1 .. l + 1
  BY <1>1
<1>7. PutAt(parts, new, c, l + 1)
  BY <1>1, <1>2, <1>3, <1>4, <1>5, <1>6 DEF PutAt
<1> QED
  BY <1>7 DEF l

LEMMA JoinedPuts ==
    ASSUME NEW parts \in Seq(Seq(Cell)), NEW c \in Cell, NEW new, NEW i, Joined(parts, new, c, i)
    PROVE  PutAt(parts, new, c, i)
<1> DEFINE l == Len(parts)
           p == parts[i]
<1>1. l \in Nat /\ DOMAIN parts = 1 .. l
  OBVIOUS
<1>2. /\ new \in Seq(Seq(Cell)) /\ Len(new) = l /\ i \in 1 .. l /\ new[i] = Append(p, c)
      /\ \A j \in 1 .. l : j # i => new[j] = parts[j]
  BY DEF Joined
<1>3. DOMAIN new = 1 .. l /\ p \in Seq(Cell)
  BY <1>2
<1>4. /\ ToSet(Append(p, c)) = ToSet(p) \cup {c}
      /\ IsInjective(p) /\ c \notin ToSet(p) => IsInjective(Append(p, c))
  BY <1>3, AppendElements
<1>5. Apart(parts) /\ c \notin Elements(parts) => IsInjective(p) /\ c \notin ToSet(p)
  BY <1>1, <1>2 DEF Apart, Elements
<1>6. p = parts[i]
  OBVIOUS
<1> HIDE DEF l, p
<1> QED
  BY <1>1, <1>2, <1>3, <1>4, <1>5, <1>6 DEF PutAt

\* The parts stay what they should be.
LEMMA PutSpread ==
    ASSUME NEW seq \in Seq(Cell), NEW k \in 0 .. Len(seq) - 1, NEW parts, Spread(parts, seq, k),
           NEW new \in Seq(Seq(Cell)), NEW i, PutAt(parts, new, seq[k + 1], i)
    PROVE  Spread(new, seq, k + 1)
<1> DEFINE c == seq[k + 1]
<1>1. /\ i \in DOMAIN new
      /\ \A j \in DOMAIN new : j # i => j \in DOMAIN parts /\ new[j] = parts[j]
      /\ \A j \in DOMAIN parts : j \in DOMAIN new
      /\ c \in ToSet(new[i])
      /\ i \in DOMAIN parts => ToSet(parts[i]) \subseteq ToSet(new[i])
      /\ \A d \in ToSet(new[i]) : d = c \/ (i \in DOMAIN parts /\ d \in ToSet(parts[i]))
      /\ Apart(parts) /\ c \notin Elements(parts) => IsInjective(new[i])
  BY DEF PutAt
<1>2. /\ Elements(parts) = {seq[j] : j \in 1 .. k} /\ (IsInjective(seq) => Apart(parts))
  BY DEF Spread
<1>3. {seq[j] : j \in 1 .. k + 1} = {seq[j] : j \in 1 .. k} \cup {c}
  <2>1. \A j \in 1 .. k + 1 : j \in 1 .. k \/ j = k + 1
    OBVIOUS
  <2>2. \A j \in 1 .. k : j \in 1 .. k + 1
    OBVIOUS
  <2>3. k + 1 \in 1 .. k + 1
    OBVIOUS
  <2> QED
    BY <2>1, <2>2, <2>3
<1>4. IsInjective(seq) => c \notin {seq[j] : j \in 1 .. k}
  <2> SUFFICES ASSUME IsInjective(seq), NEW j \in 1 .. k, seq[j] = seq[k + 1] PROVE FALSE
    OBVIOUS
  <2>1. j \in DOMAIN seq /\ k + 1 \in DOMAIN seq /\ j # k + 1
    OBVIOUS
  <2> QED
    BY <2>1 DEF IsInjective
<1> HIDE DEF c
<1>5. Elements(new) = Elements(parts) \cup {c}
  <2>1. ASSUME NEW j \in DOMAIN new, NEW d \in ToSet(new[j]) PROVE d \in Elements(parts) \cup {c}
    <3>1. CASE j = i
      BY <1>1, <2>1, <3>1 DEF Elements
    <3>2. CASE j # i
      BY <1>1, <2>1, <3>2 DEF Elements
    <3> QED
      BY <3>1, <3>2
  <2>2. ASSUME NEW j \in DOMAIN parts, NEW d \in ToSet(parts[j]) PROVE d \in Elements(new)
    <3>1. CASE j = i
      BY <1>1, <2>2, <3>1 DEF Elements
    <3>2. CASE j # i
      BY <1>1, <2>2, <3>2 DEF Elements
    <3> QED
      BY <3>1, <3>2
  <2>3. c \in Elements(new)
    BY <1>1 DEF Elements
  <2>4. \A d \in Elements(new) : d \in Elements(parts) \cup {c}
    BY <2>1 DEF Elements
  <2>5. \A d \in Elements(parts) : d \in Elements(new)
    BY <2>2 DEF Elements
  <2> QED
    BY <2>3, <2>4, <2>5
<1>6. ASSUME Apart(parts), c \notin Elements(parts) PROVE Apart(new)
  <2>1. \A j \in DOMAIN parts : c \notin ToSet(parts[j])
    BY <1>6 DEF Elements
  <2>2. \A j \in DOMAIN new : IsInjective(new[j])
    BY <1>1, <1>6 DEF Apart
  <2>3. ASSUME NEW j \in DOMAIN new, j # i PROVE ToSet(new[i]) \cap ToSet(new[j]) = {}
    <3>1. j \in DOMAIN parts /\ new[j] = parts[j] /\ c \notin ToSet(parts[j])
      BY <1>1, <2>1, <2>3
    <3>2. i \in DOMAIN parts => ToSet(parts[i]) \cap ToSet(parts[j]) = {}
      BY <1>6, <2>3, <3>1 DEF Apart
    <3> QED
      BY <1>1, <3>1, <3>2
  <2>4. ASSUME NEW j \in DOMAIN new, NEW h \in DOMAIN new, j # i, h # i, j # h
        PROVE  ToSet(new[j]) \cap ToSet(new[h]) = {}
    BY <1>1, <1>6, <2>4 DEF Apart
  <2> QED
    BY <2>2, <2>3, <2>4 DEF Apart
<1> QED
  BY <1>2, <1>3, <1>4, <1>5, <1>6 DEF Spread

\* A cell either starts a page or joins the last one, if that is not full.
LEMMA AddToPageCases ==
    ASSUME NEW pages \in Seq(Seq(Cell)), pages # <<>>, NEW c \in Cell
    PROVE  LET l == Len(pages)
           IN  /\ AddToPage(pages, c) \in Seq(Seq(Cell)) /\ AddToPage(pages, c) # <<>>
               /\ \/ IsFull(pages[l], c) /\ Started(pages, AddToPage(pages, c), c)
                  \/ ~IsFull(pages[l], c) /\ Joined(pages, AddToPage(pages, c), c, l)
<1> DEFINE l == Len(pages)
           new == AddToPage(pages, c)
           last == Append(pages[l], c)
           P == Seq(Cell)
<1>1. l \in Nat \ {0} /\ pages[l] \in P /\ Last(pages) = pages[l]
  BY EmptySeq DEF Last
<1>2. <<c>> \in P /\ last \in P
  BY <1>1, AppendProperties
<1> HIDE DEF P
<1>. pages \in Seq(P)
  BY DEF P
<1>3. CASE IsFull(pages[l], c)
  <2>1. new = Append(pages, <<c>>)
    BY <1>1, <1>3 DEF AddToPage
  <2>2. /\ Append(pages, <<c>>) \in Seq(P) /\ Append(pages, <<c>>) # <<>>
        /\ Len(Append(pages, <<c>>)) = l + 1 /\ Append(pages, <<c>>)[l + 1] = <<c>>
        /\ \A i \in 1 .. l : Append(pages, <<c>>)[i] = pages[i]
    BY <1>2, AppendProperties
  <2> HIDE DEF new
  <2> QED
    BY <1>1, <1>3, <2>1, <2>2 DEF new, P, Started
<1>4. CASE ~IsFull(pages[l], c)
  <2> DEFINE f == SubSeq(pages, 1, l - 1)
             t == <<last>>
  <2>1. new = f \o t
    BY <1>1, <1>4 DEF AddToPage, Front
  <2>2. f \in Seq(P) /\ Len(f) = l - 1 /\ \A i \in 1 .. l - 1 : f[i] = pages[i]
    <3>1. \A i \in 1 .. l - 1 : pages[i] \in P
      BY <1>1
    <3>2. /\ f \in Seq(P) /\ Len(f) = IF 1 <= l - 1 THEN (l - 1) - 1 + 1 ELSE 0
          /\ \A i \in 1 .. (l - 1) - 1 + 1 : f[i] = pages[1 + i - 1]
      <4>1. l - 1 \in Int /\ 1 \in Int
        BY <1>1
      <4> QED
        BY <3>1, <4>1, SubSeqProperties
    <3> HIDE DEF f, l
    <3>3. Len(f) = l - 1
      BY <1>1, <3>2
    <3>4. ASSUME NEW i \in 1 .. l - 1 PROVE f[i] = pages[i]
      <4>1. i \in 1 .. (l - 1) - 1 + 1 /\ 1 + i - 1 = i
        BY <1>1
      <4> QED
        BY <3>2, <4>1
    <3> QED
      BY <3>2, <3>3, <3>4
  <2>3. t \in Seq(P) /\ Len(t) = 1 /\ t[1] = last
    BY <1>2
  <2> HIDE DEF f, t, last, new, l
  <2>4. /\ f \o t \in Seq(P) /\ Len(f \o t) = Len(f) + Len(t)
        /\ \A i \in 1 .. Len(f) + Len(t) : (f \o t)[i] = IF i <= Len(f) THEN f[i] ELSE t[i - Len(f)]
    BY <2>2, <2>3, ConcatProperties
  <2>5. new \in Seq(P) /\ Len(new) = l
    BY <1>1, <2>1, <2>2, <2>3, <2>4
  <2>6. new[l] = last
    <3>1. l \in 1 .. Len(f) + Len(t) /\ ~ (l <= Len(f)) /\ l - Len(f) = 1
      BY <1>1, <2>2, <2>3
    <3> QED
      BY <2>1, <2>3, <2>4, <3>1
  <2>7. ASSUME NEW i \in 1 .. l - 1 PROVE new[i] = pages[i]
    <3>1. i \in 1 .. Len(f) + Len(t) /\ i <= Len(f)
      BY <1>1, <2>2, <2>3
    <3> QED
      BY <2>1, <2>2, <2>4, <3>1
  <2>8. new # <<>>
    BY <1>1, <2>5
  <2>9. l \in 1 .. l /\ \A i \in 1 .. l : i # l => i \in 1 .. l - 1
    BY <1>1
  <2> QED
    BY <1>1, <1>4, <2>5, <2>6, <2>7, <2>8, <2>9 DEF l, last, new, P, Joined
<1> QED
  BY <1>1, <1>3, <1>4 DEF P

\* The pages of a group, cell by cell.
LEMMA SplitSteps ==
    ASSUME NEW group \in Seq(Cell)
    PROVE  \E f : /\ f[0] = << <<>> >> /\ SplitByLimits(group) = f[Len(group)]
                  /\ \A k \in 1 .. Len(group) : f[k] = AddToPage(f[k - 1], group[k])
<1> DEFINE n == Len(group)
           U == Seq(Seq(Cell)) \ {<<>>}
           base == << <<>> >>
           G == [p \in U \X (1 .. n) |-> AddToPage(p[1], group[p[2]])]
           Solves(h) == h = [s \in SUBSET (1 .. n) |->
                                IF s = {} THEN base ELSE AddToPage(h[s \ {Max(s)}], group[Max(s)])]
           iter == CHOOSE h : Solves(h)
<1>1. n \in Nat /\ DOMAIN group = 1 .. n /\ \A i \in 1 .. n : group[i] \in Cell
  OBVIOUS
<1>2. StepIn(G, U, n)
  <2>1. ASSUME NEW p \in U \X (1 .. n) PROVE AddToPage(p[1], group[p[2]]) \in U
    BY <1>1, AddToPageCases
  <2> QED
    BY <2>1 DEF StepIn
<1>. PICK f : FoldOf(f, U, base, n, G)
  <2>1. base \in U
    OBVIOUS
  <2> HIDE DEF U, G, n, base
  <2> QED
    BY <1>1, <1>2, <2>1, FoldExists
<1>3. /\ f \in [SUBSET (1 .. n) -> U]
      /\ f = [s \in SUBSET (1 .. n) |-> IF s = {} THEN base ELSE G[<<f[s \ {Max(s)}], Max(s)>>]]
  BY DEF FoldOf
<1>4. ASSUME NEW s \in SUBSET (1 .. n), s # {}
      PROVE  G[<<f[s \ {Max(s)}], Max(s)>>] = AddToPage(f[s \ {Max(s)}], group[Max(s)])
  <2>1. Max(s) \in 1 .. n
    <3> HIDE DEF n
    <3> QED
      BY <1>1, <1>4, HasLargest
  <2>2. s \ {Max(s)} \in SUBSET (1 .. n)
    OBVIOUS
  <2> HIDE DEF U
  <2>3. <<f[s \ {Max(s)}], Max(s)>> \in U \X (1 .. n)
    BY <1>3, <2>1, <2>2
  <2> QED
    BY <2>3
<1>5. Solves(f)
  <2> HIDE DEF G, n, U, base
  <2> QED
    BY <1>3, <1>4
<1>6. Solves(iter)
  <2> HIDE DEF Solves
  <2> QED
    BY <1>5
<1>7. SplitByLimits(group) = iter[1 .. n]
  BY <1>1 DEF SplitByLimits, FoldLeft, MapThenFoldSet
<1> HIDE DEF iter, base
<1> DEFINE g == [k \in 0 .. n |-> iter[1 .. k]]
<1>8. g[0] = base /\ g[n] = SplitByLimits(group)
  <2>1. 1 .. 0 = {} /\ {} \in SUBSET (1 .. n) /\ 0 \in 0 .. n /\ n \in 0 .. n
    BY <1>1
  <2> HIDE DEF n
  <2> QED
    BY <1>6, <1>7, <2>1
<1>9. ASSUME NEW k \in 1 .. n PROVE g[k] = AddToPage(g[k - 1], group[k])
  <2>1. k \in Nat \ {0} /\ k \in 0 .. n /\ k - 1 \in 0 .. n /\ 1 .. k \in SUBSET (1 .. n)
    BY <1>1
  <2>2. 1 .. k # {} /\ Max(1 .. k) = k /\ (1 .. k) \ {k} = 1 .. k - 1
    BY <2>1, FirstNumbers
  <2>3. iter[1 .. k] = AddToPage(iter[1 .. k - 1], group[k])
    <3> HIDE DEF n
    <3> QED
      BY <1>6, <2>1, <2>2
  <2> QED
    BY <2>1, <2>3
<1> HIDE DEF g
<1> QED
  BY <1>8, <1>9 DEF base

\* What the pages are after k cells of a group.
Filled(pages, group, k) ==
    /\ Spread(pages, group, k) /\ pages # <<>>
    /\ \A i \in 1 .. Len(pages) : Fits(pages[i])
    /\ \A i \in 1 .. Len(pages) : pages[i] = <<>> => k = 0 /\ Len(pages) = 1

\* The cell joins the last page.
LEMMA FilledSame ==
    ASSUME NEW group \in Seq(Cell), NEW k \in 0 .. Len(group) - 1,
           NEW pages, Filled(pages, group, k), NEW new, NEW l, l = Len(pages),
           ~IsFull(pages[l], group[k + 1]), Joined(pages, new, group[k + 1], l)
    PROVE  Filled(new, group, k + 1)
<1> DEFINE c == group[k + 1]
           p == pages[l]
           q == Append(p, c)
<1>1. c \in Cell /\ pages \in Seq(Seq(Cell))
  BY DEF Filled, Spread
<1>2. /\ new \in Seq(Seq(Cell)) /\ Len(new) = l /\ l \in 1 .. l /\ l \in Nat /\ new[l] = q
      /\ \A i \in 1 .. l : i # l => new[i] = pages[i]
  BY <1>1 DEF Joined
<1>3. Fits(p) /\ p \in Seq(Cell) /\ ~IsFull(p, c)
  BY <1>1, <1>2 DEF Filled
<1>4. Spread(new, group, k + 1)
  <2>1. PutAt(pages, new, c, l)
    BY <1>1, JoinedPuts
  <2> HIDE DEF c
  <2> QED
    BY <1>2, <2>1, PutSpread DEF Filled, c
<1>10. l \in Nat
  BY <1>2
<1>5. \A i \in 1 .. l : i # l => Fits(pages[i]) /\ pages[i] # <<>>
  <2> SUFFICES ASSUME NEW i \in 1 .. l, i # l PROVE Fits(pages[i]) /\ pages[i] # <<>>
    OBVIOUS
  <2>1. l # 1
    BY <1>10
  <2> QED
    BY <2>1 DEF Filled
<1> HIDE DEF c, p
<1>6. q \in Seq(Cell) /\ Len(q) = Len(p) + 1 /\ q # <<>>
  BY <1>1, <1>3, AppendProperties
<1>7. Fits(q)
  <2>1. Bytes(p) \in Nat /\ Attr[c].size \in Nat /\ Bytes(q) = Bytes(p) + Attr[c].size
    BY <1>1, <1>3, BytesAppend
  <2>2. Len(p) \in Nat /\ (p = <<>> => Len(p) = 0) /\ MaxCells \in Nat /\ TargetBytes \in Nat
    BY <1>3, BuilderAssumption
  <2>3. Len(p) < MaxCells /\ (p # <<>> => Bytes(p) + Attr[c].size <= TargetBytes)
    BY <1>3, <2>1, <2>2 DEF IsFull
  <2> HIDE DEF q
  <2> QED
    BY <1>6, <2>1, <2>2, <2>3 DEF Fits
<1> HIDE DEF q
<1>8. \A i \in 1 .. l : Fits(new[i]) /\ new[i] # <<>>
  BY <1>2, <1>5, <1>6, <1>7
<1>9. new # <<>>
  BY <1>2
<1> QED
  BY <1>2, <1>4, <1>8, <1>9 DEF Filled

\* The cell starts a page.
LEMMA FilledNew ==
    ASSUME NEW group \in Seq(Cell), NEW k \in 0 .. Len(group) - 1,
           NEW pages, Filled(pages, group, k), NEW new, NEW l, l = Len(pages),
           IsFull(pages[l], group[k + 1]), Started(pages, new, group[k + 1])
    PROVE  Filled(new, group, k + 1)
<1> DEFINE c == group[k + 1]
           p == pages[l]
           q == <<c>>
<1>1. c \in Cell /\ pages \in Seq(Seq(Cell)) /\ pages # <<>>
  BY DEF Filled, Spread
<1>2. /\ new \in Seq(Seq(Cell)) /\ Len(new) = l + 1 /\ l \in 1 .. l /\ l \in Nat /\ new[l + 1] = q
      /\ \A i \in 1 .. l : new[i] = pages[i]
  BY <1>1, EmptySeq DEF Started
<1>3. p \in Seq(Cell) /\ IsFull(p, c)
  BY <1>1, <1>2
<1>4. Spread(new, group, k + 1)
  <2>1. PutAt(pages, new, c, l + 1)
    BY <1>1, StartedPuts
  <2> HIDE DEF c
  <2> QED
    BY <1>2, <2>1, PutSpread DEF Filled, c
<1>5. p # <<>>
  BY <1>3, BuilderAssumption DEF IsFull
<1>6. \A i \in 1 .. l : Fits(pages[i]) /\ pages[i] # <<>>
  <2> SUFFICES ASSUME NEW i \in 1 .. l PROVE Fits(pages[i]) /\ pages[i] # <<>>
    OBVIOUS
  <2>1. Fits(pages[i]) /\ (pages[i] = <<>> => l = 1)
    BY DEF Filled
  <2>2. l = 1 => i = l
    OBVIOUS
  <2> QED
    BY <1>5, <2>1, <2>2
<1> HIDE DEF c, p
<1>7. Fits(q) /\ q # <<>>
  BY <1>1, BuilderAssumption DEF Fits
<1> HIDE DEF q
<1>8. \A i \in 1 .. l + 1 : Fits(new[i]) /\ new[i] # <<>>
  <2>1. \A i \in 1 .. l + 1 : i \in 1 .. l \/ i = l + 1
    BY <1>2
  <2> QED
    BY <1>2, <1>6, <1>7, <2>1
<1>9. new # <<>>
  BY <1>2
<1>10. \A i \in 1 .. Len(new) : Fits(new[i]) /\ new[i] # <<>>
  BY <1>2, <1>8
<1> QED
  BY <1>4, <1>9, <1>10 DEF Filled

\* The pages of a group that is not empty hold its cells, each as often as the
\* group does, are not empty and within the limits.
LEMMA SplitFills ==
    ASSUME NEW group \in Seq(Cell), group # <<>>
    PROVE  LET pages == SplitByLimits(group)
           IN  /\ pages \in Seq(Seq(Cell)) /\ Elements(pages) = ToSet(group)
               /\ \A p \in ToSet(pages) : Fits(p) /\ p # <<>>
               /\ IsInjective(group) => Apart(pages)
<1> DEFINE n == Len(group)
           pages == SplitByLimits(group)
<1>1. n \in Nat \ {0} /\ DOMAIN group = 1 .. n /\ \A i \in 1 .. n : group[i] \in Cell
  BY EmptySeq
<1>. PICK f : /\ f[0] = << <<>> >> /\ pages = f[n]
              /\ \A k \in 1 .. n : f[k] = AddToPage(f[k - 1], group[k])
  BY SplitSteps
<1> DEFINE T == {k \in 0 .. n : Filled(f[k], group, k)}
<1>2. 0 \in T
  <2> DEFINE e == << <<>> >>
  <2>1. e \in Seq(Seq(Cell)) /\ e # <<>> /\ Len(e) = 1 /\ e[1] = <<>> /\ DOMAIN e = 1 .. 1
    OBVIOUS
  <2>2. ToSet(<<>>) = {} /\ IsInjective(<<>>) /\ <<>> \in Seq(Cell) /\ Len(<<>>) = 0
    BY DEF ToSet, IsInjective
  <2>3. \A i \in 1 .. 1 : i = 1
    OBVIOUS
  <2>4. \A j : j \notin 1 .. 0
    OBVIOUS
  <2>5. Fits(<<>>)
    BY <2>2, BuilderAssumption DEF Fits
  <2> HIDE DEF e, n
  <2>6. Apart(e) /\ Elements(e) = {}
    BY <2>1, <2>2, <2>3 DEF Apart, Elements
  <2>7. Filled(e, group, 0)
    BY <2>1, <2>2, <2>3, <2>4, <2>5, <2>6 DEF Filled, Spread
  <2>8. f[0] = e /\ 0 \in 0 .. n
    BY <1>1 DEF e
  <2> QED
    BY <2>7, <2>8
<1>3. \A k \in 0 .. n - 1 : k \in T => k + 1 \in T
  <2> SUFFICES ASSUME NEW k \in 0 .. n - 1, k \in T PROVE k + 1 \in T
    OBVIOUS
  <2>1. k + 1 \in 1 .. n /\ k + 1 \in 0 .. n /\ (k + 1) - 1 = k /\ Filled(f[k], group, k)
    OBVIOUS
  <2>2. f[k + 1] = AddToPage(f[k], group[k + 1]) /\ group[k + 1] \in Cell
    BY <1>1, <2>1
  <2>3. f[k] \in Seq(Seq(Cell)) /\ f[k] # <<>>
    BY <2>1 DEF Filled, Spread
  <2> DEFINE l == Len(f[k])
  <2>4. \/ IsFull(f[k][l], group[k + 1]) /\ Started(f[k], f[k + 1], group[k + 1])
        \/ ~IsFull(f[k][l], group[k + 1]) /\ Joined(f[k], f[k + 1], group[k + 1], l)
    BY <2>2, <2>3, AddToPageCases
  <2>5. Filled(f[k + 1], group, k + 1)
    BY <2>1, <2>4, FilledSame, FilledNew
  <2> QED
    BY <2>1, <2>5
<1>4. Filled(pages, group, n)
  <2>1. \A k \in 0 .. n : k \in T
    <3> HIDE DEF T
    <3> QED
      BY <1>1, <1>2, <1>3, UpTo
  <2> QED
    BY <1>1, <2>1
<1> HIDE DEF pages, n
<1>5. /\ pages \in Seq(Seq(Cell)) /\ (IsInjective(group) => Apart(pages))
      /\ Elements(pages) = {group[j] : j \in 1 .. n} /\ DOMAIN pages = 1 .. Len(pages)
  BY <1>4 DEF Filled, Spread
<1>6. \A p \in ToSet(pages) : Fits(p) /\ p # <<>>
  BY <1>1, <1>4, <1>5 DEF Filled, ToSet
<1>7. Elements(pages) = ToSet(group)
  BY <1>1, <1>5 DEF ToSet
<1> QED
  BY <1>5, <1>6, <1>7 DEF pages

-----------------------------------------------------------------------------
(* Groups and clusters.                                                    *)

\* A partition of cells into parts of one scope and kind that are not empty.
Parts(parts, cells) ==
    /\ parts \in Seq(Seq(Cell)) /\ Elements(parts) = ToSet(cells)
    /\ \A p \in ToSet(parts) : p # <<>> /\ \A c, d \in ToSet(p) : Group(c) = Group(d)
    /\ \A i, j \in DOMAIN parts : i # j => ToSet(parts[i]) \cap ToSet(parts[j]) = {}
    /\ IsInjective(cells) => Apart(parts)

\* Cells are finitely many numbers.
LEMMA CellsFinite ==
    /\ Cell \subseteq Nat \ {0} /\ IsFiniteSet(Cell)
    /\ \A S \in SUBSET Cell : IsFiniteSet(S) /\ Cardinality(S) \in Nat /\ S \in SUBSET Int
<1>1. Cardinality(Cell) \in Nat
  BY BuilderAssumption, FS_CardinalityType DEF Cell
<1>2. Cell \subseteq Nat \ {0} /\ IsFiniteSet(Cell)
  BY <1>1, BuilderAssumption DEF Cell
<1>3. \A S \in SUBSET Cell : IsFiniteSet(S)
  BY <1>2, FS_Subset
<1>4. \A S \in SUBSET Cell : S \in SUBSET Int
  BY <1>2
<1> QED
  BY <1>2, <1>3, <1>4, FS_CardinalityType

\* ScopeKindClusterer makes such a partition.
LEMMA ScopeKindParts ==
    ASSUME NEW cells \in Seq(Cell)
    PROVE  Parts(ByScopeKind(cells), cells)
<1> DEFINE C == ToSet(cells)
           S == {Group(c) : c \in C}
           R == {p \in S \X S : Before(p[1], p[2])}
           keys == Sorted(S, R)
           n == Cardinality(S)
           In(k) == {c \in C : Group(c) = k}
           parts == ByScopeKind(cells)
<1>1. C \subseteq Cell /\ IsFiniteSet(C)
  <2>1. C \subseteq Cell
    BY DEF ToSet
  <2> QED
    BY <2>1, CellsFinite, FS_Subset
<1>2. \A c \in C : Group(c) \in Nat \X Nat
  BY <1>1, BuilderAssumption DEF Group, Cell
<1>3. S \subseteq Nat \X Nat /\ IsFiniteSet(S)
  <2>1. S \subseteq Nat \X Nat
    BY <1>2
  <2>2. IsFiniteSet(S)
    <3> DEFINE g == [c \in C |-> Group(c)]
    <3>1. g \in Surjection(C, S)
      BY DEF Surjection
    <3> HIDE DEF C, S, g
    <3> QED
      BY <1>1, <3>1, FS_Surjection
  <2> QED
    BY <2>1, <2>2
<1>4. \A x, y \in S : <<x, y>> \in R <=> Before(x, y)
  OBVIOUS
<1>. \A k : In(k) = {c \in C : Group(c) = k}
  OBVIOUS
<1>5. \A c \in C : Group(c) \in S
  OBVIOUS
<1>6. \A k \in S : \E c \in C : Group(c) = k
  OBVIOUS
<1>7. parts = [i \in DOMAIN keys |-> Keep(cells, In(keys[i]))]
  BY DEF ByScopeKind
<1> HIDE DEF C, S, R, keys, parts, In
<1>8. StrictOrder(S, R)
  <2>1. \A x, y \in S : x[1] \in Nat /\ x[2] \in Nat /\ (x # y => x[1] # y[1] \/ x[2] # y[2])
    BY <1>3
  <2>2. \A x \in S : <<x, x>> \notin R
    BY <1>4, <2>1 DEF Before
  <2>3. \A x, y \in S : x # y => <<x, y>> \in R \/ <<y, x>> \in R
    BY <1>4, <2>1 DEF Before
  <2>4. \A x, y, z \in S : <<x, y>> \in R /\ <<y, z>> \in R => <<x, z>> \in R
    BY <1>4, <2>1 DEF Before
  <2> QED
    BY <2>2, <2>3, <2>4 DEF StrictOrder
<1>9. /\ n \in Nat /\ keys \in [1 .. n -> S]
      /\ \A x \in S : \E i \in 1 .. n : keys[i] = x
      /\ \A i, j \in 1 .. n : i < j <=> <<keys[i], keys[j]>> \in R
  BY <1>3, <1>8, SortedLists DEF keys
<1>10. \A i, j \in 1 .. n : i # j => keys[i] # keys[j]
  <2>1. \A i, j \in 1 .. n : i < j => keys[i] # keys[j]
    BY <1>8, <1>9 DEF StrictOrder
  <2>2. \A i, j \in 1 .. n : i # j => i < j \/ j < i
    BY <1>9
  <2> QED
    BY <2>1, <2>2
<1> HIDE DEF n
<1>11. DOMAIN parts = 1 .. n /\ \A i \in 1 .. n : parts[i] = Keep(cells, In(keys[i]))
  BY <1>7, <1>9
<1>12. \A i \in 1 .. n : /\ parts[i] \in Seq(Cell)
                         /\ ToSet(parts[i]) = {c \in C : Group(c) = keys[i]}
                         /\ IsInjective(cells) => IsInjective(parts[i])
  <2> SUFFICES ASSUME NEW i \in 1 .. n
               PROVE  /\ parts[i] \in Seq(Cell)
                      /\ ToSet(parts[i]) = {c \in C : Group(c) = keys[i]}
                      /\ IsInjective(cells) => IsInjective(parts[i])
    OBVIOUS
  <2> DEFINE K == In(keys[i])
  <2>1. K = {c \in C : Group(c) = keys[i]}
    OBVIOUS
  <2>2. parts[i] = Keep(cells, K)
    BY <1>11
  <2> HIDE DEF K
  <2>3. /\ Keep(cells, K) \in Seq(Cell) /\ ToSet(Keep(cells, K)) = C \cap K
        /\ IsInjective(cells) => IsInjective(Keep(cells, K))
    BY KeepElements DEF C
  <2> QED
    BY <2>1, <2>2, <2>3
<1>13. parts \in Seq(Seq(Cell))
  <2>1. parts = [i \in 1 .. n |-> parts[i]]
    BY <1>7, <1>11
  <2>2. parts \in [1 .. n -> Seq(Cell)]
    BY <1>12, <2>1
  <2> QED
    BY <1>9, <2>2
<1>14. Elements(parts) = ToSet(cells)
  <2>1. \A c \in Elements(parts) : c \in C
    BY <1>11, <1>12 DEF Elements
  <2>2. ASSUME NEW c \in C PROVE c \in Elements(parts)
    <3>1. PICK i \in 1 .. n : keys[i] = Group(c)
      BY <1>5, <1>9
    <3> QED
      BY <1>11, <1>12, <3>1 DEF Elements
  <2> QED
    BY <2>1, <2>2 DEF C
<1>15. \A p \in ToSet(parts) : p # <<>> /\ \A c, d \in ToSet(p) : Group(c) = Group(d)
  <2> SUFFICES ASSUME NEW i \in 1 .. n
               PROVE  parts[i] # <<>> /\ \A c, d \in ToSet(parts[i]) : Group(c) = Group(d)
    BY <1>11 DEF ToSet
  <2>1. PICK c \in C : Group(c) = keys[i]
    BY <1>6, <1>9
  <2>2. c \in ToSet(parts[i])
    BY <1>12, <2>1
  <2>3. parts[i] # <<>>
    BY <2>2 DEF ToSet
  <2> QED
    BY <1>12, <2>3
<1>16. \A i, j \in 1 .. n : i # j => ToSet(parts[i]) \cap ToSet(parts[j]) = {}
  BY <1>10, <1>12
<1> QED
  BY <1>11, <1>12, <1>13, <1>14, <1>15, <1>16 DEF Parts, Apart, parts

\* A cell has finitely many markers.
LEMMA MarkersFinite ==
    \A c \in Cell : IsFiniteSet(MarkersOf[c])
<1> SUFFICES ASSUME NEW c \in Cell PROVE IsFiniteSet(MarkersOf[c])
  OBVIOUS
<1> DEFINE T == Attr[c].tags
           M == {<<"tag", t>> : t \in T}
           g == [t \in T |-> <<"tag", t>>]
           P == {<<"scope", Attr[c].scope>>, <<"kind", Attr[c].kind>>}
<1>1. IsFiniteSet(T)
  BY BuilderAssumption DEF Cell
<1>2. g \in Surjection(T, M)
  BY DEF Surjection
<1>3. IsFiniteSet(M)
  <2> HIDE DEF g, M, T
  <2> QED
    BY <1>1, <1>2, FS_Surjection
<1>4. IsFiniteSet(P)
  <2>1. IsFiniteSet({<<"scope", Attr[c].scope>>}) /\ IsFiniteSet({<<"kind", Attr[c].kind>>})
    BY FS_Singleton
  <2>2. P = {<<"scope", Attr[c].scope>>} \cup {<<"kind", Attr[c].kind>>}
    OBVIOUS
  <2> HIDE DEF P
  <2> QED
    BY <2>1, <2>2, FS_Union
<1>5. MarkersOf[c] = P \cup M
  BY DEF MarkersOf, Cell
<1> HIDE DEF P, M
<1> QED
  BY <1>3, <1>4, <1>5, FS_Union

\* There is a best cluster among any.
LEMMA BestExists ==
    ASSUME NEW clusters \in Seq(Seq(Cell)), clusters # <<>>, NEW c \in Cell
    PROVE  BestCluster(clusters, c) \in DOMAIN clusters
<1> DEFINE n == Len(clusters)
           K == Cardinality(MarkersOf[c])
           w(i) == Cardinality(MarkersOf[c] \cap Markers(ToSet(clusters[i])))
           W == {w(i) + 1 : i \in 1 .. n}
           Best(i) == \A j \in 1 .. n : w(j) < w(i) \/ (w(j) = w(i) /\ j <= i)
<1>1. n \in Nat \ {0} /\ DOMAIN clusters = 1 .. n
  BY EmptySeq
<1>2. K \in Nat
  BY MarkersFinite, FS_CardinalityType
<1>3. \A i \in 1 .. n : w(i) \in 0 .. K
  <2> SUFFICES ASSUME NEW i \in 1 .. n PROVE w(i) \in 0 .. K
    OBVIOUS
  <2> DEFINE A == MarkersOf[c]
             B == A \cap Markers(ToSet(clusters[i]))
  <2>1. IsFiniteSet(A) /\ B \in SUBSET A
    BY MarkersFinite
  <2> HIDE DEF A, B
  <2>2. IsFiniteSet(B) /\ Cardinality(B) <= Cardinality(A) /\ Cardinality(B) \in Nat /\ Cardinality(A) \in Nat
    BY <2>1, FS_Subset, FS_CardinalityType
  <2> QED
    BY <2>2 DEF A, B
<1>4. BestCluster(clusters, c) = CHOOSE i \in 1 .. n : Best(i)
  BY <1>1 DEF BestCluster
<1>5. W \in SUBSET (1 .. K + 1) /\ W # {} /\ K + 1 \in Nat
  <2>1. \A i \in 1 .. n : w(i) + 1 \in 1 .. K + 1
    <3> HIDE DEF w, K
    <3> QED
      BY <1>2, <1>3
  <2>2. 1 \in 1 .. n
    <3> HIDE DEF n
    <3> QED
      BY <1>1
  <2> HIDE DEF w, n, K
  <2> QED
    BY <1>2, <2>1, <2>2
<1>. \A x : x \in W <=> \E i \in 1 .. n : x = w(i) + 1
  OBVIOUS
<1> HIDE DEF W, w, K
<1>6. Max(W) \in W /\ \A x \in W : x <= Max(W)
  BY <1>5, HasLargest
<1> DEFINE I == {i \in 1 .. n : w(i) + 1 = Max(W)}
<1>7. I \in SUBSET (1 .. n) /\ I # {}
  BY <1>6
<1>8. Max(I) \in I /\ \A i \in I : i <= Max(I)
  <2> HIDE DEF I, n
  <2> QED
    BY <1>1, <1>7, HasLargest
<1> DEFINE m == Max(I)
<1> HIDE DEF m, n
<1>9. m \in 1 .. n /\ w(m) + 1 = Max(W) /\ \A j \in 1 .. n : w(j) + 1 = Max(W) => j <= m
  BY <1>8 DEF m
<1>10. Best(m)
  <2> SUFFICES ASSUME NEW j \in 1 .. n PROVE w(j) < w(m) \/ (w(j) = w(m) /\ j <= m)
    OBVIOUS
  <2>1. w(j) + 1 <= w(m) + 1 /\ w(j) \in Int /\ w(m) \in Int
    BY <1>2, <1>3, <1>6, <1>9
  <2>2. CASE w(j) = w(m)
    BY <1>9, <2>2
  <2>3. CASE w(j) # w(m)
    BY <2>1, <2>3
  <2> QED
    BY <2>2, <2>3
<1> HIDE DEF Best
<1> QED
  BY <1>1, <1>4, <1>9, <1>10

\* A cell starts a cluster or joins one.
LEMMA AddToClusterCases ==
    ASSUME NEW clusters \in Seq(Seq(Cell)), NEW c \in Cell
    PROVE  /\ AddToCluster(clusters, c) \in Seq(Seq(Cell))
           /\ \/ Started(clusters, AddToCluster(clusters, c), c)
              \/ \E i \in DOMAIN clusters : Joined(clusters, AddToCluster(clusters, c), c, i)
<1> DEFINE P == Seq(Cell)
           new == AddToCluster(clusters, c)
           l == Len(clusters)
<1>1. clusters \in Seq(P) /\ l \in Nat /\ DOMAIN clusters = 1 .. l /\ \A i \in 1 .. l : clusters[i] \in P
  OBVIOUS
<1>2. CASE Joins(clusters, c)
  <2> DEFINE b == BestCluster(clusters, c)
             q == Append(clusters[b], c)
  <2>1. b \in 1 .. l
    BY <1>1, <1>2, BestExists DEF Joins
  <2>2. q \in P
    <3> HIDE DEF b
    <3> QED
      BY <1>1, <2>1, AppendProperties
  <2>3. new = [clusters EXCEPT ![b] = q]
    BY <1>2 DEF AddToCluster
  <2> HIDE DEF P, q, b, new
  <2>4. /\ new \in Seq(P) /\ Len(new) = l
        /\ \A j \in 1 .. l : new[j] = IF j = b THEN q ELSE clusters[j]
    BY <1>1, <2>1, <2>2, <2>3, ExceptSeq
  <2>5. Joined(clusters, new, c, b)
    BY <2>1, <2>4 DEF Joined, P, q
  <2> QED
    BY <1>1, <2>1, <2>4, <2>5 DEF P, new
<1>3. CASE ~Joins(clusters, c)
  <2> DEFINE q == <<c>>
  <2>1. new = Append(clusters, q) /\ q \in P
    BY <1>3 DEF AddToCluster
  <2> HIDE DEF P, q, new
  <2>2. /\ new \in Seq(P) /\ Len(new) = l + 1 /\ new[l + 1] = q
        /\ \A j \in 1 .. l : new[j] = clusters[j]
    BY <1>1, <2>1, AppendProperties
  <2>3. Started(clusters, new, c)
    BY <2>2 DEF Started, P, q
  <2> QED
    BY <2>2, <2>3 DEF P, new
<1> QED
  BY <1>2, <1>3

\* The clusters of a sequence of cells.
Clusters(seq) == FoldLeft(AddToCluster, <<>>, seq)

\* Cell by cell.
LEMMA ClusterSteps ==
    ASSUME NEW group \in Seq(Cell)
    PROVE  \E f : /\ f[0] = <<>> /\ Clusters(group) = f[Len(group)]
                  /\ \A k \in 1 .. Len(group) : f[k] = AddToCluster(f[k - 1], group[k])
<1> DEFINE n == Len(group)
           U == Seq(Seq(Cell))
           G == [p \in U \X (1 .. n) |-> AddToCluster(p[1], group[p[2]])]
           Solves(h) == h = [s \in SUBSET (1 .. n) |->
                                IF s = {} THEN <<>> ELSE AddToCluster(h[s \ {Max(s)}], group[Max(s)])]
           iter == CHOOSE h : Solves(h)
<1>1. n \in Nat /\ DOMAIN group = 1 .. n /\ \A i \in 1 .. n : group[i] \in Cell
  OBVIOUS
<1>2. StepIn(G, U, n)
  <2>1. ASSUME NEW p \in U \X (1 .. n) PROVE AddToCluster(p[1], group[p[2]]) \in U
    BY <1>1, AddToClusterCases
  <2> QED
    BY <2>1 DEF StepIn
<1>. PICK f : FoldOf(f, U, <<>>, n, G)
  <2>1. <<>> \in U
    OBVIOUS
  <2> HIDE DEF U, G, n
  <2> QED
    BY <1>1, <1>2, <2>1, FoldExists
<1>3. /\ f \in [SUBSET (1 .. n) -> U]
      /\ f = [s \in SUBSET (1 .. n) |-> IF s = {} THEN <<>> ELSE G[<<f[s \ {Max(s)}], Max(s)>>]]
  BY DEF FoldOf
<1>4. ASSUME NEW s \in SUBSET (1 .. n), s # {}
      PROVE  G[<<f[s \ {Max(s)}], Max(s)>>] = AddToCluster(f[s \ {Max(s)}], group[Max(s)])
  <2>1. Max(s) \in 1 .. n
    <3> HIDE DEF n
    <3> QED
      BY <1>1, <1>4, HasLargest
  <2>2. s \ {Max(s)} \in SUBSET (1 .. n)
    OBVIOUS
  <2> HIDE DEF U
  <2>3. <<f[s \ {Max(s)}], Max(s)>> \in U \X (1 .. n)
    BY <1>3, <2>1, <2>2
  <2> QED
    BY <2>3
<1>5. Solves(f)
  <2> HIDE DEF G, n, U
  <2> QED
    BY <1>3, <1>4
<1>6. Solves(iter)
  <2> HIDE DEF Solves
  <2> QED
    BY <1>5
<1>7. Clusters(group) = iter[1 .. n]
  BY <1>1 DEF Clusters, FoldLeft, MapThenFoldSet
<1> HIDE DEF iter
<1> DEFINE g == [k \in 0 .. n |-> iter[1 .. k]]
<1>8. g[0] = <<>> /\ g[n] = Clusters(group)
  <2>1. 1 .. 0 = {} /\ {} \in SUBSET (1 .. n) /\ 0 \in 0 .. n /\ n \in 0 .. n
    BY <1>1
  <2> HIDE DEF n
  <2> QED
    BY <1>6, <1>7, <2>1
<1>9. ASSUME NEW k \in 1 .. n PROVE g[k] = AddToCluster(g[k - 1], group[k])
  <2>1. k \in Nat \ {0} /\ k \in 0 .. n /\ k - 1 \in 0 .. n /\ 1 .. k \in SUBSET (1 .. n)
    BY <1>1
  <2>2. 1 .. k # {} /\ Max(1 .. k) = k /\ (1 .. k) \ {k} = 1 .. k - 1
    BY <2>1, FirstNumbers
  <2>3. iter[1 .. k] = AddToCluster(iter[1 .. k - 1], group[k])
    <3> HIDE DEF n
    <3> QED
      BY <1>6, <2>1, <2>2
  <2> QED
    BY <2>1, <2>3
<1> HIDE DEF g
<1> QED
  BY <1>8, <1>9

\* The clusters hold the cells, each as often as the sequence does.
LEMMA ClustersFill ==
    ASSUME NEW group \in Seq(Cell)
    PROVE  /\ Clusters(group) \in Seq(Seq(Cell)) /\ Elements(Clusters(group)) = ToSet(group)
           /\ \A p \in ToSet(Clusters(group)) : p # <<>>
           /\ IsInjective(group) => Apart(Clusters(group))
<1> DEFINE n == Len(group)
           clusters == Clusters(group)
           Whole(parts) == \A i \in 1 .. Len(parts) : parts[i] # <<>>
<1>1. n \in Nat /\ DOMAIN group = 1 .. n /\ \A i \in 1 .. n : group[i] \in Cell
  OBVIOUS
<1>. PICK f : /\ f[0] = <<>> /\ clusters = f[n]
              /\ \A k \in 1 .. n : f[k] = AddToCluster(f[k - 1], group[k])
  BY ClusterSteps
<1> DEFINE T == {k \in 0 .. n : Spread(f[k], group, k) /\ Whole(f[k])}
<1>2. 0 \in T
  <2>1. <<>> \in Seq(Seq(Cell)) /\ Len(<<>>) = 0 /\ DOMAIN <<>> = {}
    OBVIOUS
  <2>2. \A j : j \notin 1 .. 0
    OBVIOUS
  <2>3. Spread(<<>>, group, 0) /\ Whole(<<>>)
    BY <2>1, <2>2 DEF Spread, Apart, Elements
  <2> HIDE DEF n, Whole
  <2> QED
    BY <1>1, <2>3
<1>3. \A k \in 0 .. n - 1 : k \in T => k + 1 \in T
  <2> SUFFICES ASSUME NEW k \in 0 .. n - 1, k \in T PROVE k + 1 \in T
    OBVIOUS
  <2> DEFINE old == f[k]
             new == f[k + 1]
             c == group[k + 1]
  <2>1. k + 1 \in 1 .. n /\ k + 1 \in 0 .. n /\ (k + 1) - 1 = k /\ Spread(old, group, k) /\ Whole(old)
    OBVIOUS
  <2>2. new = AddToCluster(old, c) /\ c \in Cell
    BY <1>1, <2>1
  <2>3. old \in Seq(Seq(Cell)) /\ Len(old) \in Nat /\ DOMAIN old = 1 .. Len(old)
    BY <2>1 DEF Spread
  <2> HIDE DEF old, new, T, Whole
  <2>4. /\ new \in Seq(Seq(Cell))
        /\ Started(old, new, c) \/ \E i \in DOMAIN old : Joined(old, new, c, i)
    <3> HIDE DEF c
    <3> QED
      BY <2>2, <2>3, AddToClusterCases
  <2>5. CASE Started(old, new, c)
    <3>1. PutAt(old, new, c, Len(old) + 1)
      BY <2>2, <2>3, <2>5, StartedPuts
    <3>2. Spread(new, group, k + 1)
      BY <2>1, <2>4, <3>1, PutSpread
    <3>3. Whole(new)
      <4> SUFFICES ASSUME NEW i \in 1 .. Len(new) PROVE new[i] # <<>>
        BY DEF Whole
      <4>1. Len(new) = Len(old) + 1 /\ new[Len(old) + 1] # <<>> /\ \A j \in 1 .. Len(old) : new[j] = old[j]
        BY <2>5 DEF Started
      <4>2. i \in 1 .. Len(old) \/ i = Len(old) + 1
        BY <2>3, <4>1
      <4> QED
        BY <2>1, <4>1, <4>2 DEF Whole
    <3> QED
      BY <2>1, <3>2, <3>3 DEF T, new
  <2>6. CASE \E i \in DOMAIN old : Joined(old, new, c, i)
    <3>. PICK i \in DOMAIN old : Joined(old, new, c, i)
      BY <2>6
    <3>1. PutAt(old, new, c, i)
      BY <2>2, <2>3, JoinedPuts
    <3>2. Spread(new, group, k + 1)
      BY <2>1, <2>4, <3>1, PutSpread
    <3>3. Whole(new)
      <4> SUFFICES ASSUME NEW j \in 1 .. Len(new) PROVE new[j] # <<>>
        BY DEF Whole
      <4>1. Len(new) = Len(old) /\ new[i] = Append(old[i], c) /\ \A h \in 1 .. Len(old) : h # i => new[h] = old[h]
        BY DEF Joined
      <4>2. new[i] # <<>>
        <5>1. old[i] \in Seq(Cell)
          BY <2>3
        <5> HIDE DEF c
        <5> QED
          BY <2>2, <4>1, <5>1, AppendProperties
      <4> QED
        BY <2>1, <4>1, <4>2 DEF Whole
    <3> QED
      BY <2>1, <3>2, <3>3 DEF T, new
  <2> QED
    BY <2>4, <2>5, <2>6
<1>4. Spread(clusters, group, n) /\ Whole(clusters)
  <2>1. \A k \in 0 .. n : k \in T
    <3> HIDE DEF T
    <3> QED
      BY <1>1, <1>2, <1>3, UpTo
  <2> QED
    BY <1>1, <2>1
<1> HIDE DEF clusters, n
<1>5. /\ clusters \in Seq(Seq(Cell)) /\ (IsInjective(group) => Apart(clusters))
      /\ Elements(clusters) = {group[j] : j \in 1 .. n} /\ DOMAIN clusters = 1 .. Len(clusters)
  BY <1>4 DEF Spread
<1>6. \A p \in ToSet(clusters) : p # <<>>
  BY <1>4, <1>5 DEF ToSet
<1>7. Elements(clusters) = ToSet(group)
  BY <1>1, <1>5 DEF ToSet
<1> QED
  BY <1>5, <1>6, <1>7 DEF clusters

\* A set of numbers as a sequence.
LEMMA AscendingSeq ==
    ASSUME NEW S \in SUBSET Int, IsFiniteSet(S)
    PROVE  /\ Ascending(S) \in Seq(S) /\ Len(Ascending(S)) = Cardinality(S)
           /\ ToSet(Ascending(S)) = S /\ IsInjective(Ascending(S))
<1> DEFINE a == Ascending(S)
           m == Cardinality(S)
<1>1. /\ m \in Nat /\ a \in [1 .. m -> S]
      /\ \A x \in S : \E i \in 1 .. m : a[i] = x
      /\ \A i, j \in 1 .. m : i < j <=> a[i] < a[j]
  BY AscendingLists
<1> HIDE DEF a, m
<1>2. a \in Seq(S) /\ Len(a) = m /\ DOMAIN a = 1 .. m
  BY <1>1
<1>3. ToSet(a) = S
  BY <1>1, <1>2 DEF ToSet
<1>4. IsInjective(a)
  <2> SUFFICES ASSUME NEW i \in 1 .. m, NEW j \in 1 .. m, a[i] = a[j] PROVE i = j
    BY <1>2 DEF IsInjective
  <2>2. a[i] \in Int
    BY <1>1
  <2>1. ~ (i < j) /\ ~ (j < i)
    BY <1>1, <2>2
  <2> QED
    BY <2>1
<1> QED
  BY <1>2, <1>3, <1>4 DEF a, m

\* MarkerOverlapClusterer makes a partition like that of ScopeKindClusterer.
LEMMA MarkerOverlapParts ==
    ASSUME NEW cells \in Seq(Cell)
    PROVE  Parts(ByMarkerOverlap(cells), cells)
<1> DEFINE groups == ByScopeKind(cells)
           all == [i \in DOMAIN groups |-> Clusters(Ascending(ToSet(groups[i])))]
           parts == ByMarkerOverlap(cells)
<1>1. parts = FlattenSeq(all)
  BY DEF ByMarkerOverlap, Clusters
<1>2. Parts(groups, cells)
  BY ScopeKindParts
<1> HIDE DEF groups, parts
<1>3. /\ groups \in Seq(Seq(Cell)) /\ Elements(groups) = ToSet(cells)
      /\ \A i \in DOMAIN groups : \A c, d \in ToSet(groups[i]) : Group(c) = Group(d)
      /\ \A i, j \in DOMAIN groups : i # j => ToSet(groups[i]) \cap ToSet(groups[j]) = {}
  <2>1. \A i \in DOMAIN groups : groups[i] \in ToSet(groups)
    BY DEF ToSet
  <2> QED
    BY <1>2, <2>1 DEF Parts
<1>4. ASSUME NEW i \in DOMAIN groups
      PROVE  /\ all[i] \in Seq(Seq(Cell)) /\ Elements(all[i]) = ToSet(groups[i])
             /\ (\A p \in ToSet(all[i]) : p # <<>>) /\ Apart(all[i])
  <2> DEFINE S == ToSet(groups[i])
             a == Ascending(S)
  <2>1. S \subseteq Cell
    BY <1>3 DEF ToSet
  <2>2. IsFiniteSet(S) /\ S \in SUBSET Int
    <3> HIDE DEF S
    <3> QED
      BY <2>1, CellsFinite
  <2> HIDE DEF S
  <2>3. a \in Seq(S) /\ ToSet(a) = S /\ IsInjective(a)
    BY <2>2, AscendingSeq
  <2>4. a \in Seq(Cell)
    BY <2>1, <2>3
  <2> HIDE DEF a
  <2>5. /\ Clusters(a) \in Seq(Seq(Cell)) /\ Elements(Clusters(a)) = S
        /\ (\A p \in ToSet(Clusters(a)) : p # <<>>) /\ Apart(Clusters(a))
    BY <2>3, <2>4, ClustersFill
  <2>6. all[i] = Clusters(a)
    BY DEF a, S
  <2> QED
    BY <2>5, <2>6 DEF S
<1>5. DOMAIN all = DOMAIN groups /\ DOMAIN groups = 1 .. Len(groups) /\ Len(groups) \in Nat
  BY <1>3
<1>6. all \in Seq(Seq(Seq(Cell)))
  <2>1. all = [i \in DOMAIN groups |-> all[i]]
    OBVIOUS
  <2>2. all \in [1 .. Len(groups) -> Seq(Seq(Cell))]
    <3> HIDE DEF all
    <3> QED
      BY <1>4, <1>5, <2>1
  <2> HIDE DEF all
  <2> QED
    BY <1>5, <2>2
<1> HIDE DEF all
<1>7. /\ parts \in Seq(Seq(Cell)) /\ ToSet(parts) = Elements(all)
      /\ Elements(parts) = UNION {Elements(all[i]) : i \in DOMAIN all}
      /\ Apart(parts)
  <2>1. \A i \in DOMAIN all : Apart(all[i])
    BY <1>4, <1>5
  <2>2. \A i, j \in DOMAIN all : i # j => Elements(all[i]) \cap Elements(all[j]) = {}
    BY <1>3, <1>4, <1>5
  <2> QED
    BY <1>1, <1>6, <2>1, <2>2, FlattenGroups
<1>8. Elements(parts) = ToSet(cells)
  <2>1. Elements(groups) = UNION {ToSet(groups[i]) : i \in DOMAIN groups}
    BY DEF Elements
  <2>2. UNION {Elements(all[i]) : i \in DOMAIN all} = UNION {ToSet(groups[i]) : i \in DOMAIN groups}
    BY <1>4, <1>5
  <2> QED
    BY <1>3, <1>7, <2>1, <2>2
<1>9. \A p \in ToSet(parts) : p # <<>> /\ \A c, d \in ToSet(p) : Group(c) = Group(d)
  <2> SUFFICES ASSUME NEW i \in DOMAIN groups, NEW p \in ToSet(all[i])
               PROVE  p # <<>> /\ \A c, d \in ToSet(p) : Group(c) = Group(d)
    BY <1>5, <1>7 DEF Elements
  <2>1. ToSet(p) \subseteq Elements(all[i])
    BY <1>4 DEF Elements, ToSet
  <2> QED
    BY <1>3, <1>4, <2>1
<1> QED
  BY <1>7, <1>8, <1>9 DEF Parts, Apart, parts

\* What the page builder makes of some cells: the pages first, first + 1, ...
\* hold them, are not empty, within the limits and of one scope and kind.
Built(pages, first, n, cells) ==
    /\ n \in Nat /\ pages \in [first .. first + n - 1 -> Seq(Cell)]
    /\ UNION {ToSet(pages[p]) : p \in DOMAIN pages} = ToSet(cells)
    /\ \A p \in DOMAIN pages : /\ Fits(pages[p]) /\ pages[p] # <<>>
                               /\ \A c, d \in ToSet(pages[p]) : Group(c) = Group(d)
    /\ IsInjective(cells) => Apart(pages)

LEMMA BuildsPages ==
    ASSUME NEW cells \in Seq(Cell), NEW k, NEW first \in Nat
    PROVE  \E n : Built(BuildPages(cells, k, first), first, n, cells)
<1> DEFINE groups == IF k = "scope_kind" THEN ByScopeKind(cells) ELSE ByMarkerOverlap(cells)
           all == [i \in DOMAIN groups |-> SplitByLimits(groups[i])]
           pages == FlattenSeq(all)
           n == Len(pages)
           built == BuildPages(cells, k, first)
<1>1. built = [p \in first .. first + n - 1 |-> pages[p - first + 1]]
  BY DEF BuildPages
<1>2. Parts(groups, cells)
  BY ScopeKindParts, MarkerOverlapParts
<1> HIDE DEF groups, built
<1>3. /\ groups \in Seq(Seq(Cell)) /\ Elements(groups) = ToSet(cells)
      /\ \A i \in DOMAIN groups : groups[i] # <<>> /\ \A c, d \in ToSet(groups[i]) : Group(c) = Group(d)
      /\ \A i, j \in DOMAIN groups : i # j => ToSet(groups[i]) \cap ToSet(groups[j]) = {}
      /\ IsInjective(cells) => \A i \in DOMAIN groups : IsInjective(groups[i])
  BY <1>2 DEF Parts, ToSet, Apart
<1>4. ASSUME NEW i \in DOMAIN groups
      PROVE  /\ all[i] \in Seq(Seq(Cell)) /\ Elements(all[i]) = ToSet(groups[i])
             /\ \A p \in ToSet(all[i]) : Fits(p) /\ p # <<>>
             /\ IsInjective(cells) => Apart(all[i])
  <2>1. groups[i] \in Seq(Cell) /\ groups[i] # <<>> /\ all[i] = SplitByLimits(groups[i])
    BY <1>3
  <2> HIDE DEF all
  <2> QED
    BY <1>3, <2>1, SplitFills
<1>5. DOMAIN all = DOMAIN groups /\ DOMAIN groups = 1 .. Len(groups) /\ Len(groups) \in Nat
  BY <1>3
<1>6. all \in Seq(Seq(Seq(Cell)))
  <2>1. all = [i \in DOMAIN groups |-> all[i]]
    OBVIOUS
  <2>2. all \in [1 .. Len(groups) -> Seq(Seq(Cell))]
    <3> HIDE DEF all
    <3> QED
      BY <1>4, <1>5, <2>1
  <2> HIDE DEF all
  <2> QED
    BY <1>5, <2>2
<1> HIDE DEF all
<1>7. /\ pages \in Seq(Seq(Cell)) /\ ToSet(pages) = Elements(all)
      /\ Elements(pages) = UNION {Elements(all[i]) : i \in DOMAIN all}
      /\ IsInjective(cells) => Apart(pages)
  <2>1. IsInjective(cells) => \A i \in DOMAIN all : Apart(all[i])
    BY <1>4, <1>5
  <2>2. \A i, j \in DOMAIN all : i # j => Elements(all[i]) \cap Elements(all[j]) = {}
    BY <1>3, <1>4, <1>5
  <2> QED
    BY <1>6, <2>1, <2>2, FlattenGroups
<1>8. Elements(pages) = ToSet(cells)
  <2>1. Elements(groups) = UNION {ToSet(groups[i]) : i \in DOMAIN groups}
    BY DEF Elements
  <2>2. UNION {Elements(all[i]) : i \in DOMAIN all} = UNION {ToSet(groups[i]) : i \in DOMAIN groups}
    BY <1>4, <1>5
  <2> QED
    BY <1>3, <1>7, <2>1, <2>2
<1>9. \A p \in ToSet(pages) : Fits(p) /\ p # <<>> /\ \A c, d \in ToSet(p) : Group(c) = Group(d)
  <2> SUFFICES ASSUME NEW i \in DOMAIN groups, NEW p \in ToSet(all[i])
               PROVE  Fits(p) /\ p # <<>> /\ \A c, d \in ToSet(p) : Group(c) = Group(d)
    BY <1>5, <1>7 DEF Elements
  <2>1. ToSet(p) \subseteq Elements(all[i])
    BY <1>4 DEF Elements, ToSet
  <2> QED
    BY <1>3, <1>4, <2>1
<1> HIDE DEF pages
<1>10. n \in Nat /\ DOMAIN pages = 1 .. n /\ \A i \in 1 .. n : pages[i] \in Seq(Cell) /\ pages[i] \in ToSet(pages)
  BY <1>7 DEF ToSet
<1> HIDE DEF n
<1>11. \A p \in first .. first + n - 1 : p - first + 1 \in 1 .. n /\ built[p] = pages[p - first + 1]
  BY <1>1, <1>10
<1>12. \A i \in 1 .. n : /\ first + i - 1 \in first .. first + n - 1
                         /\ (first + i - 1) - first + 1 = i /\ built[first + i - 1] = pages[i]
  <2> SUFFICES ASSUME NEW i \in 1 .. n
               PROVE  /\ first + i - 1 \in first .. first + n - 1
                      /\ (first + i - 1) - first + 1 = i /\ built[first + i - 1] = pages[i]
    OBVIOUS
  <2>1. first + i - 1 \in first .. first + n - 1 /\ (first + i - 1) - first + 1 = i
    BY <1>10
  <2> QED
    BY <1>11, <2>1
<1>13. DOMAIN built = first .. first + n - 1 /\ built \in [first .. first + n - 1 -> Seq(Cell)]
  <2>1. DOMAIN built = first .. first + n - 1
    BY <1>1
  <2>2. built = [p \in first .. first + n - 1 |-> built[p]]
    BY <1>1
  <2> QED
    BY <1>10, <1>11, <2>1, <2>2
<1>14. UNION {ToSet(built[p]) : p \in DOMAIN built} = Elements(pages)
  BY <1>10, <1>11, <1>12, <1>13 DEF Elements
<1>15. \A p \in DOMAIN built : /\ Fits(built[p]) /\ built[p] # <<>>
                               /\ \A c, d \in ToSet(built[p]) : Group(c) = Group(d)
  BY <1>9, <1>10, <1>11, <1>13
<1>16. Apart(pages) => Apart(built)
  <2> SUFFICES ASSUME Apart(pages), NEW p \in first .. first + n - 1, NEW q \in first .. first + n - 1
               PROVE  IsInjective(built[p]) /\ (p # q => ToSet(built[p]) \cap ToSet(built[q]) = {})
    BY <1>13 DEF Apart
  <2>1. p # q => p - first + 1 # q - first + 1
    OBVIOUS
  <2>2. p - first + 1 \in DOMAIN pages /\ q - first + 1 \in DOMAIN pages
    BY <1>10, <1>11
  <2> QED
    BY <1>11, <2>1, <2>2 DEF Apart
<1>17. Built(built, first, n, cells)
  BY <1>7, <1>8, <1>10, <1>13, <1>14, <1>15, <1>16 DEF Built
<1> QED
  BY <1>17 DEF built

-----------------------------------------------------------------------------
(* The decoded page cache.                                                 *)

\* There is one way to list numbers in ascending order.
LEMMA AscendingUnique ==
    ASSUME NEW S \in SUBSET Int, NEW m \in Nat, NEW b \in [1 .. m -> S],
           \A x \in S : \E i \in 1 .. m : b[i] = x,
           \A i, j \in 1 .. m : i < j => b[i] < b[j]
    PROVE  Ascending(S) = b /\ IsFiniteSet(S) /\ Cardinality(S) = m
<1> DEFINE a == Ascending(S)
<1>1. IsFiniteSet(S) /\ Cardinality(S) = m
  <2>1. \A i, j \in 1 .. m : b[i] = b[j] => i = j
    <3> SUFFICES ASSUME NEW i \in 1 .. m, NEW j \in 1 .. m, b[i] = b[j], i # j PROVE FALSE
      OBVIOUS
    <3>1. i < j \/ j < i
      OBVIOUS
    <3>2. b[i] < b[j] \/ b[j] < b[i]
      BY <3>1
    <3>3. b[i] \in Int
      OBVIOUS
    <3> QED
      BY <3>2, <3>3
  <2>2. b \in Bijection(1 .. m, S)
    BY <2>1 DEF Bijection, Injection, Surjection, IsInjective
  <2>3. IsFiniteSet(1 .. m) /\ Cardinality(1 .. m) = m
    BY FS_Interval
  <2> QED
    BY <2>2, <2>3, FS_Bijection DEF ExistsBijection
<1>2. /\ a \in [1 .. m -> S]
      /\ \A x \in S : \E i \in 1 .. m : a[i] = x
      /\ \A i, j \in 1 .. m : i < j <=> a[i] < a[j]
  BY <1>1, AscendingLists
<1> HIDE DEF a
<1>3. ASSUME NEW i \in 1 .. m, \A j \in 1 .. m : j < i => a[j] = b[j] PROVE a[i] = b[i]
  <2>0. a[i] \in Int /\ b[i] \in Int /\ a[i] \in S /\ b[i] \in S
    BY <1>2
  <2>1. ~ (a[i] < b[i])
    <3> SUFFICES ASSUME a[i] < b[i] PROVE FALSE
      OBVIOUS
    <3>1. PICK h \in 1 .. m : b[h] = a[i]
      BY <2>0
    <3>2. ~ (h < i)
      <4> SUFFICES ASSUME h < i PROVE FALSE
        OBVIOUS
      <4>1. a[h] = a[i] /\ a[h] < a[i]
        BY <1>2, <1>3, <3>1
      <4> QED
        BY <2>0, <4>1
    <3>3. h # i
      BY <2>0, <3>1
    <3>4. i < h
      BY <3>2, <3>3
    <3>5. b[i] < b[h]
      BY <3>4
    <3> QED
      BY <2>0, <3>1, <3>5
  <2>2. ~ (b[i] < a[i])
    <3> SUFFICES ASSUME b[i] < a[i] PROVE FALSE
      OBVIOUS
    <3>1. PICK h \in 1 .. m : a[h] = b[i]
      BY <1>2, <2>0
    <3>2. ~ (h < i)
      <4> SUFFICES ASSUME h < i PROVE FALSE
        OBVIOUS
      <4>1. b[h] = b[i] /\ b[h] < b[i]
        BY <1>3, <3>1
      <4> QED
        BY <2>0, <4>1
    <3>3. h # i
      BY <2>0, <3>1
    <3>4. i < h
      BY <3>2, <3>3
    <3>5. a[i] < a[h]
      BY <1>2, <3>4
    <3> QED
      BY <2>0, <3>1, <3>5
  <2> QED
    BY <2>0, <2>1, <2>2
<1>4. \A i \in 1 .. m : a[i] = b[i]
  <2> DEFINE bad == {i \in 1 .. m : a[i] # b[i]}
  <2> SUFFICES ASSUME bad # {} PROVE FALSE
    OBVIOUS
  <2>1. PICK i \in bad : \A j \in bad : i <= j
    <3>1. bad \in SUBSET Nat
      OBVIOUS
    <3> HIDE DEF bad
    <3> QED
      BY <3>1, HasLeast
  <2>2. \A j \in 1 .. m : j < i => a[j] = b[j]
    BY <2>1
  <2> QED
    BY <1>3, <2>1, <2>2
<1>5. a = b
  BY <1>2, <1>4
<1> QED
  BY <1>1, <1>5 DEF a

\* Keep with nothing to leave out.
LEMMA KeepAll ==
    ASSUME NEW D, NEW seq \in Seq(D), NEW S, ToSet(seq) \subseteq S
    PROVE  Keep(seq, S) = seq
<1> DEFINE n == Len(seq)
           P == {i \in DOMAIN seq : seq[i] \in S}
           b == [i \in 1 .. n |-> i]
<1>1. n \in Nat /\ DOMAIN seq = 1 .. n /\ seq \in [1 .. n -> D]
  OBVIOUS
<1>2. P = 1 .. n
  BY <1>1 DEF ToSet
<1>3. Ascending(P) = b
  <2>1. /\ P \in SUBSET Int /\ b \in [1 .. n -> P] /\ (\A x \in P : \E i \in 1 .. n : b[i] = x)
        /\ \A i, j \in 1 .. n : i < j => b[i] < b[j]
    BY <1>1, <1>2
  <2> HIDE DEF P, b, n
  <2> QED
    BY <1>1, <2>1, AscendingUnique
<1>4. Keep(seq, S) = [k \in DOMAIN Ascending(P) |-> seq[Ascending(P)[k]]]
  BY DEF Keep
<1>5. Keep(seq, S) = [k \in 1 .. n |-> seq[k]]
  <2> HIDE DEF P, n
  <2> QED
    BY <1>3, <1>4
<1> QED
  BY <1>1, <1>5

\* Keep with one element to leave out.
LEMMA KeepWithout ==
    ASSUME NEW D, NEW seq \in Seq(D), IsInjective(seq), NEW i \in 1 .. Len(seq)
    PROVE  LET k == Keep(seq, ToSet(seq) \ {seq[i]})
           IN  /\ k \in Seq(D) /\ Len(k) = Len(seq) - 1
               /\ \A j \in 1 .. Len(seq) - 1 : k[j] = IF j < i THEN seq[j] ELSE seq[j + 1]
<1> DEFINE n == Len(seq)
           S == ToSet(seq) \ {seq[i]}
           P == {j \in DOMAIN seq : seq[j] \in S}
           b == [j \in 1 .. n - 1 |-> IF j < i THEN j ELSE j + 1]
<1>1. n \in Nat /\ DOMAIN seq = 1 .. n /\ seq \in [1 .. n -> D] /\ i \in 1 .. n /\ n - 1 \in Nat
  OBVIOUS
<1>2. P = (1 .. n) \ {i}
  BY <1>1 DEF ToSet, IsInjective
<1>3. Ascending(P) = b
  <2>1. P \in SUBSET Int
    BY <1>2
  <2>2. \A j \in 1 .. n - 1 : (IF j < i THEN j ELSE j + 1) \in (1 .. n) \ {i}
    <3> HIDE DEF n
    <3> QED
      BY <1>1
  <2>3. b \in [1 .. n - 1 -> P]
    <3> HIDE DEF n, P
    <3> QED
      BY <1>2, <2>2
  <2>4. \A x \in P : \E j \in 1 .. n - 1 : b[j] = x
    <3> SUFFICES ASSUME NEW x \in (1 .. n) \ {i} PROVE \E j \in 1 .. n - 1 : b[j] = x
      BY <1>2
    <3> HIDE DEF n
    <3>1. CASE x < i
      <4>1. x \in 1 .. n - 1
        BY <1>1, <3>1
      <4> QED
        BY <3>1, <4>1
    <3>2. CASE ~ (x < i)
      <4>1. x - 1 \in 1 .. n - 1 /\ ~ (x - 1 < i) /\ (x - 1) + 1 = x
        BY <1>1, <3>2
      <4> QED
        BY <4>1
    <3> QED
      BY <3>1, <3>2
  <2>5. \A j, h \in 1 .. n - 1 : j < h => b[j] < b[h]
    <3> HIDE DEF n
    <3> QED
      BY <1>1
  <2> HIDE DEF P, b, n
  <2> QED
    BY <1>1, <2>1, <2>3, <2>4, <2>5, AscendingUnique
<1>4. Keep(seq, S) = [k \in DOMAIN Ascending(P) |-> seq[Ascending(P)[k]]]
  BY DEF Keep
<1>5. Keep(seq, S) = [k \in 1 .. n - 1 |-> seq[b[k]]]
  <2>1. DOMAIN b = 1 .. n - 1
    OBVIOUS
  <2> HIDE DEF P, n, b
  <2> QED
    BY <1>3, <1>4, <2>1
<1>6. \A k \in 1 .. n - 1 : b[k] = (IF k < i THEN k ELSE k + 1) /\ b[k] \in 1 .. n
  <2> HIDE DEF n
  <2> QED
    BY <1>1
<1> HIDE DEF b, n, S
<1>7. \A k \in 1 .. n - 1 : Keep(seq, S)[k] = seq[b[k]] /\ seq[b[k]] \in D
  BY <1>1, <1>5, <1>6
<1>8. Keep(seq, S) \in Seq(D) /\ Len(Keep(seq, S)) = n - 1
  <2>1. Keep(seq, S) \in [1 .. n - 1 -> D]
    BY <1>5, <1>7
  <2> QED
    BY <1>1, <2>1
<1>9. \A j \in 1 .. n - 1 : Keep(seq, S)[j] = IF j < i THEN seq[j] ELSE seq[j + 1]
  BY <1>6, <1>7
<1> QED
  BY <1>8, <1>9 DEF n, S

\* The last m of a sequence of page ids before p is added behind, none of them
\* p, and what follows them: the last n of the new sequence are p and they.
Follows(ord, new, p) ==
    \A m \in 0 .. Len(ord) : (\A j \in 0 .. m - 1 : ord[Len(ord) - j] # p) =>
        /\ m + 1 <= Len(new) /\ new[Len(new)] = p
        /\ \A j \in 1 .. m : new[Len(new) - j] = ord[Len(ord) - j + 1]

\* Touch puts a page last.
LEMMA TouchFollows ==
    ASSUME NEW D, NEW ord \in Seq(D), IsInjective(ord), NEW p \in D
    PROVE  /\ Touch(ord, p) \in Seq(D) /\ IsInjective(Touch(ord, p))
           /\ ToSet(Touch(ord, p)) = ToSet(ord) \cup {p}
           /\ p \in ToSet(ord) => Len(Touch(ord, p)) = Len(ord)
           /\ p \notin ToSet(ord) => Len(Touch(ord, p)) = Len(ord) + 1
           /\ Follows(ord, Touch(ord, p), p)
<1> DEFINE n == Len(ord)
           S == ToSet(ord) \ {p}
           k == Keep(ord, S)
           l == Len(k)
           new == Append(k, p)
<1>0. Touch(ord, p) = new
  BY DEF Touch
<1>1. n \in Nat /\ DOMAIN ord = 1 .. n
  OBVIOUS
<1>2. k \in Seq(D) /\ ToSet(k) = S /\ IsInjective(k) /\ l \in Nat
  <2>1. k \in Seq(D) /\ ToSet(k) = ToSet(ord) \cap S /\ IsInjective(k)
    <3> HIDE DEF S
    <3> QED
      BY KeepElements
  <2> HIDE DEF k
  <2> QED
    BY <2>1
<1>. S = ToSet(ord) \ {p}
  OBVIOUS
<1> HIDE DEF k, S
<1>3. /\ new \in Seq(D) /\ Len(new) = l + 1 /\ new[l + 1] = p /\ \A i \in 1 .. l : new[i] = k[i]
  BY <1>2, AppendProperties
<1>4. ToSet(new) = ToSet(ord) \cup {p} /\ IsInjective(new)
  <2>1. /\ ToSet(Append(k, p)) = ToSet(k) \cup {p}
        /\ IsInjective(k) /\ p \notin ToSet(k) => IsInjective(Append(k, p))
    BY <1>2, AppendElements
  <2> QED
    BY <1>2, <2>1
<1> HIDE DEF new
<1>5. CASE p \in ToSet(ord)
  <2>1. PICK i \in 1 .. n : ord[i] = p
    BY <1>1, <1>5 DEF ToSet
  <2>2. l = n - 1 /\ \A j \in 1 .. n - 1 : k[j] = IF j < i THEN ord[j] ELSE ord[j + 1]
    BY <2>1, KeepWithout DEF k, S
  <2>3. Follows(ord, new, p)
    <3> SUFFICES ASSUME NEW m \in 0 .. n, \A j \in 0 .. m - 1 : ord[n - j] # p
                 PROVE  /\ m + 1 <= n /\ new[n] = p
                        /\ \A j \in 1 .. m : new[n - j] = ord[n - j + 1]
      BY <1>1, <1>3, <2>2 DEF Follows
    <3>1. Len(new) = n /\ new[n] = p
      BY <1>1, <1>3, <2>2
    <3>2. i <= n - m
      <4> SUFFICES ASSUME ~ (i <= n - m) PROVE FALSE
        OBVIOUS
      <4> HIDE DEF n
      <4>1. n - i \in 0 .. m - 1 /\ n - (n - i) = i
        BY <1>1
      <4> QED
        BY <2>1, <4>1
    <3>3. m + 1 <= n
      <4> HIDE DEF n
      <4> QED
        BY <1>1, <3>2
    <3>4. ASSUME NEW j \in 1 .. m PROVE new[n - j] = ord[n - j + 1]
      <4> HIDE DEF n
      <4>1. n - j \in 1 .. n - 1 /\ ~ (n - j < i) /\ n - j \in 1 .. l
        BY <1>1, <2>2, <3>2, <3>3
      <4>2. new[n - j] = k[n - j]
        BY <1>3, <4>1
      <4>3. k[n - j] = ord[n - j + 1]
        BY <2>2, <4>1
      <4> QED
        BY <4>2, <4>3
    <3> QED
      BY <3>1, <3>3, <3>4
  <2>4. Len(new) = n
    BY <1>1, <1>3, <2>2
  <2> QED
    BY <1>0, <1>3, <1>4, <1>5, <2>3, <2>4
<1>6. CASE p \notin ToSet(ord)
  <2>1. k = ord
    BY <1>6, KeepAll DEF k, S
  <2>2. Follows(ord, new, p)
    <3> SUFFICES ASSUME NEW m \in 0 .. n
                 PROVE  /\ m + 1 <= n + 1 /\ new[n + 1] = p
                        /\ \A j \in 1 .. m : new[(n + 1) - j] = ord[n - j + 1]
      BY <1>1, <1>3, <2>1 DEF Follows
    <3>1. l = n
      BY <2>1
    <3>2. ASSUME NEW j \in 1 .. m PROVE new[(n + 1) - j] = ord[n - j + 1]
      <4> HIDE DEF n
      <4>1. (n + 1) - j \in 1 .. n /\ (n + 1) - j = n - j + 1
        BY <1>1
      <4> QED
        BY <1>3, <2>1, <3>1, <4>1
    <3> HIDE DEF n
    <3> QED
      BY <1>1, <1>3, <3>1, <3>2
  <2> QED
    BY <1>0, <1>3, <1>4, <1>6, <2>1, <2>2
<1> QED
  BY <1>5, <1>6

\* The cache holds pages of `all`, each in its place of the order.
Cached(pages, ord, all) ==
    /\ ord \in Seq(PageId) /\ IsInjective(ord)
    /\ ToSet(ord) = DOMAIN pages /\ Len(ord) <= CacheCapacity
    /\ DOMAIN pages \subseteq DOMAIN all /\ pages = [p \in DOMAIN pages |-> all[p]]

\* The last of an order that a read leaves, as far as the capacity goes.
FollowsUpTo(ord, new, p) ==
    \A m \in 0 .. Len(ord), n \in 0 .. CacheCapacity :
        (\A j \in 0 .. m - 1 : ord[Len(ord) - j] # p) /\ n <= m + 1 =>
            /\ n <= Len(new) /\ (n > 0 => new[Len(new)] = p)
            /\ \A j \in 1 .. n - 1 : new[Len(new) - j] = ord[Len(ord) - j + 1]

\* A page is inserted, and another goes if it must.
LEMMA CacheInsertKeeps ==
    ASSUME NEW all, DOMAIN all \subseteq PageId, NEW k, Cached(k.pages, k.order, all), NEW p \in DOMAIN all
    PROVE  /\ Cached(CacheInsert(k, p, all[p]).pages, CacheInsert(k, p, all[p]).order, all)
           /\ FollowsUpTo(k.order, CacheInsert(k, p, all[p]).order, p)
<1> DEFINE old == k.pages
           ord == k.order
           pages == [q \in DOMAIN old \cup {p} |-> IF q = p THEN all[p] ELSE old[q]]
           tch == Touch(ord, p)
           out == IF Cardinality(DOMAIN pages) > CacheCapacity THEN {Head(tch)} ELSE {}
           left == [q \in DOMAIN pages \ out |-> pages[q]]
           lord == Keep(tch, ToSet(tch) \ out)
           new == CacheInsert(k, p, all[p])
<1>0. CacheCapacity \in Nat
  BY RecallAssumption
<1>1. /\ ord \in Seq(PageId) /\ IsInjective(ord) /\ Len(ord) \in Nat
      /\ ToSet(ord) = DOMAIN old /\ Len(ord) <= CacheCapacity
      /\ DOMAIN old \subseteq DOMAIN all /\ old = [q \in DOMAIN old |-> all[q]]
  BY DEF Cached
<1>2. CASE CacheCapacity = 0
  <2>1. new.pages = old /\ new.order = ord
    BY <1>2 DEF CacheInsert
  <2>2. \A n \in 0 .. CacheCapacity : n = 0
    BY <1>2
  <2>3. FollowsUpTo(ord, ord, p)
    BY <1>1, <2>2 DEF FollowsUpTo
  <2>4. Cached(new.pages, new.order, all) /\ FollowsUpTo(ord, new.order, p)
    BY <2>1, <2>3
  <2> QED
    BY <2>4
<1>3. CASE CacheCapacity # 0
  <2>1. new.pages = left /\ new.order = lord
    BY <1>3 DEF CacheInsert
  <2> HIDE DEF new
  <2>2. \A q \in DOMAIN pages : pages[q] = all[q]
    BY <1>1
  <2>3. DOMAIN pages = DOMAIN old \cup {p} /\ p \in PageId
    OBVIOUS
  <2> HIDE DEF pages
  <2>4. DOMAIN left = DOMAIN pages \ out /\ left = [q \in DOMAIN left |-> all[q]]
    BY <2>2
  <2> HIDE DEF left, ord, old
  <2>5. /\ tch \in Seq(PageId) /\ IsInjective(tch) /\ ToSet(tch) = DOMAIN pages
        /\ Len(tch) = Len(ord) \/ Len(tch) = Len(ord) + 1
        /\ Follows(ord, tch, p)
    <3>1. ord \in Seq(PageId) /\ IsInjective(ord) /\ p \in PageId
      BY <1>1, <2>3
    <3>2. /\ Touch(ord, p) \in Seq(PageId) /\ IsInjective(Touch(ord, p))
          /\ ToSet(Touch(ord, p)) = ToSet(ord) \cup {p}
          /\ Len(Touch(ord, p)) = (IF p \in ToSet(ord) THEN Len(ord) ELSE Len(ord) + 1)
          /\ Follows(ord, Touch(ord, p), p)
      BY <3>1, TouchFollows
    <3> QED
      BY <1>1, <2>3, <3>2
  <2> HIDE DEF tch
  <2>6. Cardinality(DOMAIN pages) = Len(tch)
    BY <2>5, DistinctLen
  <2>7. Len(tch) \in Nat /\ DOMAIN tch = 1 .. Len(tch)
    BY <2>5
  <2>8. CASE Len(tch) <= CacheCapacity
    <3>1. out = {}
      BY <1>0, <2>6, <2>7, <2>8
    <3> HIDE DEF out
    <3>2. lord = tch
      BY <2>5, <3>1, KeepAll
    <3>3. Cached(left, lord, all)
      BY <1>1, <2>3, <2>4, <2>5, <2>8, <3>1, <3>2 DEF Cached
    <3>4. FollowsUpTo(ord, lord, p)
      <4> SUFFICES ASSUME NEW m \in 0 .. Len(ord), NEW n \in 0 .. CacheCapacity,
                          \A j \in 0 .. m - 1 : ord[Len(ord) - j] # p, n <= m + 1
                   PROVE  /\ n <= Len(tch) /\ (n > 0 => tch[Len(tch)] = p)
                          /\ \A j \in 1 .. n - 1 : tch[Len(tch) - j] = ord[Len(ord) - j + 1]
        BY <3>2 DEF FollowsUpTo
      <4>1. /\ m + 1 <= Len(tch) /\ tch[Len(tch)] = p
            /\ \A j \in 1 .. m : tch[Len(tch) - j] = ord[Len(ord) - j + 1]
        BY <2>5 DEF Follows
      <4>2. \A j \in 1 .. n - 1 : j \in 1 .. m
        BY <1>1
      <4>3. n <= Len(tch)
        BY <1>0, <1>1, <2>7, <4>1
      <4> QED
        BY <4>1, <4>2, <4>3
    <3>5. Cached(new.pages, new.order, all) /\ FollowsUpTo(ord, new.order, p)
      BY <2>1, <3>3, <3>4
    <3> QED
      BY <3>5 DEF ord, new
  <2>9. CASE ~ (Len(tch) <= CacheCapacity)
    <3>1. out = {tch[1]} /\ tch # <<>> /\ 1 \in 1 .. Len(tch)
      BY <1>0, <2>5, <2>6, <2>7, <2>9
    <3>2. Len(tch) = CacheCapacity + 1
      <4> DEFINE a == Len(tch)
                 b == Len(ord)
      <4>1. a \in Nat /\ b \in Nat /\ b <= CacheCapacity /\ (a = b \/ a = b + 1) /\ ~ (a <= CacheCapacity)
        <5>1. a \in Nat
          BY <2>7
        <5>2. b \in Nat /\ b <= CacheCapacity
          BY <1>1
        <5>3. a = b \/ a = b + 1
          BY <2>5
        <5> QED
          BY <5>1, <5>2, <5>3, <2>9
      <4> HIDE DEF a, b
      <4>2. a = CacheCapacity + 1
        BY <1>0, <4>1
      <4> QED
        BY <4>2 DEF a
    <3> HIDE DEF out
    <3>3. /\ lord \in Seq(PageId) /\ Len(lord) = Len(tch) - 1
          /\ \A j \in 1 .. Len(tch) - 1 : lord[j] = IF j < 1 THEN tch[j] ELSE tch[j + 1]
      BY <2>5, <3>1, KeepWithout
    <3>4. ToSet(lord) = ToSet(tch) \ out /\ IsInjective(lord)
      <4> DEFINE X == ToSet(tch) \ out
      <4> HIDE DEF X
      <4>1. ToSet(Keep(tch, X)) = ToSet(tch) \cap X /\ IsInjective(Keep(tch, X))
        BY <2>5, KeepElements
      <4> QED
        BY <4>1 DEF X
    <3> HIDE DEF lord
    <3>5. Len(lord) = CacheCapacity /\ \A j \in 1 .. CacheCapacity : lord[j] = tch[j + 1]
      <4>1. Len(tch) - 1 = CacheCapacity
        BY <1>0, <3>2
      <4>2. \A j \in 1 .. CacheCapacity : ~ (j < 1)
        OBVIOUS
      <4> QED
        BY <3>3, <4>1, <4>2
    <3>6. Cached(left, lord, all)
      <4>1. Len(lord) <= CacheCapacity
        BY <1>0, <3>5
      <4> QED
        BY <1>1, <2>3, <2>4, <2>5, <3>3, <3>4, <4>1 DEF Cached
    <3>7. FollowsUpTo(ord, lord, p)
      <4> SUFFICES ASSUME NEW m \in 0 .. Len(ord), NEW n \in 0 .. CacheCapacity,
                          \A j \in 0 .. m - 1 : ord[Len(ord) - j] # p, n <= m + 1
                   PROVE  /\ n <= CacheCapacity /\ (n > 0 => lord[CacheCapacity] = p)
                          /\ \A j \in 1 .. n - 1 : lord[CacheCapacity - j] = ord[Len(ord) - j + 1]
        BY <3>5 DEF FollowsUpTo
      <4>1. /\ m + 1 <= Len(tch) /\ tch[Len(tch)] = p
            /\ \A j \in 1 .. m : tch[Len(tch) - j] = ord[Len(ord) - j + 1]
        BY <2>5 DEF Follows
      <4>2. lord[CacheCapacity] = p
        <5>1. CacheCapacity \in 1 .. CacheCapacity
          BY <1>0, <1>3
        <5> QED
          BY <3>2, <3>5, <4>1, <5>1
      <4>3. ASSUME NEW j \in 1 .. n - 1 PROVE lord[CacheCapacity - j] = ord[Len(ord) - j + 1]
        <5>1. j \in 1 .. m /\ CacheCapacity - j \in 1 .. CacheCapacity
          BY <1>0, <1>1
        <5>2. (CacheCapacity - j) + 1 = Len(tch) - j
          BY <1>0, <3>2
        <5> QED
          BY <3>5, <4>1, <5>1, <5>2
      <4>4. n <= CacheCapacity
        BY <1>0
      <4> QED
        BY <4>2, <4>3, <4>4
    <3>8. Cached(new.pages, new.order, all) /\ FollowsUpTo(ord, new.order, p)
      BY <2>1, <3>6, <3>7
    <3> QED
      BY <3>8 DEF ord, new
  <2> QED
    BY <2>8, <2>9
<1> QED
  BY <1>2, <1>3

\* Within the capacity, the last of the order that Touch leaves.
LEMMA FollowsWithin ==
    ASSUME NEW ord, NEW new, NEW p, Len(ord) \in Nat, Len(new) \in Nat, Follows(ord, new, p)
    PROVE  FollowsUpTo(ord, new, p)
<1> SUFFICES ASSUME NEW m \in 0 .. Len(ord), NEW n \in 0 .. CacheCapacity,
                    \A j \in 0 .. m - 1 : ord[Len(ord) - j] # p, n <= m + 1
             PROVE  /\ n <= Len(new) /\ (n > 0 => new[Len(new)] = p)
                    /\ \A j \in 1 .. n - 1 : new[Len(new) - j] = ord[Len(ord) - j + 1]
  BY DEF FollowsUpTo
<1>0. n \in Nat /\ m \in Nat
  BY RecallAssumption
<1>1. /\ m + 1 <= Len(new) /\ new[Len(new)] = p
      /\ \A j \in 1 .. m : new[Len(new) - j] = ord[Len(ord) - j + 1]
  BY DEF Follows
<1>2. \A j \in 1 .. n - 1 : j \in 1 .. m
  BY <1>0
<1>3. n <= Len(new)
  BY <1>0, <1>1
<1> QED
  BY <1>1, <1>2, <1>3

\* A page is read, from the cache or from its file.
LEMMA ReadPageKeeps ==
    ASSUME DOMAIN page \subseteq PageId, NEW k, Cached(k.pages, k.order, page), NEW p \in DOMAIN page
    PROVE  /\ Cached(ReadPage(k, p).pages, ReadPage(k, p).order, page)
           /\ FollowsUpTo(k.order, ReadPage(k, p).order, p)
           /\ ReadPage(k, p).found = k.found \cup CellsOf(p)
<1> DEFINE ord == k.order
           tch == Touch(ord, p)
<1>1. /\ ord \in Seq(PageId) /\ IsInjective(ord) /\ Len(ord) \in Nat
      /\ ToSet(ord) = DOMAIN k.pages /\ Len(ord) <= CacheCapacity
      /\ DOMAIN k.pages \subseteq DOMAIN page /\ k.pages = [q \in DOMAIN k.pages |-> page[q]]
  BY DEF Cached
<1>2. CASE p \in DOMAIN k.pages
  <2>1. ReadPage(k, p).pages = k.pages /\ ReadPage(k, p).order = tch
        /\ ReadPage(k, p).found = k.found \cup ToSet(k.pages[p])
    BY <1>2 DEF ReadPage
  <2>2. k.pages[p] = page[p]
    BY <1>1, <1>2
  <2>3. /\ tch \in Seq(PageId) /\ IsInjective(tch) /\ ToSet(tch) = ToSet(ord) \cup {p}
        /\ p \in ToSet(ord) => Len(tch) = Len(ord)
        /\ Follows(ord, tch, p)
    <3> HIDE DEF tch, ord
    <3>1. ord \in Seq(PageId) /\ IsInjective(ord) /\ p \in PageId
      BY <1>1
    <3>2. /\ Touch(ord, p) \in Seq(PageId) /\ IsInjective(Touch(ord, p))
          /\ ToSet(Touch(ord, p)) = ToSet(ord) \cup {p}
          /\ p \in ToSet(ord) => Len(Touch(ord, p)) = Len(ord)
          /\ Follows(ord, Touch(ord, p), p)
      BY <3>1, TouchFollows
    <3> QED
      BY <3>2 DEF tch
  <2> HIDE DEF tch
  <2>4. Len(tch) \in Nat /\ Len(tch) = Len(ord) /\ ToSet(tch) = DOMAIN k.pages
    BY <1>1, <1>2, <2>3
  <2>5. FollowsUpTo(ord, tch, p)
    BY <1>1, <2>3, <2>4, FollowsWithin
  <2>6. Cached(k.pages, tch, page)
    BY <1>1, <2>3, <2>4 DEF Cached
  <2> QED
    BY <2>1, <2>2, <2>5, <2>6 DEF CellsOf
<1>3. CASE p \notin DOMAIN k.pages
  <2>1. /\ ReadPage(k, p).pages = CacheInsert(k, p, page[p]).pages
        /\ ReadPage(k, p).order = CacheInsert(k, p, page[p]).order
        /\ ReadPage(k, p).found = k.found \cup CellsOf(p)
    BY <1>3 DEF ReadPage
  <2>2. /\ Cached(CacheInsert(k, p, page[p]).pages, CacheInsert(k, p, page[p]).order, page)
        /\ FollowsUpTo(k.order, CacheInsert(k, p, page[p]).order, p)
    BY CacheInsertKeeps
  <2> QED
    BY <2>1, <2>2
<1> QED
  BY <1>2, <1>3

\* What the caches of the pages `all` are, with the cells read or without.
Shares(all) == {[p \in P |-> all[p]] : P \in SUBSET DOMAIN all}

Caches(all) ==
    {k \in [pages : Shares(all), order : Seq(PageId)] : Cached(k.pages, k.order, all)}

Reads(all) ==
    {k \in [pages : Shares(all), order : Seq(PageId), found : SUBSET Cell] :
        Cached(k.pages, k.order, all)}

LEMMA CachedShares ==
    ASSUME NEW all, NEW pages, NEW ord, Cached(pages, ord, all)
    PROVE  pages \in Shares(all) /\ ord \in Seq(PageId)
<1>1. /\ DOMAIN pages \in SUBSET DOMAIN all /\ pages = [p \in DOMAIN pages |-> all[p]]
      /\ ord \in Seq(PageId)
  BY DEF Cached
<1> QED
  BY <1>1 DEF Shares

LEMMA ReadPageReads ==
    ASSUME DOMAIN page \subseteq PageId, \A p \in DOMAIN page : page[p] \in Seq(Cell),
           NEW k \in Reads(page), NEW p \in DOMAIN page
    PROVE  ReadPage(k, p) \in Reads(page)
<1> DEFINE new == ReadPage(k, p)
<1>1. Cached(k.pages, k.order, page) /\ k.found \in SUBSET Cell
  BY DEF Reads
<1>2. Cached(new.pages, new.order, page) /\ new.found = k.found \cup CellsOf(p)
  BY <1>1, ReadPageKeeps
<1>3. CellsOf(p) \subseteq Cell
  BY DEF CellsOf, ToSet
<1>4. new = [pages |-> new.pages, order |-> new.order, found |-> new.found]
  BY DEF ReadPage
<1> HIDE DEF new
<1>5. new.pages \in Shares(page) /\ new.order \in Seq(PageId)
  BY <1>2, CachedShares
<1>6. new.found \in SUBSET Cell
  BY <1>1, <1>2, <1>3
<1>7. new \in [pages : Shares(page), order : Seq(PageId), found : SUBSET Cell]
  BY <1>4, <1>5, <1>6
<1>8. new \in Reads(page)
  BY <1>2, <1>7 DEF Reads
<1> QED
  BY <1>8 DEF new

LEMMA CacheInsertCaches ==
    ASSUME NEW all, DOMAIN all \subseteq PageId, NEW k \in Caches(all), NEW p \in DOMAIN all
    PROVE  CacheInsert(k, p, all[p]) \in Caches(all)
<1> DEFINE new == CacheInsert(k, p, all[p])
<1>1. Cached(k.pages, k.order, all)
  BY DEF Caches
<1>2. Cached(new.pages, new.order, all)
  BY <1>1, CacheInsertKeeps
<1>4. new = [pages |-> new.pages, order |-> new.order]
  BY DEF CacheInsert
<1> HIDE DEF new
<1>5. new.pages \in Shares(all) /\ new.order \in Seq(PageId)
  BY <1>2, CachedShares
<1>7. new \in [pages : Shares(all), order : Seq(PageId)]
  BY <1>4, <1>5
<1>8. new \in Caches(all)
  BY <1>2, <1>7 DEF Caches
<1> QED
  BY <1>8 DEF new

\* Pages are read through the cache one after the other.
LEMMA ReadSteps ==
    ASSUME DOMAIN page \subseteq PageId, \A p \in DOMAIN page : page[p] \in Seq(Cell),
           Cached(cache, order, page), NEW seq \in Seq(DOMAIN page)
    PROVE  \E f : /\ f[0] = [pages |-> cache, order |-> order, found |-> {}]
                  /\ FoldLeft(ReadPage, [pages |-> cache, order |-> order, found |-> {}], seq) = f[Len(seq)]
                  /\ \A k \in 1 .. Len(seq) : f[k] = ReadPage(f[k - 1], seq[k])
<1> DEFINE n == Len(seq)
           U == Reads(page)
           base == [pages |-> cache, order |-> order, found |-> {}]
           G == [p \in U \X (1 .. n) |-> ReadPage(p[1], seq[p[2]])]
           Solves(h) == h = [s \in SUBSET (1 .. n) |->
                                IF s = {} THEN base ELSE ReadPage(h[s \ {Max(s)}], seq[Max(s)])]
           iter == CHOOSE h : Solves(h)
<1>1. n \in Nat /\ DOMAIN seq = 1 .. n /\ \A i \in 1 .. n : seq[i] \in DOMAIN page
  OBVIOUS
<1>0. base \in U
  <2>1. cache \in Shares(page) /\ order \in Seq(PageId)
    BY CachedShares
  <2> QED
    BY <2>1 DEF Reads
<1>2. StepIn(G, U, n)
  <2>1. ASSUME NEW p \in U \X (1 .. n) PROVE ReadPage(p[1], seq[p[2]]) \in U
    <3> HIDE DEF n
    <3>1. p[1] \in Reads(page) /\ seq[p[2]] \in DOMAIN page
      BY <1>1 DEF U
    <3> QED
      BY <3>1, ReadPageReads DEF U
  <2> QED
    BY <2>1 DEF StepIn
<1>. PICK f : FoldOf(f, U, base, n, G)
  <2> HIDE DEF U, G, n, base
  <2> QED
    BY <1>0, <1>1, <1>2, FoldExists
<1>3. /\ f \in [SUBSET (1 .. n) -> U]
      /\ f = [s \in SUBSET (1 .. n) |-> IF s = {} THEN base ELSE G[<<f[s \ {Max(s)}], Max(s)>>]]
  BY DEF FoldOf
<1>4. ASSUME NEW s \in SUBSET (1 .. n), s # {}
      PROVE  G[<<f[s \ {Max(s)}], Max(s)>>] = ReadPage(f[s \ {Max(s)}], seq[Max(s)])
  <2>1. Max(s) \in 1 .. n
    <3> HIDE DEF n
    <3> QED
      BY <1>1, <1>4, HasLargest
  <2>2. s \ {Max(s)} \in SUBSET (1 .. n)
    OBVIOUS
  <2> HIDE DEF U
  <2>3. <<f[s \ {Max(s)}], Max(s)>> \in U \X (1 .. n)
    BY <1>3, <2>1, <2>2
  <2> QED
    BY <2>3
<1>5. Solves(f)
  <2> HIDE DEF G, n, U, base
  <2> QED
    BY <1>3, <1>4
<1>6. Solves(iter)
  <2> HIDE DEF Solves
  <2> QED
    BY <1>5
<1>7. FoldLeft(ReadPage, [pages |-> cache, order |-> order, found |-> {}], seq) = iter[1 .. n]
  BY <1>1 DEF FoldLeft, MapThenFoldSet
<1> HIDE DEF iter, base
<1> DEFINE g == [k \in 0 .. n |-> iter[1 .. k]]
<1>8. g[0] = base /\ g[n] = FoldLeft(ReadPage, [pages |-> cache, order |-> order, found |-> {}], seq)
  <2>1. 1 .. 0 = {} /\ {} \in SUBSET (1 .. n) /\ 0 \in 0 .. n /\ n \in 0 .. n
    BY <1>1
  <2> HIDE DEF n
  <2> QED
    BY <1>6, <1>7, <2>1
<1>9. ASSUME NEW k \in 1 .. n PROVE g[k] = ReadPage(g[k - 1], seq[k])
  <2>1. k \in Nat \ {0} /\ k \in 0 .. n /\ k - 1 \in 0 .. n /\ 1 .. k \in SUBSET (1 .. n)
    BY <1>1
  <2>2. 1 .. k # {} /\ Max(1 .. k) = k /\ (1 .. k) \ {k} = 1 .. k - 1
    BY <2>1, FirstNumbers
  <2>3. iter[1 .. k] = ReadPage(iter[1 .. k - 1], seq[k])
    <3> HIDE DEF n
    <3> QED
      BY <1>6, <2>1, <2>2
  <2> QED
    BY <2>1, <2>3
<1> HIDE DEF g
<1> QED
  BY <1>8, <1>9 DEF base

\* Pages enter the cache one after the other.
InsertAll(pages, ord, all, seq) ==
    FoldLeft(LAMBDA k, p : CacheInsert(k, p, all[p]), [pages |-> pages, order |-> ord], seq)

LEMMA InsertSteps ==
    ASSUME NEW all, DOMAIN all \subseteq PageId,
           NEW pages, NEW ord, Cached(pages, ord, all), NEW seq \in Seq(DOMAIN all)
    PROVE  \E f : /\ f[0] = [pages |-> pages, order |-> ord]
                  /\ InsertAll(pages, ord, all, seq) = f[Len(seq)]
                  /\ \A k \in 1 .. Len(seq) : f[k] = CacheInsert(f[k - 1], seq[k], all[seq[k]])
<1> DEFINE n == Len(seq)
           U == Caches(all)
           base == [pages |-> pages, order |-> ord]
           G == [p \in U \X (1 .. n) |-> CacheInsert(p[1], seq[p[2]], all[seq[p[2]]])]
           Solves(h) == h = [s \in SUBSET (1 .. n) |->
                                IF s = {} THEN base ELSE CacheInsert(h[s \ {Max(s)}], seq[Max(s)], all[seq[Max(s)]])]
           iter == CHOOSE h : Solves(h)
<1>1. n \in Nat /\ DOMAIN seq = 1 .. n /\ \A i \in 1 .. n : seq[i] \in DOMAIN all
  OBVIOUS
<1>0. base \in U
  <2>1. pages \in Shares(all) /\ ord \in Seq(PageId)
    BY CachedShares
  <2> QED
    BY <2>1 DEF Caches
<1>2. StepIn(G, U, n)
  <2>1. ASSUME NEW p \in U \X (1 .. n) PROVE CacheInsert(p[1], seq[p[2]], all[seq[p[2]]]) \in U
    <3> HIDE DEF n
    <3>1. p[1] \in Caches(all) /\ seq[p[2]] \in DOMAIN all
      BY <1>1 DEF U
    <3> QED
      BY <3>1, CacheInsertCaches DEF U
  <2> QED
    BY <2>1 DEF StepIn
<1>. PICK f : FoldOf(f, U, base, n, G)
  <2> HIDE DEF U, G, n, base
  <2> QED
    BY <1>0, <1>1, <1>2, FoldExists
<1>3. /\ f \in [SUBSET (1 .. n) -> U]
      /\ f = [s \in SUBSET (1 .. n) |-> IF s = {} THEN base ELSE G[<<f[s \ {Max(s)}], Max(s)>>]]
  BY DEF FoldOf
<1>4. ASSUME NEW s \in SUBSET (1 .. n), s # {}
      PROVE  G[<<f[s \ {Max(s)}], Max(s)>>] = CacheInsert(f[s \ {Max(s)}], seq[Max(s)], all[seq[Max(s)]])
  <2>1. Max(s) \in 1 .. n
    <3> HIDE DEF n
    <3> QED
      BY <1>1, <1>4, HasLargest
  <2>2. s \ {Max(s)} \in SUBSET (1 .. n)
    OBVIOUS
  <2> HIDE DEF U
  <2>3. <<f[s \ {Max(s)}], Max(s)>> \in U \X (1 .. n)
    BY <1>3, <2>1, <2>2
  <2> QED
    BY <2>3
<1>5. Solves(f)
  <2> HIDE DEF G, n, U, base
  <2> QED
    BY <1>3, <1>4
<1>6. Solves(iter)
  <2> HIDE DEF Solves
  <2> QED
    BY <1>5
<1>7. InsertAll(pages, ord, all, seq) = iter[1 .. n]
  BY <1>1 DEF InsertAll, FoldLeft, MapThenFoldSet
<1> HIDE DEF iter, base
<1> DEFINE g == [k \in 0 .. n |-> iter[1 .. k]]
<1>8. g[0] = base /\ g[n] = InsertAll(pages, ord, all, seq)
  <2>1. 1 .. 0 = {} /\ {} \in SUBSET (1 .. n) /\ 0 \in 0 .. n /\ n \in 0 .. n
    BY <1>1
  <2> HIDE DEF n
  <2> QED
    BY <1>6, <1>7, <2>1
<1>9. ASSUME NEW k \in 1 .. n PROVE g[k] = CacheInsert(g[k - 1], seq[k], all[seq[k]])
  <2>1. k \in Nat \ {0} /\ k \in 0 .. n /\ k - 1 \in 0 .. n /\ 1 .. k \in SUBSET (1 .. n)
    BY <1>1
  <2>2. 1 .. k # {} /\ Max(1 .. k) = k /\ (1 .. k) \ {k} = 1 .. k - 1
    BY <2>1, FirstNumbers
  <2>3. iter[1 .. k] = CacheInsert(iter[1 .. k - 1], seq[k], all[seq[k]])
    <3> DEFINE w == 1 .. k
    <3>1. w \in SUBSET (1 .. n) /\ w # {} /\ Max(w) = k /\ w \ {k} = 1 .. k - 1
      BY <2>1, <2>2
    <3> HIDE DEF n, w
    <3>2. iter[w] = CacheInsert(iter[w \ {Max(w)}], seq[Max(w)], all[seq[Max(w)]])
      BY <1>6, <3>1
    <3>3. iter[w] = CacheInsert(iter[1 .. k - 1], seq[k], all[seq[k]])
      BY <3>1, <3>2
    <3> QED
      BY <3>3 DEF w
  <2> QED
    BY <2>1, <2>3
<1> HIDE DEF g
<1> QED
  BY <1>8, <1>9 DEF base

\* The last pages of an order are the last of `seq` up to the k-th, as far as
\* the capacity goes.
EndsWith(ord, seq, k) ==
    \A m \in 0 .. CacheCapacity : m <= k =>
        m <= Len(ord) /\ \A j \in 0 .. m - 1 : ord[Len(ord) - j] = seq[k - j]

\* One more page.
LEMMA EndsWithNext ==
    ASSUME NEW seq, IsInjective(seq), NEW n \in Nat, DOMAIN seq = 1 .. n, NEW k \in 0 .. n - 1,
           NEW ord, Len(ord) \in Nat, EndsWith(ord, seq, k),
           NEW new, Len(new) \in Nat, FollowsUpTo(ord, new, seq[k + 1])
    PROVE  EndsWith(new, seq, k + 1)
<1>0. CacheCapacity \in Nat
  BY RecallAssumption
<1> SUFFICES ASSUME NEW m \in 0 .. CacheCapacity, m <= k + 1
             PROVE  m <= Len(new) /\ \A j \in 0 .. m - 1 : new[Len(new) - j] = seq[(k + 1) - j]
  BY DEF EndsWith
<1>1. CASE m = 0
  BY <1>1
<1>2. CASE m # 0
  <2>1. m - 1 \in 0 .. CacheCapacity /\ m - 1 <= k
    BY <1>0, <1>2
  <2>2. /\ m - 1 <= Len(ord)
        /\ \A j \in 0 .. (m - 1) - 1 : ord[Len(ord) - j] = seq[k - j]
    BY <2>1 DEF EndsWith
  <2>3. ASSUME NEW j \in 0 .. (m - 1) - 1 PROVE ord[Len(ord) - j] # seq[k + 1]
    <3>1. k - j \in 1 .. n /\ k + 1 \in 1 .. n /\ k - j # k + 1
      BY <1>0, <2>1
    <3>2. seq[k - j] # seq[k + 1]
      BY <3>1 DEF IsInjective
    <3> QED
      BY <2>2, <3>2
  <2>4. m - 1 \in 0 .. Len(ord) /\ m <= (m - 1) + 1
    BY <2>1, <2>2
  <2>5. /\ m <= Len(new) /\ (m > 0 => new[Len(new)] = seq[k + 1])
        /\ \A j \in 1 .. m - 1 : new[Len(new) - j] = ord[Len(ord) - j + 1]
    BY <2>3, <2>4 DEF FollowsUpTo
  <2>6. ASSUME NEW j \in 0 .. m - 1 PROVE new[Len(new) - j] = seq[(k + 1) - j]
    <3>1. CASE j = 0
      BY <1>0, <1>2, <2>5, <3>1
    <3>2. CASE j # 0
      <4>1. j \in 1 .. m - 1 /\ j - 1 \in 0 .. (m - 1) - 1 /\ k - (j - 1) = (k + 1) - j
            /\ Len(ord) - j + 1 = Len(ord) - (j - 1)
        BY <1>0, <3>2
      <4>2. new[Len(new) - j] = ord[Len(ord) - j + 1]
        BY <2>5, <4>1
      <4>3. ord[Len(ord) - (j - 1)] = seq[k - (j - 1)]
        BY <2>2, <4>1
      <4> QED
        BY <4>1, <4>2, <4>3
    <3> QED
      BY <3>1, <3>2
  <2> QED
    BY <2>5, <2>6
<1> QED
  BY <1>1, <1>2

\* What a series of reads leaves: a cache of the pages, the last read last, and
\* the cells of all pages read.
ReadInto(k, seq, n) ==
    /\ Cached(k.pages, k.order, page) /\ EndsWith(k.order, seq, n)
    /\ k.found = UNION {CellsOf(seq[i]) : i \in 1 .. n}

LEMMA ReadsInto ==
    ASSUME DOMAIN page \subseteq PageId, \A p \in DOMAIN page : page[p] \in Seq(Cell),
           Cached(cache, order, page), NEW seq \in Seq(DOMAIN page), IsInjective(seq)
    PROVE  ReadInto(FoldLeft(ReadPage, [pages |-> cache, order |-> order, found |-> {}], seq),
                    seq, Len(seq))
<1> DEFINE n == Len(seq)
           all == FoldLeft(ReadPage, [pages |-> cache, order |-> order, found |-> {}], seq)
<1>0. n \in Nat /\ DOMAIN seq = 1 .. n /\ \A i \in 1 .. n : seq[i] \in DOMAIN page
  OBVIOUS
<1>1. PICK f : /\ f[0] = [pages |-> cache, order |-> order, found |-> {}] /\ all = f[n]
               /\ \A k \in 1 .. n : f[k] = ReadPage(f[k - 1], seq[k])
  BY ReadSteps
<1> HIDE DEF n, all
<1> DEFINE T == {k \in 0 .. n : ReadInto(f[k], seq, k)}
<1>2. 0 \in T
  <2>1. Cached(f[0].pages, f[0].order, page) /\ f[0].found = {} /\ f[0].order = order
    BY <1>1
  <2>2. Len(order) \in Nat
    BY DEF Cached
  <2>3. EndsWith(f[0].order, seq, 0)
    BY <2>1, <2>2, RecallAssumption DEF EndsWith
  <2>4. UNION {CellsOf(seq[i]) : i \in 1 .. 0} = {}
    OBVIOUS
  <2> QED
    BY <1>0, <2>1, <2>3, <2>4 DEF ReadInto
<1>3. ASSUME NEW k \in 0 .. n - 1, k \in T PROVE k + 1 \in T
  <2> DEFINE old == f[k]
             p == seq[k + 1]
  <2>1. k + 1 \in 1 .. n /\ (k + 1) - 1 = k /\ k + 1 \in 0 .. n
    BY <1>0
  <2>2. f[k + 1] = ReadPage(old, p) /\ p \in DOMAIN page
    BY <1>0, <1>1, <2>1
  <2>3. ReadInto(old, seq, k)
    BY <1>3
  <2> HIDE DEF old, p
  <2>4. /\ Cached(ReadPage(old, p).pages, ReadPage(old, p).order, page)
        /\ FollowsUpTo(old.order, ReadPage(old, p).order, p)
        /\ ReadPage(old, p).found = old.found \cup CellsOf(p)
    BY <2>2, <2>3, ReadPageKeeps DEF ReadInto
  <2>5. Len(old.order) \in Nat /\ Len(ReadPage(old, p).order) \in Nat /\ EndsWith(old.order, seq, k)
    BY <2>3, <2>4 DEF Cached, ReadInto
  <2>6. EndsWith(ReadPage(old, p).order, seq, k + 1)
    BY <1>0, <2>4, <2>5, EndsWithNext DEF p
  <2>7. old.found \cup CellsOf(p) = UNION {CellsOf(seq[i]) : i \in 1 .. k + 1}
    <3>1. 1 .. k + 1 = (1 .. k) \cup {k + 1}
      BY <1>0
    <3> QED
      BY <2>3, <3>1 DEF ReadInto, p
  <2>8. ReadInto(ReadPage(old, p), seq, k + 1)
    BY <2>4, <2>6, <2>7 DEF ReadInto
  <2> QED
    BY <2>1, <2>2, <2>8
<1>4. n \in T
  <2> HIDE DEF T
  <2>1. \A k \in 0 .. n : k \in T
    BY <1>0, <1>2, <1>3, UpTo
  <2> QED
    BY <1>0, <2>1
<1> QED
  BY <1>1, <1>4 DEF n, all

\* Warming keeps the cache one of the pages.
LEMMA InsertsCached ==
    ASSUME NEW all, DOMAIN all \subseteq PageId,
           NEW pages, NEW ord, Cached(pages, ord, all), NEW seq \in Seq(DOMAIN all)
    PROVE  Cached(InsertAll(pages, ord, all, seq).pages, InsertAll(pages, ord, all, seq).order, all)
<1> DEFINE n == Len(seq)
           total == InsertAll(pages, ord, all, seq)
<1>0. n \in Nat /\ DOMAIN seq = 1 .. n /\ \A i \in 1 .. n : seq[i] \in DOMAIN all
  OBVIOUS
<1>1. PICK f : /\ f[0] = [pages |-> pages, order |-> ord] /\ total = f[n]
               /\ \A k \in 1 .. n : f[k] = CacheInsert(f[k - 1], seq[k], all[seq[k]])
  BY InsertSteps
<1> HIDE DEF n, total
<1> DEFINE T == {k \in 0 .. n : Cached(f[k].pages, f[k].order, all)}
<1>2. 0 \in T
  BY <1>0, <1>1
<1>3. ASSUME NEW k \in 0 .. n - 1, k \in T PROVE k + 1 \in T
  <2> DEFINE old == f[k]
             p == seq[k + 1]
  <2>1. k + 1 \in 1 .. n /\ (k + 1) - 1 = k /\ k + 1 \in 0 .. n
    BY <1>0
  <2>2. f[k + 1] = CacheInsert(old, p, all[p]) /\ p \in DOMAIN all
    BY <1>0, <1>1, <2>1
  <2>3. Cached(old.pages, old.order, all)
    BY <1>3
  <2> HIDE DEF old, p
  <2>4. Cached(CacheInsert(old, p, all[p]).pages, CacheInsert(old, p, all[p]).order, all)
    BY <2>2, <2>3, CacheInsertKeeps
  <2> QED
    BY <2>1, <2>2, <2>4
<1>4. n \in T
  <2> HIDE DEF T
  <2>1. \A k \in 0 .. n : k \in T
    BY <1>0, <1>2, <1>3, UpTo
  <2> QED
    BY <1>0, <2>1
<1> QED
  BY <1>1, <1>4 DEF total

-----------------------------------------------------------------------------
(* The inductive invariant.                                                *)

\* Cells are numbered as they are remembered and lie in one place each; page
\* ids are given out once.
Placement ==
    /\ Stored \subseteq 1 .. born /\ hot \cap Sealed = {}
    /\ DOMAIN page \subseteq 1 .. next - 1 /\ Apart(page)

\* The candidate index is one built from the pages of the catalog.
Indexed == kind \in {"exact", "fuse"} /\ index \in Indexes(page)

\* The dictionary knows every marker of a stored cell.
Known == Markers(Stored) \subseteq dict

IInv == TypeOK /\ Placement /\ Indexed /\ Known /\ Cached(cache, order, page)

\* Markers belong to the cells they come from.
LEMMA MarkersOfSets ==
    /\ \A A, B : A \subseteq B => Markers(A) \subseteq Markers(B)
    /\ \A A, B : Markers(A \cup B) = Markers(A) \cup Markers(B)
    /\ \A c : \A A : c \in A => MarkersOf[c] \subseteq Markers(A)
    /\ \A A : A \subseteq Cell => Markers(A) \subseteq Marker
    /\ Markers({}) = {}
<1>1. \A A : A \subseteq Cell => Markers(A) \subseteq Markers(Cell)
  BY DEF Markers
<1>2. Markers(Cell) \subseteq Marker
  BY DEF Marker
<1>3. \A A : A \subseteq Cell => Markers(A) \subseteq Marker
  BY <1>1, <1>2
<1> QED
  BY <1>3 DEF Markers

\* What an index says of a page: its markers at least, and no less with fuse.
LEMMA IndexesHold ==
    ASSUME NEW pages, \A p \in DOMAIN pages : pages[p] \in Seq(Cell),
           NEW idx \in Indexes(pages)
    PROVE  /\ DOMAIN idx = DOMAIN pages
           /\ \A p \in DOMAIN pages : Markers(ToSet(pages[p])) \subseteq idx[p] /\ idx[p] \subseteq Marker
           /\ kind = "exact" => idx = ExactIndex(pages)
<1> DEFINE e == ExactIndex(pages)
<1>1. /\ DOMAIN e = DOMAIN pages /\ \A p \in DOMAIN pages : e[p] = Markers(ToSet(pages[p]))
  BY DEF ExactIndex
<1>2. \A p \in DOMAIN pages : e[p] \subseteq Marker
  <2>1. \A p \in DOMAIN pages : ToSet(pages[p]) \subseteq Cell
    BY DEF ToSet
  <2> QED
    BY <1>1, <2>1, MarkersOfSets
<1>3. \A g \in Ghosts : <<"tag", g>> \in Marker
  BY DEF Marker
<1>4. idx = e \/ \E p \in DOMAIN pages, g \in Ghosts : kind # "exact" /\ idx = [e EXCEPT ![p] = @ \cup {<<"tag", g>>}]
  BY DEF Indexes, FuseIndexes
<1> HIDE DEF e
<1>5. CASE idx = e
  BY <1>1, <1>2, <1>5 DEF e
<1>6. ASSUME NEW p \in DOMAIN pages, NEW g \in Ghosts, kind # "exact",
             idx = [e EXCEPT ![p] = @ \cup {<<"tag", g>>}]
      PROVE  /\ DOMAIN idx = DOMAIN pages
             /\ \A q \in DOMAIN pages : Markers(ToSet(pages[q])) \subseteq idx[q] /\ idx[q] \subseteq Marker
             /\ kind = "exact" => idx = ExactIndex(pages)
  BY <1>1, <1>2, <1>3, <1>6
<1> QED
  BY <1>4, <1>5, <1>6

LEMMA InitIInv == Init => IInv
<1> SUFFICES ASSUME Init PROVE IInv
  OBVIOUS
<1>1. /\ DOMAIN page = {} /\ hot = {} /\ born = 0 /\ next = 1 /\ dict = {} /\ DOMAIN over = {}
      /\ DOMAIN cache = {} /\ order = <<>> /\ DOMAIN index = {} /\ kind \in IndexKinds
      /\ page = [p \in {} |-> <<>>] /\ index = [p \in {} |-> {}] /\ cache = [p \in {} |-> <<>>]
  BY DEF Init, NoCache
<1>2. TypeOK
  BY <1>1, RecallAssumption DEF TypeOK
<1>3. Sealed = {} /\ Stored = {}
  BY <1>1 DEF Sealed, Stored
<1>4. Placement
  BY <1>1, <1>3 DEF Placement, Apart
<1>5. Indexed
  <2>1. index = ExactIndex(page)
    BY <1>1 DEF ExactIndex
  <2> QED
    BY <1>1, <2>1, RecallAssumption DEF Indexed, Indexes, FuseIndexes
<1>6. Known
  BY <1>3, MarkersOfSets DEF Known
<1>7. Cached(cache, order, page)
  <2>1. order \in Seq(PageId) /\ IsInjective(order) /\ ToSet(order) = {} /\ Len(order) = 0
    BY <1>1 DEF IsInjective, ToSet
  <2> QED
    BY <1>1, <2>1, RecallAssumption DEF Cached
<1> QED
  BY <1>2, <1>4, <1>5, <1>6, <1>7 DEF IInv

LEMMA RememberKeeps ==
    ASSUME IInv, Remember
    PROVE  IInv'
<1> USE DEF IInv
<1> DEFINE c == born + 1
<1>1. /\ c \in Cell /\ born' = c /\ hot' = hot \cup {c} /\ dict' = dict \cup MarkersOf[c]
      /\ UNCHANGED <<page, index, next, over, kind, clusterer, cache, order>>
  BY DEF Remember
<1>2. Sealed' = Sealed /\ Stored' = Stored \cup {c}
  BY <1>1 DEF Sealed, Stored, CellsOf
<1>3. born \in Nat /\ c \notin Stored
  BY DEF TypeOK, Placement
<1>4. TypeOK'
  <2>1. MarkersOf[c] \subseteq Markers(Cell)
    BY <1>1, MarkersOfSets
  <2>2. dict' \subseteq Marker
    BY <1>1, <2>1 DEF TypeOK, Marker
  <2> QED
    BY <1>1, <2>2 DEF TypeOK
<1>5. Placement'
  <2>1. Stored' \subseteq 1 .. born'
    BY <1>1, <1>2, <1>3 DEF Placement
  <2>2. hot' \cap Sealed' = {}
    BY <1>1, <1>2, <1>3 DEF Placement, Stored
  <2> QED
    BY <1>1, <2>1, <2>2 DEF Placement
<1>6. Indexed'
  BY <1>1 DEF Indexed, Indexes, FuseIndexes, ExactIndex
<1>7. Known'
  BY <1>1, <1>2 DEF Known, Markers
<1> QED
  BY <1>1, <1>4, <1>5, <1>6, <1>7

\* Overrides and clusterers are no concern of it.
LEMMA OverridesKeep ==
    ASSUME IInv, UNCHANGED <<born, hot, page, index, next, dict, kind, cache, order>>,
           DOMAIN over' \subseteq Cell, \A c \in DOMAIN over' : over'[c] \in Status
    PROVE  IInv'
<1>1. TypeOK'
  BY DEF IInv, TypeOK
<1>2. Sealed' = Sealed /\ Stored' = Stored
  BY DEF Sealed, Stored, CellsOf
<1>3. Placement' /\ Known' /\ Indexed'
  BY <1>2 DEF IInv, Placement, Known, Indexed, Indexes, FuseIndexes, ExactIndex
<1> QED
  BY <1>1, <1>3 DEF IInv

\* Nor is the cache, as long as it is one of the pages.
LEMMA CachesKeep ==
    ASSUME IInv, UNCHANGED store, Cached(cache', order', page)
    PROVE  IInv'
<1>1. TypeOK'
  <2>1. \A p \in DOMAIN cache' : cache'[p] \in Seq(Cell)
    BY DEF IInv, TypeOK, Cached
  <2> QED
    BY <2>1 DEF IInv, TypeOK, store
<1>2. Sealed' = Sealed /\ Stored' = Stored
  BY DEF Sealed, Stored, CellsOf, store
<1>3. Placement' /\ Known' /\ Indexed'
  BY <1>2 DEF IInv, Placement, Known, Indexed, Indexes, FuseIndexes, ExactIndex, store
<1> QED
  BY <1>1, <1>3 DEF IInv, store

LEMMA NoCacheCached ==
    ASSUME NEW all
    PROVE  Cached(NoCache, <<>>, all)
<1>1. /\ <<>> \in Seq(PageId) /\ IsInjective(<<>>) /\ ToSet(<<>>) = {} /\ Len(<<>>) = 0
      /\ DOMAIN NoCache = {} /\ NoCache = [p \in DOMAIN NoCache |-> all[p]]
  BY DEF IsInjective, ToSet, NoCache
<1> QED
  BY <1>1, RecallAssumption DEF Cached

LEMMA SeqSubset ==
    ASSUME NEW S, NEW T, S \subseteq T, NEW seq \in Seq(S)
    PROVE  seq \in Seq(T)
  OBVIOUS

\* The pages a request reads are pages of the catalog, each once.
LEMMA LoadedPages ==
    ASSUME IInv, NEW q
    PROVE  /\ Loaded(q) \in Seq(DOMAIN page) /\ IsInjective(Loaded(q))
           /\ ToSet(Loaded(q)) = {p \in PageCandidates(index, q) : ~Prunes(p, q)}
<1> DEFINE S == {p \in PageCandidates(index, q) : ~Prunes(p, q)}
<1>1. PageCandidates(index, q) \subseteq DOMAIN index
  <2>1. ExactQuery(index, q.queried, q.req.mode) \subseteq DOMAIN index
    BY DEF ExactQuery, Postings
  <2>2. FuseQuery(index, q.queried, q.req.mode) \subseteq DOMAIN index
    BY DEF FuseQuery, Select, HasAll, HasAny
  <2> QED
    BY <2>1, <2>2 DEF PageCandidates
<1>2. DOMAIN index = DOMAIN page /\ DOMAIN page \subseteq PageId
  BY DEF IInv, TypeOK
<1>3. S \in SUBSET Int /\ IsFiniteSet(S) /\ S \subseteq DOMAIN page
  <2>1. MaxPage \in Nat /\ PageId \in SUBSET Int
    BY RecallAssumption DEF PageId
  <2>2. IsFiniteSet(PageId)
    BY <2>1, FS_Interval DEF PageId
  <2>3. S \subseteq PageId /\ S \subseteq DOMAIN page
    BY <1>1, <1>2
  <2> HIDE DEF S
  <2> QED
    BY <2>1, <2>2, <2>3, FS_Subset
<1> HIDE DEF S
<1>4. /\ Ascending(S) \in Seq(S) /\ ToSet(Ascending(S)) = S /\ IsInjective(Ascending(S))
  BY <1>3, AscendingSeq
<1>5. Ascending(S) \in Seq(DOMAIN page)
  BY <1>3, <1>4, SeqSubset
<1> QED
  BY <1>4, <1>5 DEF Loaded, S

LEMMA RecallReads ==
    ASSUME IInv, NEW q
    PROVE  ReadInto(ReadPages(q), Loaded(q), Len(Loaded(q)))
<1>1. /\ DOMAIN page \subseteq PageId /\ \A p \in DOMAIN page : page[p] \in Seq(Cell)
      /\ Cached(cache, order, page)
  BY DEF IInv, TypeOK
<1>2. Loaded(q) \in Seq(DOMAIN page) /\ IsInjective(Loaded(q))
  BY LoadedPages
<1> QED
  BY <1>1, <1>2, ReadsInto DEF ReadPages

\* What new pages are like that the catalog takes.
LEMMA NewPages ==
    ASSUME IInv, NEW cells \in Seq(Cell), IsInjective(cells), NEW n, NEW built,
           Built(built, next, n, cells), DOMAIN built \subseteq PageId
    PROVE  /\ n \in Nat /\ DOMAIN built = next .. next + n - 1 /\ Cardinality(DOMAIN built) = n
           /\ next + n \in 1 .. MaxPage + 1 /\ next \in Nat \ {0} /\ MaxPage \in Nat
           /\ Apart(built) /\ \A p \in DOMAIN built : built[p] \in Seq(Cell)
           /\ UNION {ToSet(built[p]) : p \in DOMAIN built} = ToSet(cells)
<1>1. /\ n \in Nat /\ built \in [next .. next + n - 1 -> Seq(Cell)] /\ Apart(built)
      /\ UNION {ToSet(built[p]) : p \in DOMAIN built} = ToSet(cells)
  BY DEF Built
<1>2. next \in 1 .. MaxPage + 1 /\ MaxPage \in Nat
  BY RecallAssumption DEF IInv, TypeOK
<1>3. next \in Nat \ {0}
  BY <1>2
<1>4. DOMAIN built = next .. next + n - 1
  BY <1>1
<1> HIDE DEF Built
<1>5. Cardinality(next .. next + n - 1) = n
  <2>1. next \in Int /\ next + n - 1 \in Int /\ (next > next + n - 1 <=> n = 0)
        /\ (next + n - 1) - next + 1 = n
    <3>1. n \in Nat
      BY <1>1
    <3> HIDE DEF IInv
    <3> QED
      BY <1>3, <3>1
  <2> QED
    BY <2>1, FS_Interval
<1>6. next + n \in 1 .. MaxPage + 1
  <2>1. CASE n = 0
    BY <1>2, <2>1
  <2>2. CASE n # 0
    <3>1. next + n - 1 \in next .. next + n - 1
      BY <1>1, <1>3, <2>2
    <3>2. next + n - 1 \in 1 .. MaxPage
      BY <1>4, <3>1 DEF PageId
    <3> QED
      BY <1>2, <1>3, <3>2, <1>1
  <2> QED
    BY <2>1, <2>2
<1> QED
  BY <1>1, <1>2, <1>3, <1>4, <1>5, <1>6

\* The hot cells in the order of their ids: each once.
LEMMA HotListed ==
    ASSUME IInv
    PROVE  /\ Ascending(hot) \in Seq(Cell) /\ ToSet(Ascending(hot)) = hot /\ IsInjective(Ascending(hot))
<1>1. hot \in SUBSET Int /\ IsFiniteSet(hot) /\ hot \subseteq Cell
  <2>1. hot \subseteq Cell
    BY DEF IInv, TypeOK
  <2>2. IsFiniteSet(Cell) /\ Cell \subseteq Int
    BY CellsFinite
  <2> QED
    BY <2>1, <2>2, FS_Subset
<1>2. /\ Ascending(hot) \in Seq(hot) /\ ToSet(Ascending(hot)) = hot /\ IsInjective(Ascending(hot))
  BY <1>1, AscendingSeq
<1> QED
  BY <1>1, <1>2, SeqSubset

\* seal puts the hot cells into new pages.
LEMMA SealBuilds ==
    ASSUME IInv, Seal
    PROVE  \E n, built :
               /\ Built(built, next, n, Ascending(hot)) /\ DOMAIN built \subseteq PageId
               /\ page' = Merge(built, page) /\ index' \in Indexes(page')
               /\ next' = next + Cardinality(DOMAIN built)
<1> DEFINE built == BuildPages(Ascending(hot), clusterer, next)
<1>1. Publish(built, Merge(built, page))
  BY DEF Seal
<1>2. Ascending(hot) \in Seq(Cell) /\ next \in Nat
  BY HotListed DEF IInv, TypeOK
<1>3. PICK n : Built(built, next, n, Ascending(hot))
  BY <1>2, BuildsPages
<1> HIDE DEF built
<1> QED
  BY <1>1, <1>3 DEF Publish

LEMMA SealKeepsPages ==
    ASSUME IInv, Seal
    PROVE  /\ DOMAIN page \subseteq DOMAIN page' /\ \A p \in DOMAIN page : page'[p] = page[p]
           /\ Sealed' = Stored /\ Stored' = Stored
           /\ TypeOK' <=> \A p \in DOMAIN cache' : cache'[p] \in Seq(Cell)
           /\ Placement' /\ Indexed' /\ Known'
<1>1. PICK n, built :
        /\ Built(built, next, n, Ascending(hot)) /\ DOMAIN built \subseteq PageId
        /\ page' = Merge(built, page) /\ index' \in Indexes(page')
        /\ next' = next + Cardinality(DOMAIN built)
  BY SealBuilds
<1>2. Ascending(hot) \in Seq(Cell) /\ ToSet(Ascending(hot)) = hot /\ IsInjective(Ascending(hot))
  BY HotListed
<1>3. /\ n \in Nat /\ DOMAIN built = next .. next + n - 1 /\ Cardinality(DOMAIN built) = n
      /\ next + n \in 1 .. MaxPage + 1 /\ next \in Nat \ {0} /\ MaxPage \in Nat
      /\ Apart(built) /\ \A p \in DOMAIN built : built[p] \in Seq(Cell)
      /\ UNION {ToSet(built[p]) : p \in DOMAIN built} = hot
  BY <1>1, <1>2, NewPages
<1>4. /\ hot' = {} /\ UNCHANGED <<born, dict, over, kind>> /\ next' = next + n
  BY <1>1, <1>3 DEF Seal
<1>5. DOMAIN page \subseteq 1 .. next - 1
  BY DEF IInv, Placement
<1>6. \A p \in DOMAIN page : p \notin DOMAIN built
  BY <1>3, <1>5
<1>7. /\ DOMAIN page' = DOMAIN page \cup DOMAIN built
      /\ \A p \in DOMAIN page : page'[p] = page[p]
      /\ \A p \in DOMAIN built : page'[p] = built[p]
  BY <1>1, <1>6 DEF Merge
<1>8. Sealed' = Stored /\ Stored' = Stored
  <2>1. Sealed' = UNION {ToSet(page'[p]) : p \in DOMAIN page'}
    BY DEF Sealed, CellsOf
  <2>2. Sealed' = Sealed \cup hot
    BY <1>3, <1>7, <2>1 DEF Sealed, CellsOf
  <2> QED
    BY <1>4, <2>2 DEF Stored
<1>9. \A p \in DOMAIN page' : page'[p] \in Seq(Cell)
  BY <1>3, <1>7 DEF IInv, TypeOK
<1>10. /\ DOMAIN index' = DOMAIN page' /\ \A p \in DOMAIN page' : index'[p] \subseteq Marker
  <2> DEFINE idx == index'
             all == page'
  <2>1. idx \in Indexes(all) /\ \A p \in DOMAIN all : all[p] \in Seq(Cell)
    BY <1>1, <1>9
  <2> HIDE DEF idx, all
  <2>2. DOMAIN idx = DOMAIN all /\ \A p \in DOMAIN all : idx[p] \subseteq Marker
    BY <2>1, IndexesHold
  <2> QED
    BY <2>2 DEF idx, all
<1>11. TypeOK' <=> \A p \in DOMAIN cache' : cache'[p] \in Seq(Cell)
  <2>1. next' \in 1 .. MaxPage + 1 /\ DOMAIN page' \subseteq PageId
    BY <1>1, <1>3, <1>4, <1>7 DEF IInv, TypeOK
  <2> QED
    BY <1>4, <1>9, <1>10, <2>1 DEF IInv, TypeOK
<1>12. Placement'
  <2>1. Stored' \subseteq 1 .. born' /\ hot' \cap Sealed' = {}
    BY <1>4, <1>8 DEF IInv, Placement
  <2>2. DOMAIN page' \subseteq 1 .. next' - 1
    BY <1>3, <1>4, <1>5, <1>7
  <2>3. \A p \in DOMAIN page' : IsInjective(page'[p])
    BY <1>3, <1>7 DEF IInv, Placement, Apart
  <2>4. \A p \in DOMAIN page, r \in DOMAIN built : ToSet(page'[p]) \cap ToSet(page'[r]) = {}
    <3>1. \A p \in DOMAIN page : ToSet(page[p]) \subseteq Sealed
      BY DEF Sealed, CellsOf
    <3>2. \A r \in DOMAIN built : ToSet(built[r]) \subseteq hot
      BY <1>3
    <3>3. hot \cap Sealed = {}
      BY DEF IInv, Placement
    <3> QED
      BY <1>7, <3>1, <3>2, <3>3
  <2>5. ASSUME NEW p \in DOMAIN page', NEW r \in DOMAIN page', p # r
        PROVE  ToSet(page'[p]) \cap ToSet(page'[r]) = {}
    <3>1. CASE p \in DOMAIN page /\ r \in DOMAIN page
      BY <1>7, <2>5, <3>1 DEF IInv, Placement, Apart
    <3>2. CASE p \in DOMAIN built /\ r \in DOMAIN built
      BY <1>3, <1>7, <2>5, <3>2 DEF Apart
    <3> QED
      BY <1>7, <2>4, <3>1, <3>2
  <2> QED
    BY <2>1, <2>2, <2>3, <2>5 DEF Placement, Apart
<1>13. Indexed'
  BY <1>1, <1>4 DEF IInv, Indexed, Indexes, FuseIndexes, ExactIndex
<1>14. Known'
  BY <1>4, <1>8 DEF IInv, Known, Markers
<1> QED
  BY <1>7, <1>8, <1>11, <1>12, <1>13, <1>14

\* A part of a sequence.
LEMMA PartOf ==
    ASSUME NEW S, NEW seq \in Seq(S), NEW m \in Nat \ {0}, NEW n \in Nat, n <= Len(seq)
    PROVE  /\ SubSeq(seq, m, n) \in Seq(S)
           /\ Len(SubSeq(seq, m, n)) = IF m <= n THEN n - m + 1 ELSE 0
           /\ \A i \in 1 .. n - m + 1 : SubSeq(seq, m, n)[i] = seq[m + i - 1]
<1>1. CASE m <= n
  <2>1. m \in 1 .. Len(seq) + 1 /\ n \in m - 1 .. Len(seq)
    BY <1>1
  <2> QED
    BY <1>1, <2>1, SubSeqProperties
<1>2. CASE ~ (m <= n)
  <2>1. SubSeq(seq, m, n) = <<>>
    BY <1>2, SubSeqEmpty
  <2> QED
    BY <1>2, <2>1
<1> QED
  BY <1>1, <1>2

\* seal warms the cache with pages of the new catalog.
LEMMA SealWarms ==
    ASSUME IInv, Seal
    PROVE  Cached(cache', order', page')
<1> DEFINE all == page'
           ids == Ascending(DOMAIN all)
           m == IF Len(ids) > CacheCapacity THEN Len(ids) - CacheCapacity + 1 ELSE 1
           seq == SubSeq(ids, m, Len(ids))
<1>1. cache' = InsertAll(cache, order, all, seq).pages /\ order' = InsertAll(cache, order, all, seq).order
  BY DEF Seal, Warm, InsertAll
<1>2. DOMAIN page \subseteq DOMAIN all /\ (\A p \in DOMAIN page : all[p] = page[p])
      /\ DOMAIN all \subseteq PageId
  <2>1. /\ DOMAIN page \subseteq DOMAIN page' /\ \A p \in DOMAIN page : page'[p] = page[p]
    BY SealKeepsPages
  <2>2. PICK n, built : DOMAIN built \subseteq PageId /\ page' = Merge(built, page)
    BY SealBuilds
  <2>3. DOMAIN page' \subseteq PageId
    BY <2>2 DEF Merge, IInv, TypeOK
  <2> QED
    BY <2>1, <2>3
<1> HIDE DEF all
<1>3. Cached(cache, order, all)
  <2>1. Cached(cache, order, page)
    BY DEF IInv
  <2> QED
    BY <1>2, <2>1 DEF Cached
<1>4. ids \in Seq(DOMAIN all)
  <2>1. DOMAIN all \in SUBSET Int /\ IsFiniteSet(DOMAIN all)
    <3>1. MaxPage \in Nat /\ PageId \in SUBSET Int /\ IsFiniteSet(PageId)
      BY RecallAssumption, FS_Interval DEF PageId
    <3> QED
      BY <1>2, <3>1, FS_Subset
  <2> QED
    BY <2>1, AscendingSeq
<1> HIDE DEF ids
<1>5. seq \in Seq(DOMAIN all)
  <2>1. Len(ids) \in Nat
    BY <1>4
  <2>2. m \in Nat \ {0}
    BY <2>1, RecallAssumption
  <2> HIDE DEF m
  <2>3. Len(ids) <= Len(ids)
    BY <2>1
  <2> QED
    BY <1>4, <2>1, <2>2, <2>3, PartOf
<1> HIDE DEF seq
<1>6. Cached(InsertAll(cache, order, all, seq).pages, InsertAll(cache, order, all, seq).order, all)
  BY <1>2, <1>3, <1>5, InsertsCached
<1> QED
  BY <1>1, <1>6 DEF all

LEMMA SealKeeps ==
    ASSUME IInv, Seal
    PROVE  IInv'
<1>1. Cached(cache', order', page')
  BY SealWarms
<1>2. /\ TypeOK' <=> \A p \in DOMAIN cache' : cache'[p] \in Seq(Cell)
      /\ Placement' /\ Indexed' /\ Known'
  BY SealKeepsPages
<1>3. \A p \in DOMAIN page' : page'[p] \in Seq(Cell)
  <2>1. PICK n, built :
          /\ Built(built, next, n, Ascending(hot)) /\ page' = Merge(built, page)
    BY SealBuilds
  <2>2. \A p \in DOMAIN built : built[p] \in Seq(Cell)
    BY <2>1 DEF Built
  <2> QED
    BY <2>1, <2>2 DEF Merge, IInv, TypeOK
<1>4. \A p \in DOMAIN cache' : cache'[p] \in Seq(Cell)
  BY <1>1, <1>3 DEF Cached
<1> QED
  BY <1>1, <1>2, <1>4 DEF IInv

\* compact packs the cells that stay into new pages.
Gone == {c \in Sealed : Effective(c) \in {"deprecated", "rejected", "superseded"}}

LEMMA CompactBuilds ==
    ASSUME IInv, Compact
    PROVE  \E n, built, kept :
               /\ kept \in Seq(Cell) /\ IsInjective(kept) /\ ToSet(kept) = Sealed \ Gone
               /\ Built(built, next, n, kept) /\ DOMAIN built \subseteq PageId
               /\ page' = built /\ index' \in Indexes(page')
               /\ next' = next + Cardinality(DOMAIN built)
<1> DEFINE parts == [i \in 1 .. next - 1 |->
                        IF i \in DOMAIN page THEN Keep(page[i], Cell \ Gone) ELSE <<>>]
           kept == FlattenSeq(parts)
           built == BuildPages(kept, clusterer, next)
<1>1. Publish(built, built)
  BY DEF Compact, Gone
<1>2. next \in Nat \ {0} /\ DOMAIN page \subseteq 1 .. next - 1
      /\ (\A p \in DOMAIN page : page[p] \in Seq(Cell)) /\ Apart(page)
  BY DEF IInv, TypeOK, Placement
<1> HIDE DEF built
<1>3. \A i \in 1 .. next - 1 :
          /\ i \in DOMAIN page => /\ parts[i] \in Seq(Cell) /\ ToSet(parts[i]) = CellsOf(i) \ Gone
                                  /\ IsInjective(parts[i])
          /\ i \notin DOMAIN page => parts[i] = <<>>
  <2>1. ASSUME NEW i \in 1 .. next - 1, i \in DOMAIN page
        PROVE  parts[i] \in Seq(Cell) /\ ToSet(parts[i]) = CellsOf(i) \ Gone /\ IsInjective(parts[i])
    <3> DEFINE S == Cell \ Gone
    <3>1. parts[i] = Keep(page[i], S)
      BY <2>1
    <3> HIDE DEF parts, S
    <3>2. page[i] \in Seq(Cell) /\ IsInjective(page[i])
      BY <1>2, <2>1 DEF Apart
    <3>3. Keep(page[i], S) \in Seq(Cell) /\ ToSet(Keep(page[i], S)) = ToSet(page[i]) \cap S
          /\ IsInjective(Keep(page[i], S))
      BY <3>2, KeepElements
    <3>4. ToSet(page[i]) \subseteq Cell
      BY <3>2 DEF ToSet
    <3> QED
      BY <3>1, <3>3, <3>4 DEF CellsOf, S
  <2> QED
    BY <2>1
<1>4. DOMAIN parts = 1 .. next - 1 /\ parts \in Seq(Seq(Cell))
  <2>1. DOMAIN parts = 1 .. next - 1
    OBVIOUS
  <2>2. \A i \in 1 .. next - 1 : parts[i] \in Seq(Cell)
    <3> HIDE DEF parts
    <3>1. <<>> \in Seq(Cell)
      OBVIOUS
    <3> QED
      BY <1>3, <3>1
  <2>3. parts = [i \in 1 .. next - 1 |-> parts[i]] /\ next - 1 \in Nat
    BY <1>2
  <2> HIDE DEF parts
  <2> QED
    BY <2>1, <2>2, <2>3
<1> HIDE DEF parts
<1>5. Elements(parts) = Sealed \ Gone
  <2>1. \A i \in 1 .. next - 1 : i \notin DOMAIN page => ToSet(parts[i]) = {}
    BY <1>3 DEF ToSet
  <2>2. Elements(parts) = UNION {ToSet(parts[i]) : i \in 1 .. next - 1}
    BY <1>4 DEF Elements
  <2>3. Elements(parts) = UNION {CellsOf(i) \ Gone : i \in DOMAIN page}
    <3>1. \A i \in DOMAIN page : i \in 1 .. next - 1 /\ ToSet(parts[i]) = CellsOf(i) \ Gone
      BY <1>2, <1>3
    <3> HIDE DEF Elements
    <3>2. \A c : c \in UNION {ToSet(parts[i]) : i \in 1 .. next - 1}
                 <=> c \in UNION {CellsOf(i) \ Gone : i \in DOMAIN page}
      BY <2>1, <3>1
    <3> QED
      BY <2>2, <3>2
  <2> QED
    BY <2>3 DEF Sealed
<1>6. Apart(parts)
  <2>1. \A i \in DOMAIN parts : IsInjective(parts[i])
    <3>1. IsInjective(<<>>)
      BY DEF IsInjective
    <3> QED
      BY <1>3, <1>4, <3>1
  <2>2. ASSUME NEW i \in DOMAIN parts, NEW j \in DOMAIN parts, i # j
        PROVE  ToSet(parts[i]) \cap ToSet(parts[j]) = {}
    <3>1. CASE i \in DOMAIN page /\ j \in DOMAIN page
      <4>1. CellsOf(i) \cap CellsOf(j) = {}
        BY <1>2, <2>2, <3>1 DEF Apart, CellsOf
      <4> QED
        BY <1>3, <1>4, <3>1, <4>1
    <3>2. ASSUME NEW k \in DOMAIN parts, k \notin DOMAIN page PROVE ToSet(parts[k]) = {}
      BY <1>3, <1>4, <3>2 DEF ToSet
    <3> QED
      BY <3>1, <3>2
  <2> QED
    BY <2>1, <2>2 DEF Apart
<1>7. kept \in Seq(Cell) /\ ToSet(kept) = Sealed \ Gone /\ IsInjective(kept)
  BY <1>4, <1>5, <1>6, FlattenElements
<1> HIDE DEF kept
<1>8. PICK n : Built(built, next, n, kept)
  BY <1>2, <1>7, BuildsPages DEF built
<1> QED
  BY <1>1, <1>7, <1>8 DEF Publish

LEMMA CompactKeeps ==
    ASSUME IInv, Compact
    PROVE  IInv'
<1>1. PICK n, built, kept :
        /\ kept \in Seq(Cell) /\ IsInjective(kept) /\ ToSet(kept) = Sealed \ Gone
        /\ Built(built, next, n, kept) /\ DOMAIN built \subseteq PageId
        /\ page' = built /\ index' \in Indexes(page')
        /\ next' = next + Cardinality(DOMAIN built)
  BY CompactBuilds
<1>2. /\ n \in Nat /\ DOMAIN built = next .. next + n - 1 /\ Cardinality(DOMAIN built) = n
      /\ next + n \in 1 .. MaxPage + 1 /\ next \in Nat \ {0} /\ MaxPage \in Nat
      /\ Apart(built) /\ \A p \in DOMAIN built : built[p] \in Seq(Cell)
      /\ UNION {ToSet(built[p]) : p \in DOMAIN built} = Sealed \ Gone
  BY <1>1, NewPages
<1>3. /\ hot = {} /\ over' = [c \in DOMAIN over \ Gone |-> over[c]]
      /\ dict' = Markers(Sealed \ Gone) /\ cache' = NoCache /\ order' = <<>>
      /\ UNCHANGED <<born, hot, kind>> /\ next' = next + n
  BY <1>1, <1>2 DEF Compact, Gone, ClearCaches
<1>4. Sealed' = Sealed \ Gone /\ Stored' = Sealed'
  <2>1. Sealed' = UNION {ToSet(page'[p]) : p \in DOMAIN page'}
    BY DEF Sealed, CellsOf
  <2> QED
    BY <1>1, <1>2, <1>3, <2>1 DEF Stored
<1>5. Sealed \ Gone \subseteq Cell /\ Sealed \subseteq 1 .. born
  <2>1. \A p \in DOMAIN page : CellsOf(p) \subseteq Cell
    BY DEF IInv, TypeOK, CellsOf, ToSet
  <2> QED
    BY <2>1 DEF IInv, Placement, Sealed, Stored
<1>6. TypeOK'
  <2>1. /\ DOMAIN index' = DOMAIN page' /\ \A p \in DOMAIN page' : index'[p] \subseteq Marker
    <3> DEFINE idx == index'
               all == page'
    <3>1. idx \in Indexes(all) /\ \A p \in DOMAIN all : all[p] \in Seq(Cell)
      BY <1>1, <1>2
    <3> HIDE DEF idx, all
    <3>2. DOMAIN idx = DOMAIN all /\ \A p \in DOMAIN all : idx[p] \subseteq Marker
      BY <3>1, IndexesHold
    <3> QED
      BY <3>2 DEF idx, all
  <2>2. dict' \subseteq Marker
    BY <1>3, <1>5, MarkersOfSets
  <2>3. DOMAIN cache' = {}
    BY <1>3 DEF NoCache
  <2>4. DOMAIN over' \subseteq Cell /\ \A c \in DOMAIN over' : over'[c] \in Status
    BY <1>3 DEF IInv, TypeOK
  <2>5. born' \in Nat /\ hot' \subseteq Cell /\ next' \in 1 .. MaxPage + 1
    BY <1>2, <1>3 DEF IInv, TypeOK
  <2>6. DOMAIN page' \subseteq PageId /\ \A p \in DOMAIN page' : page'[p] \in Seq(Cell)
    BY <1>1, <1>2
  <2> QED
    BY <2>1, <2>2, <2>3, <2>4, <2>5, <2>6 DEF TypeOK
<1>7. Placement'
  <2>1. Stored' \subseteq 1 .. born' /\ hot' \cap Sealed' = {}
    BY <1>3, <1>4, <1>5
  <2>2. DOMAIN page' \subseteq 1 .. next' - 1
    <3>1. n \in Nat /\ next \in Nat \ {0}
      BY <1>2
    <3>2. next .. next + n - 1 \subseteq 1 .. (next + n) - 1
      BY <3>1
    <3> QED
      BY <1>1, <1>2, <1>3, <3>2
  <2> QED
    BY <1>1, <1>2, <2>1, <2>2 DEF Placement
<1>8. Indexed'
  BY <1>1, <1>3 DEF IInv, Indexed, Indexes, FuseIndexes, ExactIndex
<1>9. Known'
  BY <1>3, <1>4 DEF Known, Markers
<1>10. Cached(cache', order', page')
  BY <1>3, NoCacheCached
<1> QED
  BY <1>6, <1>7, <1>8, <1>9, <1>10 DEF IInv

LEMMA NextIInv == IInv /\ [Next]_vars => IInv'
<1> SUFFICES ASSUME IInv, [Next]_vars PROVE IInv'
  OBVIOUS
<1>1. CASE Remember
  BY <1>1, RememberKeeps
<1>2. CASE Seal
  BY <1>2, SealKeeps
<1>3. CASE Compact
  BY <1>3, CompactKeeps
<1>4. CASE Reopen
  <2>1. UNCHANGED store /\ cache' = NoCache /\ order' = <<>>
    BY <1>4 DEF Reopen, ClearCaches
  <2>2. Cached(cache', order', page)
    BY <2>1, NoCacheCached
  <2> QED
    BY <2>1, <2>2, CachesKeep
<1>5. ASSUME NEW c \in Cell, NEW s \in Overrides, Mark(c, s) PROVE IInv'
  <2>1. DOMAIN over' \subseteq Cell /\ \A d \in DOMAIN over' : over'[d] \in Status
    BY <1>5, RecallAssumption DEF Mark, IInv, TypeOK, Status
  <2> QED
    BY <1>5, <2>1, OverridesKeep DEF Mark
<1>6. ASSUME NEW c \in Cell, Unmark(c) PROVE IInv'
  <2>1. DOMAIN over' \subseteq Cell /\ \A d \in DOMAIN over' : over'[d] \in Status
    BY <1>6 DEF Unmark, IInv, TypeOK
  <2> QED
    BY <1>6, <2>1, OverridesKeep DEF Unmark
<1>7. ASSUME NEW k \in Clusterer, SwitchClusterer(k) PROVE IInv'
  <2>1. DOMAIN over' \subseteq Cell /\ \A d \in DOMAIN over' : over'[d] \in Status
    BY <1>7 DEF SwitchClusterer, IInv, TypeOK
  <2> QED
    BY <1>7, <2>1, OverridesKeep DEF SwitchClusterer
<1>8. ASSUME NEW q \in Queries, RecallStep(q) PROVE IInv'
  <2>1. ReadInto(ReadPages(q), Loaded(q), Len(Loaded(q)))
    BY RecallReads
  <2>2. Cached(cache', order', page) /\ UNCHANGED store
    BY <1>8, <2>1 DEF RecallStep, ReadInto
  <2> QED
    BY <2>2, CachesKeep
<1>9. CASE UNCHANGED vars
  <2>1. UNCHANGED store /\ Cached(cache', order', page)
    BY <1>9 DEF vars, IInv
  <2> QED
    BY <2>1, CachesKeep
<1> QED
  BY <1>1, <1>2, <1>3, <1>4, <1>5, <1>6, <1>7, <1>8, <1>9 DEF Next

\* In every reachable state of recall and of the calls that change what it
\* reads, for every set of cells, of requests and for every capacity, the
\* invariant holds.
THEOREM Invariance == Spec => []IInv
<1>1. Init => IInv
  BY InitIInv
<1>2. IInv /\ [Next]_vars => IInv'
  BY NextIInv
<1> QED
  BY <1>1, <1>2, PTL DEF Spec

\* The state that recall reads keeps its types: the index has a filter for
\* every page of the catalog, decoded pages are pages of cells.
THEOREM TypeCorrect == Spec => []TypeOK
<1>1. IInv => TypeOK
  BY DEF IInv
<1> QED
  BY <1>1, Invariance, PTL

-----------------------------------------------------------------------------
(* Pages.                                                                  *)

\* A query and what it resolves to.
LEMMA QueryParts ==
    ASSUME NEW q \in Queries
    PROVE  \E r \in Requests : q = Resolve(r) /\ q.req = r
  BY DEF Queries, Resolve

\* A cell of a page has only markers of its summary.
LEMMA SummaryHolds ==
    ASSUME NEW p \in DOMAIN page, NEW c \in CellsOf(p)
    PROVE  MarkersOf[c] \subseteq Summary(p)
  BY MarkersOfSets DEF Summary

\* A page that is pruned holds no cell that recall could rank.
LEMMA PrunedRanksNone ==
    ASSUME TypeOK, NEW q \in Queries, NEW p \in DOMAIN page,
           Prunes(p, q), q.queried \cap Summary(p) # {}, NEW c \in CellsOf(p)
    PROVE  ~Ranks(c, q)
<1> SUFFICES ASSUME FilterPermits(c, q) PROVE FALSE
  BY DEF Ranks
<1>1. PICK r \in Requests : q = Resolve(r) /\ q.req = r
  BY QueryParts
<1>2. c \in Cell /\ MarkersOf[c] \subseteq Summary(p)
  BY SummaryHolds DEF TypeOK, CellsOf, ToSet
<1>3. Attr[c].status \in Status /\ Attr[c].secret \in BOOLEAN
  BY <1>2, RecallAssumption
<1>4. q.required \subseteq Summary(p)
  <2>1. q.required \subseteq {m \in {<<"scope", r.scope>>} : r.scope # 0}
                                  \cup {m \in {<<"kind", r.kind>>} : r.kind # 0}
    BY <1>1 DEF Resolve
  <2>2. r.scope # 0 => Attr[c].scope = r.scope
    BY <1>1 DEF FilterPermits, InScopeAndKind
  <2>3. r.kind # 0 => Attr[c].kind = r.kind
    BY <1>1 DEF FilterPermits, InScopeAndKind
  <2>4. <<"scope", Attr[c].scope>> \in MarkersOf[c] /\ <<"kind", Attr[c].kind>> \in MarkersOf[c]
    BY <1>2 DEF MarkersOf, Cell
  <2> QED
    BY <1>2, <2>1, <2>2, <2>3, <2>4
<1>5. q.explicit # {} => q.explicit \cap Summary(p) # {}
  BY <1>2 DEF FilterPermits
<1>6. ~Refuses(q.policy, Attr[c].status, Attr[c].secret)
  BY DEF FilterPermits, PolicyPermits
<1>7. Attr[c].status \in PruneContext(q.policy).statuses
  BY <1>3, <1>6 DEF PruneContext, Refuses, Retired, Status
<1>8. Attr[c].secret \in PruneContext(q.policy).secret
  BY <1>3, <1>6 DEF PruneContext, Refuses
<1> QED
  BY <1>4, <1>5, <1>7, <1>8 DEF Prunes

\* The index offers the page of every cell that is sought, whatever its filters
\* report falsely.
LEMMA SoughtIsOffered ==
    ASSUME IInv, NEW q \in Queries, NEW p \in DOMAIN page, NEW c \in CellsOf(p), Sought(c, q)
    PROVE  p \in PageCandidates(index, q) /\ q.queried \cap Summary(p) # {}
<1>1. /\ p \in DOMAIN index /\ Summary(p) \subseteq index[p]
      /\ kind = "exact" => index = ExactIndex(page)
  BY IndexesHold DEF IInv, TypeOK, Indexed, Summary, CellsOf
<1>2. MarkersOf[c] \subseteq Summary(p)
  BY SummaryHolds
<1>3. q.queried \cap Summary(p) # {} /\ q.queried # {}
  BY <1>2 DEF Sought
<1>4. /\ p \in HasAny(index, q.queried)
      /\ q.req.mode = "focused" => p \in HasAll(index, q.queried)
  BY <1>1, <1>2, <1>3 DEF Sought, HasAny, HasAll
<1>5. p \in FuseQuery(index, q.queried, q.req.mode)
  BY <1>4 DEF FuseQuery, Select
<1>6. p \in ExactQuery(index, q.queried, q.req.mode)
  <2>1. {x \in DOMAIN index : \A m \in q.queried : x \in Postings(index, m)} = HasAll(index, q.queried)
    BY DEF Postings, HasAll
  <2>2. UNION {Postings(index, m) : m \in q.queried} = HasAny(index, q.queried)
    BY DEF Postings, HasAny
  <2> QED
    BY <1>4, <2>1, <2>2 DEF ExactQuery
<1> QED
  BY <1>3, <1>5, <1>6 DEF PageCandidates

\* Whatever has been marked since a page was sealed and whatever the filters of
\* the index report falsely, a page that recall does not read has no cell that
\* ranks among those sought: all queried markers for focused recall, one of them
\* otherwise.  A cell of a page that shares a queried marker and that the
\* summaries exclude does not rank in any case.
THEOREM PruningSafe == Spec => []PruningIsSafe
<1>1. IInv => PruningIsSafe
  <2> SUFFICES ASSUME IInv, NEW q \in Queries, NEW p \in DOMAIN page \ ToSet(Loaded(q)),
                      NEW c \in CellsOf(p),
                      Sought(c, q) \/ (Prunes(p, q) /\ q.queried \cap Summary(p) # {})
               PROVE  ~Ranks(c, q)
    BY DEF PruningIsSafe
  <2>1. Prunes(p, q) /\ q.queried \cap Summary(p) # {}
    <3>1. CASE Sought(c, q)
      <4>1. p \in PageCandidates(index, q) /\ q.queried \cap Summary(p) # {}
        BY <3>1, SoughtIsOffered
      <4>2. ToSet(Loaded(q)) = {x \in PageCandidates(index, q) : ~Prunes(x, q)}
        BY LoadedPages
      <4> QED
        BY <4>1, <4>2
    <3> QED
      BY <3>1
  <2> QED
    BY <2>1, PrunedRanksNone DEF IInv
<1> QED
  BY <1>1, Invariance, PTL

\* What the binary fuse index offers, against the exact one.
LEMMA FuseAgainstExact ==
    ASSUME NEW idx, NEW pages, DOMAIN idx = DOMAIN pages,
           \A p \in DOMAIN pages : Markers(ToSet(pages[p])) \subseteq idx[p],
           NEW ms, NEW mode
    PROVE  \/ ExactQuery(ExactIndex(pages), ms, mode) \subseteq FuseQuery(idx, ms, mode)
           \/ mode = "focused" /\ \E p \in FuseQuery(idx, ms, mode) : idx[p] # Markers(ToSet(pages[p]))
<1> DEFINE e == ExactIndex(pages)
           every == {p \in DOMAIN e : \A m \in ms : p \in Postings(e, m)}
<1>1. DOMAIN e = DOMAIN pages /\ \A p \in DOMAIN pages : e[p] = Markers(ToSet(pages[p]))
  BY DEF ExactIndex
<1> HIDE DEF e
<1>2. every = HasAll(e, ms)
  BY DEF Postings, HasAll
<1>3. UNION {Postings(e, m) : m \in ms} = HasAny(e, ms)
  BY DEF Postings, HasAny
<1>4. HasAny(e, ms) \subseteq HasAny(idx, ms) /\ HasAll(e, ms) \subseteq HasAll(idx, ms)
  BY <1>1 DEF HasAny, HasAll
<1>5. ExactQuery(e, ms, mode) = IF mode = "focused" /\ HasAll(e, ms) # {} THEN HasAll(e, ms)
                                                                         ELSE HasAny(e, ms)
  BY <1>2, <1>3 DEF ExactQuery
<1>6. FuseQuery(idx, ms, mode) = IF mode = "focused" /\ HasAll(idx, ms) # {} THEN HasAll(idx, ms)
                                                                             ELSE HasAny(idx, ms)
  BY DEF FuseQuery, Select
<1>7. CASE mode = "focused" /\ HasAll(e, ms) = {} /\ HasAll(idx, ms) # {}
  <2>1. PICK p \in HasAll(idx, ms) : TRUE
    BY <1>7
  <2>2. p \in DOMAIN pages /\ ms \subseteq idx[p] /\ ~ (ms \subseteq e[p])
    BY <1>1, <1>7, <2>1 DEF HasAll
  <2> QED
    BY <1>1, <1>6, <1>7, <2>1, <2>2
<1> QED
  BY <1>4, <1>5, <1>6, <1>7 DEF e

\* Whatever its filters report falsely, the binary fuse index offers every page
\* the exact index does, but in a focused recall for which it offers a page on
\* a false report.
THEOREM FuseMisses == Spec => []FuseMissesOnlyFocused
<1>1. IInv => FuseMissesOnlyFocused
  <2> SUFFICES ASSUME IInv, NEW q \in Queries, q.queried # {}
               PROVE  \/ ExactQuery(ExactIndex(page), q.queried, q.req.mode)
                             \subseteq PageCandidates(index, q)
                      \/ /\ q.req.mode = "focused"
                         /\ \E p \in PageCandidates(index, q) : index[p] # Summary(p)
    BY DEF FuseMissesOnlyFocused
  <2>1. \A p \in DOMAIN page : page[p] \in Seq(Cell)
    BY DEF IInv, TypeOK
  <2>2. /\ DOMAIN index = DOMAIN page
        /\ \A p \in DOMAIN page : Markers(ToSet(page[p])) \subseteq index[p]
        /\ kind = "exact" => index = ExactIndex(page)
    BY <2>1, IndexesHold DEF IInv, Indexed
  <2>3. CASE kind = "exact"
    BY <2>2, <2>3 DEF PageCandidates
  <2>4. CASE kind # "exact"
    <3>1. PageCandidates(index, q) = FuseQuery(index, q.queried, q.req.mode)
      BY <2>4 DEF PageCandidates
    <3> QED
      BY <2>2, <3>1, FuseAgainstExact DEF Summary, CellsOf
  <2> QED
    BY <2>3, <2>4
<1> QED
  BY <1>1, Invariance, PTL

\* The last pages read are the last of the order.
LEMMA LastRead ==
    ASSUME NEW D, NEW ord \in Seq(D), NEW E, NEW seq \in Seq(E), EndsWith(ord, seq, Len(seq)),
           NEW n \in 0 .. CacheCapacity, n <= Len(seq)
    PROVE  SubSeq(ord, Len(ord) - n + 1, Len(ord)) = SubSeq(seq, Len(seq) - n + 1, Len(seq))
<1> DEFINE a == Len(ord)
           b == Len(seq)
           s == SubSeq(ord, a - n + 1, a)
           t == SubSeq(seq, b - n + 1, b)
<1>1. a \in Nat /\ b \in Nat /\ n \in Nat
  BY RecallAssumption
<1>2. n <= a /\ \A j \in 0 .. n - 1 : ord[a - j] = seq[b - j]
  BY DEF EndsWith
<1>3. a - n + 1 \in Nat \ {0} /\ b - n + 1 \in Nat \ {0} /\ a <= a /\ b <= b
  BY <1>1, <1>2
<1> HIDE DEF a, b
<1>4. /\ s \in Seq(D) /\ Len(s) = IF a - n + 1 <= a THEN a - (a - n + 1) + 1 ELSE 0
      /\ \A i \in 1 .. a - (a - n + 1) + 1 : s[i] = ord[(a - n + 1) + i - 1]
  BY <1>1, <1>3, PartOf DEF a
<1>5. /\ t \in Seq(E) /\ Len(t) = IF b - n + 1 <= b THEN b - (b - n + 1) + 1 ELSE 0
      /\ \A i \in 1 .. b - (b - n + 1) + 1 : t[i] = seq[(b - n + 1) + i - 1]
  BY <1>1, <1>3, PartOf DEF b
<1> HIDE DEF s, t
<1>6. /\ (IF a - n + 1 <= a THEN a - (a - n + 1) + 1 ELSE 0) = n
      /\ (IF b - n + 1 <= b THEN b - (b - n + 1) + 1 ELSE 0) = n
      /\ a - (a - n + 1) + 1 = n /\ b - (b - n + 1) + 1 = n
  BY <1>1
<1>7. Len(s) = n /\ Len(t) = n
  BY <1>4, <1>5, <1>6
<1>8. ASSUME NEW i \in 1 .. n PROVE s[i] = t[i]
  <2>1. n - i \in 0 .. n - 1 /\ (a - n + 1) + i - 1 = a - (n - i) /\ (b - n + 1) + i - 1 = b - (n - i)
    BY <1>1
  <2>2. s[i] = ord[a - (n - i)] /\ t[i] = seq[b - (n - i)]
    BY <1>4, <1>5, <1>6, <2>1
  <2> QED
    BY <1>2, <2>1, <2>2
<1>9. s = t
  <2>1. s = [i \in 1 .. n |-> s[i]] /\ t = [i \in 1 .. n |-> t[i]]
    BY <1>4, <1>5, <1>7
  <2> QED
    BY <1>8, <2>1
<1> QED
  BY <1>9 DEF s, t, a, b

\* Whatever happens to the pages of the catalog, a decoded page in the cache is
\* the page of that id, no more pages are decoded than the capacity allows, and
\* after any recall they are those read last.
THEOREM CacheStaysLru == Spec => []CacheIsLru
<1>1. IInv => CacheIsLru
  <2> SUFFICES ASSUME IInv PROVE CacheIsLru
    OBVIOUS
  <2>1. /\ order \in Seq(PageId) /\ IsInjective(order)
        /\ ToSet(order) = DOMAIN cache /\ Len(order) <= CacheCapacity
        /\ DOMAIN cache \subseteq DOMAIN page /\ cache = [p \in DOMAIN cache |-> page[p]]
    BY DEF IInv, Cached
  <2>2. \A p \in DOMAIN cache : p \in DOMAIN page /\ cache[p] = page[p]
    BY <2>1
  <2>3. Len(order) = Cardinality(DOMAIN cache)
    BY <2>1, DistinctLen
  <2>4. ASSUME NEW q \in Queries
        PROVE  LET read  == Loaded(q)
                   after == ReadPages(q).order
                   n     == IF Len(read) < CacheCapacity THEN Len(read) ELSE CacheCapacity
               IN  SubSeq(after, Len(after) - n + 1, Len(after))
                     = SubSeq(read, Len(read) - n + 1, Len(read))
    <3> DEFINE read  == Loaded(q)
               after == ReadPages(q).order
               n     == IF Len(read) < CacheCapacity THEN Len(read) ELSE CacheCapacity
    <3>1. read \in Seq(DOMAIN page)
      BY LoadedPages
    <3> HIDE DEF read
    <3>2. after \in Seq(PageId) /\ EndsWith(after, read, Len(read))
      <4>1. ReadInto(ReadPages(q), Loaded(q), Len(Loaded(q)))
        BY RecallReads
      <4> QED
        BY <4>1 DEF ReadInto, Cached, read
    <3> HIDE DEF after
    <3>3. n \in 0 .. CacheCapacity /\ n <= Len(read)
      BY <3>1, RecallAssumption
    <3> HIDE DEF n
    <3>4. SubSeq(after, Len(after) - n + 1, Len(after)) = SubSeq(read, Len(read) - n + 1, Len(read))
      BY <3>1, <3>2, <3>3, LastRead
    <3> QED
      BY <3>4 DEF read, after, n
  <2>5. /\ ToSet(order) = DOMAIN cache /\ Len(order) = Cardinality(DOMAIN cache)
        /\ Len(order) <= CacheCapacity
    BY <2>1, <2>3
  <2> QED
    BY ONLY <2>2, <2>4, <2>5 DEF CacheIsLru
<1> QED
  BY <1>1, Invariance, PTL

\* What a build must give.
NewFit(all, first, last, cells) ==
    LET new   == {p \in DOMAIN all : p >= first}
        Held(p) == ToSet(all[p])
    IN  /\ new = first .. last - 1 /\ UNION {Held(p) : p \in new} = cells
        /\ \A p, q \in new : p # q => Held(p) \cap Held(q) = {}
        /\ \A p \in new :
             /\ Len(all[p]) \in 1 .. MaxCells
             /\ Len(all[p]) = 1 \/ Bytes(all[p]) <= TargetBytes
             /\ \A c, d \in Held(p) : Attr[c].scope = Attr[d].scope
                                       /\ Attr[c].kind = Attr[d].kind

LEMMA BuiltFits ==
    ASSUME IInv, NEW cells \in Seq(Cell), IsInjective(cells), NEW n, NEW built,
           Built(built, next, n, cells), DOMAIN built \subseteq PageId,
           NEW all, \A p \in DOMAIN built : p \in DOMAIN all /\ all[p] = built[p],
           \A p \in DOMAIN all : p \notin DOMAIN built => ~ (p >= next)
    PROVE  NewFit(all, next, next + Cardinality(DOMAIN built), ToSet(cells))
<1>1. /\ n \in Nat /\ DOMAIN built = next .. next + n - 1 /\ Cardinality(DOMAIN built) = n
      /\ next \in Nat \ {0} /\ Apart(built)
      /\ UNION {ToSet(built[p]) : p \in DOMAIN built} = ToSet(cells)
  BY NewPages
<1> DEFINE new == {p \in DOMAIN all : p >= next}
<1>2. new = DOMAIN built
  <2>1. \A p \in DOMAIN built : p >= next
    BY <1>1
  <2> QED
    BY <2>1
<1>3. \A p \in new : ToSet(all[p]) = ToSet(built[p]) /\ all[p] = built[p]
  BY <1>2
<1>4. next + n = next + Cardinality(DOMAIN built) /\ new = next .. (next + n) - 1
  BY <1>1, <1>2
<1>5. UNION {ToSet(all[p]) : p \in new} = ToSet(cells)
  BY <1>1, <1>2, <1>3
<1>6. \A p, q \in new : p # q => ToSet(all[p]) \cap ToSet(all[q]) = {}
  BY <1>1, <1>2, <1>3 DEF Apart
<1>7. ASSUME NEW p \in new
      PROVE  /\ Len(all[p]) \in 1 .. MaxCells
             /\ Len(all[p]) = 1 \/ Bytes(all[p]) <= TargetBytes
             /\ \A c, d \in ToSet(all[p]) : Attr[c].scope = Attr[d].scope /\ Attr[c].kind = Attr[d].kind
  <2>1. /\ all[p] \in Seq(Cell) /\ Len(all[p]) <= MaxCells /\ all[p] # <<>>
        /\ Len(all[p]) <= 1 \/ Bytes(all[p]) <= TargetBytes
        /\ \A c, d \in ToSet(all[p]) : Group(c) = Group(d)
    BY <1>2, <1>3 DEF Built, Fits
  <2>2. Len(all[p]) \in Nat /\ Len(all[p]) # 0
    BY <2>1
  <2>3. Len(all[p]) \in 1 .. MaxCells /\ (Len(all[p]) <= 1 => Len(all[p]) = 1)
    <3> DEFINE l == Len(all[p])
    <3>1. l \in Nat /\ l # 0
      BY <2>2
    <3>2. l <= MaxCells
      BY <2>1
    <3> HIDE DEF l
    <3>3. l \in 1 .. MaxCells /\ (l <= 1 => l = 1)
      BY ONLY <3>1, <3>2, BuilderAssumption
    <3> QED
      BY <3>3 DEF l
  <2>4. \A c, d \in ToSet(all[p]) : Attr[c].scope = Attr[d].scope /\ Attr[c].kind = Attr[d].kind
    BY <2>1 DEF Group
  <2> QED
    BY <2>1, <2>3, <2>4
<1> HIDE DEF new
<1> QED
  BY <1>1, <1>4, <1>5, <1>6, <1>7 DEF NewFit, new

\* However the cells are clustered, whatever the limits are and whatever retired
\* cells a compaction drops, the new pages hold every cell that is sealed or kept
\* exactly once, none is empty, each has one scope and kind and exceeds a limit
\* only with a single cell, and no page id is used twice.
THEOREM BuildsAlwaysFit == Spec => BuildsFit
<1>1. IInv /\ [Next]_vars =>
        [page' # page =>
            NewFit(page', next, next', IF hot # {} THEN hot
                     ELSE {c \in Sealed : Effective(c) \notin {"deprecated", "rejected", "superseded"}})]_vars
  <2> SUFFICES ASSUME IInv, Next, page' # page
               PROVE  NewFit(page', next, next', IF hot # {} THEN hot
                         ELSE {c \in Sealed : Effective(c) \notin {"deprecated", "rejected", "superseded"}})
    OBVIOUS
  <2>1. Seal \/ Compact
    <3>1. ~Remember /\ ~Reopen /\ \A q : ~RecallStep(q)
      BY DEF Remember, Reopen, RecallStep, store
    <3>2. (\A c, s : ~Mark(c, s)) /\ (\A c : ~Unmark(c)) /\ \A k : ~SwitchClusterer(k)
      BY DEF Mark, Unmark, SwitchClusterer
    <3> QED
      BY <3>1, <3>2 DEF Next
  <2>2. next \in Nat /\ DOMAIN page \subseteq 1 .. next - 1
    BY DEF IInv, TypeOK, Placement
  <2>3. CASE Seal
    <3>1. PICK n, built :
            /\ Built(built, next, n, Ascending(hot)) /\ DOMAIN built \subseteq PageId
            /\ page' = Merge(built, page) /\ next' = next + Cardinality(DOMAIN built)
      BY <2>3, SealBuilds
    <3>2. Ascending(hot) \in Seq(Cell) /\ ToSet(Ascending(hot)) = hot /\ IsInjective(Ascending(hot))
      BY HotListed
    <3>3. /\ \A p \in DOMAIN built : p \in DOMAIN page' /\ page'[p] = built[p]
          /\ \A p \in DOMAIN page' : p \notin DOMAIN built => ~ (p >= next)
      BY <2>2, <3>1 DEF Merge
    <3>4. NewFit(page', next, next', hot)
      BY <3>1, <3>2, <3>3, BuiltFits
    <3> QED
      BY <2>3, <3>4 DEF Seal
  <2>4. CASE Compact
    <3>1. PICK n, built, kept :
            /\ kept \in Seq(Cell) /\ IsInjective(kept) /\ ToSet(kept) = Sealed \ Gone
            /\ Built(built, next, n, kept) /\ DOMAIN built \subseteq PageId
            /\ page' = built /\ next' = next + Cardinality(DOMAIN built)
      BY <2>4, CompactBuilds
    <3>2. NewFit(page', next, next', Sealed \ Gone)
      BY <3>1, BuiltFits
    <3>3. Sealed \ Gone = {c \in Sealed : Effective(c) \notin {"deprecated", "rejected", "superseded"}}
      BY DEF Gone
    <3> QED
      BY <2>4, <3>2, <3>3 DEF Compact
  <2> QED
    BY <2>1, <2>3, <2>4
<1> QED
  BY <1>1, Invariance, PTL DEF Spec, BuildsFit, NewFit

-----------------------------------------------------------------------------
(* What recall finds.                                                      *)

\* The cells of a request that rank, in hot memory and in the pages read.
Ranking(q) == {c \in HotCandidates(q, HotLexical(q)) \cup ReadPages(q).found : Ranks(c, q)}

FromHot(q) == {c \in HotCandidates(q, HotLexical(q)) : Ranks(c, q)}
FromPages(q) == {c \in ReadPages(q).found : Ranks(c, q)}

LEMMA CandidatesHot ==
    ASSUME NEW q, NEW lexical
    PROVE  HotCandidates(q, lexical) \subseteq HotAllowed(q) /\ HotAllowed(q) \subseteq hot
  BY DEF HotCandidates, HotAllowed

LEMMA ReadCells ==
    ASSUME IInv, NEW q
    PROVE  ReadPages(q).found = UNION {CellsOf(p) : p \in {r \in PageCandidates(index, q) : ~Prunes(r, q)}}
<1> DEFINE seq == Loaded(q)
           S == {r \in PageCandidates(index, q) : ~Prunes(r, q)}
<1>1. seq \in Seq(DOMAIN page) /\ ToSet(seq) = S
  BY LoadedPages
<1>2. ReadPages(q).found = UNION {CellsOf(seq[i]) : i \in 1 .. Len(seq)}
  BY RecallReads DEF ReadInto
<1> HIDE DEF seq, S
<1>3. S = {seq[i] : i \in 1 .. Len(seq)}
  BY <1>1 DEF ToSet
<1> QED
  BY <1>2, <1>3 DEF S

LEMMA ReadStored ==
    ASSUME IInv, NEW q
    PROVE  ReadPages(q).found \subseteq Sealed /\ Ranking(q) \subseteq Stored
           /\ FromHot(q) \subseteq hot /\ FromPages(q) \subseteq Sealed
           /\ FromHot(q) \cup FromPages(q) = Ranking(q)
<1>1. ReadPages(q).found \subseteq Sealed
  <2>1. ToSet(Loaded(q)) \subseteq DOMAIN page
    BY LoadedPages DEF ToSet
  <2>2. {r \in PageCandidates(index, q) : ~Prunes(r, q)} \subseteq DOMAIN page
    BY <2>1, LoadedPages
  <2> QED
    BY <2>2, ReadCells DEF Sealed
<1>2. HotCandidates(q, HotLexical(q)) \subseteq hot
  BY CandidatesHot
<1> QED
  BY <1>1, <1>2 DEF Ranking, FromHot, FromPages, Stored

\* A cell a filter permits has a status the hot index offers.
LEMMA PermittedAllowed ==
    ASSUME NEW q, NEW c \in hot, c \in Cell, FilterPermits(c, q)
    PROVE  c \in HotAllowed(q)
<1>1. Attr[c].status \in Status
  BY RecallAssumption
<1>2. InScopeAndKind(c, q.req) /\ ~Refuses(q.policy, Attr[c].status, Attr[c].secret)
  BY DEF FilterPermits, PolicyPermits
<1>3. Attr[c].status \in Allowed(q.policy)
  BY <1>1, <1>2 DEF Allowed, Refuses, Retired, Status
<1> QED
  BY <1>2, <1>3 DEF HotAllowed

\* In full-scope recall the marker of the scope finds every cell of it.
LEMMA ScopeMarker ==
    ASSUME IInv, NEW q \in Queries, q.req.scope # 0,
           NEW c \in Stored, FilterPermits(c, q)
    PROVE  \E m : m \in q.queried /\ m \in MarkersOf[c]
<1>1. PICK r \in Requests : q = Resolve(r) /\ q.req = r
  BY QueryParts
<1>2. c \in Cell
  <2>1. \A p \in DOMAIN page : CellsOf(p) \subseteq Cell
    BY DEF IInv, TypeOK, CellsOf, ToSet
  <2> QED
    BY <2>1 DEF IInv, TypeOK, Stored, Sealed
<1>3. Attr[c].scope = r.scope
  BY <1>1 DEF FilterPermits, InScopeAndKind
<1>4. <<"scope", r.scope>> \in MarkersOf[c]
  BY <1>2, <1>3 DEF MarkersOf, Cell
<1>5. <<"scope", r.scope>> \in dict
  BY <1>4, MarkersOfSets DEF IInv, Known
<1>6. <<"scope", r.scope>> \in q.queried
  BY <1>1, <1>5 DEF Resolve
<1> QED
  BY <1>4, <1>6

LEMMA FullFinds ==
    ASSUME IInv, NEW q \in Queries, q.req.mode = "full", q.req.scope # 0
    PROVE  Ranking(q) = {c \in Stored : EffectivePermits(c, q) /\ FilterPermits(c, q)}
<1>1. \A c : Ranks(c, q) <=> EffectivePermits(c, q) /\ FilterPermits(c, q)
  BY DEF Ranks, Relevant
<1>2. Ranking(q) \subseteq Stored
  BY ReadStored
<1>3. ASSUME NEW c \in Stored, EffectivePermits(c, q), FilterPermits(c, q)
      PROVE  c \in HotCandidates(q, HotLexical(q)) \cup ReadPages(q).found
  <2>1. PICK m : m \in q.queried /\ m \in MarkersOf[c]
    BY <1>3, ScopeMarker
  <2>2. CASE c \in hot
    <3>1. c \in HotAllowed(q)
      <4>1. c \in Cell
        BY <2>2 DEF IInv, TypeOK
      <4> QED
        BY <1>3, <2>2, <4>1, PermittedAllowed
    <3>2. HotLexical(q) = [d \in {} |-> 0]
      BY DEF HotLexical
    <3> DEFINE lex == [d \in {} |-> 0]
    <3>3. DOMAIN lex = {}
      OBVIOUS
    <3> HIDE DEF lex
    <3>4. HotCandidates(q, lex) = Select(HotMarkers, q.queried, q.req.mode) \cap HotAllowed(q)
      BY <2>1, <3>3 DEF HotCandidates
    <3>5. c \in HasAny(HotMarkers, q.queried)
      BY <2>1, <2>2 DEF HasAny, HotMarkers
    <3>6. c \in Select(HotMarkers, q.queried, q.req.mode)
      BY <3>5 DEF Select
    <3> QED
      BY <3>1, <3>2, <3>4, <3>6 DEF lex
  <2>3. CASE c \notin hot
    <3>1. PICK p \in DOMAIN page : c \in CellsOf(p)
      BY <1>3, <2>3 DEF Stored, Sealed
    <3>2. q.queried \cap Summary(p) # {}
      BY <2>1, <3>1, SummaryHolds
    <3>3. ~Prunes(p, q)
      <4>1. Ranks(c, q)
        BY <1>1, <1>3
      <4> QED
        BY <3>1, <3>2, <4>1, PrunedRanksNone DEF IInv
    <3>4. /\ DOMAIN index = DOMAIN page /\ m \in index[p]
      <4>1. \A r \in DOMAIN page : page[r] \in Seq(Cell)
        BY DEF IInv, TypeOK
      <4>2. DOMAIN index = DOMAIN page /\ Markers(ToSet(page[p])) \subseteq index[p]
        BY <4>1, IndexesHold DEF IInv, Indexed
      <4>3. m \in Summary(p)
        BY <2>1, <3>1, SummaryHolds
      <4> QED
        BY <4>2, <4>3 DEF Summary, CellsOf
    <3>5. p \in PageCandidates(index, q)
      <4>1. p \in ExactQuery(index, q.queried, q.req.mode)
        BY <2>1, <3>4 DEF ExactQuery, Postings
      <4>2. p \in FuseQuery(index, q.queried, q.req.mode)
        BY <2>1, <3>4 DEF FuseQuery, Select, HasAny
      <4> QED
        BY <2>1, <4>1, <4>2 DEF PageCandidates
    <3> QED
      BY <3>1, <3>3, <3>5, ReadCells
  <2> QED
    BY <2>2, <2>3
<1> QED
  BY <1>1, <1>2, <1>3 DEF Ranking

-----------------------------------------------------------------------------
(* The order of what is found.                                             *)

\* Handles that can be ordered: of different cells, with numbers.
Graded(rank) ==
    /\ IsFiniteSet(rank)
    /\ \A h \in rank : /\ h.cell \in Cell /\ h.score \in Int
                       /\ h.lexical \in Int /\ h.evidence \in Int
    /\ \A h, k \in rank : h.cell = k.cell => h = k

\* Ahead, spelt out.
Earlier(h, k) ==
    \/ h.score > k.score
    \/ /\ h.score = k.score
       /\ \/ h.lexical > k.lexical
          \/ /\ h.lexical = k.lexical
             /\ \/ Attr[h.cell].time > Attr[k.cell].time
                \/ Attr[h.cell].time = Attr[k.cell].time /\ h.cell < k.cell

LEMMA AheadIsEarlier ==
    ASSUME NEW h, NEW k, h.cell \in Cell, k.cell \in Cell
    PROVE  Ahead(h, k) <=> Earlier(h, k)
<1> DEFINE m == Key(h)
           n == Key(k)
<1>1. /\ m[1] = h.score /\ m[2] = h.lexical /\ m[3] = Attr[h.cell].time /\ m[4] = -h.cell
      /\ n[1] = k.score /\ n[2] = k.lexical /\ n[3] = Attr[k.cell].time /\ n[4] = -k.cell
  BY DEF Key
<1>2. h.cell \in Int /\ k.cell \in Int
  BY CellsFinite
<1>3. -h.cell > -k.cell <=> h.cell < k.cell
  BY <1>2
<1> HIDE DEF m, n
<1>4. Ahead(h, k) <=> \E i \in 1 .. 4 : m[i] > n[i] /\ \A j \in 1 .. i - 1 : m[j] = n[j]
  BY DEF Ahead, m, n
<1>5. 1 .. 4 = {1, 2, 3, 4}
  OBVIOUS
<1>6. /\ 1 .. 1 - 1 = {} /\ 1 .. 2 - 1 = {1} /\ 1 .. 3 - 1 = {1, 2} /\ 1 .. 4 - 1 = {1, 2, 3}
  OBVIOUS
<1>7. (\E i \in 1 .. 4 : m[i] > n[i] /\ \A j \in 1 .. i - 1 : m[j] = n[j])
        <=> \/ m[1] > n[1]
            \/ m[2] > n[2] /\ m[1] = n[1]
            \/ m[3] > n[3] /\ m[1] = n[1] /\ m[2] = n[2]
            \/ m[4] > n[4] /\ m[1] = n[1] /\ m[2] = n[2] /\ m[3] = n[3]
  <2>1. (\A j \in 1 .. 1 - 1 : m[j] = n[j])
    BY <1>6
  <2>2. (\A j \in 1 .. 2 - 1 : m[j] = n[j]) <=> m[1] = n[1]
    BY <1>6
  <2>3. (\A j \in 1 .. 3 - 1 : m[j] = n[j]) <=> m[1] = n[1] /\ m[2] = n[2]
    BY <1>6
  <2>4. (\A j \in 1 .. 4 - 1 : m[j] = n[j]) <=> m[1] = n[1] /\ m[2] = n[2] /\ m[3] = n[3]
    BY <1>6
  <2> QED
    BY <1>5, <2>1, <2>2, <2>3, <2>4
<1> QED
  BY <1>1, <1>3, <1>4, <1>7 DEF Earlier

\* Different cells are never equal in this order.
LEMMA AheadStrict ==
    ASSUME NEW rank, Graded(rank)
    PROVE  /\ \A h \in rank : ~Ahead(h, h)
           /\ \A h, k \in rank : h # k => Ahead(h, k) \/ Ahead(k, h)
           /\ \A h, k, l \in rank : Ahead(h, k) /\ Ahead(k, l) => Ahead(h, l)
<1>1. \A h \in rank : /\ h.cell \in Cell /\ h.cell \in Int /\ h.score \in Int /\ h.lexical \in Int
                      /\ Attr[h.cell].time \in Int
  <2>1. \A h \in rank : h.cell \in Cell /\ h.score \in Int /\ h.lexical \in Int
    BY DEF Graded
  <2>2. \A c \in Cell : c \in Int /\ Attr[c].time \in Int
    BY CellsFinite, RecallAssumption
  <2> QED
    BY <2>1, <2>2
<1>2. \A h, k \in rank : Ahead(h, k) <=> Earlier(h, k)
  BY <1>1, AheadIsEarlier
<1>3. ASSUME NEW h \in rank PROVE ~Earlier(h, h)
  BY <1>1 DEF Earlier
<1>4. ASSUME NEW h \in rank, NEW k \in rank, h # k PROVE Earlier(h, k) \/ Earlier(k, h)
  <2>1. h.cell # k.cell
    BY <1>4 DEF Graded
  <2> QED
    BY <1>1, <2>1 DEF Earlier
<1>5. ASSUME NEW h \in rank, NEW k \in rank, NEW l \in rank, Earlier(h, k), Earlier(k, l)
      PROVE  Earlier(h, l)
  BY <1>1, <1>5 DEF Earlier
<1> QED
  BY <1>2, <1>3, <1>4, <1>5

LEMMA InOrderLists ==
    ASSUME NEW rank, Graded(rank)
    PROVE  /\ InOrder(rank) \in Seq(rank) /\ Len(InOrder(rank)) = Cardinality(rank)
           /\ ToSet(InOrder(rank)) = rank /\ IsInjective(InOrder(rank))
           /\ \A i, j \in DOMAIN InOrder(rank) :
                  i < j <=> Ahead(InOrder(rank)[i], InOrder(rank)[j])
<1> DEFINE R == {p \in rank \X rank : Ahead(p[1], p[2])}
           a == InOrder(rank)
           m == Cardinality(rank)
<1>1. \A h, k \in rank : <<h, k>> \in R <=> Ahead(h, k)
  OBVIOUS
<1>2. a = Sorted(rank, R)
  BY DEF InOrder
<1> HIDE DEF R, a
<1>3. StrictOrder(rank, R)
  BY <1>1, AheadStrict DEF StrictOrder
<1>4. /\ m \in Nat /\ a \in [1 .. m -> rank]
      /\ \A x \in rank : \E i \in 1 .. m : a[i] = x
      /\ \A i, j \in 1 .. m : i < j <=> <<a[i], a[j]>> \in R
  BY <1>2, <1>3, SortedLists DEF Graded
<1> HIDE DEF m
<1>5. a \in Seq(rank) /\ Len(a) = m /\ DOMAIN a = 1 .. m
  BY <1>4
<1>6. ToSet(a) = rank
  BY <1>4, <1>5 DEF ToSet
<1>7. \A i, j \in DOMAIN a : i < j <=> Ahead(a[i], a[j])
  <2>1. \A i \in 1 .. m : a[i] \in rank
    BY <1>4
  <2> QED
    BY <1>1, <1>4, <1>5, <2>1
<1>8. IsInjective(a)
  <2> SUFFICES ASSUME NEW i \in 1 .. m, NEW j \in 1 .. m, a[i] = a[j] PROVE i = j
    BY <1>5 DEF IsInjective
  <2>1. ~Ahead(a[i], a[j]) /\ ~Ahead(a[j], a[i])
    <3>1. a[i] \in rank
      BY <1>4
    <3> QED
      BY <3>1, AheadStrict
  <2>2. ~ (i < j) /\ ~ (j < i)
    BY <1>5, <1>7, <2>1
  <2> QED
    BY <1>4, <2>2
<1> QED
  BY <1>5, <1>6, <1>7, <1>8 DEF a, m

\* What a cell is worth, apart from the query.
LEMMA StandingIsNumber ==
    ASSUME NEW c \in Cell
    PROVE  Standing(c) \in Int
<1>1. Attr[c].status \in Status /\ Attr[c].trust \in DOMAIN TrustBonus
  BY RecallAssumption
<1>2. TrustBonus[Attr[c].trust] \in Int
  BY <1>1 DEF TrustBonus
<1>3. StatusBonus[Attr[c].status] \in Int
  BY <1>1 DEF StatusBonus, Status
<1>4. Penalty(c) \in Int
  BY DEF Penalty
<1> QED
  BY <1>2, <1>3, <1>4 DEF Standing

LEMMA StoredCells == IInv => Stored \subseteq Cell /\ IsFiniteSet(Stored)
<1> SUFFICES ASSUME IInv PROVE Stored \subseteq Cell
  BY CellsFinite
<1>1. \A p \in DOMAIN page : CellsOf(p) \subseteq Cell
  BY DEF IInv, TypeOK, CellsOf, ToSet
<1> QED
  BY <1>1 DEF IInv, TypeOK, Stored, Sealed

\* A function of finitely many things has finitely many values.
LEMMA ImageFinite ==
    ASSUME NEW S, IsFiniteSet(S), NEW f
    PROVE  IsFiniteSet({f[x] : x \in S})
<1> DEFINE g == [x \in S |-> f[x]]
           T == {f[x] : x \in S}
<1>1. g \in Surjection(S, T)
  BY DEF Surjection
<1> QED
  BY <1>1, FS_Surjection

LEMMA FullGraded ==
    ASSUME NEW S \in SUBSET Cell
    PROVE  Graded({FullHandle(c) : c \in S})
<1> DEFINE rank == {FullHandle(c) : c \in S}
           f == [c \in S |-> FullHandle(c)]
<1>1. IsFiniteSet(rank)
  <2>1. rank = {f[c] : c \in S}
    OBVIOUS
  <2>2. IsFiniteSet(S)
    BY CellsFinite
  <2> HIDE DEF f
  <2> QED
    BY <2>1, <2>2, ImageFinite
<1>2. \A h \in rank : /\ h.cell \in Cell /\ h.score \in Int /\ h.lexical \in Int /\ h.evidence \in Int
  BY StandingIsNumber DEF FullHandle
<1>3. \A h, k \in rank : h.cell = k.cell => h = k
  BY DEF FullHandle
<1> QED
  BY <1>1, <1>2, <1>3 DEF Graded

LEMMA FoundInFull ==
    ASSUME IInv, NEW q, q.req.mode = "full"
    PROVE  Found(q) = {FullHandle(c) : c \in Ranking(q)}
<1>1. Found(q) = {FullHandle(c) : c \in FromHot(q) \cup FromPages(q)}
  BY DEF Found, Ranked, RankedWith, Handles, FromHot, FromPages
<1> QED
  BY <1>1, ReadStored

\* Full-scope recall returns every cell of the scope it may return, hot, sealed
\* or in the cache, and no other, whatever the index, the clusterer, the limits,
\* the overrides and the pages that were skipped or evicted on the way.
THEOREM FullScopeFindsAll == Spec => []FullScopeComplete
<1>1. IInv => FullScopeComplete
  <2> SUFFICES ASSUME IInv, NEW q \in Queries, q.req.mode = "full", q.req.scope # 0
               PROVE  Items(Answer(q)) = {c \in Stored : EffectivePermits(c, q) /\ FilterPermits(c, q)}
    BY DEF FullScopeComplete
  <2>1. Found(q) = {FullHandle(c) : c \in Ranking(q)}
    BY FoundInFull
  <2>2. Ranking(q) \in SUBSET Cell
    BY ReadStored, StoredCells
  <2>3. Graded(Found(q))
    BY <2>1, <2>2, FullGraded
  <2>4. Answer(q) = InOrder(Found(q))
    BY DEF Answer, Packet, Fuses
  <2>5. ToSet(Answer(q)) = Found(q)
    BY <2>3, <2>4, InOrderLists
  <2>6. Items(Answer(q)) = {h.cell : h \in Found(q)}
    BY <2>5 DEF Items, ToSet
  <2>7. {h.cell : h \in Found(q)} = Ranking(q)
    <3>1. \A c \in Ranking(q) : FullHandle(c).cell = c
      BY DEF FullHandle
    <3> QED
      BY <2>1, <3>1
  <2> QED
    BY <2>6, <2>7, FullFinds
<1> QED
  BY <1>1, Invariance, PTL

-----------------------------------------------------------------------------
(* Scores are numbers.                                                     *)

\* The sum of the weights w over a finite set, one element at a time.
Weights(S, w) == IsFiniteSet(S) /\ w \in [S -> Int]

SumOf(h, S, w) ==
    h = [s \in SUBSET S |-> IF s = {} THEN 0
                            ELSE w[CHOOSE x \in s : TRUE] + h[s \ {CHOOSE x \in s : TRUE}]]

\* One element less.
LEMMA OneLess ==
    ASSUME NEW S, IsFiniteSet(S), NEW s \in SUBSET S, s # {}
    PROVE  /\ (CHOOSE x \in s : TRUE) \in s
           /\ s \ {CHOOSE x \in s : TRUE} \in SUBSET S
           /\ Cardinality(s) \in Nat \ {0}
           /\ Cardinality(s \ {CHOOSE x \in s : TRUE}) = Cardinality(s) - 1
<1> DEFINE x == CHOOSE x \in s : TRUE
<1>1. x \in s
  OBVIOUS
<1> HIDE DEF x
<1>2. IsFiniteSet(s)
  BY FS_Subset
<1>3. Cardinality(s) \in Nat /\ Cardinality(s) # 0
  BY <1>2, FS_CardinalityType, FS_EmptySet
<1>4. Cardinality(s \ {x}) = Cardinality(s) - 1
  BY <1>1, <1>2, FS_RemoveElement
<1> QED
  BY <1>1, <1>3, <1>4 DEF x

LEMMA SumExists ==
    ASSUME NEW S, NEW w, Weights(S, w)
    PROVE  \E h : SumOf(h, S, w)
<1> DEFINE n == Cardinality(S)
           Pick(s) == CHOOSE x \in s : TRUE
           D(k) == {s \in SUBSET S : Cardinality(s) <= k}
           Step(s, h) == IF s = {} THEN 0 ELSE w[Pick(s)] + h[s \ {Pick(s)}]
           Good(h, k) == h = [s \in D(k) |-> h[s]] /\ \A s \in D(k) : h[s] \in Int /\ h[s] = Step(s, h)
           T == {k \in 0 .. n : \E h : Good(h, k)}
<1>1. IsFiniteSet(S) /\ w \in [S -> Int] /\ n \in Nat
  BY FS_CardinalityType DEF Weights
<1>2. \A s \in SUBSET S : Cardinality(s) \in Nat /\ (Cardinality(s) = 0 <=> s = {})
  <2>1. ASSUME NEW s \in SUBSET S PROVE Cardinality(s) \in Nat /\ (Cardinality(s) = 0 <=> s = {})
    BY <1>1, FS_Subset, FS_CardinalityType, FS_EmptySet
  <2> QED
    BY <2>1
<1>3. \A s \in SUBSET S : s # {} => /\ Pick(s) \in s /\ s \ {Pick(s)} \in SUBSET S
                                    /\ Cardinality(s \ {Pick(s)}) = Cardinality(s) - 1
  BY <1>1, OneLess
<1> HIDE DEF n, Pick
<1>4. 0 \in T
  <2> DEFINE e == [s \in D(0) |-> 0]
  <2>1. \A s \in D(0) : s = {}
    BY <1>2
  <2>2. Good(e, 0)
    BY <2>1
  <2> HIDE DEF Good, e
  <2> QED
    BY <1>1, <2>2
<1>5. ASSUME NEW k \in 0 .. n - 1, k \in T PROVE k + 1 \in T
  <2>1. PICK h : Good(h, k)
    BY <1>5
  <2> DEFINE j == k + 1
             g == [s \in D(j) |-> IF s \in D(k) THEN h[s] ELSE w[Pick(s)] + h[s \ {Pick(s)}]]
  <2>2. k \in Nat /\ j \in 0 .. n
    BY <1>1
  <2>3. ASSUME NEW s \in D(j), s # {} PROVE s \ {Pick(s)} \in D(k) /\ s \ {Pick(s)} \in D(j) /\ Pick(s) \in S
    <3>1. Cardinality(s) <= k + 1 /\ Cardinality(s) \in Nat
      BY <1>2
    <3>2. s \ {Pick(s)} \in SUBSET S /\ Cardinality(s \ {Pick(s)}) = Cardinality(s) - 1 /\ Pick(s) \in S
      BY <1>3, <2>3
    <3>3. Cardinality(s) - 1 <= k /\ Cardinality(s) - 1 <= k + 1
      BY <2>2, <3>1
    <3> QED
      BY <3>2, <3>3
  <2>4. ASSUME NEW s \in D(j) PROVE g[s] \in Int /\ g[s] = Step(s, g)
    <3>1. CASE s \in D(k)
      <4>1. g[s] = h[s] /\ h[s] \in Int /\ h[s] = Step(s, h)
        BY <2>1, <3>1
      <4>2. s # {} => g[s \ {Pick(s)}] = h[s \ {Pick(s)}]
        BY <2>3
      <4> HIDE DEF g
      <4> QED
        BY <4>1, <4>2
    <3>2. CASE s \notin D(k)
      <4>1. s # {}
        BY <1>2, <2>2, <3>2
      <4>2. s \ {Pick(s)} \in D(k) /\ s \ {Pick(s)} \in D(j) /\ Pick(s) \in S
        BY <2>3, <4>1
      <4>3. g[s] = w[Pick(s)] + h[s \ {Pick(s)}] /\ g[s \ {Pick(s)}] = h[s \ {Pick(s)}]
        BY <3>2, <4>2
      <4>4. h[s \ {Pick(s)}] \in Int /\ w[Pick(s)] \in Int
        BY <1>1, <2>1, <4>2
      <4> HIDE DEF g, D
      <4> QED
        BY <4>1, <4>3, <4>4
    <3> QED
      BY <3>1, <3>2
  <2>5. Good(g, j)
    <3>1. g = [s \in D(j) |-> g[s]]
      OBVIOUS
    <3> HIDE DEF g, D
    <3> QED
      BY <2>4, <3>1
  <2> HIDE DEF Good
  <2> QED
    BY <2>2, <2>5
<1>6. PICK h : Good(h, n)
  <2>1. n \in 0 .. n
    BY <1>1
  <2> HIDE DEF T
  <2>2. n \in T
    BY <1>1, <1>4, <1>5, <2>1, UpTo
  <2> QED
    BY <2>2 DEF T
<1>7. D(n) = SUBSET S
  <2>1. \A s \in SUBSET S : Cardinality(s) <= n
    BY <1>1, FS_Subset DEF n
  <2> QED
    BY <2>1
<1>8. SumOf(h, S, w)
  <2>1. h = [s \in SUBSET S |-> h[s]] /\ \A s \in SUBSET S : h[s] = Step(s, h)
    BY <1>6, <1>7
  <2> QED
    BY <2>1 DEF SumOf, Pick
<1> QED
  BY <1>8

LEMMA SumIsNumber ==
    ASSUME NEW S, NEW w, Weights(S, w), NEW h, SumOf(h, S, w)
    PROVE  h[S] \in Int
<1> DEFINE n == Cardinality(S)
           Pick(s) == CHOOSE x \in s : TRUE
           T == {k \in 0 .. n : \A s \in SUBSET S : Cardinality(s) = k => h[s] \in Int}
<1>1. IsFiniteSet(S) /\ w \in [S -> Int] /\ n \in Nat
  BY FS_CardinalityType DEF Weights
<1>2. \A s \in SUBSET S : Cardinality(s) \in Nat /\ (Cardinality(s) = 0 <=> s = {})
  <2>1. ASSUME NEW s \in SUBSET S PROVE Cardinality(s) \in Nat /\ (Cardinality(s) = 0 <=> s = {})
    BY <1>1, FS_Subset, FS_CardinalityType, FS_EmptySet
  <2> QED
    BY <2>1
<1>3. \A s \in SUBSET S : s # {} => /\ Pick(s) \in s /\ s \ {Pick(s)} \in SUBSET S
                                    /\ Cardinality(s \ {Pick(s)}) = Cardinality(s) - 1
  BY <1>1, OneLess
<1>4. \A s \in SUBSET S : h[s] = IF s = {} THEN 0 ELSE w[Pick(s)] + h[s \ {Pick(s)}]
  BY DEF SumOf
<1> HIDE DEF n, Pick
<1>5. 0 \in T
  <2>1. h[{}] = 0
    BY <1>4
  <2>2. \A s \in SUBSET S : Cardinality(s) = 0 => h[s] \in Int
    BY <1>2, <2>1
  <2>3. 0 \in 0 .. n
    BY <1>1
  <2> QED
    BY <2>2, <2>3
<1>6. ASSUME NEW k \in 0 .. n - 1, k \in T PROVE k + 1 \in T
  <2>1. k \in Nat /\ k + 1 \in 0 .. n
    BY <1>1
  <2>2. ASSUME NEW s \in SUBSET S, Cardinality(s) = k + 1 PROVE h[s] \in Int
    <3>1. s # {}
      BY <1>2, <2>1, <2>2
    <3>2. /\ s \ {Pick(s)} \in SUBSET S /\ Cardinality(s \ {Pick(s)}) = k /\ Pick(s) \in S
      BY <1>3, <2>1, <2>2, <3>1
    <3>3. h[s \ {Pick(s)}] \in Int /\ w[Pick(s)] \in Int
      BY <1>1, <1>6, <3>2
    <3> QED
      BY <1>4, <3>1, <3>3
  <2> QED
    BY <2>1, <2>2
<1>7. n \in T
  <2> HIDE DEF T
  <2>1. \A k \in 0 .. n : k \in T
    BY <1>1, <1>5, <1>6, UpTo
  <2> QED
    BY <1>1, <2>1
<1> QED
  BY <1>7 DEF n

\* The lengths of some documents, added up.
Total(length, docs) == MapThenSumSet(LAMBDA d : length[d], docs)

LEMMA LengthsAdded ==
    ASSUME NEW docs, IsFiniteSet(docs), NEW length, \A d \in docs : length[d] \in Nat
    PROVE  Total(length, docs) \in Int
<1> DEFINE w == [d \in docs |-> length[d]]
           Solves(h) == h = [s \in SUBSET docs |->
                                IF s = {} THEN 0
                                ELSE length[CHOOSE x \in s : TRUE] + h[s \ {CHOOSE x \in s : TRUE}]]
           iter == CHOOSE h : Solves(h)
<1>1. Weights(docs, w)
  BY DEF Weights
<1>2. \A s \in SUBSET docs : s # {} => w[CHOOSE x \in s : TRUE] = length[CHOOSE x \in s : TRUE]
  <2>1. \A s \in SUBSET docs : s # {} => (CHOOSE x \in s : TRUE) \in docs
    OBVIOUS
  <2> QED
    BY <2>1
<1> HIDE DEF w
<1>3. \A h : SumOf(h, docs, w) <=> Solves(h)
  BY <1>2 DEF SumOf
<1>4. PICK h : SumOf(h, docs, w)
  BY <1>1, SumExists
<1>5. Solves(iter)
  <2>1. Solves(h)
    BY <1>3, <1>4
  <2> HIDE DEF Solves
  <2> QED
    BY <2>1
<1>6. Total(length, docs) = iter[docs]
  BY DEF Total, MapThenSumSet, MapThenFoldSet
<1> HIDE DEF iter
<1>7. iter[docs] \in Int
  BY <1>1, <1>3, <1>5, SumIsNumber
<1> QED
  BY <1>6, <1>7

\* The tokens of a cell are finitely many.
LEMMA TokensFinite ==
    ASSUME NEW c \in Cell
    PROVE  /\ IsFiniteSet(Words[c]) /\ IsFiniteSet(Tokens[c])
           /\ DocumentLen[c] \in Nat /\ TokenCount[c] \in Nat
<1>1. IsFiniteSet(ToSet(Attr[c].text)) /\ IsFiniteSet(Attr[c].subject)
  BY RecallAssumption
<1>2. Words[c] = ToSet(Attr[c].text) /\ Tokens[c] = Words[c] \cup Attr[c].subject
  BY DEF Words, Tokens, Cell
<1>3. IsFiniteSet(Tokens[c])
  BY <1>1, <1>2, FS_Union
<1>4. DocumentLen[c] = Cardinality(Words[c]) + Cardinality(Attr[c].subject)
      /\ TokenCount[c] = Cardinality(Tokens[c])
  BY DEF DocumentLen, TokenCount, Cell
<1>5. Cardinality(Words[c]) \in Nat /\ Cardinality(Attr[c].subject) \in Nat /\ Cardinality(Tokens[c]) \in Nat
  BY <1>1, <1>2, <1>3, FS_CardinalityType
<1> QED
  BY <1>1, <1>2, <1>3, <1>4, <1>5

\* The weight of one term: a quotient of numbers.
LEMMA Quotient ==
    ASSUME NEW idf \in Int, NEW tf \in Nat \ {0}, NEW total \in Nat \ {0}, NEW len \in Nat, NEW n \in Nat
    PROVE  (idf * 22 * tf * total) \div ((10 * tf + 3) * total + 9 * len * n) \in Int
<1> DEFINE a == idf * 22 * tf * total
           b == (10 * tf + 3) * total
           c == len * n
<1>1. a \in Int
  OBVIOUS
<1>2. b \in Nat \ {0}
  <2>1. 10 * tf + 3 \in Nat \ {0}
    OBVIOUS
  <2> DEFINE d == 10 * tf + 3
  <2> HIDE DEF d
  <2>2. d * total \in Nat \ {0}
    BY <2>1 DEF d
  <2> QED
    BY <2>2 DEF d
<1>3. c \in Nat
  OBVIOUS
<1> HIDE DEF a, b, c
<1>4. b + 9 * c \in Nat \ {0}
  BY <1>2, <1>3
<1>5. a \div (b + 9 * c) \in Int
  BY <1>1, <1>4
<1>6. 9 * len * n = 9 * (len * n)
  OBVIOUS
<1> QED
  BY <1>5, <1>6 DEF a, b, c

\* What BM25 says of one of the documents.
LEMMA BM25IsNumber ==
    ASSUME NEW docs \in SUBSET Cell, NEW c \in docs, NEW terms, NEW tf, NEW length,
           \A d \in docs : length[d] \in Nat, \A t \in Tokens[c] : tf[c][t] \in Nat \ {0}
    PROVE  BM25(c, terms, docs, tf, length) \in Int
<1> DEFINE n == Cardinality(docs)
           sum == MapThenSumSet(LAMBDA d : length[d], docs)
           total == IF sum < n THEN n ELSE sum
           df(t) == Cardinality({d \in docs : t \in Tokens[d]})
           Weight(t) == (Idf[n][df(t)] * 22 * tf[c][t] * total)
                            \div ((10 * tf[c][t] + 3) * total + 9 * length[c] * n)
           S == terms \cap Tokens[c]
           w == [t \in S |-> Weight(t)]
           Solves(h) == h = [s \in SUBSET S |->
                                IF s = {} THEN 0
                                ELSE Weight(CHOOSE x \in s : TRUE) + h[s \ {CHOOSE x \in s : TRUE}]]
           iter == CHOOSE h : Solves(h)
<1>0. BM25(c, terms, docs, tf, length) = MapThenSumSet(Weight, S)
  BY DEF BM25
<1>1. IsFiniteSet(docs) /\ n \in Nat /\ c \in Cell
  BY CellsFinite
<1>2. n \in 1 .. Cardinality(Cell)
  <2>1. n # 0
    BY <1>1, FS_EmptySet
  <2>2. n <= Cardinality(Cell) /\ Cardinality(Cell) \in Nat
    BY CellsFinite, FS_Subset
  <2> QED
    BY <1>1, <2>1, <2>2
<1>3. sum \in Int
  <2>1. Total(length, docs) \in Int
    BY <1>1, LengthsAdded
  <2> QED
    BY <2>1 DEF Total
<1> HIDE DEF sum
<1>4. total \in Nat \ {0}
  BY <1>1, <1>2, <1>3
<1>5. \A t \in Tokens[c] : df(t) \in 1 .. n
  <2>1. ASSUME NEW t \in Tokens[c] PROVE df(t) \in 1 .. n
    <3> DEFINE D == {d \in docs : t \in Tokens[d]}
    <3>1. D \subseteq docs /\ c \in D
      OBVIOUS
    <3> HIDE DEF D
    <3>2. IsFiniteSet(D) /\ Cardinality(D) <= n
      BY <1>1, <3>1, FS_Subset
    <3>3. Cardinality(D) \in Nat /\ Cardinality(D) # 0
      BY <3>1, <3>2, FS_CardinalityType, FS_EmptySet
    <3> QED
      BY <1>1, <3>2, <3>3 DEF D
  <2> QED
    BY <2>1
<1>6. \A t \in Tokens[c] : Idf[n][df(t)] \in Int
  <2>1. \A df0 \in 1 .. n : Idf[n][df0] \in Int
    BY <1>2, RankingAssumption DEF Cell
  <2> HIDE DEF df
  <2> QED
    BY <1>5, <2>1
<1>7. \A t \in S : Weight(t) \in Int
  <2>1. ASSUME NEW t \in S PROVE Weight(t) \in Int
    <3>1. Idf[n][df(t)] \in Int /\ tf[c][t] \in Nat \ {0} /\ length[c] \in Nat
      BY <1>6
    <3> HIDE DEF n, total, df
    <3> QED
      BY <1>1, <1>4, <3>1, Quotient
  <2> QED
    BY <2>1
<1>8. IsFiniteSet(S)
  BY <1>1, TokensFinite, FS_Subset
<1>9. Weights(S, w)
  <2> HIDE DEF Weight, S
  <2> QED
    BY <1>7, <1>8 DEF Weights
<1> HIDE DEF n, total, df, S
<1>10. \A s \in SUBSET S : s # {} => w[CHOOSE x \in s : TRUE] = Weight(CHOOSE x \in s : TRUE)
  <2>1. \A s \in SUBSET S : s # {} => (CHOOSE x \in s : TRUE) \in S
    OBVIOUS
  <2>2. \A t \in S : w[t] = Weight(t)
    OBVIOUS
  <2> HIDE DEF Weight, w
  <2> QED
    BY <2>1, <2>2
<1> HIDE DEF w
<1>11. \A h : SumOf(h, S, w) <=> Solves(h)
  <2> SUFFICES ASSUME NEW h PROVE SumOf(h, S, w) <=> Solves(h)
    OBVIOUS
  <2> DEFINE of(s)  == IF s = {} THEN 0
                       ELSE w[CHOOSE x \in s : TRUE] + h[s \ {CHOOSE x \in s : TRUE}]
             sol(s) == IF s = {} THEN 0
                       ELSE Weight(CHOOSE x \in s : TRUE) + h[s \ {CHOOSE x \in s : TRUE}]
  <2>1. \A s \in SUBSET S : of(s) = sol(s)
    <3> HIDE DEF Weight
    <3> QED
      BY <1>10
  <2>2. SumOf(h, S, w) <=> h = [s \in SUBSET S |-> of(s)]
    BY DEF SumOf
  <2>3. Solves(h) <=> h = [s \in SUBSET S |-> sol(s)]
    OBVIOUS
  <2> HIDE DEF of, sol, Solves
  <2>4. [s \in SUBSET S |-> of(s)] = [s \in SUBSET S |-> sol(s)]
    BY <2>1
  <2> QED
    BY <2>2, <2>3, <2>4
<1>12. PICK h : SumOf(h, S, w)
  BY <1>9, SumExists
<1>13. Solves(iter)
  <2>1. Solves(h)
    BY <1>11, <1>12
  <2> HIDE DEF Solves
  <2> QED
    BY <2>1
<1>14. MapThenSumSet(Weight, S) = iter[S]
  BY DEF MapThenSumSet, MapThenFoldSet
<1> HIDE DEF iter
<1>15. iter[S] \in Int
  <2> HIDE DEF Weight
  <2>1. SumOf(iter, S, w)
    BY <1>11, <1>13
  <2> QED
    BY <1>9, <2>1, SumIsNumber
<1> QED
  BY <1>0, <1>14, <1>15

LEMMA BonusIsNumber ==
    ASSUME NEW docs \in SUBSET Cell, NEW c \in docs, NEW terms, NEW length,
           \A d \in docs : length[d] \in Nat
    PROVE  Bonus(c, terms, docs, length) \in Int
<1> DEFINE b == BM25(c, terms, docs, Once, length)
<1>1. \A t \in Tokens[c] : Once[c][t] \in Nat \ {0}
  <2>1. c \in DOMAIN Attr
    BY DEF Cell
  <2> QED
    BY <2>1 DEF Once
<1>2. b \in Int
  BY <1>1, BM25IsNumber
<1> HIDE DEF b
<1>3. (8 * b + 500) \div 1000 \in Int
  BY <1>2
<1>4. (IF terms \subseteq Tokens[c] THEN 4 ELSE 0) \in Int
  OBVIOUS
<1> QED
  BY <1>3, <1>4 DEF Bonus, b

LEMMA RelevanceIsNumber ==
    ASSUME NEW c \in Cell, NEW ms, NEW query
    PROVE  Relevance(c, ms, query) \in Int
<1> DEFINE a == Cardinality(ms \cap MarkersOf[c])
           overlap == Cardinality(Words[c] \cap ToSet(query))
<1>1. a \in Nat
  BY MarkersFinite, FS_Subset, FS_CardinalityType
<1>2. overlap \in Nat
  BY TokensFinite, FS_Subset, FS_CardinalityType
<1>3. Relevance(c, ms, query)
        = 10 * a + (IF Attr[c].subject # {} /\ Attr[c].subject \subseteq ToSet(query) THEN 5 ELSE 0)
            + 3 * (IF overlap > 3 THEN 3 ELSE overlap)
            + (IF Attr[c].text # <<>> /\ Attr[c].text = query THEN 3 ELSE 0)
  BY DEF Relevance
<1> HIDE DEF a, overlap
<1> QED
  BY <1>1, <1>2, <1>3

\* The words of cells that are found add numbers to their scores.
LEMMA BonusesAreNumbers ==
    ASSUME NEW cells \in SUBSET Cell, NEW terms
    PROVE  /\ DOMAIN HotBonus(cells, terms) \subseteq cells
           /\ DOMAIN SealedBonus(cells, terms) \subseteq cells
           /\ \A c \in DOMAIN HotBonus(cells, terms) : HotBonus(cells, terms)[c] \in Int
           /\ \A c \in DOMAIN SealedBonus(cells, terms) : SealedBonus(cells, terms)[c] \in Int
<1> DEFINE docs == Matching(cells, terms)
<1>1. docs \subseteq cells /\ docs \in SUBSET Cell
  BY DEF Matching
<1>2. \A d \in Cell : TokenCount[d] \in Nat /\ DocumentLen[d] \in Nat
  BY TokensFinite
<1> HIDE DEF docs
<1>3. \A c \in docs : Bonus(c, terms, cells, TokenCount) \in Int
  BY <1>1, <1>2, BonusIsNumber
<1>4. \A c \in docs : Bonus(c, terms, docs, DocumentLen) \in Int
  BY <1>1, <1>2, BonusIsNumber
<1>5. HotBonus(cells, terms) = [c \in docs |-> Bonus(c, terms, cells, TokenCount)]
  BY DEF HotBonus, docs
<1>6. SealedBonus(cells, terms) = [c \in docs |-> Bonus(c, terms, docs, DocumentLen)]
  BY DEF SealedBonus, docs
<1> QED
  BY <1>1, <1>3, <1>4, <1>5, <1>6

\* What recall ranks are handles that can be ordered, of the cells that rank.
LEMMA FoundGraded ==
    ASSUME IInv, NEW q
    PROVE  Graded(Found(q)) /\ {h.cell : h \in Found(q)} = Ranking(q)
<1>1. /\ FromHot(q) \cup FromPages(q) = Ranking(q) /\ Ranking(q) \in SUBSET Cell
      /\ Ranking(q) \subseteq Stored /\ Stored \in SUBSET Cell /\ FromPages(q) \in SUBSET Cell
  BY ReadStored, StoredCells
<1>2. CASE q.req.mode = "full"
  <2>1. Found(q) = {FullHandle(c) : c \in Ranking(q)}
    BY <1>2, FoundInFull
  <2>2. \A c \in Ranking(q) : FullHandle(c).cell = c
    BY DEF FullHandle
  <2>3. Graded({FullHandle(c) : c \in Ranking(q)})
    BY <1>1, FullGraded
  <2>4. {h.cell : h \in Found(q)} = Ranking(q)
    BY <2>1, <2>2
  <2> QED
    BY <2>1, <2>3, <2>4
<1>3. CASE q.req.mode # "full"
  <2> DEFINE lexical == HotLexical(q)
             sealed == SealedBonus(FromPages(q), q.terms)
             bonus == Merge(lexical, sealed)
             Evidence(c) == IF FromHot(q) # {} THEN 0
                            ELSE BM25(c, q.terms, Stored, TermFrequency, DocumentLen)
             rank == {Handle(c, q, bonus, Evidence(c)) : c \in Ranking(q)}
  <2>1. Found(q) = rank
    BY <1>1, <1>3 DEF Found, Ranked, RankedWith, Handles, FromHot, FromPages
  <2>2. \A c \in DOMAIN lexical : lexical[c] \in Int
    <3>1. HotAllowed(q) \in SUBSET Cell
      BY CandidatesHot DEF IInv, TypeOK
    <3> DEFINE b == HotBonus(HotAllowed(q), q.terms)
    <3>2. \A c \in DOMAIN b : b[c] \in Int
      BY <3>1, BonusesAreNumbers
    <3> HIDE DEF b
    <3>3. lexical = [c \in {d \in DOMAIN b : FilterPermits(d, q) /\ EffectivePermits(d, q)} |-> b[c]]
      BY <1>3 DEF HotLexical, b
    <3> HIDE DEF lexical
    <3> QED
      BY <3>2, <3>3
  <2>3. \A c \in DOMAIN sealed : sealed[c] \in Int
    BY <1>1, BonusesAreNumbers
  <2> HIDE DEF lexical, sealed
  <2>4. \A c \in DOMAIN bonus : bonus[c] \in Int
    BY <2>2, <2>3 DEF Merge
  <2>5. \A c \in Ranking(q) : Evidence(c) \in Int
    <3>1. \A d \in Stored : DocumentLen[d] \in Nat
      BY <1>1, TokensFinite
    <3>2. \A c \in Cell : \A t \in Tokens[c] : TermFrequency[c][t] \in Nat \ {0}
      BY DEF TermFrequency, Cell
    <3>3. \A c \in Ranking(q) : BM25(c, q.terms, Stored, TermFrequency, DocumentLen) \in Int
      BY <1>1, <3>1, <3>2, BM25IsNumber
    <3> QED
      BY <3>3
  <2> HIDE DEF bonus, Evidence
  <2>6. \A c \in Ranking(q) : LET h == Handle(c, q, bonus, Evidence(c))
                              IN  h.cell = c /\ h.score \in Int /\ h.lexical \in Int /\ h.evidence \in Int
    <3> SUFFICES ASSUME NEW c \in Ranking(q)
                 PROVE  LET h == Handle(c, q, bonus, Evidence(c))
                        IN  h.cell = c /\ h.score \in Int /\ h.lexical \in Int /\ h.evidence \in Int
      OBVIOUS
    <3> DEFINE l == IF c \in DOMAIN bonus THEN bonus[c] ELSE 0
               e == Evidence(c)
               r == Relevance(c, q.queried, q.req.query)
    <3>1. l \in Int /\ e \in Int
      BY <2>4, <2>5
    <3>2. r \in Int /\ Standing(c) \in Int
      BY <1>1, RelevanceIsNumber, StandingIsNumber
    <3>3. Handle(c, q, bonus, e) = [cell |-> c, score |-> r + Standing(c) + l, lexical |-> l, evidence |-> e]
      BY DEF Handle
    <3> HIDE DEF l, e, r
    <3>4. r + Standing(c) + l \in Int
      BY <3>1, <3>2
    <3> QED
      BY <3>1, <3>3, <3>4 DEF e
  <2> DEFINE f == [c \in Ranking(q) |-> Handle(c, q, bonus, Evidence(c))]
  <2>7. IsFiniteSet(rank)
    <3>1. rank = {f[c] : c \in Ranking(q)}
      OBVIOUS
    <3>2. IsFiniteSet(Ranking(q))
      BY <1>1, CellsFinite
    <3> HIDE DEF f
    <3> QED
      BY <3>1, <3>2, ImageFinite
  <2>8. \A h \in rank : /\ h.cell \in Cell /\ h.score \in Int /\ h.lexical \in Int /\ h.evidence \in Int
    BY <1>1, <2>6
  <2>9. (\A h, k \in rank : h.cell = k.cell => h = k) /\ {h.cell : h \in rank} = Ranking(q)
    <3>1. \A c \in Ranking(q) : Handle(c, q, bonus, Evidence(c)).cell = c
      BY <2>6
    <3> QED
      BY <3>1
  <2> HIDE DEF rank
  <2> QED
    BY <2>1, <2>7, <2>8, <2>9 DEF Graded
<1> QED
  BY <1>2, <1>3

-----------------------------------------------------------------------------
(* The fused order.                                                        *)

\* Products of numbers.
LEMMA TimesMore ==
    ASSUME NEW a \in Int, NEW b \in Int, NEW c \in Nat \ {0}
    PROVE  a > b <=> a * c > b * c
<1>1. ASSUME a > b PROVE a * c > b * c
  <2>1. a - b >= 1
    BY <1>1
  <2>2. (a - b) * c >= c
    BY <2>1
  <2>3. (a - b) * c = a * c - b * c
    OBVIOUS
  <2> QED
    BY <2>2, <2>3
<1>2. ASSUME ~ (a > b) PROVE ~ (a * c > b * c)
  <2>1. b - a >= 0
    BY <1>2
  <2>2. (b - a) * c >= 0
    BY <2>1
  <2>3. (b - a) * c = b * c - a * c
    OBVIOUS
  <2> QED
    BY <2>2, <2>3
<1> QED
  BY <1>1, <1>2

\* Fractions are compared by products across.
LEMMA Across ==
    ASSUME NEW a \in Nat, NEW b \in Nat, NEW c \in Nat,
           NEW x \in Nat \ {0}, NEW y \in Nat \ {0}, NEW z \in Nat \ {0}
    PROVE  /\ a * y >= b * x /\ b * z >= c * y => a * z >= c * x
           /\ (a * y > b * x /\ b * z >= c * y) \/ (a * y >= b * x /\ b * z > c * y) => a * z > c * x
<1> DEFINE ay == a * y
           bx == b * x
           bz == b * z
           cy == c * y
           az == a * z
           cx == c * x
<1>1. ay \in Int /\ bx \in Int /\ bz \in Int /\ cy \in Int /\ az \in Int /\ cx \in Int
  OBVIOUS
<1>2. ay * z = az * y /\ bx * z = bz * x /\ cy * x = cx * y
  OBVIOUS
<1> HIDE DEF ay, bx, bz, cy, az, cx
<1>3. /\ ay > bx <=> ay * z > bx * z
      /\ bx > ay <=> bx * z > ay * z
      /\ bz > cy <=> bz * x > cy * x
      /\ cy > bz <=> cy * x > bz * x
      /\ az > cx <=> az * y > cx * y
      /\ cx > az <=> cx * y > az * y
  BY <1>1, TimesMore
<1>4. ay * z \in Int /\ bx * z \in Int /\ cy * x \in Int
  BY <1>1
<1>5. /\ ay >= bx /\ bz >= cy => az >= cx
      /\ (ay > bx /\ bz >= cy) \/ (ay >= bx /\ bz > cy) => az > cx
  <2> DEFINE p == ay * z
             q == bx * z
             r == cy * x
  <2>1. p \in Int /\ q \in Int /\ r \in Int
    BY <1>4
  <2>2. /\ ay > bx <=> p > q
        /\ bx > ay <=> q > p
        /\ bz > cy <=> q > r
        /\ cy > bz <=> r > q
        /\ az > cx <=> p > r
        /\ cx > az <=> r > p
    BY <1>2, <1>3
  <2> HIDE DEF p, q, r
  <2> QED
    BY <1>1, <2>1, <2>2
<1> QED
  BY <1>5 DEF ay, bx, bz, cy, az, cx

\* A pool of handles to fuse.
Pool(pool, n) ==
    /\ n \in Nat /\ DOMAIN pool = 1 .. n
    /\ \A i \in 1 .. n : pool[i].evidence \in Int

LEMMA WordRanks ==
    ASSUME NEW pool, NEW n, Pool(pool, n)
    PROVE  /\ \A i \in 1 .. n : WordRank(pool, i) \in Nat
           /\ \A i, j \in 1 .. n : i < j /\ pool[i].evidence >= pool[j].evidence
                                     => WordRank(pool, i) < WordRank(pool, j)
<1> DEFINE B(i) == {j \in DOMAIN pool : \/ pool[j].evidence > pool[i].evidence
                                        \/ pool[j].evidence = pool[i].evidence /\ j < i}
<1>1. n \in Nat /\ DOMAIN pool = 1 .. n /\ \A i \in 1 .. n : pool[i].evidence \in Int
  BY DEF Pool
<1>2. \A i \in 1 .. n : IsFiniteSet(B(i)) /\ Cardinality(B(i)) \in Nat
  <2>1. IsFiniteSet(1 .. n)
    BY <1>1, FS_Interval
  <2> QED
    BY <1>1, <2>1, FS_Subset, FS_CardinalityType
<1>3. \A i \in 1 .. n : WordRank(pool, i) = Cardinality(B(i))
  BY DEF WordRank
<1>4. ASSUME NEW i \in 1 .. n, NEW j \in 1 .. n, i < j, pool[i].evidence >= pool[j].evidence
      PROVE  Cardinality(B(i)) < Cardinality(B(j))
  <2>1. i \notin B(i) /\ i \in B(j)
    BY <1>1, <1>4
  <2>2. ASSUME NEW k \in B(i) PROVE k \in B(j)
    <3>1. k \in 1 .. n /\ pool[k].evidence \in Int /\ pool[i].evidence \in Int /\ pool[j].evidence \in Int
      BY <1>1
    <3>2. \/ pool[k].evidence > pool[i].evidence
          \/ pool[k].evidence = pool[i].evidence /\ k < i
      OBVIOUS
    <3>3. \/ pool[k].evidence > pool[j].evidence
          \/ pool[k].evidence = pool[j].evidence /\ k < j
      BY <1>1, <1>4, <3>1, <3>2
    <3> QED
      BY <1>1, <3>1, <3>3
  <2> DEFINE X == B(i)
             Y == B(j)
  <2>3. IsFiniteSet(Y) /\ X \subseteq Y /\ X # Y
    BY <1>2, <2>1, <2>2
  <2>4. Cardinality(X) <= Cardinality(Y) /\ (Cardinality(X) = Cardinality(Y) => X = Y)
    <3> HIDE DEF X, Y
    <3> QED
      BY <2>3, FS_Subset
  <2>5. Cardinality(X) \in Nat /\ Cardinality(Y) \in Nat
    BY <1>2
  <2> HIDE DEF X, Y
  <2>6. Cardinality(X) < Cardinality(Y)
    BY <2>3, <2>4, <2>5
  <2> QED
    BY <2>6 DEF X, Y
<1> HIDE DEF B
<1> QED
  BY <1>2, <1>3, <1>4

\* The sums that the fusion compares.
LEMMA FusionParts ==
    ASSUME NEW pool, NEW n, Pool(pool, n), NEW i \in 1 .. n
    PROVE  /\ Fusion(pool, i).num = (60 + i) + (61 + WordRank(pool, i))
           /\ Fusion(pool, i).den = (60 + i) * (61 + WordRank(pool, i))
           /\ Fusion(pool, i).num \in Nat \ {0} /\ Fusion(pool, i).den \in Nat \ {0}
<1> DEFINE a == 60 + i
           b == 61 + WordRank(pool, i)
<1>1. a \in Nat \ {0} /\ b \in Nat \ {0}
  <2>1. WordRank(pool, i) \in Nat
    BY WordRanks
  <2> QED
    BY <2>1
<1>2. Fusion(pool, i).num = a + b /\ Fusion(pool, i).den = a * b
  BY DEF Fusion
<1> HIDE DEF a, b
<1>3. a + b \in Nat \ {0} /\ a * b \in Nat \ {0}
  BY <1>1
<1> QED
  BY <1>2, <1>3 DEF a, b

\* The fused order is a strict order of the places of the pool.
LEMMA LeadsStrict ==
    ASSUME NEW pool, NEW n, Pool(pool, n)
    PROVE  /\ \A i \in 1 .. n : ~Leads(pool, i, i)
           /\ \A i, j \in 1 .. n : i # j => Leads(pool, i, j) \/ Leads(pool, j, i)
           /\ \A i, j, k \in 1 .. n : Leads(pool, i, j) /\ Leads(pool, j, k) => Leads(pool, i, k)
<1> DEFINE N(i) == Fusion(pool, i).num
           D(i) == Fusion(pool, i).den
<1>1. \A i \in 1 .. n : N(i) \in Nat \ {0} /\ D(i) \in Nat \ {0}
  BY FusionParts
<1>2. \A i, j : Leads(pool, i, j) <=> \/ N(i) * D(j) > N(j) * D(i)
                                      \/ N(i) * D(j) = N(j) * D(i) /\ i < j
  BY DEF Leads
<1> HIDE DEF N, D
<1>3. \A i, j \in 1 .. n : N(i) * D(j) \in Int
  BY <1>1
<1>4. ASSUME NEW i \in 1 .. n PROVE ~Leads(pool, i, i)
  BY <1>2, <1>3
<1>5. ASSUME NEW i \in 1 .. n, NEW j \in 1 .. n, i # j PROVE Leads(pool, i, j) \/ Leads(pool, j, i)
  <2> DEFINE x == N(i) * D(j)
             y == N(j) * D(i)
  <2>1. x \in Int /\ y \in Int
    BY <1>3
  <2>2. i < j \/ j < i
    BY <1>5
  <2>3. /\ Leads(pool, i, j) <=> x > y \/ (x = y /\ i < j)
        /\ Leads(pool, j, i) <=> y > x \/ (y = x /\ j < i)
    BY <1>2
  <2> HIDE DEF x, y
  <2> QED
    BY <2>1, <2>2, <2>3
<1>6. ASSUME NEW i \in 1 .. n, NEW j \in 1 .. n, NEW k \in 1 .. n,
             Leads(pool, i, j), Leads(pool, j, k)
      PROVE  Leads(pool, i, k)
  <2>1. /\ N(i) \in Nat /\ N(j) \in Nat /\ N(k) \in Nat
        /\ D(i) \in Nat \ {0} /\ D(j) \in Nat \ {0} /\ D(k) \in Nat \ {0}
    BY <1>1
  <2> DEFINE ij == N(i) * D(j)
             ji == N(j) * D(i)
             jk == N(j) * D(k)
             kj == N(k) * D(j)
             ik == N(i) * D(k)
             ki == N(k) * D(i)
  <2>2. /\ ij \in Int /\ ji \in Int /\ jk \in Int /\ kj \in Int /\ ik \in Int /\ ki \in Int
    BY <1>3
  <2>3. /\ ij >= ji /\ jk >= kj => ik >= ki
        /\ (ij > ji /\ jk >= kj) \/ (ij >= ji /\ jk > kj) => ik > ki
    BY <2>1, Across
  <2>4. /\ ij > ji \/ (ij = ji /\ i < j)
        /\ jk > kj \/ (jk = kj /\ j < k)
    BY <1>2, <1>6
  <2>5. (ik > ki \/ (ik = ki /\ i < k)) => Leads(pool, i, k)
    BY <1>2
  <2> HIDE DEF ij, ji, jk, kj, ik, ki
  <2>6. i \in Int /\ j \in Int /\ k \in Int
    OBVIOUS
  <2> QED
    BY <2>2, <2>3, <2>4, <2>5, <2>6
<1> QED
  BY <1>4, <1>5, <1>6

\* A cell before another by score and not behind it by words leads it.
LEMMA BetterLeads ==
    ASSUME NEW pool, NEW n, Pool(pool, n), NEW i \in 1 .. n, NEW j \in 1 .. n, i < j,
           pool[i].evidence >= pool[j].evidence
    PROVE  Leads(pool, i, j)
<1> DEFINE x == 60 + i
           y == 61 + WordRank(pool, i)
           v == 60 + j
           w == 61 + WordRank(pool, j)
           xv == x * v
           yw == y * w
<1>1. /\ Fusion(pool, i).num = x + y /\ Fusion(pool, i).den = x * y
      /\ Fusion(pool, j).num = v + w /\ Fusion(pool, j).den = v * w
  BY FusionParts
<1>2. /\ x \in Nat \ {0} /\ y \in Nat \ {0} /\ v \in Nat \ {0} /\ w \in Nat \ {0} /\ v > x /\ w > y
  <2>1. WordRank(pool, i) \in Nat /\ WordRank(pool, j) \in Nat /\ WordRank(pool, i) < WordRank(pool, j)
    BY WordRanks
  <2> QED
    BY <2>1
<1>3. (Fusion(pool, i).num * Fusion(pool, j).den > Fusion(pool, j).num * Fusion(pool, i).den)
        => Leads(pool, i, j)
  BY DEF Leads
<1> HIDE DEF x, y, v, w
<1>4. xv \in Nat \ {0} /\ yw \in Nat \ {0}
  BY <1>2
<1>5. (x + y) * (v * w) = w * xv + v * yw /\ (v + w) * (x * y) = y * xv + x * yw
  BY <1>2
<1> HIDE DEF xv, yw
<1>6. w * xv > y * xv /\ v * yw > x * yw
  BY <1>2, <1>4, TimesMore
<1>7. w * xv \in Int /\ y * xv \in Int /\ v * yw \in Int /\ x * yw \in Int
  BY <1>2, <1>4
<1>8. w * xv + v * yw > y * xv + x * yw
  BY <1>6, <1>7
<1> QED
  BY <1>1, <1>3, <1>5, <1>8

-----------------------------------------------------------------------------
(* The packet.                                                             *)

\* An order of the handles `rank`, each once, in which no handle is behind one
\* that it beats.
Beats(h, k, fused) == Ahead(h, k) /\ (fused => h.evidence >= k.evidence)

Lists(seq, rank, fused) ==
    /\ seq \in Seq(rank) /\ ToSet(seq) = rank /\ IsInjective(seq)
    /\ \A i, j \in DOMAIN seq : Beats(seq[i], seq[j], fused) => i < j

LEMMA InOrderIsList ==
    ASSUME NEW rank, Graded(rank), NEW fused
    PROVE  Lists(InOrder(rank), rank, fused)
<1>1. /\ InOrder(rank) \in Seq(rank) /\ ToSet(InOrder(rank)) = rank /\ IsInjective(InOrder(rank))
      /\ \A i, j \in DOMAIN InOrder(rank) : i < j <=> Ahead(InOrder(rank)[i], InOrder(rank)[j])
  BY InOrderLists
<1> DEFINE seq == InOrder(rank)
<1> HIDE DEF seq
<1>2. \A i, j \in DOMAIN seq : Beats(seq[i], seq[j], fused) => i < j
  BY <1>1 DEF Beats, seq
<1> QED
  BY <1>1, <1>2 DEF Lists, seq

\* Fusion lists the same handles, and moves none before one that beats it by
\* score and is not behind it by words.
LEMMA FusedIsList ==
    ASSUME NEW rank, Graded(rank), NEW max \in Nat
    PROVE  Lists(Fused(InOrder(rank), max), rank, TRUE)
<1> DEFINE seq == InOrder(rank)
           N == Len(seq)
           n == PoolLen(seq, max)
           pool == SubSeq(seq, 1, n)
           R == {p \in (1 .. n) \X (1 .. n) : Leads(pool, p[1], p[2])}
           ord == Sorted(1 .. n, R)
           new == Fused(seq, max)
<1>1. /\ seq \in Seq(rank) /\ ToSet(seq) = rank /\ IsInjective(seq)
      /\ \A i, j \in DOMAIN seq : i < j <=> Ahead(seq[i], seq[j])
  BY InOrderLists
<1>2. new = [i \in DOMAIN seq |-> IF i <= n THEN seq[ord[i]] ELSE seq[i]]
  BY DEF Fused
<1> HIDE DEF seq, new
<1>3. N \in Nat /\ DOMAIN seq = 1 .. N /\ \A i \in 1 .. N : seq[i] \in rank
  BY <1>1
<1> HIDE DEF N
<1>4. n \in Nat /\ n <= N
  BY <1>3, RankingAssumption DEF PoolLen, N
<1> HIDE DEF n
<1>5. /\ Len(pool) = n /\ DOMAIN pool = 1 .. n /\ \A i \in 1 .. n : pool[i] = seq[i] /\ i \in 1 .. N
  <2>1. /\ pool \in Seq(rank) /\ Len(pool) = IF 1 <= n THEN n - 1 + 1 ELSE 0
        /\ \A i \in 1 .. n - 1 + 1 : pool[i] = seq[1 + i - 1]
    BY <1>1, <1>4, PartOf DEF N
  <2> HIDE DEF pool
  <2>2. (IF 1 <= n THEN n - 1 + 1 ELSE 0) = n /\ n - 1 + 1 = n /\ \A i \in 1 .. n : 1 + i - 1 = i
    BY <1>4
  <2>3. Len(pool) = n /\ \A i \in 1 .. n : pool[i] = seq[i]
    BY <2>1, <2>2
  <2>4. \A i \in 1 .. n : i \in 1 .. N
    BY <1>3, <1>4
  <2>5. DOMAIN pool = 1 .. n
    BY <2>1, <2>3
  <2> QED
    BY <2>3, <2>4, <2>5
<1> HIDE DEF pool
<1>6. Pool(pool, n)
  <2>1. \A h \in rank : h.evidence \in Int
    BY DEF Graded
  <2> QED
    BY <1>3, <1>4, <1>5, <2>1 DEF Pool
<1>7. \A i, j \in 1 .. n : <<i, j>> \in R <=> Leads(pool, i, j)
  OBVIOUS
<1> HIDE DEF R
<1>8. StrictOrder(1 .. n, R)
  BY <1>6, <1>7, LeadsStrict DEF StrictOrder
<1>9. /\ ord \in [1 .. n -> 1 .. n]
      /\ \A x \in 1 .. n : \E i \in 1 .. n : ord[i] = x
      /\ \A i, j \in 1 .. n : i < j <=> <<ord[i], ord[j]>> \in R
  <2>1. IsFiniteSet(1 .. n) /\ Cardinality(1 .. n) = n
    <3>1. (1 > n <=> n = 0) /\ n - 1 + 1 = n
      BY <1>4
    <3> QED
      BY <1>4, <3>1, FS_Interval
  <2>2. /\ ord \in [1 .. Cardinality(1 .. n) -> 1 .. n]
        /\ \A x \in 1 .. n : \E i \in 1 .. Cardinality(1 .. n) : ord[i] = x
        /\ \A i, j \in 1 .. Cardinality(1 .. n) : i < j <=> <<ord[i], ord[j]>> \in R
    BY <1>8, <2>1, SortedLists
  <2> HIDE DEF ord
  <2> QED
    BY <2>1, <2>2
<1> HIDE DEF ord
\* Where the handle in place i of the new order was before.
<1> DEFINE from == [i \in 1 .. N |-> IF i <= n THEN ord[i] ELSE i]
<1>10. /\ \A i \in 1 .. N : from[i] \in 1 .. N /\ new[i] = seq[from[i]]
       /\ DOMAIN new = 1 .. N
  <2>1. ASSUME NEW i \in 1 .. N PROVE from[i] \in 1 .. N /\ new[i] = seq[from[i]]
    <3>1. CASE i <= n
      <4>1. i \in 1 .. n
        BY <1>4, <3>1
      <4>2. ord[i] \in 1 .. n
        BY <1>9, <4>1
      <4> QED
        BY <1>2, <1>3, <1>5, <3>1, <4>2
    <3>2. CASE ~ (i <= n)
      BY <1>2, <1>3, <3>2
    <3> QED
      BY <3>1, <3>2
  <2> QED
    BY <1>2, <1>3, <2>1
<1>11. \A x \in 1 .. N : \E i \in 1 .. N : from[i] = x
  <2>1. ASSUME NEW x \in 1 .. N PROVE \E i \in 1 .. N : from[i] = x
    <3>1. CASE x <= n
      <4>1. PICK i \in 1 .. n : ord[i] = x
        BY <1>4, <1>9, <3>1
      <4>2. i \in 1 .. N /\ i <= n
        BY <1>4, <1>5
      <4> QED
        BY <4>1, <4>2
    <3>2. CASE ~ (x <= n)
      BY <3>2
    <3> QED
      BY <3>1, <3>2
  <2> QED
    BY <2>1
<1>12. ASSUME NEW i \in 1 .. N, NEW j \in 1 .. N, from[i] < from[j],
              seq[from[i]].evidence >= seq[from[j]].evidence
       PROVE  i < j
  <2>1. CASE i <= n /\ j <= n
    <3>1. i \in 1 .. n /\ j \in 1 .. n /\ from[i] = ord[i] /\ from[j] = ord[j]
      BY <1>4, <2>1
    <3>2. ord[i] \in 1 .. n /\ ord[j] \in 1 .. n
      BY <1>9, <3>1
    <3>3. pool[ord[i]].evidence >= pool[ord[j]].evidence /\ ord[i] < ord[j]
      BY <1>5, <1>12, <3>1, <3>2
    <3>4. Leads(pool, ord[i], ord[j])
      BY <1>6, <3>2, <3>3, BetterLeads
    <3> QED
      BY <1>7, <1>9, <3>1, <3>2, <3>4
  <2>2. CASE i <= n /\ ~ (j <= n)
    BY <1>4, <2>2
  <2>3. CASE ~ (i <= n) /\ j <= n
    <3>1. from[i] = i /\ from[j] \in 1 .. n
      BY <1>4, <1>9, <2>3
    <3> QED
      BY <1>4, <1>12, <2>3, <3>1
  <2>4. CASE ~ (i <= n) /\ ~ (j <= n)
    BY <1>12, <2>4
  <2> QED
    BY <2>1, <2>2, <2>3, <2>4
<1>13. ASSUME NEW i \in 1 .. N, NEW j \in 1 .. N, from[i] = from[j]
       PROVE  i = j
  <2>1. CASE i <= n /\ j <= n
    <3>1. i \in 1 .. n /\ j \in 1 .. n /\ ord[i] = ord[j] /\ ord[i] \in 1 .. n
      BY <1>4, <1>9, <1>13, <2>1
    <3>2. <<ord[i], ord[j]>> \notin R /\ <<ord[j], ord[i]>> \notin R
      BY <1>8, <3>1 DEF StrictOrder
    <3>3. ~ (i < j) /\ ~ (j < i)
      BY <1>9, <3>1, <3>2
    <3> QED
      BY <3>1, <3>3
  <2>2. CASE i <= n /\ ~ (j <= n)
    <3>1. from[j] = j /\ from[i] \in 1 .. n
      BY <1>4, <1>9, <2>2
    <3> QED
      BY <1>4, <1>13, <2>2, <3>1
  <2>3. CASE ~ (i <= n) /\ j <= n
    <3>1. from[i] = i /\ from[j] \in 1 .. n
      BY <1>4, <1>9, <2>3
    <3> QED
      BY <1>4, <1>13, <2>3, <3>1
  <2>4. CASE ~ (i <= n) /\ ~ (j <= n)
    BY <1>13, <2>4
  <2> QED
    BY <2>1, <2>2, <2>3, <2>4
<1> HIDE DEF from
<1>14. new \in Seq(rank) /\ Len(new) = N
  <2>1. \A i \in 1 .. N : new[i] \in rank
    BY <1>3, <1>10
  <2>2. new = [i \in 1 .. N |-> new[i]]
    BY <1>2, <1>10
  <2> QED
    BY <1>3, <2>1, <2>2
<1>15. ToSet(new) = rank
  <2>1. \A h \in rank : \E x \in 1 .. N : seq[x] = h
    BY <1>1, <1>3 DEF ToSet
  <2>2. \A h \in rank : \E i \in 1 .. N : new[i] = h
    BY <1>10, <1>11, <2>1
  <2>3. \A i \in 1 .. N : new[i] \in rank
    BY <1>3, <1>10
  <2> QED
    BY <1>10, <2>2, <2>3 DEF ToSet
<1>16. IsInjective(new)
  <2> SUFFICES ASSUME NEW i \in 1 .. N, NEW j \in 1 .. N, new[i] = new[j] PROVE i = j
    BY <1>10 DEF IsInjective
  <2>1. from[i] = from[j]
    BY <1>1, <1>3, <1>10 DEF IsInjective
  <2> QED
    BY <1>13, <2>1
<1>17. \A i, j \in DOMAIN new : Beats(new[i], new[j], TRUE) => i < j
  <2> SUFFICES ASSUME NEW i \in 1 .. N, NEW j \in 1 .. N, Beats(new[i], new[j], TRUE) PROVE i < j
    BY <1>10
  <2>1. /\ Ahead(seq[from[i]], seq[from[j]]) /\ from[i] \in 1 .. N /\ from[j] \in 1 .. N
        /\ seq[from[i]].evidence >= seq[from[j]].evidence
    BY <1>10 DEF Beats
  <2>2. from[i] < from[j]
    BY <1>1, <1>3, <2>1
  <2> QED
    BY <1>12, <2>1, <2>2
<1> QED
  BY <1>14, <1>15, <1>16, <1>17 DEF Lists, new, seq

\* What is cut from a list: the first of what scores enough.
LEMMA CutIsBest ==
    ASSUME NEW rank, NEW fused, NEW seq, Lists(seq, rank, fused), NEW r, r.max \in Nat
    PROVE  BestOf({h \in rank : Scores(h, r)}, Cut(seq, r), r.max, fused)
<1> DEFINE good == {h \in rank : Scores(h, r)}
           list == Keep(seq, good)
           N == Len(seq)
           g == Len(list)
           m == IF g < r.max THEN g ELSE r.max
           packet == SubSeq(list, 1, m)
           B(h, k) == Ahead(h, k) /\ (fused => h.evidence >= k.evidence)
<1>1. /\ seq \in Seq(rank) /\ ToSet(seq) = rank /\ IsInjective(seq)
      /\ \A i, j \in DOMAIN seq : B(seq[i], seq[j]) => i < j
  BY DEF Lists, Beats
<1>2. Cut(seq, r) = packet
  BY <1>1 DEF Cut
<1>3. good \subseteq rank
  OBVIOUS
<1> HIDE DEF good, B
<1>4. /\ list \in Seq(rank) /\ ToSet(list) = good /\ IsInjective(list)
  <2>1. list \in Seq(rank) /\ ToSet(list) = ToSet(seq) \cap good /\ IsInjective(list)
    BY <1>1, KeepElements
  <2> QED
    BY <1>1, <1>3, <2>1
<1>5. /\ DOMAIN seq = 1 .. N /\ g \in Nat /\ DOMAIN list = 1 .. g
  BY <1>1, <1>4
<1>6. ASSUME NEW i \in 1 .. g, NEW j \in 1 .. g, B(list[i], list[j]) PROVE i < j
  <2> DEFINE kept == Kept(seq, good)
             at == Places(seq, good)
  <2>1. /\ kept \in 0 .. Len(seq)
        /\ Keep(seq, good) \in [1 .. kept -> rank \cap good]
        /\ \A x \in 1 .. kept : at[x] \in 1 .. Len(seq) /\ Keep(seq, good)[x] = seq[at[x]]
        /\ \A x, y \in 1 .. kept : x < y <=> at[x] < at[y]
    BY <1>1, KeepPlaces
  <2> HIDE DEF kept, at
  <2>2. kept = g
    <3>1. DOMAIN list = 1 .. kept /\ kept \in Nat
      BY <2>1
    <3> HIDE DEF list
    <3> QED
      BY <1>4, <3>1
  <2>3. /\ at[i] \in 1 .. N /\ at[j] \in 1 .. N /\ list[i] = seq[at[i]] /\ list[j] = seq[at[j]]
        /\ (i < j <=> at[i] < at[j])
    BY <2>1, <2>2
  <2>4. at[i] < at[j]
    BY <1>1, <1>5, <1>6, <2>3
  <2> QED
    BY <2>3, <2>4
<1> HIDE DEF list, g
<1>7. m \in Nat /\ m <= g /\ (m = r.max \/ m = g)
  BY <1>5
<1> HIDE DEF m
<1>8. /\ packet \in Seq(rank) /\ Len(packet) = m /\ DOMAIN packet = 1 .. m
      /\ \A i \in 1 .. m : packet[i] = list[i] /\ i \in 1 .. g
  <2>1. /\ packet \in Seq(rank) /\ Len(packet) = IF 1 <= m THEN m - 1 + 1 ELSE 0
        /\ \A i \in 1 .. m - 1 + 1 : packet[i] = list[1 + i - 1]
    BY <1>4, <1>7, PartOf DEF g
  <2> HIDE DEF packet
  <2>2. (IF 1 <= m THEN m - 1 + 1 ELSE 0) = m /\ m - 1 + 1 = m
        /\ \A i \in 1 .. m : 1 + i - 1 = i /\ i \in 1 .. g
    BY <1>5, <1>7
  <2>3. Len(packet) = m /\ \A i \in 1 .. m : packet[i] = list[i]
    BY <2>1, <2>2
  <2> QED
    BY <2>1, <2>2, <2>3
<1> HIDE DEF packet
<1>9. \A i \in 1 .. g : list[i] \in good
  BY <1>4, <1>5 DEF ToSet
<1>10. ToSet(packet) \subseteq good
  BY <1>8, <1>9 DEF ToSet
<1>11. IsInjective(packet)
  <2> SUFFICES ASSUME NEW i \in 1 .. m, NEW j \in 1 .. m, packet[i] = packet[j] PROVE i = j
    BY <1>8 DEF IsInjective
  <2> QED
    BY <1>4, <1>5, <1>8 DEF IsInjective
<1>12. Len(packet) = Cardinality(ToSet(packet))
  BY <1>8, <1>11, DistinctLen
<1>13. Len(packet) = r.max \/ ToSet(packet) = good
  <2>1. CASE m = r.max
    BY <1>8, <2>1
  <2>2. CASE m = g
    <3>1. \A h \in good : \E i \in 1 .. g : list[i] = h
      BY <1>4, <1>5 DEF ToSet
    <3>2. \A h \in good : \E i \in 1 .. m : packet[i] = h
      BY <1>8, <2>2, <3>1
    <3>3. good \subseteq ToSet(packet)
      BY <1>8, <3>2 DEF ToSet
    <3> QED
      BY <1>10, <3>3
  <2> QED
    BY <1>7, <2>1, <2>2
<1>14. ASSUME NEW i \in DOMAIN packet, NEW h \in good, B(h, packet[i])
       PROVE  \E j \in 1 .. i - 1 : packet[j] = h
  <2>1. i \in 1 .. m /\ i \in 1 .. g /\ packet[i] = list[i]
    BY <1>8
  <2>2. PICK k \in 1 .. g : list[k] = h
    BY <1>4, <1>5 DEF ToSet
  <2>3. k < i
    BY <1>6, <1>14, <2>1, <2>2
  <2>4. k \in 1 .. m /\ k \in 1 .. i - 1
    BY <1>5, <1>7, <2>1, <2>3
  <2> QED
    BY <1>8, <2>2, <2>4
<1>15. BestOf(good, packet, r.max, fused)
  BY <1>10, <1>12, <1>13, <1>14 DEF BestOf, B
<1> QED
  BY <1>2, <1>15 DEF good

\* Requests ask for so many cells.
LEMMA RequestMax ==
    ASSUME NEW q \in Queries
    PROVE  q.req.max \in Nat
  BY QueryParts, RecallAssumption

\* The order a packet is cut from.
LEMMA PacketCut ==
    ASSUME IInv, NEW q \in Queries, q.req.mode # "full"
    PROVE  \E seq : /\ Lists(seq, Found(q), Fuses(Found(q), q))
                    /\ Packet(Found(q), q) = Cut(seq, q.req)
<1> DEFINE rank == Found(q)
<1>1. Graded(rank) /\ q.req.max \in Nat
  BY FoundGraded, RequestMax
<1> HIDE DEF rank
<1>2. CASE Fuses(rank, q)
  <2>1. Packet(rank, q) = Cut(Fused(InOrder(rank), q.req.max), q.req)
    BY <1>2 DEF Packet
  <2>2. Lists(Fused(InOrder(rank), q.req.max), rank, TRUE)
    BY <1>1, FusedIsList
  <2>3. Lists(Fused(InOrder(rank), q.req.max), rank, Fuses(rank, q))
    BY <1>2, <2>2 DEF Lists, Beats
  <2> QED
    BY <2>1, <2>3 DEF rank
<1>3. CASE ~Fuses(rank, q)
  <2>1. Packet(rank, q) = Cut(InOrder(rank), q.req)
    BY <1>3 DEF Packet
  <2>2. Lists(InOrder(rank), rank, Fuses(rank, q))
    BY <1>1, InOrderIsList
  <2> QED
    BY <2>1, <2>2 DEF rank
<1> QED
  BY <1>2, <1>3

\* Whatever the scores are and whether the order by words is fused with them or
\* not, a packet is full or holds all there is, each cell once and none that
\* scores too little, and no cell stands before, or instead of, one that is
\* better by score and not worse by words.
THEOREM PacketHoldsTheBest == Spec => []PacketIsBest
<1>1. IInv => PacketIsBest
  <2> SUFFICES ASSUME IInv, NEW q \in Queries, q.req.mode # "full"
               PROVE  BestOf({h \in Found(q) : Scores(h, q.req)}, Packet(Found(q), q), q.req.max,
                             Fuses(Found(q), q))
    BY DEF PacketIsBest
  <2>1. PICK seq : /\ Lists(seq, Found(q), Fuses(Found(q), q))
                   /\ Packet(Found(q), q) = Cut(seq, q.req)
    BY PacketCut
  <2>2. q.req.max \in Nat
    BY RequestMax
  <2>3. BestOf({h \in Found(q) : Scores(h, q.req)}, Cut(seq, q.req), q.req.max, Fuses(Found(q), q))
    BY <2>1, <2>2, CutIsBest
  <2> QED
    BY <2>1, <2>3
<1> QED
  BY <1>1, Invariance, PTL

\* A packet holds only cells that rank.
LEMMA ItemsRank ==
    ASSUME IInv, NEW q \in Queries
    PROVE  Items(Answer(q)) \subseteq Ranking(q)
<1>1. Graded(Found(q)) /\ {h.cell : h \in Found(q)} = Ranking(q)
  BY FoundGraded
<1>2. ToSet(Answer(q)) \subseteq Found(q)
  <2>1. CASE q.req.mode = "full"
    <3>1. Answer(q) = InOrder(Found(q))
      BY <2>1 DEF Answer, Packet, Fuses
    <3> QED
      BY <1>1, <3>1, InOrderLists
  <2>2. CASE q.req.mode # "full"
    <3>1. PICK seq : /\ Lists(seq, Found(q), Fuses(Found(q), q))
                     /\ Packet(Found(q), q) = Cut(seq, q.req)
      BY <2>2, PacketCut
    <3>2. q.req.max \in Nat
      BY RequestMax
    <3>3. BestOf({h \in Found(q) : Scores(h, q.req)}, Cut(seq, q.req), q.req.max, Fuses(Found(q), q))
      BY <3>1, <3>2, CutIsBest
    <3> QED
      BY <3>1, <3>3 DEF BestOf, Answer
  <2> QED
    BY <2>1, <2>2
<1>3. \A i \in DOMAIN Answer(q) : Answer(q)[i] \in Found(q)
  BY <1>2 DEF ToSet
<1> QED
  BY <1>1, <1>3 DEF Items

\* What a policy allows was asked for.
LEMMA PolicyAsked ==
    ASSUME NEW q \in Queries, NEW what \in {"deprecated", "secret"}, what \in q.policy
    PROVE  Asks(q.req, what)
<1>1. PICK r \in Requests : q = Resolve(r) /\ q.req = r
  BY QueryParts
<1>2. q.policy = EffectivePolicy(r)
  BY <1>1 DEF Resolve
<1>3. what \in r.policy \/ what \in r.flags \/ \E c \in r.capabilities : Grants[c] = what
  BY <1>2 DEF EffectivePolicy, FromCapabilities
<1> QED
  BY <1>1, <1>3 DEF Asks

LEMMA RejectedAsked ==
    ASSUME NEW q \in Queries, "rejected" \in q.policy
    PROVE  Asks(q.req, "rejected") \/ "deprecated" \in q.req.flags
<1>1. PICK r \in Requests : q = Resolve(r) /\ q.req = r
  BY QueryParts
<1>2. q.policy = EffectivePolicy(r)
  BY <1>1 DEF Resolve
<1>3. \/ "rejected" \in r.policy \/ "rejected" \in r.flags \/ "deprecated" \in r.flags
      \/ \E c \in r.capabilities : Grants[c] = "rejected"
  BY <1>2 DEF EffectivePolicy, FromCapabilities
<1> QED
  BY <1>1, <1>3 DEF Asks

\* No request gets a cell that is not stored, not of the scope and kind it asks
\* for, or that is retired, rejected or a secret while nothing in the request
\* asks for such: for every set of cells, of requests and of overrides, and by
\* whatever way the cell came to be found.
THEOREM PacketsArePermitted == Spec => []OnlyPermitted
<1>1. IInv => OnlyPermitted
  <2> SUFFICES ASSUME IInv, NEW q \in Queries, NEW c \in Items(Answer(q))
               PROVE  /\ c \in Stored
                      /\ InScopeAndKind(c, q.req)
                      /\ Effective(c) \in Retired => Asks(q.req, "deprecated")
                      /\ Effective(c) = "rejected" => Asks(q.req, "rejected") \/ "deprecated" \in q.req.flags
                      /\ Attr[c].secret => Asks(q.req, "secret")
    BY DEF OnlyPermitted
  <2>1. c \in Ranking(q)
    BY ItemsRank
  <2>2. c \in Stored /\ Ranks(c, q)
    BY <2>1, ReadStored DEF Ranking
  <2>3. InScopeAndKind(c, q.req) /\ ~Refuses(q.policy, Effective(c), Attr[c].secret)
    BY <2>2 DEF Ranks, FilterPermits, EffectivePermits
  <2>4. Effective(c) \in Retired => Asks(q.req, "deprecated")
    BY <2>3, PolicyAsked DEF Refuses
  <2>5. Effective(c) = "rejected" => Asks(q.req, "rejected") \/ "deprecated" \in q.req.flags
    BY <2>3, RejectedAsked DEF Refuses
  <2>6. Attr[c].secret => Asks(q.req, "secret")
    BY <2>3, PolicyAsked DEF Refuses
  <2> QED
    BY <2>2, <2>3, <2>4, <2>5, <2>6
<1> QED
  BY <1>1, Invariance, PTL
=============================================================================
