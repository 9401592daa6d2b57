---------------------------- MODULE SharedProofs ----------------------------
(***************************************************************************)
(* Lemmas for the proofs about several modules: induction by least         *)
(* elements, folds, flattened sequences, page directories (module Pages).  *)
(***************************************************************************)
EXTENDS Pages, SequencesExt, FiniteSetTheorems, FunctionTheorems, SequenceTheorems,
        WellFoundedInduction, TLAPS

-----------------------------------------------------------------------------
(* Induction without operators: least elements.                            *)

\* A set of natural numbers that is not empty has a least element.
LEMMA HasLeast ==
    ASSUME NEW S \in SUBSET Nat, S # {}
    PROVE  \E x \in S : \A y \in S : x <= y
<1>1. IsWellFoundedOn(OpToRel(<, Nat), Nat)
  BY NatLessThanWellFounded
<1>2. PICK x \in S : \A y \in S : ~ (<<y, x>> \in OpToRel(<, Nat))
  BY <1>1, WFMin
<1>3. \A y \in S : ~ (y < x)
  BY <1>2 DEF OpToRel
<1>4. \A y \in S : x <= y
  <2> TAKE y \in S
  <2>1. x \in Int /\ y \in Int /\ ~ (y < x)
    BY <1>3
  <2> QED
    BY <2>1
<1> QED
  BY <1>4

\* What holds at 0 and is passed on holds for all numbers up to n.
LEMMA UpTo ==
    ASSUME NEW n \in Nat, NEW T, 0 \in T, \A k \in 0 .. n - 1 : k \in T => k + 1 \in T
    PROVE  \A k \in 0 .. n : k \in T
<1> DEFINE bad == {k \in 0 .. n : k \notin T}
<1> SUFFICES ASSUME bad # {} PROVE FALSE
  OBVIOUS
<1>1. PICK k \in bad : \A j \in bad : k <= j
  <2>1. bad \in SUBSET Nat
    OBVIOUS
  <2> HIDE DEF bad
  <2> QED
    BY <2>1, HasLeast
<1>2. k \in 1 .. n /\ k - 1 \in 0 .. n - 1 /\ k - 1 \notin bad
  BY <1>1
<1> QED
  BY <1>1, <1>2

-----------------------------------------------------------------------------
(* Folds.                                                                  *)

\* A set of numbers up to k that is not empty has a largest element.
LEMMA HasLargest ==
    ASSUME NEW k \in Nat, NEW S \in SUBSET (1 .. k), S # {}
    PROVE  Max(S) \in S /\ \A x \in S : x <= Max(S)
<1> DEFINE W == {k - x : x \in S}
<1>1. \A x \in S : x \in Int /\ k - x \in Nat
  OBVIOUS
<1>2. W \in SUBSET Nat /\ W # {}
  BY <1>1
<1>3. PICK w \in W : \A v \in W : w <= v
  <2> HIDE DEF W
  <2> QED
    BY <1>2, HasLeast
<1>4. PICK x \in S : w = k - x
  BY <1>3
<1>5. \A y \in S : k - x <= k - y
  BY <1>3, <1>4
<1>6. \A y \in S : x >= y
  BY <1>1, <1>5
<1>7. Max(S) \in S /\ \A y \in S : Max(S) >= y
  BY <1>6 DEF Max
<1> QED
  BY <1>1, <1>7

\* It is k, if k is in it.
LEMMA LargestOf ==
    ASSUME NEW k \in Nat, NEW s \in SUBSET (1 .. k), k \in s
    PROVE  Max(s) = k
<1> DEFINE m == Max(s)
<1>1. m \in s /\ k <= m
  BY HasLargest
<1> HIDE DEF m
<1>2. m \in 1 .. k
  BY <1>1
<1>3. m = k
  BY <1>1, <1>2
<1> QED
  BY <1>3 DEF m

\* G is the step of a fold in U over n elements: from what there is and the
\* number of the element.
StepIn(G, U, n) == G \in [U \X (1 .. n) -> U]

\* The recursion that folds are defined by, and the same step by step.
FoldOf(f, U, base, n, G) ==
    /\ f \in [SUBSET (1 .. n) -> U]
    /\ f = [s \in SUBSET (1 .. n) |-> IF s = {} THEN base ELSE G[<<f[s \ {Max(s)}], Max(s)>>]]

StepsOf(f, U, base, n, G) ==
    /\ f \in [0 .. n -> U] /\ f[0] = base
    /\ \A k \in 1 .. n : f[k] = G[<<f[k - 1], k>>]

\* The recursion has a solution.
LEMMA FoldExists ==
    ASSUME NEW U, NEW base \in U, NEW n \in Nat, NEW G, StepIn(G, U, n)
    PROVE  \E f : FoldOf(f, U, base, n, G)
<1> DEFINE Solves(f, k) ==
               f = [s \in SUBSET (1 .. k) |->
                       IF s = {} THEN base ELSE G[<<f[s \ {Max(s)}], Max(s)>>]]
           T == {k \in 0 .. n : \E f \in [SUBSET (1 .. k) -> U] : Solves(f, k)}
<1>1. 0 \in T
  <2> DEFINE e == [s \in SUBSET (1 .. 0) |-> base]
  <2>1. e \in [SUBSET (1 .. 0) -> U]
    OBVIOUS
  <2>2. 1 .. 0 = {}
    OBVIOUS
  <2>3. Solves(e, 0)
    BY <2>2
  <2>4. 0 \in 0 .. n
    OBVIOUS
  <2>5. \E f \in [SUBSET (1 .. 0) -> U] : Solves(f, 0)
    <3> HIDE DEF e, Solves
    <3> QED
      BY <2>1, <2>3
  <2> HIDE DEF Solves
  <2> QED
    BY <2>4, <2>5
<1>. G \in [U \X (1 .. n) -> U]
  BY DEF StepIn
<1>2. ASSUME NEW k \in 0 .. n - 1, k \in T PROVE k + 1 \in T
  <2>1. PICK f \in [SUBSET (1 .. k) -> U] : Solves(f, k)
    BY <1>2
  <2> DEFINE j == k + 1
             g == [s \in SUBSET (1 .. j) |->
                      IF j \in s THEN G[<<f[s \ {j}], j>>] ELSE f[s]]
             h(s) == IF s = {} THEN base ELSE G[<<g[s \ {Max(s)}], Max(s)>>]
  <2>2. \A s \in SUBSET (1 .. j) : s \ {j} \in SUBSET (1 .. k) /\ (j \notin s => s \in SUBSET (1 .. k))
    OBVIOUS
  <2>3. j \in 1 .. n /\ j \in Nat
    OBVIOUS
  <2>4. g \in [SUBSET (1 .. j) -> U]
    BY <2>2, <2>3
  <2>5. ASSUME NEW s \in SUBSET (1 .. j) PROVE g[s] = h(s)
    <3>1. CASE j \in s
      <4>1. Max(s) = j
        BY <2>3, <3>1, LargestOf
      <4>2. s \ {j} \in SUBSET (1 .. j) /\ j \notin s \ {j}
        OBVIOUS
      <4>3. g[s \ {j}] = f[s \ {j}]
        BY <4>2
      <4> QED
        BY <3>1, <4>1, <4>3
    <3>2. CASE j \notin s
      <4>1. s \in SUBSET (1 .. k) /\ g[s] = f[s]
        BY <2>2, <3>2
      <4>2. CASE s = {}
        BY <2>1, <4>1, <4>2
      <4>3. CASE s # {}
        <5>1. Max(s) \in s
          <6>1. k \in Nat
            OBVIOUS
          <6> HIDE DEF g, h, Solves, T
          <6> QED
            BY <4>1, <4>3, <6>1, HasLargest
        <5>2. s \ {Max(s)} \in SUBSET (1 .. j) /\ j \notin s \ {Max(s)}
          BY <3>2
        <5>3. g[s \ {Max(s)}] = f[s \ {Max(s)}]
          BY <5>2
        <5>4. f[s] = G[<<f[s \ {Max(s)}], Max(s)>>]
          BY <2>1, <4>1, <4>3
        <5> QED
          BY <4>1, <4>3, <5>3, <5>4
      <4> QED
        BY <4>2, <4>3
    <3> QED
      BY <3>1, <3>2
  <2>6. Solves(g, j)
    <3>1. g = [s \in SUBSET (1 .. j) |-> g[s]]
      OBVIOUS
    <3>2. [s \in SUBSET (1 .. j) |-> g[s]] = [s \in SUBSET (1 .. j) |-> h(s)]
      <4> HIDE DEF g, h
      <4> QED
        BY <2>5
    <3> HIDE DEF g
    <3> QED
      BY <3>1, <3>2
  <2>7. j \in 0 .. n
    OBVIOUS
  <2> HIDE DEF g, Solves
  <2> QED
    BY <2>4, <2>6, <2>7
<1>3. n \in T
  <2> HIDE DEF T
  <2> QED
    BY <1>1, <1>2, UpTo
<1> QED
  BY <1>3 DEF FoldOf

\* The first k numbers, as a fold meets them.
LEMMA FirstNumbers ==
    /\ 1 .. 0 = {}
    /\ \A k \in Nat \ {0} : 1 .. k # {} /\ Max(1 .. k) = k /\ (1 .. k) \ {k} = 1 .. k - 1
<1>1. ASSUME NEW k \in Nat \ {0} PROVE 1 .. k # {} /\ Max(1 .. k) = k /\ (1 .. k) \ {k} = 1 .. k - 1
  <2>1. k \in Nat /\ 1 .. k \in SUBSET (1 .. k) /\ k \in 1 .. k
    OBVIOUS
  <2>2. Max(1 .. k) = k
    BY <2>1, LargestOf
  <2>3. \A i \in Int : i \in (1 .. k) \ {k} <=> i \in 1 .. k - 1
    BY <2>1
  <2>4. (1 .. k) \ {k} = 1 .. k - 1
    BY <2>3
  <2> QED
    BY <2>1, <2>2, <2>4
<1>2. 1 .. 0 = {}
  OBVIOUS
<1> QED
  BY <1>1, <1>2

\* A fold of n steps in U, step by step.
LEMMA Iterates ==
    ASSUME NEW U, NEW base \in U, NEW n \in Nat, NEW G, StepIn(G, U, n)
    PROVE  \E f : StepsOf(f, U, base, n, G)
<1>. PICK g : FoldOf(g, U, base, n, G)
  BY FoldExists
<1>1. /\ g \in [SUBSET (1 .. n) -> U]
      /\ g = [s \in SUBSET (1 .. n) |-> IF s = {} THEN base ELSE G[<<g[s \ {Max(s)}], Max(s)>>]]
  BY DEF FoldOf
<1> DEFINE f == [k \in 0 .. n |-> g[1 .. k]]
<1>2. \A k \in 0 .. n : 1 .. k \in SUBSET (1 .. n)
  OBVIOUS
<1>3. f \in [0 .. n -> U] /\ f[0] = base
  <2>1. f \in [0 .. n -> U]
    BY <1>1, <1>2
  <2>2. g[{}] = base /\ 0 \in 0 .. n /\ 1 .. 0 = {}
    BY <1>1
  <2> QED
    BY <2>1, <2>2
<1>4. ASSUME NEW k \in 1 .. n PROVE f[k] = G[<<f[k - 1], k>>]
  <2>1. k \in Nat \ {0} /\ k - 1 \in 0 .. n /\ k \in 0 .. n
    OBVIOUS
  <2>2. 1 .. k # {} /\ Max(1 .. k) = k /\ (1 .. k) \ {k} = 1 .. k - 1
    BY <2>1, FirstNumbers
  <2>3. g[1 .. k] = G[<<g[1 .. k - 1], k>>]
    BY <1>1, <1>2, <2>1, <2>2
  <2> QED
    BY <2>1, <2>3
<1> HIDE DEF f
<1> QED
  BY <1>3, <1>4 DEF StepsOf

-----------------------------------------------------------------------------
(* Sequences of sequences.                                                 *)

\* The flattened sequences, part by part.
LEMMA FlattenSteps ==
    ASSUME NEW D, NEW seqs \in Seq(Seq(D))
    PROVE  \E f : /\ f[0] = <<>> /\ FlattenSeq(seqs) = f[Len(seqs)]
                  /\ \A k \in 1 .. Len(seqs) : f[k] = f[k - 1] \o seqs[k]
<1> DEFINE n == Len(seqs)
           U == Seq(D)
           G == [p \in U \X (1 .. n) |-> p[1] \o seqs[p[2]]]
           Solves(h) == h = [i \in 1 .. n |-> IF i = 1 THEN seqs[i] ELSE h[i - 1] \o seqs[i]]
           flatten == CHOOSE h : Solves(h)
<1>1. n \in Nat /\ DOMAIN seqs = 1 .. n /\ \A i \in 1 .. n : seqs[i] \in U
  OBVIOUS
<1>2. G \in [U \X (1 .. n) -> U]
  <2>1. ASSUME NEW p \in U \X (1 .. n) PROVE p[1] \o seqs[p[2]] \in U
    <3>1. p[1] \in U /\ seqs[p[2]] \in U
      BY <1>1
    <3> QED
      BY <3>1, ConcatProperties
  <2> QED
    BY <2>1
<1>3. <<>> \in U /\ \A i \in 1 .. n : <<>> \o seqs[i] = seqs[i]
  BY <1>1, ConcatEmptySeq
<1>. PICK e : StepsOf(e, U, <<>>, n, G)
  <2>1. StepIn(G, U, n)
    BY <1>2 DEF StepIn
  <2> HIDE DEF U, G, n
  <2> QED
    BY <1>1, <1>3, <2>1, Iterates
<1>4. /\ e \in [0 .. n -> U] /\ e[0] = <<>>
      /\ \A k \in 1 .. n : e[k] = G[<<e[k - 1], k>>]
  <2> HIDE DEF U, G, n
  <2> QED
    BY DEF StepsOf
<1>5. \A k \in 1 .. n : e[k] = e[k - 1] \o seqs[k]
  <2> SUFFICES ASSUME NEW k \in 1 .. n PROVE e[k] = e[k - 1] \o seqs[k]
    OBVIOUS
  <2>1. k - 1 \in 0 .. n
    OBVIOUS
  <2>2. <<e[k - 1], k>> \in U \X (1 .. n)
    BY <1>4, <2>1
  <2> HIDE DEF U, n
  <2> QED
    BY <1>4, <2>2
<1>6. \E h : Solves(h)
  <2> DEFINE h == [i \in 1 .. n |-> e[i]]
  <2>1. ASSUME NEW i \in 1 .. n
        PROVE  h[i] = IF i = 1 THEN seqs[i] ELSE h[i - 1] \o seqs[i]
    <3>1. CASE i = 1
      <4>1. e[1] = e[0] \o seqs[1]
        <5>1. 1 - 1 = 0 /\ 1 \in 1 .. n
          BY <3>1
        <5> QED
          BY <1>5, <5>1
      <4>2. e[1] = seqs[1]
        BY <1>3, <1>4, <3>1, <4>1
      <4> QED
        BY <3>1, <4>2
    <3>2. CASE i # 1
      <4>1. i - 1 \in 1 .. n
        BY <3>2
      <4> HIDE DEF U, n
      <4> QED
        BY <1>5, <3>2, <4>1
    <3> QED
      BY <3>1, <3>2
  <2>2. Solves(h)
    <3> HIDE DEF n
    <3> QED
      BY <2>1
  <2> QED
    BY <2>2
<1>7. Solves(flatten)
  <2> HIDE DEF Solves
  <2> QED
    BY <1>6
<1>8. n # 0 => FlattenSeq(seqs) = flatten[n]
  BY DEF FlattenSeq
<1>9. n = 0 => FlattenSeq(seqs) = <<>>
  BY DEF FlattenSeq
<1> HIDE DEF flatten, U, G, n
<1> DEFINE f == [i \in 0 .. n |-> IF i = 0 THEN <<>> ELSE flatten[i]]
<1>10. f[0] = <<>> /\ FlattenSeq(seqs) = f[n]
  BY <1>1, <1>8, <1>9
<1>11. ASSUME NEW k \in 1 .. n PROVE f[k] = f[k - 1] \o seqs[k]
  <2>1. k \in 0 .. n /\ k - 1 \in 0 .. n /\ k # 0
    BY <1>1
  <2>2. flatten[k] = IF k = 1 THEN seqs[k] ELSE flatten[k - 1] \o seqs[k]
    BY <1>7
  <2>3. CASE k = 1
    <3>1. f[k] = seqs[k] /\ f[k - 1] = <<>>
      BY <2>1, <2>2, <2>3
    <3> QED
      BY <1>3, <3>1
  <2>4. CASE k # 1
    <3>1. f[k] = flatten[k] /\ f[k - 1] = flatten[k - 1]
      BY <1>1, <2>1, <2>4
    <3> QED
      BY <2>2, <2>4, <3>1
  <2> QED
    BY <2>3, <2>4
<1> HIDE DEF f
<1> QED
  BY <1>10, <1>11 DEF n

\* Of every element of a flattened sequence: the part it comes from, and where
\* in the part it is; the order of parts and elements is kept.
Placed(flat, row, col, seqs, k) ==
    /\ row \in [1 .. Len(flat) -> 1 .. k] /\ col \in [1 .. Len(flat) -> Nat]
    /\ \A x \in 1 .. Len(flat) : /\ col[x] \in 1 .. Len(seqs[row[x]])
                                 /\ flat[x] = seqs[row[x]][col[x]]
    /\ \A x, y \in 1 .. Len(flat) : row[x] = row[y] /\ col[x] = col[y] => x = y
    /\ \A i \in 1 .. k : \A j \in 1 .. Len(seqs[i]) :
           \E x \in 1 .. Len(flat) : row[x] = i /\ col[x] = j
    /\ \A x, y \in 1 .. Len(flat) : x < y => row[x] < row[y] \/ (row[x] = row[y] /\ col[x] < col[y])

\* One more part.
LEMMA PlacedNext ==
    ASSUME NEW D, NEW seqs \in Seq(Seq(D)), NEW k \in 1 .. Len(seqs), NEW flat \in Seq(D),
           NEW row, NEW col, Placed(flat, row, col, seqs, k - 1)
    PROVE  \E r, c : Placed(flat \o seqs[k], r, c, seqs, k)
<1> DEFINE s == seqs[k]
           l == Len(flat)
           m == Len(s)
           new == flat \o s
           r == [x \in 1 .. l + m |-> IF x <= l THEN row[x] ELSE k]
           c == [x \in 1 .. l + m |-> IF x <= l THEN col[x] ELSE x - l]
<1>1. s \in Seq(D) /\ l \in Nat /\ m \in Nat /\ k \in Nat /\ m = Len(seqs[k]) /\ s = seqs[k]
  OBVIOUS
<1>2. Len(new) = l + m /\ \A x \in 1 .. l + m : new[x] = IF x <= l THEN flat[x] ELSE s[x - l]
  BY <1>1, ConcatProperties
<1>3. /\ row \in [1 .. l -> 1 .. k - 1] /\ col \in [1 .. l -> Nat]
      /\ \A x \in 1 .. l : col[x] \in 1 .. Len(seqs[row[x]]) /\ flat[x] = seqs[row[x]][col[x]]
      /\ \A x, y \in 1 .. l : row[x] = row[y] /\ col[x] = col[y] => x = y
      /\ \A i \in 1 .. k - 1 : \A j \in 1 .. Len(seqs[i]) :
             \E x \in 1 .. l : row[x] = i /\ col[x] = j
      /\ \A x, y \in 1 .. l : x < y => row[x] < row[y] \/ (row[x] = row[y] /\ col[x] < col[y])
  BY DEF Placed
<1> HIDE DEF l, new, s, m
<1>4. \A x \in 1 .. l : /\ x \in 1 .. l + m /\ x <= l /\ row[x] \in 1 .. k - 1
                        /\ r[x] = row[x] /\ c[x] = col[x] /\ new[x] = flat[x]
  <2> SUFFICES ASSUME NEW x \in 1 .. l
               PROVE  /\ x \in 1 .. l + m /\ x <= l /\ row[x] \in 1 .. k - 1
                      /\ r[x] = row[x] /\ c[x] = col[x] /\ new[x] = flat[x]
    OBVIOUS
  <2>1. x \in 1 .. l + m /\ x <= l
    BY <1>1
  <2> QED
    BY <1>2, <1>3, <2>1
<1>5. \A x \in 1 .. m : /\ l + x \in 1 .. l + m /\ ~ (l + x <= l)
                        /\ r[l + x] = k /\ c[l + x] = x /\ new[l + x] = s[x]
  <2> SUFFICES ASSUME NEW x \in 1 .. m
               PROVE  /\ l + x \in 1 .. l + m /\ ~ (l + x <= l)
                      /\ r[l + x] = k /\ c[l + x] = x /\ new[l + x] = s[x]
    OBVIOUS
  <2>1. l + x \in 1 .. l + m /\ ~ (l + x <= l) /\ (l + x) - l = x
    BY <1>1
  <2> QED
    BY <1>2, <2>1
<1>6. \A x \in 1 .. l + m : x \in 1 .. l \/ \E y \in 1 .. m : x = l + y
  <2> SUFFICES ASSUME NEW x \in 1 .. l + m, x \notin 1 .. l PROVE x - l \in 1 .. m /\ x = l + (x - l)
    OBVIOUS
  <2> QED
    BY <1>1
<1>7. r \in [1 .. l + m -> 1 .. k] /\ c \in [1 .. l + m -> Nat]
  <2>1. \A x \in 1 .. l + m : (IF x <= l THEN row[x] ELSE k) \in 1 .. k
    BY <1>1, <1>3
  <2>2. \A x \in 1 .. l + m : (IF x <= l THEN col[x] ELSE x - l) \in Nat
    BY <1>1, <1>3
  <2> QED
    BY <2>1, <2>2
<1> HIDE DEF r, c
<1>8. \A x \in 1 .. l + m : c[x] \in 1 .. Len(seqs[r[x]]) /\ new[x] = seqs[r[x]][c[x]]
  <2> SUFFICES ASSUME NEW x \in 1 .. l + m
               PROVE  c[x] \in 1 .. Len(seqs[r[x]]) /\ new[x] = seqs[r[x]][c[x]]
    OBVIOUS
  <2>1. CASE x \in 1 .. l
    BY <1>3, <1>4, <2>1
  <2>2. CASE \E y \in 1 .. m : x = l + y
    <3>1. PICK y \in 1 .. m : x = l + y
      BY <2>2
    <3>2. r[x] = k /\ c[x] = y /\ new[x] = s[y]
      BY <1>5, <3>1
    <3> QED
      BY <1>1, <3>2
  <2> QED
    BY <1>6, <2>1, <2>2
<1>9. \A x, y \in 1 .. l + m : r[x] = r[y] /\ c[x] = c[y] => x = y
  <2> SUFFICES ASSUME NEW x \in 1 .. l + m, NEW y \in 1 .. l + m, r[x] = r[y], c[x] = c[y]
               PROVE  x = y
    OBVIOUS
  <2>1. \A z \in 1 .. l : r[z] # k
    <3>1. \A z \in 1 .. k - 1 : z # k
      BY <1>1
    <3> QED
      BY <1>4, <3>1
  <2>2. CASE x \in 1 .. l
    <3>1. r[y] # k
      BY <2>1, <2>2
    <3>2. ~ \E z \in 1 .. m : y = l + z
      BY <1>5, <3>1
    <3>3. y \in 1 .. l
      BY <1>6, <3>2
    <3> QED
      BY <1>3, <1>4, <2>2, <3>3
  <2>3. CASE \E z \in 1 .. m : x = l + z
    <3>1. PICK z \in 1 .. m : x = l + z
      BY <2>3
    <3>2. r[y] = k
      BY <1>5, <3>1
    <3>3. y \notin 1 .. l
      BY <2>1, <3>2
    <3>4. PICK w \in 1 .. m : y = l + w
      BY <1>6, <3>3
    <3> QED
      BY <1>5, <3>1, <3>4
  <2> QED
    BY <1>6, <2>2, <2>3
<1>10. \A i \in 1 .. k : \A j \in 1 .. Len(seqs[i]) : \E x \in 1 .. l + m : r[x] = i /\ c[x] = j
  <2> SUFFICES ASSUME NEW i \in 1 .. k, NEW j \in 1 .. Len(seqs[i])
               PROVE  \E x \in 1 .. l + m : r[x] = i /\ c[x] = j
    OBVIOUS
  <2>1. CASE i = k
    BY <1>1, <1>5, <2>1
  <2>2. CASE i # k
    <3>1. i \in 1 .. k - 1
      BY <2>2
    <3>2. PICK x \in 1 .. l : row[x] = i /\ col[x] = j
      BY <1>3, <3>1
    <3> QED
      BY <1>4, <3>2
  <2> QED
    BY <2>1, <2>2
<1>11. \A x, y \in 1 .. l + m : x < y => r[x] < r[y] \/ (r[x] = r[y] /\ c[x] < c[y])
  <2> SUFFICES ASSUME NEW x \in 1 .. l + m, NEW y \in 1 .. l + m, x < y
               PROVE  r[x] < r[y] \/ (r[x] = r[y] /\ c[x] < c[y])
    OBVIOUS
  <2>1. CASE y \in 1 .. l
    <3>1. x \in 1 .. l
      BY <1>1, <2>1
    <3> QED
      BY <1>3, <1>4, <2>1, <3>1
  <2>2. CASE x \in 1 .. l /\ y \notin 1 .. l
    <3>1. PICK z \in 1 .. m : y = l + z
      BY <1>6, <2>2
    <3>2. r[y] = k /\ r[x] \in 1 .. k - 1
      BY <1>4, <1>5, <2>2, <3>1
    <3> QED
      BY <1>1, <3>2
  <2>3. CASE x \notin 1 .. l /\ y \notin 1 .. l
    <3>1. PICK z \in 1 .. m : x = l + z
      BY <1>6, <2>3
    <3>2. PICK w \in 1 .. m : y = l + w
      BY <1>6, <2>3
    <3>3. z < w
      BY <1>1, <3>1, <3>2
    <3> QED
      BY <1>5, <3>1, <3>2, <3>3
  <2>4. x \in 1 .. l \/ y \notin 1 .. l
    BY <1>1
  <2> QED
    BY <2>1, <2>2, <2>3, <2>4
<1>12. Placed(new, r, c, seqs, k)
  BY <1>2, <1>7, <1>8, <1>9, <1>10, <1>11 DEF Placed
<1>13. new = flat \o seqs[k]
  BY <1>1 DEF new
<1> QED
  BY <1>12, <1>13

\* Flattening loses nothing and repeats nothing.
LEMMA FlattenPlaces ==
    ASSUME NEW D, NEW seqs \in Seq(Seq(D))
    PROVE  /\ FlattenSeq(seqs) \in Seq(D)
           /\ \E row, col : Placed(FlattenSeq(seqs), row, col, seqs, Len(seqs))
<1> DEFINE n == Len(seqs)
<1>. PICK f : /\ f[0] = <<>> /\ FlattenSeq(seqs) = f[n]
              /\ \A k \in 1 .. n : f[k] = f[k - 1] \o seqs[k]
  BY FlattenSteps
<1> DEFINE T == {k \in 0 .. n : f[k] \in Seq(D) /\ \E row, col : Placed(f[k], row, col, seqs, k)}
<1>1. n \in Nat /\ \A k \in 1 .. n : seqs[k] \in Seq(D)
  OBVIOUS
<1>2. 0 \in T
  <2> DEFINE e == [x \in 1 .. 0 |-> 0]
  <2>1. e \in [1 .. 0 -> 1 .. 0] /\ e \in [1 .. 0 -> Nat] /\ Len(<<>>) = 0
    OBVIOUS
  <2>2. \A x : x \notin 1 .. 0
    OBVIOUS
  <2> HIDE DEF e
  <2>3. Placed(<<>>, e, e, seqs, 0)
    BY <2>1, <2>2 DEF Placed
  <2>4. <<>> \in Seq(D) /\ 0 \in 0 .. n
    BY <1>1
  <2> HIDE DEF n
  <2> QED
    BY <2>3, <2>4
<1>3. \A k \in 0 .. n - 1 : k \in T => k + 1 \in T
  <2> SUFFICES ASSUME NEW k \in 0 .. n - 1, k \in T PROVE k + 1 \in T
    OBVIOUS
  <2>1. k + 1 \in 1 .. n /\ k + 1 \in 0 .. n /\ (k + 1) - 1 = k /\ f[k] \in Seq(D)
    OBVIOUS
  <2>2. PICK row, col : Placed(f[k], row, col, seqs, k)
    OBVIOUS
  <2>3. f[k + 1] = f[k] \o seqs[k + 1]
    BY <2>1
  <2>4. \E r, c : Placed(f[k] \o seqs[k + 1], r, c, seqs, k + 1)
    <3>1. Placed(f[k], row, col, seqs, (k + 1) - 1)
      BY <2>1, <2>2
    <3> HIDE DEF T
    <3> QED
      BY <2>1, <3>1, PlacedNext
  <2>5. f[k + 1] \in Seq(D)
    BY <1>1, <2>1, <2>3, ConcatProperties
  <2> QED
    BY <2>1, <2>3, <2>4, <2>5
<1>4. n \in T
  <2>1. \A k \in 0 .. n : k \in T
    <3> HIDE DEF T, n
    <3> QED
      BY <1>1, <1>2, <1>3, UpTo
  <2> HIDE DEF T
  <2> QED
    BY <1>1, <2>1
<1> QED
  BY <1>4

-----------------------------------------------------------------------------
(* Page directories and the page builder.                                  *)

\* What it is to be in a set of pages.
LEMMA InCells ==
    \A dir, ids, c : c \in CellsIn(dir, ids) <=> \E p \in ids : c \in dir[p]
BY DEF CellsIn

\* Two directories that agree on some pages hold the same cells in them.
LEMMA CellsSame ==
    ASSUME NEW d, NEW e, NEW ids, \A p \in ids : d[p] = e[p]
    PROVE  CellsIn(d, ids) = CellsIn(e, ids)
BY DEF CellsIn

\* What the page builder returns: nonempty disjoint pages with consecutive
\* ids from `first` within the bound, which hold the cells given and no others.
LEMMA BuildIs ==
    ASSUME NEW S, NEW top \in Nat, NEW first \in 1 .. top + 1,
           NEW limit \in Int, limit <= top, NEW b \in Builds(S, first, limit)
    PROVE  /\ DOMAIN b \subseteq 1 .. top
           /\ DOMAIN b = first .. NextAfter(b, first) - 1
           /\ NextAfter(b, first) \in first .. top + 1
           /\ b \in [DOMAIN b -> (SUBSET S) \ {{}}]
           /\ CellsIn(b, DOMAIN b) = S
           /\ \A p, q \in DOMAIN b : p # q => b[p] \cap b[q] = {}
<1>1. PICK last \in first - 1 .. limit :
        /\ b \in [first .. last -> (SUBSET S) \ {{}}]
        /\ CellsIn(b, first .. last) = S
        /\ \A p, q \in first .. last : p # q => b[p] \cap b[q] = {}
  BY DEF Builds
<1>2. DOMAIN b = first .. last
  BY <1>1
<1>3. /\ top \in Nat /\ first \in Nat /\ first >= 1
      /\ last \in Int /\ last >= first - 1 /\ last <= top
  OBVIOUS
<1>4. Cardinality(first .. last) = last - first + 1
  <2>1. CASE last < first
    <3>1. first .. last = {}
      BY <2>1, <1>3
    <3>2. last - first + 1 = 0
      BY <2>1, <1>3
    <3> QED
      BY <3>1, <3>2, FS_EmptySet
  <2>2. CASE last >= first
    BY <2>2, <1>3, FS_Interval
  <2> QED
    BY <2>1, <2>2, <1>3
<1>5. NextAfter(b, first) = last + 1
  BY <1>2, <1>3, <1>4 DEF NextAfter
<1>6. first .. last \subseteq 1 .. top
  BY <1>3
<1> QED
  BY <1>1, <1>2, <1>3, <1>5, <1>6
=============================================================================
