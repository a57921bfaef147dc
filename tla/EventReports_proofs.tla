------------------------- MODULE EventReports_proofs -------------------------
(***************************************************************************)
(* Proofs about the reports, for any number of clients, channels and       *)
(* files, files of any size and texts of any length: a report comes back   *)
(* as Back says, nobody dies of anything but a file of their own, and what *)
(* a summary counts and lists is what the files said, in the order of time.*)
(***************************************************************************)
EXTENDS EventReports, FiniteSetTheorems, WellFoundedInduction, TLAPS

-----------------------------------------------------------------------------
(* Induction.  The theorems of the library take a predicate, which the     *)
(* provers cannot instantiate; that a set of naturals has a least element  *)
(* says the same of sets.                                                  *)

LEMMA LeastOf ==
    ASSUME NEW T \in SUBSET Nat, T # {}, NEW R, IsWellFoundedOn(R, Nat),
           \A x, y \in Nat : y < x => <<y, x>> \in R
    PROVE  \E x \in T : \A y \in T : x <= y
<1>1. \E x \in T : \A y \in T : ~(<<y, x>> \in R)
  BY WFMin, Zenon
<1>2. PICK x \in T : \A y \in T : ~(<<y, x>> \in R)
  BY <1>1, Zenon
<1>3. ASSUME NEW y \in T PROVE x <= y
  <2>1. ~(<<y, x>> \in R)
    BY <1>2, Zenon
  <2>2. y \in Nat /\ x \in Nat
    OBVIOUS
  <2>3. ~(y < x)
    BY <2>1, <2>2, Zenon
  <2>4. QED
    BY <2>2, <2>3
<1>4. QED
  BY <1>3

LEMMA LessIsWellFounded ==
    /\ IsWellFoundedOn(OpToRel(<, Nat), Nat)
    /\ \A x, y \in Nat : y < x => <<y, x>> \in OpToRel(<, Nat)
<1>1. \A x, y \in Nat : y < x => <<y, x>> \in OpToRel(<, Nat)
  BY DEF OpToRel
<1>2. QED
  BY <1>1, NatLessThanWellFounded, Zenon

LEMMA Least ==
    ASSUME NEW T \in SUBSET Nat, T # {}
    PROVE  \E x \in T : \A y \in T : x <= y
  BY LessIsWellFounded, LeastOf, Zenon

(* A set of naturals that has 0, and with every n up to some bound n + 1.  *)
LEMMA Induction ==
    ASSUME NEW S \in SUBSET Nat, NEW last \in Nat, 0 \in S,
           \A n \in S : n < last => n + 1 \in S
    PROVE  0..last \subseteq S
<1>1. SUFFICES ASSUME (0..last) \ S # {} PROVE FALSE
  OBVIOUS
<1>2. PICK m \in (0..last) \ S : \A y \in (0..last) \ S : m <= y
  <2>1. (0..last) \ S \in SUBSET Nat
    OBVIOUS
  <2>2. QED
    BY <1>1, <2>1, Least, Zenon
<1>3. m # 0 /\ m - 1 \in 0..last /\ m - 1 \notin (0..last) \ S
  BY <1>2
<1>4. QED
  BY <1>3

-----------------------------------------------------------------------------
(* Recursion along a sequence: step says how a value goes over into the    *)
(* next one.                                                               *)

Along(f, k, S, base, step) ==
    f \in [0..k -> S] /\ f[0] = base /\ \A i \in 1..k : f[i] = step[i][f[i - 1]]

LEMMA Recursion ==
    ASSUME NEW S, NEW n \in Nat, NEW base \in S, NEW step \in [1..n -> [S -> S]]
    PROVE  \E f : Along(f, n, S, base, step)
<1> DEFINE N == {k \in Nat : k <= n => \E f : Along(f, k, S, base, step)}
<1>1. 0 \in N
  <2>1. Along([i \in 0..0 |-> base], 0, S, base, step)
    BY DEF Along
  <2>2. QED
    BY <2>1
<1>2. ASSUME NEW k \in N, k < n PROVE k + 1 \in N
  <2>0. k \in Nat /\ k < n /\ k + 1 \in 1..n /\ k + 1 \in Nat
    <3>1. k \in Nat /\ k < n
      BY <1>2
    <3>2. QED
      BY <3>1
  <2>1. PICK f : Along(f, k, S, base, step)
    BY <1>2
  <2>2. PICK g : g = [i \in 0..k + 1 |-> IF i = k + 1 THEN step[k + 1][f[k]] ELSE f[i]]
    OBVIOUS
  <2>3. step[k + 1][f[k]] \in S
    <3>1. f[k] \in S
      BY <2>0, <2>1 DEF Along
    <3>2. QED
      BY <2>0, <3>1
  <2>4. g \in [0..k + 1 -> S] /\ g[0] = base
    <3>1. f \in [0..k -> S] /\ f[0] = base
      BY <2>1 DEF Along
    <3> HIDE DEF N
    <3>2. \A i \in 0..k + 1 : g[i] \in S
      BY <2>0, <2>2, <2>3, <3>1
    <3>3. QED
      BY <2>0, <2>2, <3>1, <3>2
  <2>5. ASSUME NEW i \in 1..k + 1 PROVE g[i] = step[i][g[i - 1]]
    <3>1. CASE i = k + 1
      BY <2>0, <2>2, <3>1
    <3>2. CASE i # k + 1
      <4>1. i \in 1..k /\ g[i] = f[i] /\ g[i - 1] = f[i - 1]
        BY <2>0, <2>2, <3>2
      <4>2. QED
        BY <2>1, <4>1 DEF Along
    <3>3. QED
      BY <3>1, <3>2
  <2>6. Along(g, k + 1, S, base, step)
    BY <2>4, <2>5 DEF Along
  <2>7. QED
    BY <2>0, <2>6
<1> HIDE DEF N
<1>3. 0..n \subseteq N
  <2>1. N \in SUBSET Nat
    BY DEF N
  <2>2. QED
    BY <1>1, <1>2, <2>1, Induction
<1>4. n \in N
  BY <1>3
<1>5. QED
  BY <1>4 DEF N

-----------------------------------------------------------------------------
(* Greatest and least elements.                                            *)

LEMMA MaxIs ==
    ASSUME NEW S \in SUBSET Nat, NEW m \in S, \A k \in S : k <= m
    PROVE  Max(S) = m
<1>1. \A x \in S : (\A y \in S : x >= y) <=> x = m
  OBVIOUS
<1>2. QED
  BY <1>1 DEF Max

LEMMA MinIs ==
    ASSUME NEW S \in SUBSET Nat, NEW m \in S, \A k \in S : m <= k
    PROVE  Min(S) = m
<1>1. \A x \in S : (\A y \in S : x <= y) <=> x = m
  OBVIOUS
<1>2. QED
  BY <1>1 DEF Min

LEMMA MinOf ==
    ASSUME NEW S \in SUBSET Nat, S # {}
    PROVE  Min(S) \in S /\ \A k \in S : Min(S) <= k
<1>1. PICK m \in S : \A k \in S : m <= k
  BY Least, Zenon
<1>2. QED
  BY <1>1, MinIs

(* The largest of some numbers up to n is the one that is as far from n as *)
(* possible.                                                               *)
LEMMA MaxOf ==
    ASSUME NEW n \in Nat, NEW S \in SUBSET (0..n), S # {}
    PROVE  Max(S) \in S /\ \A k \in S : k <= Max(S)
<1> DEFINE D == {n - k : k \in S}
<1>1. D \in SUBSET Nat /\ D # {}
  <2>1. \A k \in S : n - k \in Nat
    OBVIOUS
  <2>2. QED
    BY <2>1
<1>2. PICK d \in D : \A e \in D : d <= e
  BY <1>1, Least, Zenon
<1>3. PICK m \in S : d = n - m
  BY <1>2
<1>4. \A k \in S : k <= m
  <2>1. ASSUME NEW k \in S PROVE k <= m
    <3>1. d <= n - k
      BY <1>2
    <3>2. QED
      BY <1>3, <3>1
  <2>2. QED
    BY <2>1
<1>5. Max(S) = m
  BY <1>4, MaxIs
<1>6. QED
  BY <1>4, <1>5

-----------------------------------------------------------------------------
(* How many elements of a sequence are in a set.                           *)

Count(seq, X) == Cardinality({i \in 1..Len(seq) : seq[i] \in X})

LEMMA CountType ==
    ASSUME NEW T, NEW seq \in Seq(T), NEW X
    PROVE  IsFiniteSet({i \in 1..Len(seq) : seq[i] \in X}) /\ Count(seq, X) \in Nat
<1>1. IsFiniteSet(1..Len(seq))
  BY FS_Interval
<1>2. {i \in 1..Len(seq) : seq[i] \in X} \in SUBSET (1..Len(seq))
  OBVIOUS
<1>3. IsFiniteSet({i \in 1..Len(seq) : seq[i] \in X})
  BY <1>1, <1>2, FS_Subset
<1>4. QED
  BY <1>3, FS_CardinalityType DEF Count

LEMMA CountNone == \A X : Count(<<>>, X) = 0
<1>1. \A X : {i \in 1..Len(<<>>) : <<>>[i] \in X} = {}
  OBVIOUS
<1>2. Cardinality({}) = 0
  BY FS_EmptySet
<1>3. QED
  BY <1>1, <1>2 DEF Count

LEMMA CountAppend ==
    ASSUME NEW T, NEW seq \in Seq(T), NEW e \in T, NEW X
    PROVE  Count(Append(seq, e), X) = Count(seq, X) + IF e \in X THEN 1 ELSE 0
<1> DEFINE C == {i \in 1..Len(seq) : seq[i] \in X}
           A == {i \in 1..Len(Append(seq, e)) : Append(seq, e)[i] \in X}
<1>1. IsFiniteSet(C) /\ Len(seq) + 1 \notin C /\ Cardinality(C) \in Nat
  <2>1. IsFiniteSet(C) /\ Cardinality(C) \in Nat
    BY CountType DEF Count
  <2>2. QED
    BY <2>1
<1>2. CASE e \in X
  <2>1. A = C \cup {Len(seq) + 1}
    BY <1>2
  <2>2. QED
    BY <1>1, <1>2, <2>1, FS_AddElement DEF Count
<1>3. CASE e \notin X
  <2>1. A = C
    BY <1>3
  <2>2. Count(Append(seq, e), X) = Cardinality(A) /\ Count(seq, X) = Cardinality(C)
    BY DEF Count
  <2> HIDE DEF A, C
  <2>3. QED
    BY <1>1, <1>3, <2>1, <2>2
<1>4. QED
  BY <1>2, <1>3

(* Two functions that agree wherever they have agreed before.              *)
GoTogether(f, g, n) == f[0] = g[0] /\ \A i \in 1..n : f[i - 1] = g[i - 1] => f[i] = g[i]

LEMMA Agree ==
    ASSUME NEW n \in Nat, NEW f, NEW g, GoTogether(f, g, n)
    PROVE  \A i \in 0..n : f[i] = g[i]
<1> DEFINE N == {k \in Nat : k <= n => f[k] = g[k]}
<1>1. 0 \in N
  BY DEF GoTogether
<1>2. ASSUME NEW k \in N, k < n PROVE k + 1 \in N
  <2>1. k + 1 \in 1..n /\ (k + 1) - 1 = k /\ f[k] = g[k]
    BY <1>2
  <2>2. QED
    BY <2>1 DEF GoTogether
<1> HIDE DEF N
<1>3. 0..n \subseteq N
  <2>1. N \in SUBSET Nat
    BY DEF N
  <2>2. QED
    BY <1>1, <1>2, <2>1, Induction
<1>4. QED
  BY <1>3 DEF N

-----------------------------------------------------------------------------
(* A sequence that is made longer by another one.                          *)

LEMMA CountConcat ==
    ASSUME NEW T, NEW a \in Seq(T), NEW b \in Seq(T), NEW X
    PROVE  Count(a \o b, X) = Count(a, X) + Count(b, X)
<1> DEFINE N == {k \in Nat : k <= Len(b) =>
                     Count(a \o SubSeq(b, 1, k), X) = Count(a, X) + Count(SubSeq(b, 1, k), X)}
<1>1. 0 \in N
  <2>1. SubSeq(b, 1, 0) = <<>> /\ a \o <<>> = a
    OBVIOUS
  <2>2. Count(a, X) \in Nat
    BY CountType
  <2>3. Count(a \o SubSeq(b, 1, 0), X) = Count(a, X) + Count(SubSeq(b, 1, 0), X)
    <3>1. Count(<<>>, X) = 0
      BY CountNone
    <3>2. Count(SubSeq(b, 1, 0), X) = 0
      BY <2>1, <3>1, Zenon
    <3>3. Count(a \o SubSeq(b, 1, 0), X) = Count(a, X)
      BY <2>1, Zenon
    <3>4. QED
      BY <2>2, <3>2, <3>3
  <2>4. QED
    BY <2>3
<1>2. ASSUME NEW k \in N, k < Len(b) PROVE k + 1 \in N
  <2>1. PICK p : p = SubSeq(b, 1, k)
    OBVIOUS
  <2>2. PICK e : e = b[k + 1]
    OBVIOUS
  <2>3. k \in Nat /\ k < Len(b) /\ Count(a \o p, X) = Count(a, X) + Count(p, X)
    BY <1>2, <2>1
  <2>4. e \in T /\ p \in Seq(T) /\ a \o p \in Seq(T)
    BY <2>1, <2>2, <2>3
  <2>5. SubSeq(b, 1, k + 1) = Append(p, e)
    BY <2>1, <2>2, <2>3
  <2>6. a \o Append(p, e) = Append(a \o p, e)
    BY <2>4, SMTT(30)
  <2>7. Count(a \o Append(p, e), X) = Count(a \o p, X) + IF e \in X THEN 1 ELSE 0
    <3>1. PICK c : c = a \o p
      OBVIOUS
    <3>2. c \in Seq(T) /\ e \in T
      BY <2>4, <3>1, Zenon
    <3>3. Count(Append(c, e), X) = Count(c, X) + IF e \in X THEN 1 ELSE 0
      BY <3>2, CountAppend
    <3>4. QED
      BY <2>6, <3>1, <3>3, Zenon
  <2>8. Count(Append(p, e), X) = Count(p, X) + IF e \in X THEN 1 ELSE 0
    BY <2>4, CountAppend
  <2>9. Count(a, X) \in Nat /\ Count(p, X) \in Nat
    BY <2>4, CountType
  <2>10. Count(a \o SubSeq(b, 1, k + 1), X) = Count(a, X) + Count(SubSeq(b, 1, k + 1), X)
    <3>1. Count(a \o Append(p, e), X) = Count(a, X) + Count(Append(p, e), X)
      <4> HIDE DEF N
      <4>1. PICK one : one = IF e \in X THEN 1 ELSE 0
        OBVIOUS
      <4>2. QED
        BY <2>3, <2>7, <2>8, <2>9, <4>1
    <3>2. QED
      BY <2>5, <3>1, Zenon
  <2>11. QED
    BY <2>3, <2>10
<1> HIDE DEF N
<1>3. 0..Len(b) \subseteq N
  <2>1. N \in SUBSET Nat /\ Len(b) \in Nat
    BY DEF N
  <2>2. QED
    BY <1>1, <1>2, <2>1, Induction
<1>4. Count(a \o SubSeq(b, 1, Len(b)), X) = Count(a, X) + Count(SubSeq(b, 1, Len(b)), X)
  <2>1. Len(b) \in 0..Len(b)
    OBVIOUS
  <2>2. Len(b) \in N
    BY <1>3, <2>1
  <2>3. QED
    BY <2>2 DEF N
<1>5. SubSeq(b, 1, Len(b)) = b
  OBVIOUS
<1>6. QED
  BY <1>4, <1>5

-----------------------------------------------------------------------------
(* Sorting.                                                                *)

Dated(T) == \A e \in T : e.date \in Nat

InTime(seq) == \A i, j \in DOMAIN seq : i < j => seq[i].date <= seq[j].date

(* Where a new element goes.                                               *)
LEMMA InsertIs ==
    ASSUME NEW T, NEW sorted \in Seq(T), NEW e \in T
    PROVE  \E p \in 1..Len(sorted) + 1 :
              /\ Insert(sorted, e) = SubSeq(sorted, 1, p - 1) \o <<e>> \o SubSeq(sorted, p, Len(sorted))
              /\ p = 1 => sorted = <<>> \/ Less(e, sorted[1])
              /\ p # 1 => ~Less(e, sorted[p - 1]) /\ \A i \in p..Len(sorted) : Less(e, sorted[i])
<1> DEFINE stops == {i \in DOMAIN sorted : ~Less(e, sorted[i])}
           place == IF sorted = <<>> \/ Less(e, sorted[1]) THEN 1 ELSE Max(stops) + 1
<1>1. Insert(sorted, e)
         = SubSeq(sorted, 1, place - 1) \o <<e>> \o SubSeq(sorted, place, Len(sorted))
  BY DEF Insert, InsertAt
<1>2. CASE sorted = <<>> \/ Less(e, sorted[1])
  <2>1. place = 1 /\ 1 \in 1..Len(sorted) + 1
    BY <1>2
  <2> HIDE DEF stops, place
  <2>2. QED
    BY <1>1, <1>2, <2>1
<1>3. CASE ~(sorted = <<>> \/ Less(e, sorted[1]))
  <2>1. stops \in SUBSET (0..Len(sorted)) /\ 1 \in stops
    BY <1>3
  <2>2. PICK m \in stops : m = Max(stops) /\ \A k \in stops : k <= m
    <3>1. Len(sorted) \in Nat
      OBVIOUS
    <3> HIDE DEF stops
    <3>2. QED
      BY <2>1, <3>1, MaxOf
  <2>3. m \in 1..Len(sorted) /\ ~Less(e, sorted[m]) /\ place = m + 1
    BY <1>3, <2>2
  <2>4. \A i \in m + 1..Len(sorted) : Less(e, sorted[i])
    <3>1. ASSUME NEW i \in m + 1..Len(sorted) PROVE Less(e, sorted[i])
      <4>1. i \in DOMAIN sorted /\ ~(i <= m)
        BY <2>3, <3>1
      <4>2. i \notin stops
        BY <2>2, <4>1
      <4>3. QED
        BY <4>1, <4>2
    <3>2. QED
      BY <3>1
  <2>5. m + 1 \in 1..Len(sorted) + 1 /\ m + 1 # 1 /\ (m + 1) - 1 = m
    BY <2>3
  <2> HIDE DEF stops, place
  <2>6. QED
    BY <1>1, <2>3, <2>4, <2>5
<1>4. QED
  BY <1>2, <1>3

LEMMA InsertType ==
    ASSUME NEW T, NEW sorted \in Seq(T), NEW e \in T
    PROVE  Insert(sorted, e) \in Seq(T)
<1>1. PICK p \in 1..Len(sorted) + 1 :
         Insert(sorted, e) = SubSeq(sorted, 1, p - 1) \o <<e>> \o SubSeq(sorted, p, Len(sorted))
  BY InsertIs
<1>2. QED
  BY <1>1

LEMMA InsertCount ==
    ASSUME NEW T, NEW sorted \in Seq(T), NEW e \in T, NEW X
    PROVE  Count(Insert(sorted, e), X) = Count(sorted, X) + IF e \in X THEN 1 ELSE 0
<1>1. PICK p \in 1..Len(sorted) + 1 :
         Insert(sorted, e) = SubSeq(sorted, 1, p - 1) \o <<e>> \o SubSeq(sorted, p, Len(sorted))
  BY InsertIs
<1>2. PICK a, b : a = SubSeq(sorted, 1, p - 1) /\ b = SubSeq(sorted, p, Len(sorted))
  OBVIOUS
<1>3. a \in Seq(T) /\ b \in Seq(T) /\ a \o b = sorted /\ a \o <<e>> = Append(a, e)
  <2>1. PICK n \in Nat : n = Len(sorted)
    OBVIOUS
  <2>2. /\ a \in Seq(T) /\ Len(a) = p - 1 /\ \A i \in 1..p - 1 : a[i] = sorted[i]
        /\ b \in Seq(T) /\ Len(b) = n + 1 - p /\ \A i \in 1..n + 1 - p : b[i] = sorted[p + i - 1]
    BY <1>2, <2>1
  <2>3. Len(a \o b) = n /\ a \o b \in Seq(T)
    BY <2>1, <2>2
  <2>4. ASSUME NEW i \in 1..n PROVE (a \o b)[i] = sorted[i]
    <3>1. CASE i <= p - 1
      BY <2>1, <2>2, <3>1
    <3>2. CASE i > p - 1
      <4>1. i - (p - 1) \in 1..n + 1 - p /\ p + (i - (p - 1)) - 1 = i
        BY <2>1, <3>2
      <4>2. (a \o b)[i] = b[i - (p - 1)]
        BY <2>1, <2>2, <3>2
      <4>3. QED
        BY <2>2, <4>1, <4>2
    <3>3. i <= p - 1 \/ i > p - 1
      BY <2>1
    <3>4. QED
      BY <3>1, <3>2, <3>3, Zenon
  <2>5. a \o b = sorted
    BY <2>1, <2>3, <2>4, SMTT(30)
  <2>6. QED
    BY <2>2, <2>5
<1>4. Count(Append(a, e) \o b, X) = Count(Append(a, e), X) + Count(b, X)
  <2>1. PICK c : c = Append(a, e)
    OBVIOUS
  <2>2. c \in Seq(T) /\ b \in Seq(T)
    BY <1>3, <2>1
  <2>3. Count(c \o b, X) = Count(c, X) + Count(b, X)
    BY <2>2, CountConcat
  <2>4. QED
    BY <2>1, <2>3, Zenon
<1>5. Count(Append(a, e), X) = Count(a, X) + IF e \in X THEN 1 ELSE 0
  BY <1>3, CountAppend
<1>6. Count(sorted, X) = Count(a, X) + Count(b, X)
  <2>1. a \in Seq(T) /\ b \in Seq(T)
    BY <1>3
  <2>2. Count(a \o b, X) = Count(a, X) + Count(b, X)
    BY <2>1, CountConcat
  <2>3. QED
    BY <1>3, <2>2, Zenon
<1>7. Count(a, X) \in Nat /\ Count(b, X) \in Nat
  BY <1>3, CountType
<1>8. Insert(sorted, e) = Append(a, e) \o b
  BY <1>1, <1>2, <1>3
<1>9. QED
  BY <1>4, <1>5, <1>6, <1>7, <1>8

LEMMA InsertInTime ==
    ASSUME NEW T, Dated(T), NEW sorted \in Seq(T), NEW e \in T, InTime(sorted)
    PROVE  InTime(Insert(sorted, e))
<1>1. PICK p \in 1..Len(sorted) + 1 :
          /\ Insert(sorted, e) = SubSeq(sorted, 1, p - 1) \o <<e>> \o SubSeq(sorted, p, Len(sorted))
          /\ p = 1 => sorted = <<>> \/ Less(e, sorted[1])
          /\ p # 1 => ~Less(e, sorted[p - 1]) /\ \A i \in p..Len(sorted) : Less(e, sorted[i])
  BY InsertIs
<1>2. PICK n \in Nat : n = Len(sorted)
  OBVIOUS
<1>3. PICK r : r = Insert(sorted, e)
  OBVIOUS
<1>4. /\ Len(r) = n + 1 /\ r \in Seq(T)
      /\ \A i \in 1..p - 1 : r[i] = sorted[i]
      /\ r[p] = e
      /\ \A i \in p + 1..n + 1 : r[i] = sorted[i - 1]
  <2>1. PICK a, b : a = SubSeq(sorted, 1, p - 1) /\ b = SubSeq(sorted, p, Len(sorted))
    OBVIOUS
  <2>2. /\ a \in Seq(T) /\ Len(a) = p - 1 /\ \A i \in 1..p - 1 : a[i] = sorted[i]
        /\ b \in Seq(T) /\ Len(b) = n + 1 - p /\ \A i \in 1..n + 1 - p : b[i] = sorted[p + i - 1]
    BY <1>2, <2>1
  <2>3. r = a \o <<e>> \o b
    BY <1>1, <1>3, <2>1
  <2>4. /\ Len(r) = n + 1 /\ r \in Seq(T)
        /\ \A i \in 1..p - 1 : r[i] = a[i]
        /\ r[p] = e
        /\ \A i \in p + 1..n + 1 : r[i] = b[i - p]
    <3>1. PICK f : f = a \o <<e>>
      OBVIOUS
    <3>2. f \in Seq(T) /\ Len(f) = p /\ f[p] = e /\ \A i \in 1..p - 1 : f[i] = a[i]
      BY <2>2, <3>1
    <3>3. r = f \o b
      BY <2>3, <3>1
    <3>4. Len(r) = n + 1 /\ r \in Seq(T)
      BY <1>2, <2>2, <3>2, <3>3, SMTT(30)
    <3>5. \A i \in 1..p : r[i] = f[i]
      BY <1>2, <2>2, <3>2, <3>3
    <3>6. \A i \in p + 1..n + 1 : r[i] = b[i - p]
      BY <1>2, <2>2, <3>2, <3>3
    <3>7. QED
      BY <3>2, <3>4, <3>5, <3>6
  <2>5. ASSUME NEW i \in p + 1..n + 1 PROVE r[i] = sorted[i - 1]
    <3>1. i - p \in 1..n + 1 - p /\ p + (i - p) - 1 = i - 1
      BY <1>2, <2>5
    <3>2. QED
      BY <2>2, <2>4, <3>1
  <2>6. QED
    BY <2>2, <2>4, <2>5
<1>5. \A i \in 1..n : sorted[i].date \in Nat
  BY <1>2 DEF Dated
<1>6. e.date \in Nat
  BY DEF Dated
<1>7. \A i \in 1..p - 1 : sorted[i].date <= e.date
  <2>1. ASSUME NEW i \in 1..p - 1 PROVE sorted[i].date <= e.date
    <3>1. p - 1 \in 1..n /\ i \in 1..n
      BY <1>2, <2>1
    <3>2. sorted[p - 1].date <= e.date
      BY <1>1, <1>5, <1>6, <3>1 DEF Less
    <3>3. sorted[i].date <= sorted[p - 1].date
      <4>1. CASE i = p - 1
        BY <1>5, <3>1, <4>1
      <4>2. CASE i # p - 1
        BY <1>2, <2>1, <3>1, <4>2 DEF InTime
      <4>3. QED
        BY <4>1, <4>2
    <3>4. QED
      BY <1>5, <1>6, <3>1, <3>2, <3>3, SMTT(30)
  <2>2. QED
    BY <2>1
<1>8. \A i \in p..n : e.date <= sorted[i].date
  <2>1. ASSUME NEW i \in p..n PROVE e.date <= sorted[i].date
    <3>1. i \in 1..n /\ 1 \in 1..n
      BY <1>2, <2>1
    <3>2. CASE p = 1
      <4>1. e.date <= sorted[1].date
        BY <1>1, <1>2, <1>5, <1>6, <3>1, <3>2 DEF Less
      <4>2. sorted[1].date <= sorted[i].date
        BY <1>2, <1>5, <3>1 DEF InTime
      <4>3. QED
        BY <1>5, <1>6, <3>1, <4>1, <4>2
    <3>3. CASE p # 1
      BY <1>1, <1>2, <1>5, <1>6, <3>1, <3>3, SMTT(30) DEF Less
    <3>4. QED
      BY <3>2, <3>3
  <2>2. QED
    BY <2>1
<1>9. ASSUME NEW i \in 1..n + 1, NEW j \in 1..n + 1, i < j PROVE r[i].date <= r[j].date
  <2>1. \A k, l \in 1..n : k < l => sorted[k].date <= sorted[l].date
    BY <1>2 DEF InTime
  <2>2. CASE j < p
    <3>1. i \in 1..p - 1 /\ j \in 1..p - 1 /\ i \in 1..n /\ j \in 1..n
      BY <1>2, <1>9, <2>2
    <3>2. QED
      BY <1>4, <1>9, <2>1, <3>1
  <2>3. CASE j = p
    BY <1>4, <1>7, <1>9, <2>3
  <2>4. CASE j > p
    <3>1. r[j] = sorted[j - 1] /\ j - 1 \in p..n
      BY <1>4, <2>4
    <3>2. CASE i < p
      <4>1. i \in 1..p - 1 /\ i \in 1..n /\ j - 1 \in 1..n /\ i < j - 1
        BY <1>2, <1>9, <3>1, <3>2
      <4>2. r[i] = sorted[i]
        BY <1>4, <4>1, Zenon
      <4>3. QED
        BY <2>1, <3>1, <4>1, <4>2, Zenon
    <3>3. CASE i = p
      BY <1>4, <1>8, <3>1, <3>3
    <3>4. CASE i > p
      <4>1. r[i] = sorted[i - 1] /\ i - 1 \in 1..n /\ j - 1 \in 1..n /\ i - 1 < j - 1
        BY <1>4, <1>9, <2>4, <3>4
      <4>2. QED
        BY <2>1, <3>1, <4>1
    <3>5. QED
      BY <3>2, <3>3, <3>4
  <2>5. QED
    BY <2>2, <2>3, <2>4
<1>10. QED
  BY <1>3, <1>4, <1>9 DEF InTime

LEMMA SortedIs ==
    ASSUME NEW T, NEW events \in Seq(T)
    PROVE  \E f \in [0..Len(events) -> Seq(T)] :
              /\ f[0] = <<>>
              /\ \A i \in 1..Len(events) : f[i] = Insert(f[i - 1], events[i])
              /\ Sorted(events) = f[Len(events)]
<1>1. PICK n \in Nat : n = Len(events)
  OBVIOUS
<1>2. PICK step : step = [i \in 1..n |-> [s \in Seq(T) |-> Insert(s, events[i])]]
  OBVIOUS
<1>3. step \in [1..n -> [Seq(T) -> Seq(T)]]
  <2>1. ASSUME NEW i \in 1..n, NEW s \in Seq(T) PROVE Insert(s, events[i]) \in Seq(T)
    <3>1. events[i] \in T
      BY <1>1
    <3>2. QED
      BY <3>1, InsertType
  <2>2. QED
    BY <1>2, <2>1
<1>4. PICK f \in [0..n -> Seq(T)] : f[0] = <<>> /\ \A i \in 1..n : f[i] = step[i][f[i - 1]]
  <2>1. <<>> \in Seq(T)
    OBVIOUS
  <2>2. PICK f : Along(f, n, Seq(T), <<>>, step)
    BY <1>3, <2>1, Recursion
  <2>3. QED
    BY <2>2 DEF Along
<1>5. \A i \in 1..n : f[i] = Insert(f[i - 1], events[i])
  <2>1. ASSUME NEW i \in 1..n PROVE f[i] = Insert(f[i - 1], events[i])
    <3>1. f[i - 1] \in Seq(T) /\ f[i] = step[i][f[i - 1]]
      <4>1. i - 1 \in 0..n
        OBVIOUS
      <4>2. QED
        BY <1>4, <4>1
    <3>2. QED
      BY <1>2, <3>1
  <2>2. QED
    BY <2>1
<1>6. f = [i \in 0..n |-> IF i = 0 THEN <<>> ELSE Insert(f[i - 1], events[i])]
  BY <1>4, <1>5
<1>7. PICK g : g = CHOOSE h : h = [i \in 0..Len(events) |->
                                     IF i = 0 THEN <<>> ELSE Insert(h[i - 1], events[i])]
  OBVIOUS
<1>8. g = [i \in 0..n |-> IF i = 0 THEN <<>> ELSE Insert(g[i - 1], events[i])]
  BY <1>1, <1>6, <1>7, Zenon
<1>9. \A i \in 0..n : f[i] = g[i]
  <2>1. f[0] = g[0]
    BY <1>4, <1>8
  <2>2. ASSUME NEW i \in 1..n, f[i - 1] = g[i - 1] PROVE f[i] = g[i]
    <3>1. g[i] = Insert(g[i - 1], events[i])
      BY <1>8, SMTT(30)
    <3>2. QED
      BY <1>5, <2>2, <3>1
  <2>3. GoTogether(f, g, n)
    BY <2>1, <2>2 DEF GoTogether
  <2>4. QED
    BY <2>3, Agree
<1>10. Sorted(events) = g[n]
  BY <1>1, <1>7, Zenon DEF Sorted
<1>11. QED
  BY <1>1, <1>4, <1>5, <1>9, <1>10

LEMMA SortedType ==
    ASSUME NEW T, NEW events \in Seq(T)
    PROVE  Sorted(events) \in Seq(T)
  BY SortedIs, SMTT(30)

LEMMA SortedCount ==
    ASSUME NEW T, NEW events \in Seq(T), NEW X
    PROVE  Count(Sorted(events), X) = Count(events, X)
<1>1. PICK n \in Nat : n = Len(events)
  OBVIOUS
<1>2. PICK f \in [0..n -> Seq(T)] :
          /\ f[0] = <<>>
          /\ \A i \in 1..n : f[i] = Insert(f[i - 1], events[i])
          /\ Sorted(events) = f[n]
  BY <1>1, SortedIs
<1>3. PICK was : was = [i \in 0..n |-> Count(SubSeq(events, 1, i), X)]
  OBVIOUS
<1>4. PICK is : is = [i \in 0..n |-> Count(f[i], X)]
  OBVIOUS
<1>5. is[0] = was[0]
  <2>1. SubSeq(events, 1, 0) = <<>>
    OBVIOUS
  <2>2. is[0] = Count(<<>>, X)
    BY <1>2, <1>4
  <2>3. was[0] = Count(SubSeq(events, 1, 0), X)
    BY <1>3
  <2>4. QED
    BY <2>1, <2>2, <2>3, Zenon
<1>6. ASSUME NEW i \in 1..n, is[i - 1] = was[i - 1] PROVE is[i] = was[i]
  <2>1. PICK p, e : p = SubSeq(events, 1, i - 1) /\ e = events[i]
    OBVIOUS
  <2>2. p \in Seq(T) /\ e \in T /\ SubSeq(events, 1, i) = Append(p, e)
    BY <1>1, <2>1
  <2>3. is[i] = Count(f[i - 1], X) + IF e \in X THEN 1 ELSE 0
    <3>1. f[i - 1] \in Seq(T) /\ f[i] = Insert(f[i - 1], e)
      BY <1>2, <2>1
    <3>2. Count(Insert(f[i - 1], e), X) = Count(f[i - 1], X) + IF e \in X THEN 1 ELSE 0
      BY <2>2, <3>1, InsertCount
    <3>3. is[i] = Count(f[i], X)
      BY <1>4
    <3>4. QED
      BY <3>1, <3>2, <3>3, Zenon
  <2>4. was[i] = Count(p, X) + IF e \in X THEN 1 ELSE 0
    <3>1. Count(Append(p, e), X) = Count(p, X) + IF e \in X THEN 1 ELSE 0
      BY <2>2, CountAppend
    <3>2. was[i] = Count(SubSeq(events, 1, i), X)
      BY <1>3
    <3>3. QED
      BY <2>2, <3>1, <3>2, Zenon
  <2>5. i - 1 \in 0..n
    OBVIOUS
  <2>6. is[i - 1] = Count(f[i - 1], X) /\ was[i - 1] = Count(p, X)
    BY <1>3, <1>4, <2>1, <2>5, Zenon
  <2>7. QED
    BY <1>6, <2>3, <2>4, <2>6, Zenon
<1>7. is[n] = was[n]
  <2>1. GoTogether(is, was, n)
    BY <1>5, <1>6 DEF GoTogether
  <2>2. n \in 0..n
    OBVIOUS
  <2>3. QED
    BY <2>1, <2>2, Agree
<1>8. SubSeq(events, 1, n) = events
  BY <1>1
<1>9. is[n] = Count(Sorted(events), X) /\ was[n] = Count(SubSeq(events, 1, n), X)
  BY <1>2, <1>3, <1>4
<1>10. QED
  BY <1>7, <1>8, <1>9, Zenon

LEMMA SortedInTime ==
    ASSUME NEW T, Dated(T), NEW events \in Seq(T)
    PROVE  InTime(Sorted(events))
<1>1. PICK n \in Nat : n = Len(events)
  OBVIOUS
<1>2. PICK f \in [0..n -> Seq(T)] :
          /\ f[0] = <<>>
          /\ \A i \in 1..n : f[i] = Insert(f[i - 1], events[i])
          /\ Sorted(events) = f[n]
  BY <1>1, SortedIs
<1> DEFINE N == {k \in Nat : k <= n => InTime(f[k])}
<1>3. 0 \in N
  BY <1>2 DEF InTime
<1>4. ASSUME NEW k \in N, k < n PROVE k + 1 \in N
  <2>1. k + 1 \in 1..n /\ (k + 1) - 1 = k /\ InTime(f[k]) /\ k \in 0..n
    BY <1>4
  <2>2. f[k + 1] = Insert(f[k], events[k + 1]) /\ f[k] \in Seq(T) /\ events[k + 1] \in T
    BY <1>1, <1>2, <2>1
  <2>3. InTime(f[k + 1])
    BY <2>1, <2>2, InsertInTime
  <2>4. QED
    BY <2>1, <2>3
<1> HIDE DEF N
<1>5. 0..n \subseteq N
  <2>1. N \in SUBSET Nat
    BY DEF N
  <2>2. QED
    BY <1>3, <1>4, <2>1, Induction
<1>6. n \in N
  BY <1>5
<1>7. QED
  BY <1>2, <1>6 DEF N

-----------------------------------------------------------------------------
(* Splitting a text.  The provers do not know that a literal is a string.  *)

Written ==
    {"user", "city", "event name", "date time", "general information", "d", "escription",
     "active", "forces_arrival_at_scene", "true", "false", ":", " ", "\t", "\n"}

Token == STRING \cup Written

(* What a token does to the parts so far.                                  *)
Cut(parts, x, d) ==
    IF x = d THEN Append(parts, <<>>) ELSE [parts EXCEPT ![Len(parts)] = Append(@, x)]

Parts == {p \in Seq(Seq(Token)) : p # <<>>}

LEMMA CutLast ==
    ASSUME NEW q, NEW l, NEW x, NEW d,
           q \in Seq(Seq(Token)), l \in Seq(Token), x \in Token
    PROVE  Cut(Append(q, l), x, d)
               = IF x = d THEN Append(Append(q, l), <<>>) ELSE Append(q, Append(l, x))
<1>1. PICK p : p = Append(q, l)
  OBVIOUS
<1>2. p \in Seq(Seq(Token)) /\ Len(p) = Len(q) + 1 /\ p[Len(p)] = l /\ \A i \in 1..Len(q) : p[i] = q[i]
  BY <1>1
<1>3. PICK c : c = [p EXCEPT ![Len(p)] = Append(@, x)]
  OBVIOUS
<1>4. Append(l, x) \in Seq(Token) /\ Append(q, Append(l, x)) \in Seq(Seq(Token))
  <2>1. Append(l, x) \in Seq(Token)
    OBVIOUS
  <2>2. QED
    BY <2>1
<1>5. c \in Seq(Seq(Token)) /\ Len(c) = Len(p) /\ c[Len(p)] = Append(l, x)
      /\ \A i \in 1..Len(q) : c[i] = q[i]
  BY <1>2, <1>3, <1>4
<1>6. c = Append(q, Append(l, x))
  <2>1. PICK b : b = Append(q, Append(l, x))
    OBVIOUS
  <2>2. /\ b \in Seq(Seq(Token)) /\ Len(b) = Len(q) + 1 /\ b[Len(q) + 1] = Append(l, x)
        /\ \A i \in 1..Len(q) : b[i] = q[i]
    BY <1>4, <2>1
  <2>3. QED
    BY <1>2, <1>5, <2>1, <2>2
<1>7. QED
  BY <1>1, <1>3, <1>6, Zenon DEF Cut

LEMMA PartsLast ==
    ASSUME NEW p,
           p \in Parts
    PROVE  \E q \in Seq(Seq(Token)), l \in Seq(Token) : p = Append(q, l)
<1>1. p \in Seq(Seq(Token)) /\ Len(p) \in Nat /\ Len(p) > 0
  BY DEF Parts
<1>2. SubSeq(p, 1, Len(p) - 1) \in Seq(Seq(Token)) /\ p[Len(p)] \in Seq(Token)
  BY <1>1
<1>3. p = Append(SubSeq(p, 1, Len(p) - 1), p[Len(p)])
  BY <1>1, SMTT(30)
<1>4. QED
  BY <1>2, <1>3

LEMMA CutType ==
    ASSUME NEW p, NEW x, NEW d,
           p \in Parts, x \in Token
    PROVE  Cut(p, x, d) \in Parts
<1>1. PICK q \in Seq(Seq(Token)), l \in Seq(Token) : p = Append(q, l)
  BY PartsLast
<1>2. Cut(p, x, d) = IF x = d THEN Append(Append(q, l), <<>>) ELSE Append(q, Append(l, x))
  BY <1>1, CutLast
<1>3. ASSUME NEW a \in Seq(Seq(Token)), NEW b \in Seq(Token) PROVE Append(a, b) \in Parts
  <2>1. PICK c : c = Append(a, b)
    OBVIOUS
  <2>2. c \in Seq(Seq(Token)) /\ Len(c) = Len(a) + 1
    BY <2>1
  <2>3. c # <<>>
    BY <2>2
  <2>4. QED
    BY <2>1, <2>2, <2>3 DEF Parts
<1>4. Append(q, l) \in Seq(Seq(Token)) /\ <<>> \in Seq(Token) /\ Append(l, x) \in Seq(Token)
  OBVIOUS
<1>5. QED
  BY <1>2, <1>3, <1>4

SplitsBy(f, text, n, d) ==
    f[0] = << <<>> >> /\ \A i \in 1..n : f[i] = Cut(f[i - 1], text[i], d)

LEMMA SplitIs ==
    ASSUME NEW text, NEW d,
           text \in Seq(Token)
    PROVE  \E f \in [0..Len(text) -> Parts] :
              SplitsBy(f, text, Len(text), d) /\ Split(text, d) = f[Len(text)]
<1>1. PICK n \in Nat : n = Len(text)
  OBVIOUS
<1>2. PICK step : step = [i \in 1..n |-> [p \in Parts |-> Cut(p, text[i], d)]]
  OBVIOUS
<1>3. step \in [1..n -> [Parts -> Parts]]
  <2>1. ASSUME NEW i \in 1..n, NEW p \in Parts PROVE Cut(p, text[i], d) \in Parts
    <3>1. text[i] \in Token
      BY <1>1
    <3>2. QED
      BY <3>1, CutType
  <2>2. QED
    BY <1>2, <2>1
<1>4. PICK f \in [0..n -> Parts] : f[0] = << <<>> >> /\ \A i \in 1..n : f[i] = step[i][f[i - 1]]
  <2>1. << <<>> >> \in Parts
    <3>1. <<>> \in Seq(Token)
      OBVIOUS
    <3>2. QED
      BY <3>1 DEF Parts
  <2>2. PICK f : Along(f, n, Parts, << <<>> >>, step)
    BY <1>3, <2>1, Recursion
  <2>3. QED
    BY <2>2 DEF Along
<1>5. \A i \in 1..n : f[i] = Cut(f[i - 1], text[i], d)
  <2>1. ASSUME NEW i \in 1..n PROVE f[i] = Cut(f[i - 1], text[i], d)
    <3>1. f[i - 1] \in Parts /\ f[i] = step[i][f[i - 1]]
      <4>1. i - 1 \in 0..n
        OBVIOUS
      <4>2. QED
        BY <1>4, <4>1
    <3>2. QED
      BY <1>2, <3>1
  <2>2. QED
    BY <2>1
<1>6. f = [i \in 0..n |-> IF i = 0 THEN << <<>> >> ELSE Cut(f[i - 1], text[i], d)]
  <2>1. \A i \in 0..n : f[i] = IF i = 0 THEN << <<>> >> ELSE Cut(f[i - 1], text[i], d)
    <3>1. ASSUME NEW i \in 0..n, i # 0 PROVE f[i] = Cut(f[i - 1], text[i], d)
      <4>1. i \in 1..n
        BY <3>1
      <4>2. QED
        BY <1>5, <4>1
    <3>2. QED
      BY <1>4, <3>1
  <2>2. f = [i \in 0..n |-> f[i]]
    BY <1>4
  <2>3. QED
    BY <2>1, <2>2
<1>7. PICK g : g = CHOOSE h : h = [i \in 0..Len(text) |->
                     IF i = 0 THEN << <<>> >> ELSE Cut(h[i - 1], text[i], d)]
  OBVIOUS
<1>8. g = [i \in 0..n |-> IF i = 0 THEN << <<>> >> ELSE Cut(g[i - 1], text[i], d)]
  BY <1>1, <1>6, <1>7, Zenon
<1>9. \A i \in 0..n : f[i] = g[i]
  <2>1. f[0] = g[0]
    BY <1>4, <1>8
  <2>2. ASSUME NEW i \in 1..n, f[i - 1] = g[i - 1] PROVE f[i] = g[i]
    <3>1. g[i] = Cut(g[i - 1], text[i], d)
      <4>1. i \in 0..n /\ i # 0
        OBVIOUS
      <4>2. g[i] = IF i = 0 THEN << <<>> >> ELSE Cut(g[i - 1], text[i], d)
        BY <1>8, <4>1, Zenon
      <4>3. QED
        BY <4>1, <4>2, Zenon
    <3>2. QED
      BY <1>5, <2>2, <3>1
  <2>3. GoTogether(f, g, n)
    BY <2>1, <2>2 DEF GoTogether
  <2>4. QED
    BY <2>3, Agree
<1>10. Split(text, d) = g[n]
  BY <1>1, <1>7, Zenon DEF Split, Cut
<1>11. SplitsBy(f, text, n, d) /\ f[n] = g[n]
  <2>1. n \in 0..n
    OBVIOUS
  <2>2. QED
    BY <1>4, <1>5, <1>9, <2>1 DEF SplitsBy
<1>12. QED
  BY <1>1, <1>10, <1>11

LEMMA SplitType ==
    ASSUME NEW text, NEW d,
           text \in Seq(Token)
    PROVE  Split(text, d) \in Parts
<1>1. PICK f \in [0..Len(text) -> Parts] : Split(text, d) = f[Len(text)]
  BY SplitIs
<1>2. Len(text) \in 0..Len(text)
  OBVIOUS
<1>3. QED
  BY <1>1, <1>2

LEMMA SplitNothing == \A d : Split(<<>>, d) = << <<>> >>
<1>1. SUFFICES ASSUME NEW d PROVE Split(<<>>, d) = << <<>> >>
  OBVIOUS
<1>2. <<>> \in Seq(Token) /\ Len(<<>>) = 0
  OBVIOUS
<1>3. PICK f : SplitsBy(f, <<>>, Len(<<>>), d) /\ Split(<<>>, d) = f[Len(<<>>)]
  BY <1>2, SplitIs
<1>4. QED
  BY <1>2, <1>3 DEF SplitsBy

LEMMA SplitNext ==
    ASSUME NEW text, NEW x, NEW d,
           text \in Seq(Token), x \in Token
    PROVE  Split(Append(text, x), d) = Cut(Split(text, d), x, d)
<1>1. PICK n \in Nat : n = Len(text)
  OBVIOUS
<1>2. PICK more : more = Append(text, x)
  OBVIOUS
<1>3. /\ more \in Seq(Token) /\ Len(more) = n + 1 /\ more[n + 1] = x
      /\ \A i \in 1..n : more[i] = text[i]
  BY <1>1, <1>2
<1>4. PICK f : SplitsBy(f, text, n, d) /\ Split(text, d) = f[n]
  BY <1>1, SplitIs
<1>5. PICK g : SplitsBy(g, more, n + 1, d) /\ Split(more, d) = g[n + 1]
  BY <1>3, SplitIs
<1>6. GoTogether(f, g, n)
  <2>1. ASSUME NEW i \in 1..n, f[i - 1] = g[i - 1] PROVE f[i] = g[i]
    <3>1. i \in 1..n + 1 /\ more[i] = text[i]
      BY <1>3
    <3>2. QED
      BY <1>4, <1>5, <2>1, <3>1 DEF SplitsBy
  <2>2. QED
    BY <1>4, <1>5, <2>1 DEF GoTogether, SplitsBy
<1>7. f[n] = g[n]
  <2>1. n \in 0..n
    OBVIOUS
  <2>2. QED
    BY <1>6, <2>1, Agree
<1>8. g[n + 1] = Cut(g[n], x, d)
  <2>1. n + 1 \in 1..n + 1 /\ (n + 1) - 1 = n
    OBVIOUS
  <2>2. QED
    BY <1>3, <1>5, <2>1 DEF SplitsBy
<1>9. QED
  BY <1>2, <1>4, <1>5, <1>7, <1>8, Zenon

(* What a text without the delimiter adds goes to the last part.           *)
Fresh(a, d, q) == Split(a, d) = Append(q, <<>>)

LEMMA SplitFresh ==
    ASSUME NEW a, NEW b, NEW d, NEW q,
           a \in Seq(Token), b \in Seq(Token), ~Has(b, d), q \in Seq(Seq(Token)), Fresh(a, d, q)
    PROVE  Split(a \o b, d) = Append(q, b)
<1> DEFINE N == {k \in Nat : k <= Len(b) =>
                     Split(a \o SubSeq(b, 1, k), d) = Append(q, SubSeq(b, 1, k))}
<1>1. 0 \in N
  <2>1. SubSeq(b, 1, 0) = <<>> /\ a \o <<>> = a
    OBVIOUS
  <2>2. Split(a \o SubSeq(b, 1, 0), d) = Append(q, SubSeq(b, 1, 0))
    BY <2>1, Zenon DEF Fresh
  <2>3. QED
    BY <2>2
<1>2. ASSUME NEW k \in N, k < Len(b) PROVE k + 1 \in N
  <2>1. PICK p : p = SubSeq(b, 1, k)
    OBVIOUS
  <2>2. PICK e : e = b[k + 1]
    OBVIOUS
  <2>3. k \in Nat /\ k < Len(b) /\ Split(a \o p, d) = Append(q, p)
    BY <1>2, <2>1
  <2> HIDE DEF N
  <2>4. p \in Seq(Token) /\ e \in Token /\ e # d /\ SubSeq(b, 1, k + 1) = Append(p, e)
    BY <2>1, <2>2, <2>3, SMTT(30) DEF Has
  <2>5. a \o p \in Seq(Token) /\ a \o Append(p, e) = Append(a \o p, e)
    <3>1. p \in Seq(Token) /\ e \in Token
      BY <2>4
    <3>2. QED
      BY <3>1, SMTT(30)
  <2>6. Split(Append(a \o p, e), d) = Cut(Split(a \o p, d), e, d)
    BY <2>4, <2>5, SplitNext
  <2>7. Cut(Append(q, p), e, d) = Append(q, Append(p, e))
    <3>1. Cut(Append(q, p), e, d) = IF e = d THEN Append(Append(q, p), <<>>) ELSE Append(q, Append(p, e))
      BY <2>4, CutLast
    <3>2. QED
      BY <2>4, <3>1, Zenon
  <2>8. Split(a \o SubSeq(b, 1, k + 1), d) = Append(q, SubSeq(b, 1, k + 1))
    BY <2>3, <2>4, <2>5, <2>6, <2>7, Zenon
  <2>9. QED
    BY <2>3, <2>8 DEF N
<1> HIDE DEF N
<1>3. 0..Len(b) \subseteq N
  <2>1. N \in SUBSET Nat /\ Len(b) \in Nat
    BY DEF N
  <2>2. QED
    BY <1>1, <1>2, <2>1, Induction
<1>4. Len(b) \in N
  BY <1>3
<1>5. Split(a \o SubSeq(b, 1, Len(b)), d) = Append(q, SubSeq(b, 1, Len(b)))
  BY <1>4 DEF N
<1>6. SubSeq(b, 1, Len(b)) = b
  OBVIOUS
<1>7. QED
  BY <1>5, <1>6, Zenon

LEMMA SplitLone ==
    ASSUME NEW text, NEW d,
           text \in Seq(Token), ~Has(text, d)
    PROVE  Split(text, d) = <<text>>
<1>1. PICK none : none = <<>>
  OBVIOUS
<1>2. none \in Seq(Seq(Token)) /\ none \in Seq(Token) /\ none \o text = text
  BY <1>1
<1>3. Append(none, none) = << none >> /\ Append(none, text) = <<text>>
  BY <1>1
<1>4. Fresh(none, d, none)
  BY <1>1, <1>3, SplitNothing, Zenon DEF Fresh
<1>5. Split(none \o text, d) = Append(none, text)
  BY <1>2, <1>4, SplitFresh
<1>6. QED
  BY <1>2, <1>3, <1>5, Zenon

(* A text can be split on both sides of a delimiter.                       *)
LEMMA SplitAt ==
    ASSUME NEW a, NEW b, NEW d,
           a \in Seq(Token), b \in Seq(Token), d \in Token
    PROVE  Split(Append(a, d) \o b, d) = Split(a, d) \o Split(b, d)
<1>0. PICK s, c : s = Split(a, d) /\ c = Append(a, d)
  OBVIOUS
<1>1. s \in Seq(Seq(Token)) /\ s # <<>>
  BY <1>0, SplitType DEF Parts
<1>2. c \in Seq(Token) /\ Split(c, d) = Append(s, <<>>)
  <2>1. c \in Seq(Token)
    BY <1>0
  <2>2. Split(Append(a, d), d) = Cut(Split(a, d), d, d)
    BY SplitNext
  <2>3. Cut(Split(a, d), d, d) = Append(Split(a, d), <<>>)
    BY Zenon DEF Cut
  <2>4. QED
    BY <1>0, <2>1, <2>2, <2>3, Zenon
<1> DEFINE N == {k \in Nat : k <= Len(b) =>
                     Split(c \o SubSeq(b, 1, k), d) = s \o Split(SubSeq(b, 1, k), d)}
<1>3. 0 \in N
  <2>1. SubSeq(b, 1, 0) = <<>>
    OBVIOUS
  <2>2. c \o <<>> = c /\ s \o << <<>> >> = Append(s, <<>>)
    BY <1>1, <1>2
  <2>3. Split(<<>>, d) = << <<>> >>
    BY SplitNothing
  <2>4. Split(c \o SubSeq(b, 1, 0), d) = s \o Split(SubSeq(b, 1, 0), d)
    BY <1>2, <2>1, <2>2, <2>3, Zenon
  <2>5. QED
    BY <2>4
<1>4. ASSUME NEW k \in N, k < Len(b) PROVE k + 1 \in N
  <2>1. PICK p : p = SubSeq(b, 1, k)
    OBVIOUS
  <2>2. PICK e : e = b[k + 1]
    OBVIOUS
  <2>3. k \in Nat /\ k < Len(b) /\ Split(c \o p, d) = s \o Split(p, d)
    BY <1>4, <2>1
  <2> HIDE DEF N
  <2>4. p \in Seq(Token) /\ e \in Token /\ SubSeq(b, 1, k + 1) = Append(p, e)
    BY <2>1, <2>2, <2>3
  <2>5. c \o p \in Seq(Token) /\ c \o Append(p, e) = Append(c \o p, e)
    BY <1>2, <2>4, SMTT(30)
  <2>6. PICK q \in Seq(Seq(Token)), l \in Seq(Token) : Split(p, d) = Append(q, l)
    BY <2>4, SplitType, PartsLast
  <2>7. Split(Append(c \o p, e), d) = Cut(Split(c \o p, d), e, d)
    BY <2>4, <2>5, SplitNext
  <2>8. s \o q \in Seq(Seq(Token)) /\ s \o Append(q, l) = Append(s \o q, l)
    BY <1>1, <2>6, SMTT(30)
  <2>9. Cut(Append(s \o q, l), e, d)
           = IF e = d THEN Append(Append(s \o q, l), <<>>) ELSE Append(s \o q, Append(l, e))
    <3>1. PICK r : r = s \o q
      OBVIOUS
    <3>2. r \in Seq(Seq(Token))
      BY <2>8, <3>1
    <3>3. Cut(Append(r, l), e, d) = IF e = d THEN Append(Append(r, l), <<>>) ELSE Append(r, Append(l, e))
      <4>1. e \in Token /\ l \in Seq(Token)
        BY <2>4, <2>6
      <4>2. QED
        BY <3>2, <4>1, CutLast, SMTT(30)
    <3>4. QED
      BY <3>1, <3>3, Zenon
  <2>10. Cut(Append(q, l), e, d)
           = IF e = d THEN Append(Append(q, l), <<>>) ELSE Append(q, Append(l, e))
    BY <2>4, <2>6, CutLast
  <2>11. Split(Append(p, e), d) = Cut(Split(p, d), e, d)
    BY <2>4, SplitNext
  <2>12. s \o Append(Append(q, l), <<>>) = Append(Append(s \o q, l), <<>>)
    <3>1. Append(q, l) \in Seq(Seq(Token)) /\ <<>> \in Seq(Token)
      BY <2>6
    <3>2. s \o Append(Append(q, l), <<>>) = Append(s \o Append(q, l), <<>>)
      BY <1>1, <3>1, SMTT(30)
    <3>3. QED
      BY <2>8, <3>2, Zenon
  <2>13. s \o Append(q, Append(l, e)) = Append(s \o q, Append(l, e))
    <3>1. Append(l, e) \in Seq(Token)
      BY <2>4, <2>6
    <3>2. QED
      BY <1>1, <2>6, <3>1, SMTT(30)
  <2>14. Cut(s \o Append(q, l), e, d) = s \o Cut(Append(q, l), e, d)
    BY <2>8, <2>9, <2>10, <2>12, <2>13, Zenon
  <2>15. Split(c \o SubSeq(b, 1, k + 1), d) = s \o Split(SubSeq(b, 1, k + 1), d)
    BY <2>3, <2>4, <2>5, <2>6, <2>7, <2>11, <2>14, Zenon
  <2>16. QED
    BY <2>3, <2>15, SMTT(30) DEF N
<1> HIDE DEF N
<1>5. 0..Len(b) \subseteq N
  <2>1. N \in SUBSET Nat /\ Len(b) \in Nat
    BY DEF N
  <2>2. QED
    BY <1>3, <1>4, <2>1, Induction
<1>6. Len(b) \in N
  BY <1>5
<1>7. Split(c \o SubSeq(b, 1, Len(b)), d) = s \o Split(SubSeq(b, 1, Len(b)), d)
  BY <1>6 DEF N
<1>8. SubSeq(b, 1, Len(b)) = b
  OBVIOUS
<1>9. QED
  BY <1>0, <1>7, <1>8, Zenon

LEMMA SplitFirst ==
    ASSUME NEW a, NEW b, NEW d,
           a \in Seq(Token), b \in Seq(Token), d \in Token, ~Has(a, d)
    PROVE  Split(Append(a, d) \o b, d) = <<a>> \o Split(b, d)
<1>1. Split(a, d) = <<a>>
  BY SplitLone
<1>2. Split(Append(a, d) \o b, d) = Split(a, d) \o Split(b, d)
  BY SplitAt
<1>3. QED
  BY <1>1, <1>2, Zenon

(* The lines of a text that ends with a newline.                           *)
Ends(text, lines) ==
    /\ text \in Seq(Token)
    /\ lines \in Seq(Seq(Token))
    /\ Fresh(text, "\n", lines)

LEMMA EndsNothing == Ends(<<>>, <<>>)
<1>1. <<>> \in Seq(Token) /\ <<>> \in Seq(Seq(Token)) /\ Append(<<>>, <<>>) = << <<>> >>
  OBVIOUS
<1>2. QED
  BY <1>1, SplitNothing, Zenon DEF Ends, Fresh

LEMMA MarksAreTokens == "\n" \in Token /\ ":" \in Token /\ " " \in Token /\ "\t" \in Token
  BY DEF Token, Written

LEMMA EndsLine ==
    ASSUME NEW text, NEW lines, NEW line,
           Ends(text, lines), line \in Seq(Token), ~Has(line, "\n")
    PROVE  Ends(text \o Append(line, "\n"), Append(lines, line))
<1>1. text \in Seq(Token) /\ lines \in Seq(Seq(Token)) /\ Fresh(text, "\n", lines)
  BY DEF Ends
<1>2. Split(text \o line, "\n") = Append(lines, line)
  BY <1>1, SplitFresh
<1>3. text \o line \in Seq(Token) /\ text \o Append(line, "\n") = Append(text \o line, "\n")
      /\ Append(text \o line, "\n") \in Seq(Token)
  <2>1. PICK newline : newline = "\n"
    OBVIOUS
  <2>2. newline \in Token
    BY <2>1, MarksAreTokens, Zenon
  <2>3. text \o line \in Seq(Token)
    BY <1>1
  <2>4. text \o Append(line, newline) = Append(text \o line, newline)
    BY <1>1, <2>2
  <2>5. Append(text \o line, newline) \in Seq(Token)
    BY <2>2, <2>3
  <2>6. QED
    BY <2>1, <2>3, <2>4, <2>5, Zenon
<1>4. Split(Append(text \o line, "\n"), "\n") = Append(Append(lines, line), <<>>)
  <2>1. Split(Append(text \o line, "\n"), "\n") = Cut(Split(text \o line, "\n"), "\n", "\n")
    BY <1>3, MarksAreTokens, SplitNext, Zenon
  <2>2. QED
    BY <1>2, <2>1, Zenon DEF Cut
<1>5. Append(lines, line) \in Seq(Seq(Token))
  BY <1>1
<1>6. QED
  BY <1>3, <1>4, <1>5, Zenon DEF Ends, Fresh

LEMMA LinesOf ==
    ASSUME NEW text, NEW lines,
           Ends(text, lines)
    PROVE  Lines(text) = lines
<1>1. lines \in Seq(Seq(Token)) /\ <<>> \in Seq(Token)
  BY DEF Ends
<1>2. PICK s : s = Append(lines, <<>>)
  OBVIOUS
<1>3. Split(text, "\n") = s
  BY <1>2, Zenon DEF Ends, Fresh
<1>4. Last(s) = <<>> /\ Front(s) = lines
  BY <1>1, <1>2 DEF Last, Front
<1>5. QED
  BY <1>3, <1>4, Zenon DEF Lines

-----------------------------------------------------------------------------
(* Reading line after line.                                                *)

ReadsBy(f, s, lines, n) == f[0] = s /\ \A i \in 1..n : f[i] = ReadLine(f[i - 1], lines[i])

Reads(s, lines, last) == \E f : ReadsBy(f, s, lines, Len(lines)) /\ f[Len(lines)] = last

LEMMA ReadsNothing == \A s : Reads(s, <<>>, s)
<1>1. ASSUME NEW s PROVE Reads(s, <<>>, s)
  <2>1. PICK f : f = [i \in 0..0 |-> s]
    OBVIOUS
  <2>2. f[0] = s /\ Len(<<>>) = 0
    BY <2>1
  <2>3. ReadsBy(f, s, <<>>, Len(<<>>)) /\ f[Len(<<>>)] = s
    BY <2>2 DEF ReadsBy
  <2>4. QED
    BY <2>3 DEF Reads
<1>2. QED
  BY <1>1

LEMMA ReadsNext ==
    ASSUME NEW s, NEW lines, NEW last, NEW line,
           lines \in Seq(Seq(Token)), Reads(s, lines, last), line \in Seq(Token)
    PROVE  Reads(s, Append(lines, line), ReadLine(last, line))
<1>1. PICK n \in Nat : n = Len(lines)
  OBVIOUS
<1>2. PICK f : ReadsBy(f, s, lines, n) /\ f[n] = last
  BY <1>1 DEF Reads
<1>3. PICK more : more = Append(lines, line)
  OBVIOUS
<1>4. Len(more) = n + 1 /\ more[n + 1] = line /\ \A i \in 1..n : more[i] = lines[i]
  BY <1>1, <1>3
<1>5. PICK z : z = ReadLine(last, line)
  OBVIOUS
<1>6. PICK g : g = [i \in 0..n + 1 |-> IF i = n + 1 THEN z ELSE f[i]]
  OBVIOUS
<1>7. g[0] = s /\ g[n + 1] = z
  BY <1>2, <1>6 DEF ReadsBy
<1>8. ASSUME NEW i \in 1..n + 1 PROVE g[i] = ReadLine(g[i - 1], more[i])
  <2>1. CASE i = n + 1
    <3>1. g[i - 1] = f[n]
      BY <1>6, <2>1
    <3>2. QED
      BY <1>2, <1>4, <1>5, <1>7, <2>1, <3>1
  <2>2. CASE i # n + 1
    <3>1. i \in 1..n /\ g[i] = f[i] /\ g[i - 1] = f[i - 1] /\ more[i] = lines[i]
      BY <1>4, <1>6, <2>2
    <3>2. QED
      BY <1>2, <3>1 DEF ReadsBy
  <2>3. QED
    BY <2>1, <2>2
<1>9. ReadsBy(g, s, more, n + 1)
  BY <1>7, <1>8 DEF ReadsBy
<1>10. QED
  BY <1>3, <1>4, <1>5, <1>7, <1>9 DEF Reads

LEMMA EventOfIs ==
    ASSUME NEW body, NEW channel, NEW last,
           Lines(body) \in Seq(Seq(Token)), Reads(Start, Lines(body), last)
    PROVE  EventOf(body, channel) = [last.event EXCEPT !.channel = channel]
<1>1. PICK lines \in Seq(Seq(Token)) : lines = Lines(body)
  OBVIOUS
<1>2. PICK n \in Nat : n = Len(lines)
  OBVIOUS
<1>3. PICK f : ReadsBy(f, Start, lines, n) /\ f[n] = last
  BY <1>1, <1>2 DEF Reads
<1>4. PICK h : h = [i \in 0..n |-> f[i]]
  OBVIOUS
<1>5. h = [i \in 0..n |-> IF i = 0 THEN Start ELSE ReadLine(h[i - 1], lines[i])]
  <2>1. ASSUME NEW i \in 0..n PROVE f[i] = IF i = 0 THEN Start ELSE ReadLine(h[i - 1], lines[i])
    <3>1. CASE i = 0
      BY <1>3, <3>1 DEF ReadsBy
    <3>2. CASE i # 0
      <4>1. i \in 1..n /\ h[i - 1] = f[i - 1]
        BY <1>4, <3>2
      <4>2. QED
        BY <1>3, <3>2, <4>1 DEF ReadsBy
    <3>3. QED
      BY <3>1, <3>2
  <2>2. QED
    BY <1>4, <2>1
<1>6. PICK g : g = CHOOSE after : after = [i \in 0..Len(lines) |->
                    IF i = 0 THEN Start ELSE ReadLine(after[i - 1], lines[i])]
  OBVIOUS
<1>7. g = [i \in 0..n |-> IF i = 0 THEN Start ELSE ReadLine(g[i - 1], lines[i])]
  BY <1>2, <1>5, <1>6, Zenon
<1>8. GoTogether(f, g, n)
  <2>1. f[0] = g[0]
    BY <1>3, <1>7 DEF ReadsBy
  <2>2. ASSUME NEW i \in 1..n, f[i - 1] = g[i - 1] PROVE f[i] = g[i]
    <3>1. i \in 0..n /\ i # 0
      OBVIOUS
    <3>2. g[i] = IF i = 0 THEN Start ELSE ReadLine(g[i - 1], lines[i])
      BY <1>7, <3>1, Zenon
    <3>3. f[i] = ReadLine(f[i - 1], lines[i])
      BY <1>3 DEF ReadsBy
    <3>4. QED
      BY <2>2, <3>1, <3>2, <3>3, Zenon
  <2>3. QED
    BY <2>1, <2>2 DEF GoTogether
<1>9. f[n] = g[n]
  <2>1. n \in 0..n
    OBVIOUS
  <2>2. QED
    BY <1>8, <2>1, Agree
<1>10. EventOf(body, channel) = [g[n].event EXCEPT !.channel = channel]
  BY <1>1, <1>2, <1>6, ZenonT(60) DEF EventOf
<1>11. QED
  BY <1>3, <1>9, <1>10, Zenon

(* What has been read after a text that ends with a newline.               *)
Gives(text, s) == \E lines : Ends(text, lines) /\ Reads(Start, lines, s)

LEMMA GivesNothing == Gives(<<>>, Start)
  BY EndsNothing, ReadsNothing DEF Gives

LEMMA GivesLine ==
    ASSUME NEW text, NEW s, NEW line,
           Gives(text, s), line \in Seq(Token), ~Has(line, "\n")
    PROVE  Gives(text \o Append(line, "\n"), ReadLine(s, line))
<1>1. PICK lines : Ends(text, lines) /\ Reads(Start, lines, s)
  BY DEF Gives
<1>2. lines \in Seq(Seq(Token))
  BY <1>1 DEF Ends
<1>3. Ends(text \o Append(line, "\n"), Append(lines, line))
  BY <1>1, EndsLine
<1>4. Reads(Start, Append(lines, line), ReadLine(s, line))
  BY <1>1, <1>2, ReadsNext
<1>5. QED
  BY <1>3, <1>4 DEF Gives

LEMMA GivesEvent ==
    ASSUME NEW text, NEW s, NEW channel,
           Gives(text, s)
    PROVE  EventOf(text, channel) = [s.event EXCEPT !.channel = channel]
<1>1. PICK lines : Ends(text, lines) /\ Reads(Start, lines, s)
  BY DEF Gives
<1>2. Lines(text) = lines /\ lines \in Seq(Seq(Token))
  BY <1>1, LinesOf DEF Ends
<1>3. QED
  BY <1>1, <1>2, EventOfIs

-----------------------------------------------------------------------------
(* One line.                                                               *)

State(e, g, d) == [event |-> e, general |-> g, describing |-> d]

LEMMA StateFields ==
    \A e, g, d : State(e, g, d).event = e /\ State(e, g, d).general = g /\ State(e, g, d).describing = d
  BY DEF State

Opened(s, e, g) == ~s.describing /\ s.event = e /\ s.general = g

LEMMA StateOpened == \A e, g : Opened(State(e, g, FALSE), e, g)
  BY DEF State, Opened

LEMMA ReadDescribing ==
    ASSUME NEW e, NEW g, NEW line
    PROVE  ReadLine(State(e, g, TRUE), line)
               = State([e EXCEPT !.description = e.description \o line \o <<"\n">>], g, TRUE)
<1>0. PICK d : d = TRUE
  BY Zenon
<1>1. PICK s : s = State(e, g, d)
  OBVIOUS
<1>2. s.describing = TRUE /\ s.event = e
  BY <1>0, <1>1, StateFields
<1>3. ReadLine(s, line) = [s EXCEPT !.event.description = s.event.description \o line \o <<"\n">>]
  BY <1>2, Zenon DEF ReadLine
<1>4. PICK t : t = e.description \o line \o <<"\n">>
  OBVIOUS
<1>5. [s EXCEPT !.event.description = t] = State([e EXCEPT !.description = t], g, d)
  <2>1. [s EXCEPT !.event.description = t] = [s EXCEPT !.event = [s.event EXCEPT !.description = t]]
    OBVIOUS
  <2>2. \A v : [s EXCEPT !.event = v] = State(v, g, d)
    BY <1>1 DEF State
  <2>3. QED
    BY <1>2, <2>1, <2>2, Zenon
<1>6. QED
  BY <1>0, <1>1, <1>2, <1>3, <1>4, <1>5, Zenon

(* A line with no colon in it.                                             *)
LEMMA ReadWords ==
    ASSUME NEW e, NEW g, NEW line, ~Has(line, ":")
    PROVE  ReadLine(State(e, g, FALSE), line) = State(e, g, FALSE)
<1>1. PICK s : s = State(e, g, FALSE)
  BY Zenon
<1>2. ~s.describing
  BY <1>1, StateFields
<1>3. ReadLine(s, line) = s
  BY <1>2, Zenon DEF ReadLine
<1>4. QED
  BY <1>1, <1>3, Zenon

(* What the line says of its key and of its value.                         *)
Means(line, key, value) ==
    Has(line, ":") /\ key = Head(Split(line, ":")) /\ value = Value(Split(line, ":"))

Kept(e, key, value) == Set(e, key, value) = e

(* A line with a key that is none of the last two.                         *)
LEMMA ReadField ==
    ASSUME NEW e, NEW line, NEW key, NEW value,
           Means(line, key, value),
           key # <<"general information">>, key # <<"d", "escription">>
    PROVE  ReadLine(State(e, FALSE, FALSE), line) = State(Set(e, key, value), FALSE, FALSE)
<1>1. PICK g : g = FALSE
  BY Zenon
<1>2. PICK s : s = State(e, g, FALSE)
  BY Zenon
<1>3. ~s.describing /\ s.event = e /\ s.general = g /\ ~s.general
  BY <1>1, <1>2, StateFields, Zenon
<1>4. ReadLine(s, line) = State(Set(e, key, value), s.general, FALSE)
  BY <1>3, Zenon DEF Means, Kept, ReadLine, State
<1>5. QED
  BY <1>1, <1>2, <1>3, <1>4, Zenon

Noted(e, key, value) == [e EXCEPT !.info = Put(e.info, key, value)]

LEMMA ReadInfo ==
    ASSUME NEW e, NEW line, NEW key, NEW value,
           Means(line, key, value),
           Kept(e, key, value),
           key # <<"general information">>, key # <<"d", "escription">>
    PROVE  ReadLine(State(e, TRUE, FALSE), line) = State(Noted(e, key, value), TRUE, FALSE)
<1>1. PICK g : g = TRUE
  BY Zenon
<1>2. PICK s : s = State(e, g, FALSE)
  BY Zenon
<1>3. ~s.describing /\ s.event = e /\ s.general = g
  <2>1. Opened(s, e, g)
    BY <1>2, StateOpened, Zenon
  <2>2. QED
    BY <2>1, Zenon DEF Opened
<1>4. ReadLine(s, line) = State(Noted(e, key, value), s.general, FALSE)
  BY <1>1, <1>3, Zenon DEF Means, Kept, ReadLine, State, Noted
<1>5. QED
  BY <1>1, <1>2, <1>3, <1>4, Zenon

LEMMA ReadDescription ==
    ASSUME NEW e, NEW line, NEW key, NEW value,
           Means(line, key, value),
           Kept(e, key, value),
           key = <<"d", "escription">>
    PROVE  ReadLine(State(e, TRUE, FALSE), line) = State(Noted(e, key, value), TRUE, TRUE)
<1>1. PICK g : g = TRUE
  BY Zenon
<1>2. PICK s : s = State(e, g, FALSE)
  BY Zenon
<1>3. ~s.describing /\ s.event = e /\ s.general = g
  <2>1. Opened(s, e, g)
    BY <1>2, StateOpened, Zenon
  <2>2. QED
    BY <2>1, Zenon DEF Opened
<1>4. key # <<"general information">>
  <2>1. \A x, y, z : <<x, y>> # <<z>>
    OBVIOUS
  <2>2. QED
    BY <2>1, Zenon
<1>5. ReadLine(s, line) = State(Noted(e, key, value), s.general, TRUE)
  BY <1>1, <1>3, <1>4, Zenon DEF Means, Kept, ReadLine, State, Noted
<1>6. QED
  BY <1>1, <1>2, <1>3, <1>4, <1>5, Zenon

LEMMA StateGeneral ==
    ASSUME NEW e, NEW g, NEW d, NEW s, s = State(e, g, d)
    PROVE  [s EXCEPT !.general = TRUE] = State(e, TRUE, d)
<1>1. \A h : [s EXCEPT !.general = h] = State(e, h, d)
  BY DEF State
<1>2. QED
  BY <1>1

LEMMA ReadGeneral ==
    ASSUME NEW e, NEW line, NEW key, NEW value,
           Means(line, key, value), key = <<"general information">>
    PROVE  ReadLine(State(e, FALSE, FALSE), line) = State(e, TRUE, FALSE)
<1>1. PICK g, d : g = FALSE /\ d = FALSE
  BY Zenon
<1>2. PICK s : s = State(e, g, d)
  BY Zenon
<1>3. ~s.describing
  BY <1>1, <1>2, StateFields, Zenon
<1>4. ReadLine(s, line) = [s EXCEPT !.general = TRUE]
  BY <1>3, Zenon DEF Means, Kept, ReadLine
<1>5. [s EXCEPT !.general = TRUE] = State(e, TRUE, d)
  BY <1>2, StateGeneral, Zenon
<1>6. QED
  BY <1>1, <1>2, <1>4, <1>5, Zenon

-----------------------------------------------------------------------------
(* Reading a description: the rest of the text, whatever its lines.        *)

Telling(e, t) == State([e EXCEPT !.description = t], TRUE, TRUE)

LEMMA TellingNext ==
    ASSUME NEW e, NEW t, NEW line, "description" \in DOMAIN e
    PROVE  ReadLine(Telling(e, t), line) = Telling(e, t \o line \o <<"\n">>)
<1>1. PICK v : v = [e EXCEPT !.description = t]
  OBVIOUS
<1>2. PICK u : u = t \o line \o <<"\n">>
  OBVIOUS
<1>3. v.description = t
  BY <1>1
<1>4. ReadLine(State(v, TRUE, TRUE), line)
          = State([v EXCEPT !.description = v.description \o line \o <<"\n">>], TRUE, TRUE)
  BY ReadDescribing
<1>5. [v EXCEPT !.description = u] = [e EXCEPT !.description = u]
  BY <1>1
<1>6. QED
  BY <1>1, <1>2, <1>3, <1>4, <1>5, Zenon DEF Telling

(* A text whose last line may be going on; t is the description up to its  *)
(* end.                                                                    *)
Half(text, e, t) ==
    /\ text \in Seq(Token)
    /\ \E lines \in Seq(Seq(Token)), l \in Seq(Token), u \in Seq(Token) :
          /\ Split(text, "\n") = Append(lines, l)
          /\ Reads(Start, lines, Telling(e, u))
          /\ u \o l = t

LEMMA HalfStart ==
    ASSUME NEW text, NEW e, NEW t \in Seq(Token), Gives(text, Telling(e, t))
    PROVE  Half(text, e, t)
<1>1. PICK lines : Ends(text, lines) /\ Reads(Start, lines, Telling(e, t))
  BY DEF Gives
<1>2. text \in Seq(Token) /\ lines \in Seq(Seq(Token)) /\ Split(text, "\n") = Append(lines, <<>>)
  BY <1>1, Zenon DEF Ends, Fresh
<1>3. <<>> \in Seq(Token) /\ t \o <<>> = t
  OBVIOUS
<1>4. QED
  BY <1>1, <1>2, <1>3, Zenon DEF Half

LEMMA HalfEnd ==
    ASSUME NEW text, NEW e, NEW t \in Seq(Token), Half(text, e, t), "description" \in DOMAIN e
    PROVE  Gives(Append(text, "\n"), Telling(e, Append(t, "\n")))
<1>1. text \in Seq(Token)
  BY DEF Half
<1>2. PICK lines \in Seq(Seq(Token)), l \in Seq(Token), u \in Seq(Token) :
          /\ Split(text, "\n") = Append(lines, l)
          /\ Reads(Start, lines, Telling(e, u))
          /\ u \o l = t
  BY Zenon DEF Half
<1>3. Split(Append(text, "\n"), "\n") = Append(Append(lines, l), <<>>)
  <2>1. Split(Append(text, "\n"), "\n") = Cut(Split(text, "\n"), "\n", "\n")
    BY <1>1, MarksAreTokens, SplitNext, Zenon
  <2>2. QED
    BY <1>2, <2>1, Zenon DEF Cut
<1>4. Append(lines, l) \in Seq(Seq(Token))
  OBVIOUS
<1>5. Append(text, "\n") \in Seq(Token)
  <2>1. PICK newline : newline = "\n"
    OBVIOUS
  <2>2. newline \in Token
    BY <2>1, MarksAreTokens, Zenon
  <2>3. Append(text, newline) \in Seq(Token)
    BY <1>1, <2>2
  <2>4. QED
    BY <2>1, <2>3, Zenon
<1>6. Ends(Append(text, "\n"), Append(lines, l))
  BY <1>3, <1>4, <1>5, Zenon DEF Ends, Fresh
<1>7. Reads(Start, Append(lines, l), ReadLine(Telling(e, u), l))
  BY <1>2, ReadsNext
<1>8. ReadLine(Telling(e, u), l) = Telling(e, u \o l \o <<"\n">>)
  BY TellingNext
<1>9. t \o <<"\n">> = Append(t, "\n")
  <2>1. PICK newline : newline = "\n"
    OBVIOUS
  <2>2. newline \in Token
    BY <2>1, MarksAreTokens, Zenon
  <2>3. t \o <<newline>> = Append(t, newline)
    BY <2>2
  <2>4. QED
    BY <2>1, <2>3, Zenon
<1>10. ReadLine(Telling(e, u), l) = Telling(e, Append(t, "\n"))
  BY <1>2, <1>8, <1>9, Zenon
<1>11. Reads(Start, Append(lines, l), Telling(e, Append(t, "\n")))
  BY <1>7, <1>10, Zenon
<1>12. QED
  BY <1>6, <1>11, Zenon DEF Gives

LEMMA HalfNext ==
    ASSUME NEW text, NEW e, NEW t \in Seq(Token), Half(text, e, t), "description" \in DOMAIN e,
           NEW x \in Token
    PROVE  Half(Append(text, x), e, Append(t, x))
<1>1. CASE x = "\n"
  <2>1. Gives(Append(text, "\n"), Telling(e, Append(t, "\n")))
    BY HalfEnd
  <2>2. Append(t, x) \in Seq(Token)
    OBVIOUS
  <2>3. QED
    BY <1>1, <2>1, <2>2, HalfStart
<1>2. CASE x # "\n"
  <2>1. PICK lines \in Seq(Seq(Token)), l \in Seq(Token), u \in Seq(Token) :
          /\ Split(text, "\n") = Append(lines, l)
          /\ Reads(Start, lines, Telling(e, u))
          /\ u \o l = t
    BY Zenon DEF Half
  <2>2. text \in Seq(Token)
    BY DEF Half
  <2>3. Split(Append(text, x), "\n") = Cut(Split(text, "\n"), x, "\n")
    BY <2>2, SplitNext
  <2>4. Cut(Append(lines, l), x, "\n")
            = IF x = "\n" THEN Append(Append(lines, l), <<>>) ELSE Append(lines, Append(l, x))
    BY CutLast
  <2>5. Split(Append(text, x), "\n") = Append(lines, Append(l, x))
    BY <1>2, <2>1, <2>3, <2>4, Zenon
  <2>6. Append(l, x) \in Seq(Token) /\ Append(text, x) \in Seq(Token)
    BY <2>2
  <2>7. u \o Append(l, x) = Append(u \o l, x)
    BY SMTT(30)
  <2>8. u \o Append(l, x) = Append(t, x)
    BY <2>1, <2>7, Zenon
  <2>9. QED
    BY <2>1, <2>5, <2>6, <2>8, Zenon DEF Half
<1>3. QED
  BY <1>1, <1>2

LEMMA GivesDescription ==
    ASSUME NEW text \in Seq(Token), NEW e, Gives(text, Telling(e, <<>>)), "description" \in DOMAIN e,
           NEW t \in Seq(Token)
    PROVE  Gives(text \o Append(t, "\n"), Telling(e, Append(t, "\n")))
<1> DEFINE N == {k \in Nat : k <= Len(t) => Half(text \o SubSeq(t, 1, k), e, SubSeq(t, 1, k))}
<1>1. 0 \in N
  <2>1. SubSeq(t, 1, 0) = <<>> /\ text \o <<>> = text /\ <<>> \in Seq(Token)
    OBVIOUS
  <2>2. Half(text, e, <<>>)
    BY <2>1, HalfStart, Zenon
  <2>3. Half(text \o SubSeq(t, 1, 0), e, SubSeq(t, 1, 0))
    BY <2>1, <2>2, Zenon
  <2>4. QED
    BY <2>3
<1>2. ASSUME NEW k \in N, k < Len(t) PROVE k + 1 \in N
  <2>1. PICK p : p = SubSeq(t, 1, k)
    OBVIOUS
  <2>2. PICK x : x = t[k + 1]
    OBVIOUS
  <2>3. k \in Nat /\ k < Len(t) /\ Half(text \o p, e, p)
    BY <1>2, <2>1
  <2> HIDE DEF N
  <2>4. p \in Seq(Token) /\ x \in Token /\ SubSeq(t, 1, k + 1) = Append(p, x)
    BY <2>1, <2>2, <2>3
  <2>5. text \o Append(p, x) = Append(text \o p, x)
    BY <2>4, SMTT(30)
  <2>6. Half(Append(text \o p, x), e, Append(p, x))
    BY <2>3, <2>4, HalfNext
  <2>7. Half(text \o SubSeq(t, 1, k + 1), e, SubSeq(t, 1, k + 1))
    BY <2>4, <2>5, <2>6, Zenon
  <2>8. QED
    BY <2>3, <2>7 DEF N
<1> HIDE DEF N
<1>3. 0..Len(t) \subseteq N
  <2>1. N \in SUBSET Nat /\ Len(t) \in Nat
    BY DEF N
  <2>2. QED
    BY <1>1, <1>2, <2>1, Induction
<1>4. Len(t) \in N
  BY <1>3
<1>5. Half(text \o SubSeq(t, 1, Len(t)), e, SubSeq(t, 1, Len(t)))
  BY <1>4 DEF N
<1>6. SubSeq(t, 1, Len(t)) = t
  OBVIOUS
<1>7. Half(text \o t, e, t)
  BY <1>5, <1>6, Zenon
<1>8. Gives(Append(text \o t, "\n"), Telling(e, Append(t, "\n")))
  BY <1>7, HalfEnd
<1>9. text \o Append(t, "\n") = Append(text \o t, "\n")
  <2>1. PICK newline : newline = "\n"
    OBVIOUS
  <2>2. newline \in Token
    BY <2>1, MarksAreTokens, Zenon
  <2>3. text \o Append(t, newline) = Append(text \o t, newline)
    BY <2>2
  <2>4. QED
    BY <2>1, <2>3, Zenon
<1>10. QED
  BY <1>8, <1>9, Zenon

-----------------------------------------------------------------------------
(* What a line with a colon in it says.                                    *)

LEMMA HasConcat ==
    ASSUME NEW T, NEW a \in Seq(T), NEW b \in Seq(T), NEW x
    PROVE  Has(a \o b, x) <=> Has(a, x) \/ Has(b, x)
<1>1. PICK c : c = a \o b
  OBVIOUS
<1>2. /\ DOMAIN a = 1..Len(a) /\ DOMAIN b = 1..Len(b) /\ DOMAIN c = 1..Len(a) + Len(b)
      /\ Len(a) \in Nat /\ Len(b) \in Nat
      /\ \A i \in 1..Len(a) : c[i] = a[i]
      /\ \A i \in 1..Len(b) : c[Len(a) + i] = b[i]
  BY <1>1
<1>3. ASSUME NEW i \in DOMAIN c, c[i] = x PROVE Has(a, x) \/ Has(b, x)
  <2>1. CASE i <= Len(a)
    BY <1>2, <1>3, <2>1 DEF Has
  <2>2. CASE i > Len(a)
    <3>1. PICK j : j = i - Len(a)
      OBVIOUS
    <3>2. j \in 1..Len(b) /\ i = Len(a) + j
      BY <1>2, <2>2, <3>1
    <3>3. QED
      BY <1>2, <1>3, <3>2 DEF Has
  <2>3. QED
    BY <1>2, <2>1, <2>2
<1>4. ASSUME NEW i \in DOMAIN a, a[i] = x PROVE Has(c, x)
  BY <1>2, <1>4 DEF Has
<1>5. ASSUME NEW i \in DOMAIN b, b[i] = x PROVE Has(c, x)
  <2>1. Len(a) + i \in DOMAIN c /\ c[Len(a) + i] = x
    BY <1>2, <1>5
  <2>2. QED
    BY <2>1 DEF Has
<1>6. QED
  BY <1>1, <1>3, <1>4, <1>5 DEF Has

LEMMA HasAppend ==
    ASSUME NEW T, NEW a \in Seq(T), NEW e \in T, NEW x
    PROVE  Has(Append(a, e), x) <=> Has(a, x) \/ e = x
<1>1. PICK c : c = Append(a, e)
  OBVIOUS
<1>2. /\ DOMAIN a = 1..Len(a) /\ DOMAIN c = 1..Len(a) + 1 /\ Len(a) \in Nat
      /\ c[Len(a) + 1] = e
      /\ \A i \in 1..Len(a) : c[i] = a[i]
  BY <1>1
<1>3. Has(c, x) <=> Has(a, x) \/ e = x
  BY <1>2 DEF Has
<1>4. QED
  BY <1>1, <1>3

LEMMA HasOne == \A e, x : Has(<<e>>, x) <=> e = x
  BY DEF Has

LEMMA HasNothing == \A x : ~Has(<<>>, x)
  BY DEF Has

LEMMA SplitHas ==
    ASSUME NEW text, NEW d,
           text \in Seq(Token), d \in Token, Has(text, d)
    PROVE  Len(Split(text, d)) >= 2
<1>1. PICK i \in 1..Len(text) : text[i] = d
  BY DEF Has
<1>2. PICK a, b : a = SubSeq(text, 1, i - 1) /\ b = SubSeq(text, i + 1, Len(text))
  OBVIOUS
<1>3. a \in Seq(Token) /\ b \in Seq(Token) /\ text = Append(a, d) \o b
  <2> PICK n \in Nat : n = Len(text)
    OBVIOUS
  <2> i \in 1..n
    BY <1>1
  <2>1. /\ a \in Seq(Token) /\ b \in Seq(Token) /\ Len(a) = i - 1 /\ Len(b) = n - i
        /\ \A j \in 1..Len(a) : a[j] = text[j]
        /\ \A j \in 1..Len(b) : b[j] = text[i + j]
    BY <1>1, <1>2, SMTT(30)
  <2>2. PICK c : c = Append(a, d)
    OBVIOUS
  <2>3. c \in Seq(Token) /\ Len(c) = i /\ \A j \in 1..i : c[j] = text[j]
    BY <1>1, <2>1, <2>2, SMTT(30)
  <2>4. c \o b \in Seq(Token) /\ Len(c \o b) = n
    BY <2>1, <2>3, SMTT(30)
  <2>5. ASSUME NEW j \in 1..n PROVE (c \o b)[j] = text[j]
    <3>1. CASE j <= i
      BY <1>1, <2>1, <2>3, <3>1
    <3>2. CASE j > i
      <4>1. j - i \in 1..Len(b) /\ (c \o b)[j] = b[j - i] /\ i + (j - i) = j
        BY <1>1, <2>1, <2>3, <3>2
      <4>2. QED
        BY <2>1, <4>1
    <3>3. j <= i \/ j > i
      OBVIOUS
    <3>4. QED
      BY <3>1, <3>2, <3>3, Zenon
  <2>6. QED
    <3>1. PICK e : e = c \o b
      OBVIOUS
    <3>2. e \in Seq(Token) /\ Len(e) = n /\ \A j \in 1..n : e[j] = text[j]
      BY <2>4, <2>5, <3>1, Zenon
    <3>3. e = text
      BY <3>2
    <3>4. QED
      BY <2>1, <2>2, <3>1, <3>3
<1>4. Split(text, d) = Split(a, d) \o Split(b, d)
  BY <1>3, SplitAt
<1>5. PICK p, q : p = Split(a, d) /\ q = Split(b, d)
  OBVIOUS
<1>6. p \in Seq(Seq(Token)) /\ p # <<>> /\ q \in Seq(Seq(Token)) /\ q # <<>>
  BY <1>3, <1>5, SplitType DEF Parts
<1>7. Len(p \o q) >= 2
  BY <1>6
<1>8. QED
  BY <1>4, <1>5, <1>7

(* A line with a key and, after the colon, the rest.                       *)
Speaks(line, key, rest) ==
    /\ line \in Seq(Token)
    /\ Has(line, ":")
    /\ Head(Split(line, ":")) = key
    /\ Value(Split(line, ":")) = IF Has(rest, ":") THEN <<>> ELSE rest

LEMMA KeyOfLine ==
    ASSUME NEW key, NEW rest,
           key \in Seq(Token), rest \in Seq(Token), ~Has(key, ":")
    PROVE  Speaks(Append(key, ":") \o rest, key, rest)
<1>1. PICK colon : colon = ":" /\ colon \in Token
  BY MarksAreTokens, Zenon
<1>2. PICK line : line = Append(key, colon) \o rest
  OBVIOUS
<1>3. line \in Seq(Token)
  BY <1>1, <1>2
<1>4. Has(line, colon)
  <2>1. PICK c : c = Append(key, colon)
    OBVIOUS
  <2>2. c \in Seq(Token) /\ Has(c, colon)
    BY <1>1, <2>1, HasAppend
  <2>3. Has(c \o rest, colon)
    BY <2>2, HasConcat
  <2>4. QED
    BY <1>2, <2>1, <2>3
<1>5. PICK p : p = Split(rest, colon)
  OBVIOUS
<1>6. p \in Seq(Seq(Token)) /\ p # <<>>
  BY <1>5, SplitType DEF Parts
<1>7. Split(line, colon) = <<key>> \o p
  BY <1>1, <1>2, <1>5, SplitFirst
<1>8. PICK s : s = <<key>> \o p
  OBVIOUS
<1>9. Head(s) = key /\ Len(s) = 1 + Len(p) /\ s[2] = p[1]
  BY <1>6, <1>8
<1>10. Value(s) = IF Has(rest, colon) THEN <<>> ELSE rest
  <2>1. CASE Has(rest, colon)
    <3>1. Len(p) >= 2
      BY <1>1, <1>5, <2>1, SplitHas
    <3>2. Len(s) # 2
      BY <1>6, <1>9, <3>1
    <3>3. QED
      BY <2>1, <3>2, Zenon DEF Value
  <2>2. CASE ~Has(rest, colon)
    <3>1. p = <<rest>>
      BY <1>5, <2>2, SplitLone
    <3>2. Len(s) = 2 /\ s[2] = rest
      BY <1>9, <3>1
    <3>3. QED
      BY <2>2, <3>2, Zenon DEF Value
  <2>3. QED
    BY <2>1, <2>2
<1>11. QED
  BY <1>1, <1>2, <1>3, <1>4, <1>7, <1>8, <1>9, <1>10, Zenon DEF Speaks

LEMMA NoText == <<>> \in Seq(Token)
  OBVIOUS

LEMMA Lone == \A T : \A x \in T : <<x>> \in Seq(T)
  OBVIOUS

LEMMA HasBlank ==
    ASSUME NEW value, NEW x,
           value \in Seq(Token), x # " "
    PROVE  Has(<<" ">> \o value, x) <=> Has(value, x)
<1>1. PICK blank : blank = " "
  BY Zenon
<1>2. PICK b : b = <<blank>>
  BY Zenon
<1>3. blank \in Token
  BY <1>1, MarksAreTokens, Zenon
<1>4. b \in Seq(Token)
  BY <1>2, <1>3, Lone, Zenon
<1>5. Has(b \o value, x) <=> Has(b, x) \/ Has(value, x)
  BY <1>4, HasConcat, Zenon
<1>6. ~Has(b, x)
  BY <1>1, <1>2, HasOne, Zenon
<1>7. QED
  BY <1>1, <1>2, <1>5, <1>6, Zenon

(* The lines of a body are of two forms.                                   *)
LEMMA LineIs ==
    ASSUME NEW key, NEW value,
           key \in Seq(Token), value \in Seq(Token),
           ~Has(key, ":"), ~Has(key, "\n"), ~Has(value, "\n")
    PROVE  \E line : /\ Line(key, value) = Append(line, "\n")
                     /\ Speaks(line, key, <<" ">> \o value)
                     /\ ~Has(line, "\n")
<1>1. PICK colon, newline, blank : colon = ":" /\ newline = "\n" /\ blank = " "
  BY Zenon
<1>2. colon \in Token /\ newline \in Token /\ blank \in Token
      /\ colon # newline /\ blank # newline
  BY <1>1, MarksAreTokens, Zenon
<1>3. PICK rest : rest = <<blank>> \o value
  OBVIOUS
<1>4. rest \in Seq(Token) /\ <<blank>> \in Seq(Token)
  BY <1>2, <1>3
<1>5. PICK line : line = Append(key, colon) \o rest
  OBVIOUS
<1>6. Speaks(line, key, rest)
  BY <1>1, <1>4, <1>5, KeyOfLine, Zenon
<1>7. ~Has(line, newline)
  <2>1. ~Has(rest, newline)
    BY <1>1, <1>2, <1>3, HasBlank, Zenon
  <2>2. PICK c : c = Append(key, colon)
    OBVIOUS
  <2>3. c \in Seq(Token) /\ ~Has(c, newline)
    <3>1. c \in Seq(Token)
      BY <1>2, <2>2
    <3>2. Has(c, newline) <=> Has(key, newline) \/ colon = newline
      BY <1>2, <2>2, HasAppend
    <3>3. QED
      BY <1>1, <1>2, <3>1, <3>2, Zenon
  <2>4. QED
    BY <1>4, <1>5, <2>1, <2>2, <2>3, HasConcat, ZenonT(60)
<1>8. Line(key, value) = Append(line, newline)
  <2>1. key \o <<colon, blank>> \o value \o <<newline>> = Append(Append(key, colon) \o (<<blank>> \o value), newline)
    BY <1>2, SMTT(30)
  <2>2. Line(key, value) = key \o <<colon, blank>> \o value \o <<newline>>
    BY <1>1, Zenon DEF Line
  <2>3. QED
    BY <1>3, <1>5, <2>1, <2>2, Zenon
<1>9. QED
  BY <1>1, <1>3, <1>6, <1>7, <1>8, Zenon

LEMMA LineType ==
    ASSUME NEW key, NEW value,
           key \in Seq(Token), value \in Seq(Token)
    PROVE  Line(key, value) \in Seq(Token)
<1>1. PICK colon, newline, blank : colon = ":" /\ newline = "\n" /\ blank = " "
  BY Zenon
<1>2. colon \in Token /\ newline \in Token /\ blank \in Token
  BY <1>1, MarksAreTokens, Zenon
<1>3. key \o <<colon, blank>> \o value \o <<newline>> \in Seq(Token)
  BY <1>2
<1>4. QED
  BY <1>1, <1>3, Zenon DEF Line

LEMMA BareLineIs ==
    ASSUME NEW key,
           key \in Seq(Token), ~Has(key, ":"), ~Has(key, "\n")
    PROVE  Speaks(Append(key, ":"), key, <<>>) /\ ~Has(Append(key, ":"), "\n")
<1>1. PICK colon, newline, none : colon = ":" /\ newline = "\n" /\ none = <<>>
  OBVIOUS
<1>2. colon \in Token /\ newline \in Token /\ colon # newline /\ none \in Seq(Token)
  <2>1. colon \in Token /\ newline \in Token /\ colon # newline
    BY <1>1, MarksAreTokens, Zenon
  <2>2. QED
    BY <1>1, <2>1, NoText, Zenon
<1>3. Append(key, colon) \o none = Append(key, colon)
  BY <1>1, <1>2
<1>4. Speaks(Append(key, colon), key, none)
  BY <1>1, <1>2, <1>3, KeyOfLine
<1>5. ~Has(Append(key, colon), newline)
  BY <1>1, <1>2, HasAppend
<1>6. QED
  BY <1>1, <1>4, <1>5, Zenon

-----------------------------------------------------------------------------
(* What has been read after the newlines in front and some lines.          *)
Told(text, s) == text \in Seq(Token) /\ Gives(<<"\n", "\n">> \o text, s)

LEMMA StartIs == Start = State(NoEvent, FALSE, FALSE)
  BY Zenon DEF Start, State

LEMMA Pair ==
    ASSUME NEW T, NEW x \in T, NEW y \in T
    PROVE  Append(<<x>>, y) = <<x, y>>
<1>1. PICK c, d : c = Append(<<x>>, y) /\ d = <<x, y>>
  OBVIOUS
<1>2. <<x>> \in Seq(T) /\ Len(<<x>>) = 1
  OBVIOUS
<1>3. c \in Seq(T) /\ Len(c) = 2 /\ c[1] = x /\ c[2] = y
  BY <1>1, <1>2
<1>4. d \in Seq(T) /\ Len(d) = 2 /\ d[1] = x /\ d[2] = y
  BY <1>1
<1>5. c = d
  BY <1>3, <1>4
<1>6. QED
  BY <1>1, <1>5

LEMMA Three ==
    ASSUME NEW T, NEW x \in T, NEW y \in T, NEW z \in T
    PROVE  Append(Append(<<x>>, y), z) = <<x, y, z>>
<1>1. PICK c, d : c = Append(<<x, y>>, z) /\ d = <<x, y, z>>
  OBVIOUS
<1>2. <<x, y>> \in Seq(T) /\ Len(<<x, y>>) = 2
  OBVIOUS
<1>3. c \in Seq(T) /\ Len(c) = 3 /\ c[1] = x /\ c[2] = y /\ c[3] = z
  BY <1>1, <1>2
<1>4. d \in Seq(T) /\ Len(d) = 3 /\ d[1] = x /\ d[2] = y /\ d[3] = z
  BY <1>1
<1>5. c = d
  BY <1>3, <1>4
<1>6. QED
  BY <1>1, <1>5, Pair, Zenon

LEMMA Four ==
    ASSUME NEW T, NEW x \in T, NEW y \in T, NEW z \in T, NEW w \in T
    PROVE  Append(Append(<<x, y>>, z), w) = <<x, y, z, w>>
<1>1. PICK c, d : c = Append(<<x, y, z>>, w) /\ d = <<x, y, z, w>>
  OBVIOUS
<1>2. <<x, y, z>> \in Seq(T) /\ Len(<<x, y, z>>) = 3
  OBVIOUS
<1>3. c \in Seq(T) /\ Len(c) = 4 /\ c[1] = x /\ c[2] = y /\ c[3] = z /\ c[4] = w
  BY <1>1, <1>2
<1>4. d \in Seq(T) /\ Len(d) = 4 /\ d[1] = x /\ d[2] = y /\ d[3] = z /\ d[4] = w
  BY <1>1
<1>5. c = d
  BY <1>3, <1>4
<1>6. QED
  BY <1>1, <1>5, Pair, Three, Zenon

LEMMA ToldNothing == Told(<<>>, Start)
<1>1. PICK newline, none : newline = "\n" /\ none = <<>>
  OBVIOUS
<1>2. newline \in Token /\ none \in Seq(Token) /\ ~Has(none, newline) /\ ~Has(none, ":")
  BY <1>1, MarksAreTokens, HasNothing, NoText, Zenon
<1>3. ReadLine(Start, none) = Start
  BY <1>2, StartIs, ReadWords, Zenon
<1>4. PICK one, two : one = none \o Append(none, newline) /\ two = one \o Append(none, newline)
  OBVIOUS
<1>5. Gives(one, Start)
  BY <1>1, <1>2, <1>3, <1>4, GivesNothing, GivesLine
<1>6. Gives(two, Start)
  BY <1>1, <1>2, <1>3, <1>4, <1>5, GivesLine
<1>7. two = <<newline, newline>> /\ <<newline, newline>> \o none = <<newline, newline>>
  <2>1. one = <<newline>>
    BY <1>1, <1>2, <1>4
  <2>2. two = Append(one, newline)
    BY <1>1, <1>2, <1>4, <2>1
  <2>3. Append(<<newline>>, newline) = <<newline, newline>>
    BY <1>2, Pair
  <2>4. <<newline, newline>> \in Seq(Token)
    BY <1>2
  <2>5. <<newline, newline>> \o none = <<newline, newline>>
    BY <1>1, <2>4
  <2>6. QED
    BY <2>1, <2>2, <2>3, <2>5, Zenon
<1>8. QED
  BY <1>1, <1>2, <1>6, <1>7, Zenon DEF Told

LEMMA ToldNext ==
    ASSUME NEW text, NEW s, NEW line,
           Told(text, s), line \in Seq(Token), ~Has(line, "\n")
    PROVE  Told(text \o Append(line, "\n"), ReadLine(s, line))
<1>1. PICK newline : newline = "\n"
  OBVIOUS
<1>2. newline \in Token
  BY <1>1, MarksAreTokens, Zenon
<1>3. PICK front, l : front = <<newline, newline>> /\ l = Append(line, newline)
  OBVIOUS
<1>4. text \in Seq(Token) /\ Gives(front \o text, s)
  BY <1>1, <1>3, Zenon DEF Told
<1>5. front \in Seq(Token) /\ l \in Seq(Token)
  BY <1>2, <1>3
<1>6. Gives((front \o text) \o l, ReadLine(s, line))
  BY <1>1, <1>3, <1>4, GivesLine
<1>7. (front \o text) \o l = front \o (text \o l) /\ text \o l \in Seq(Token)
  BY <1>4, <1>5, SMTT(30)
<1>8. QED
  BY <1>1, <1>3, <1>6, <1>7, Zenon DEF Told

LEMMA FieldBackIs ==
    ASSUME NEW value,
           value \in Seq(Token)
    PROVE  (IF Has(<<" ">> \o value, ":") THEN <<>> ELSE <<" ">> \o value) = FieldBack(value)
<1>1. Has(<<" ">> \o value, ":") <=> Has(value, ":")
  BY HasBlank, Zenon
<1>2. QED
  BY <1>1, Zenon DEF FieldBack

(* Which fields the keys set.                                              *)
LEMMA ToldField ==
    ASSUME NEW text, NEW e, NEW key, NEW value,
           Told(text, State(e, FALSE, FALSE)),
           key \in Seq(Token), value \in Seq(Token),
           ~Has(key, ":"), ~Has(key, "\n"), ~Has(value, "\n"),
           key # <<"general information">>, key # <<"d", "escription">>
    PROVE  Told(text \o Line(key, value), State(Set(e, key, FieldBack(value)), FALSE, FALSE))
<1>1. PICK line : /\ Line(key, value) = Append(line, "\n")
                  /\ Speaks(line, key, <<" ">> \o value)
                  /\ ~Has(line, "\n")
  BY LineIs, Zenon
<1>2. line \in Seq(Token) /\ Means(line, key, FieldBack(value))
  BY <1>1, FieldBackIs, Zenon DEF Speaks, Means
<1>3. ReadLine(State(e, FALSE, FALSE), line) = State(Set(e, key, FieldBack(value)), FALSE, FALSE)
  BY <1>2, ReadField, Zenon
<1>4. Told(text \o Append(line, "\n"), ReadLine(State(e, FALSE, FALSE), line))
  BY <1>1, <1>2, ToldNext, Zenon
<1>5. QED
  BY <1>1, <1>3, <1>4, Zenon

LEMMA ToldInfo ==
    ASSUME NEW text, NEW e, NEW key, NEW value,
           Told(text, State(e, TRUE, FALSE)),
           key \in Seq(Token), value \in Seq(Token),
           ~Has(key, ":"), ~Has(key, "\n"), ~Has(value, "\n"),
           key # <<"general information">>, key # <<"d", "escription">>,
           Kept(e, key, FieldBack(value))
    PROVE  Told(text \o Line(key, value),
                State(Noted(e, key, FieldBack(value)), TRUE, FALSE))
<1>1. PICK line : /\ Line(key, value) = Append(line, "\n")
                  /\ Speaks(line, key, <<" ">> \o value)
                  /\ ~Has(line, "\n")
  BY LineIs, Zenon
<1>2. line \in Seq(Token) /\ Means(line, key, FieldBack(value))
  BY <1>1, FieldBackIs, Zenon DEF Speaks, Means
<1>4. ReadLine(State(e, TRUE, FALSE), line)
          = State(Noted(e, key, FieldBack(value)), TRUE, FALSE)
  BY <1>2, ReadInfo, Zenon
<1>5. Told(text \o Append(line, "\n"), ReadLine(State(e, TRUE, FALSE), line))
  BY <1>1, <1>2, ToldNext, Zenon
<1>6. QED
  BY <1>1, <1>4, <1>5, Zenon

LEMMA ToldGeneral ==
    ASSUME NEW text, NEW e,
           Told(text, State(e, FALSE, FALSE))
    PROVE  Told(text \o <<"general information", ":", "\n">>, State(e, TRUE, FALSE))
<1>1. PICK word, colon, newline : word = "general information" /\ colon = ":" /\ newline = "\n"
  BY Zenon
<1>2. word \in Token /\ colon \in Token /\ newline \in Token /\ word # colon /\ word # newline
  BY <1>1, Zenon DEF Token, Written
<1>3. PICK key : key = <<word>>
  OBVIOUS
<1>4. key \in Seq(Token) /\ ~Has(key, colon) /\ ~Has(key, newline)
  BY <1>2, <1>3, Lone, HasOne, Zenon
<1>5. PICK line : line = Append(key, colon)
  OBVIOUS
<1>6. Speaks(line, key, <<>>) /\ ~Has(line, newline)
  BY <1>1, <1>4, <1>5, BareLineIs, Zenon
<1>7. line \in Seq(Token) /\ Means(line, key, Value(Split(line, ":")))
  BY <1>6, Zenon DEF Speaks, Means
<1>8. ReadLine(State(e, FALSE, FALSE), line) = State(e, TRUE, FALSE)
  BY <1>1, <1>3, <1>7, ReadGeneral, Zenon
<1>9. Append(line, newline) = <<word, colon, newline>>
  BY <1>2, <1>3, <1>5, Three
<1>10. Told(text \o Append(line, newline), ReadLine(State(e, FALSE, FALSE), line))
  BY <1>1, <1>6, <1>7, ToldNext, Zenon
<1>11. QED
  BY <1>1, <1>8, <1>9, <1>10, Zenon

LEMMA ToldDescription ==
    ASSUME NEW text, NEW e, NEW key,
           Told(text, State(e, TRUE, FALSE)),
           key = <<"d", "escription">>,
           Kept(e, key, <<>>)
    PROVE  Told(text \o <<"d", "escription", ":", "\n">>,
                State(Noted(e, key, <<>>), TRUE, TRUE))
<1>1. PICK d, word, colon, newline, none :
          d = "d" /\ word = "escription" /\ colon = ":" /\ newline = "\n" /\ none = <<>>
  OBVIOUS
<1>2. /\ d \in Token /\ word \in Token /\ colon \in Token /\ newline \in Token
      /\ word # colon /\ word # newline /\ d # colon /\ d # newline
  BY <1>1 DEF Token, Written
<1>3. key \in Seq(Token) /\ ~Has(key, colon) /\ ~Has(key, newline)
  <2>1. key = Append(<<d>>, word)
    BY <1>1, <1>2, Pair, Zenon
  <2>2. <<d>> \in Seq(Token)
    BY <1>2, Lone
  <2>3. PICK one : one = <<d>>
    OBVIOUS
  <2>4. one \in Seq(Token) /\ ~Has(one, colon) /\ ~Has(one, newline)
    BY <1>2, <2>2, <2>3, HasOne, Zenon
  <2>5. Append(one, word) \in Seq(Token)
    BY <1>2, <2>4
  <2>6. ~Has(Append(one, word), colon) /\ ~Has(Append(one, word), newline)
    BY <1>2, <2>4, HasAppend
  <2>7. QED
    BY <2>1, <2>3, <2>5, <2>6, Zenon
<1>4. PICK line : line = Append(key, colon)
  OBVIOUS
<1>5. Speaks(line, key, none) /\ ~Has(line, newline)
  BY <1>1, <1>3, <1>4, BareLineIs
<1>6. ~Has(none, ":")
  BY <1>1, HasNothing
<1>7. line \in Seq(Token) /\ Means(line, key, none)
  BY <1>1, <1>5, <1>6, Zenon DEF Speaks, Means
<1>8. ReadLine(State(e, TRUE, FALSE), line)
          = State(Noted(e, key, none), TRUE, TRUE)
  BY <1>1, <1>7, ReadDescription, Zenon
<1>9. Append(line, newline) = <<d, word, colon, newline>>
  BY <1>1, <1>2, <1>4, Four
<1>10. Told(text \o Append(line, newline), ReadLine(State(e, TRUE, FALSE), line))
  BY <1>1, <1>5, <1>7, ToldNext
<1>11. QED
  BY <1>1, <1>8, <1>9, <1>10, Zenon

-----------------------------------------------------------------------------
(* The lines of a report.                                                  *)

(* An event before the description is read.                                *)
Known(owner, city, name, date, info) ==
    [owner |-> owner, channel |-> <<>>, city |-> city, name |-> name, date |-> date,
     description |-> <<>>, info |-> info]

LEMMA NoEventIs == NoEvent = Known(<<>>, <<>>, <<>>, 0, <<>>)
  BY Zenon DEF NoEvent, Known

(* What the first keys set.                                                *)
Sets(e, key, v, then) == Set(e, key, v) = then

LEMMA SetUser ==
    ASSUME NEW o, NEW c, NEW n, NEW d, NEW i, NEW v
    PROVE  Sets(Known(o, c, n, d, i), <<"user">>, v, Known(v, c, n, d, i))
<1>1. PICK none, e, w : none = <<>> /\ e = Known(o, c, n, d, i) /\ w = v
  OBVIOUS
<1>2. e = [owner |-> o, channel |-> none, city |-> c, name |-> n, date |-> d,
           description |-> none, info |-> i]
  BY <1>1, Zenon DEF Known
<1>3. [e EXCEPT !.owner = w] = [owner |-> w, channel |-> none, city |-> c, name |-> n,
                            date |-> d, description |-> none, info |-> i]
  BY <1>2
<1>4. \A x, y : x # y => <<x>> # <<y>>
  OBVIOUS
<1>5. Set(e, <<"user">>, v) = [e EXCEPT !.owner = w]
  BY <1>1, <1>4, Zenon DEF Set
<1>6. QED
  BY <1>1, <1>3, <1>5, Zenon DEF Known, Sets

LEMMA SetCity ==
    ASSUME NEW o, NEW c, NEW n, NEW d, NEW i, NEW v
    PROVE  Sets(Known(o, c, n, d, i), <<"city">>, v, Known(o, v, n, d, i))
<1>1. PICK none, e, w : none = <<>> /\ e = Known(o, c, n, d, i) /\ w = v
  OBVIOUS
<1>2. e = [owner |-> o, channel |-> none, city |-> c, name |-> n, date |-> d,
           description |-> none, info |-> i]
  BY <1>1, Zenon DEF Known
<1>3. [e EXCEPT !.city = w] = [owner |-> o, channel |-> none, city |-> w, name |-> n,
                            date |-> d, description |-> none, info |-> i]
  BY <1>2
<1>4. \A x, y : x # y => <<x>> # <<y>>
  OBVIOUS
<1>5. Set(e, <<"city">>, v) = [e EXCEPT !.city = w]
  BY <1>1, <1>4, Zenon DEF Set
<1>6. QED
  BY <1>1, <1>3, <1>5, Zenon DEF Known, Sets

LEMMA SetName ==
    ASSUME NEW o, NEW c, NEW n, NEW d, NEW i, NEW v
    PROVE  Sets(Known(o, c, n, d, i), <<"event name">>, v, Known(o, c, v, d, i))
<1>1. PICK none, e, w : none = <<>> /\ e = Known(o, c, n, d, i) /\ w = v
  OBVIOUS
<1>2. e = [owner |-> o, channel |-> none, city |-> c, name |-> n, date |-> d,
           description |-> none, info |-> i]
  BY <1>1, Zenon DEF Known
<1>3. [e EXCEPT !.name = w] = [owner |-> o, channel |-> none, city |-> c, name |-> w,
                            date |-> d, description |-> none, info |-> i]
  BY <1>2
<1>4. \A x, y : x # y => <<x>> # <<y>>
  OBVIOUS
<1>5. Set(e, <<"event name">>, v) = [e EXCEPT !.name = w]
  BY <1>1, <1>4, Zenon DEF Set
<1>6. QED
  BY <1>1, <1>3, <1>5, Zenon DEF Known, Sets

LEMMA SetDate ==
    ASSUME NEW o, NEW c, NEW n, NEW d, NEW i, NEW v
    PROVE  Sets(Known(o, c, n, d, i), <<"date time">>, v, Known(o, c, n, Stoi(v), i))
<1>1. PICK none, e, w : none = <<>> /\ e = Known(o, c, n, d, i) /\ w = Stoi(v)
  OBVIOUS
<1>2. e = [owner |-> o, channel |-> none, city |-> c, name |-> n, date |-> d,
           description |-> none, info |-> i]
  BY <1>1, Zenon DEF Known
<1>3. [e EXCEPT !.date = w] = [owner |-> o, channel |-> none, city |-> c, name |-> n,
                            date |-> w, description |-> none, info |-> i]
  BY <1>2
<1>4. \A x, y : x # y => <<x>> # <<y>>
  OBVIOUS
<1>5. Set(e, <<"date time">>, v) = [e EXCEPT !.date = w]
  BY <1>1, <1>4, Zenon DEF Set
<1>6. QED
  BY <1>1, <1>3, <1>5, Zenon DEF Known, Sets

LEMMA SetNone ==
    ASSUME NEW e, NEW key, NEW v,
           key # <<"user">>, key # <<"channel name">>, key # <<"city">>, key # <<"event name">>,
           key # <<"date time">>
    PROVE  Kept(e, key, v)
  BY Zenon DEF Kept, Set

LEMMA NotedIs ==
    ASSUME NEW o, NEW c, NEW n, NEW d, NEW i, NEW key, NEW v
    PROVE  Noted(Known(o, c, n, d, i), key, v) = Known(o, c, n, d, Put(i, key, v))
<1>1. PICK none, e : none = <<>> /\ e = Known(o, c, n, d, i)
  OBVIOUS
<1>2. e = [owner |-> o, channel |-> none, city |-> c, name |-> n, date |-> d,
           description |-> none, info |-> i]
  BY <1>1, Zenon DEF Known
<1>3. PICK w : w = Put(i, key, v)
  OBVIOUS
<1>4. [e EXCEPT !.info = w] = [owner |-> o, channel |-> none, city |-> c, name |-> n, date |-> d,
                               description |-> none, info |-> w]
  BY <1>2
<1>5. e.info = i
  BY <1>2
<1>6. QED
  BY <1>1, <1>3, <1>4, <1>5, Zenon DEF Known, Noted

LEMMA OnlyOne ==
    ASSUME NEW T, NEW seq \in Seq(T), NEW x, Len(seq) = 1, seq[1] = x
    PROVE  seq = <<x>>
  OBVIOUS

(* The time of an event is written as one token, and read again.           *)
LEMMA TimeBack ==
    ASSUME NEW date \in Date
    PROVE  /\ Numeral(date) \in Seq(Token) /\ ~Has(Numeral(date), "\n")
           /\ Stoi(FieldBack(Numeral(date))) = date
<1>1. PICK s : s = ToString(date)
  OBVIOUS
<1>2. s \in Token /\ s \notin Blank /\ s # ":" /\ s # "\n"
  BY <1>1, NumeralAssumption, Zenon DEF Token, Blank
<1>3. Numeral(date) = <<s>>
  BY <1>1, Zenon DEF Numeral
<1>4. <<s>> \in Seq(Token) /\ ~Has(<<s>>, "\n") /\ ~Has(<<s>>, ":")
  BY <1>2, Lone, HasOne, Zenon
<1>5. PICK blank : blank = " "
  BY Zenon
<1>6. blank \in Token /\ blank \in Blank
  BY <1>5, MarksAreTokens, Zenon DEF Blank
<1>7. PICK t : t = <<blank, s>>
  OBVIOUS
<1>8. FieldBack(<<s>>) = t
  <2>1. <<blank>> \o <<s>> = Append(<<blank>>, s)
    OBVIOUS
  <2>2. Append(<<blank>>, s) = <<blank, s>>
    BY <1>2, <1>6, Pair
  <2>3. QED
    BY <1>4, <1>5, <1>7, <2>1, <2>2, Zenon DEF FieldBack
<1>9. Trim(t) = <<s>>
  <2>1. PICK ink : ink = {i \in DOMAIN t : t[i] \notin Blank}
    OBVIOUS
  <2>2. DOMAIN t = 1..2 /\ t[1] = blank /\ t[2] = s
    BY <1>7
  <2>3. ink = {2}
    BY <1>2, <1>6, <2>1, <2>2
  <2>4. Min(ink) = 2 /\ Max(ink) = 2
    <3>1. ink \in SUBSET Nat /\ 2 \in ink /\ \A k \in ink : k <= 2 /\ 2 <= k
      BY <2>3
    <3>2. QED
      BY <3>1, MinIs, MaxIs
  <2>5. ink # {}
    BY <2>3
  <2>6. SubSeq(t, 2, 2) = <<s>>
    <3>1. t \in Seq(Token) /\ Len(t) = 2
      BY <1>2, <1>6, <1>7
    <3>2. SubSeq(t, 2, 2) \in Seq(Token) /\ Len(SubSeq(t, 2, 2)) = 1 /\ SubSeq(t, 2, 2)[1] = s
      BY <2>2, <3>1
    <3>3. PICK u : u = SubSeq(t, 2, 2)
      OBVIOUS
    <3>4. u \in Seq(Token) /\ Len(u) = 1 /\ u[1] = s
      BY <3>2, <3>3, Zenon
    <3>5. QED
      BY <3>3, <3>4, OnlyOne
  <2>7. QED
    BY <2>1, <2>4, <2>5, <2>6, Zenon DEF Trim
<1>10. Stoi(t) = date
  <2>1. PICK numbers : numbers = {n \in Date : Trim(t) = Numeral(n)}
    OBVIOUS
  <2>2. ASSUME NEW n \in Date, Trim(t) = Numeral(n) PROVE n = date
    <3>1. <<s>> = <<ToString(n)>>
      BY <1>9, <2>2, Zenon DEF Numeral
    <3>2. ToString(n) = ToString(date)
      BY <1>1, <3>1
    <3>3. QED
      BY <3>2, NumeralAssumption
  <2>3. date \in numbers
    BY <1>3, <1>9, <2>1, Zenon
  <2>4. numbers # {} /\ \A n \in numbers : n = date
    BY <2>1, <2>2, <2>3
  <2>5. (CHOOSE n \in numbers : TRUE) = date
    BY <2>3, <2>4
  <2>6. QED
    BY <2>1, <2>4, <2>5, Zenon DEF Stoi
<1>11. QED
  BY <1>3, <1>4, <1>8, <1>10, Zenon

(* The keys of the lines.                                                  *)
LEMMA KeyIs ==
    ASSUME NEW word \in Token, word # ":", word # "\n"
    PROVE  <<word>> \in Seq(Token) /\ ~Has(<<word>>, ":") /\ ~Has(<<word>>, "\n")
  BY Lone, HasOne, Zenon

LEMMA Keys ==
    ASSUME NEW key \in {<<"user">>, <<"city">>, <<"event name">>, <<"date time">>}
    PROVE  /\ key \in Seq(Token) /\ ~Has(key, ":") /\ ~Has(key, "\n")
           /\ key # <<"general information">> /\ key # <<"d", "escription">>
<1>1. PICK word \in {"user", "city", "event name", "date time"} : key = <<word>>
  BY Zenon
<1>2. word \in Token /\ word # ":" /\ word # "\n" /\ word # "general information"
  BY <1>1, Zenon DEF Token, Written
<1>3. \A x, y, z : <<x, y>> # <<z>> /\ (x # y => <<x>> # <<y>>)
  BY Zenon
<1>4. QED
  BY <1>1, <1>2, <1>3, KeyIs, Zenon

LEMMA InfoKeys ==
    ASSUME NEW word \in {"active", "forces_arrival_at_scene"}, NEW key, key = <<"\t">> \o <<word>>
    PROVE  /\ key \in Seq(Token) /\ ~Has(key, ":") /\ ~Has(key, "\n")
           /\ key # <<"general information">> /\ key # <<"d", "escription">>
           /\ \A e, v : Kept(e, key, v)
           /\ Tail(key) = <<word>>
<1>1. PICK tab : tab = "\t"
  OBVIOUS
<1>2. tab \in Token /\ word \in Token /\ tab # "d" /\ tab # ":" /\ tab # "\n" /\ word # ":" /\ word # "\n"
  BY <1>1, Zenon DEF Token, Written
<1>3. PICK one : one = <<tab>>
  OBVIOUS
<1>4. one \in Seq(Token) /\ ~Has(one, ":") /\ ~Has(one, "\n")
  BY <1>2, <1>3, Lone, HasOne, Zenon
<1>5. key = Append(one, word)
  BY <1>1, <1>3
<1>6. key \in Seq(Token)
  BY <1>2, <1>4, <1>5
<1>7. ~Has(key, ":") /\ ~Has(key, "\n")
  <2>1. \A x : Has(Append(one, word), x) <=> Has(one, x) \/ word = x
    BY <1>2, <1>4, HasAppend
  <2>2. QED
    BY <1>2, <1>4, <1>5, <2>1, Zenon
<1>8. key = <<tab, word>>
  BY <1>2, <1>3, <1>5, Pair, Zenon
<1>9. \A x, y, z, w : <<x, y>> # <<z>> /\ (x # z => <<x, y>> # <<z, w>>)
  OBVIOUS
<1>10. \A z : key # <<z>>
  BY <1>8, <1>9, Zenon
<1>11. key # <<"d", "escription">>
  BY <1>2, <1>8, <1>9, Zenon
<1>12. \A e, v : Kept(e, key, v)
  BY <1>10, SetNone, Zenon
<1>13. Tail(key) = <<word>>
  <2>1. Len(key) = 2 /\ key[1] = tab /\ key[2] = word
    BY <1>8
  <2>2. Tail(key) \in Seq(Token) /\ Len(Tail(key)) = 1 /\ Tail(key)[1] = word
    BY <1>6, <2>1
  <2>3. QED
    BY <2>2, OnlyOne
<1>14. QED
  BY <1>6, <1>7, <1>10, <1>11, <1>12, <1>13, Zenon

(* The body of a report up to its description, and what is read of it.     *)
Opening(user, city, name, date, active, forces) ==
    Line(<<"user">>, user)
    \o Line(<<"city">>, city)
    \o Line(<<"event name">>, name)
    \o Line(<<"date time">>, Numeral(date))
    \o <<"general information", ":", "\n">>
    \o Line(<<"\t">> \o Active, active)
    \o Line(<<"\t">> \o Forces, forces)
    \o <<"d", "escription", ":", "\n">>

InfoBack(active, forces) ==
    Put(Put(Put(<<>>, <<"\t">> \o Active, <<" ">> \o active), <<"\t">> \o Forces, <<" ">> \o forces),
        <<"d", "escription">>, <<>>)

Name(text) == text \in Seq(Token) /\ ~Has(text, "\n")

Bool == {<<"true">>, <<"false">>}

LEMMA BoolIs ==
    ASSUME NEW v \in Bool
    PROVE  Name(v) /\ FieldBack(v) = <<" ">> \o v
<1>1. PICK word \in {"true", "false"} : v = <<word>>
  BY Zenon DEF Bool
<1>2. word \in Token /\ word # ":" /\ word # "\n"
  BY <1>1, Zenon DEF Token, Written
<1>3. v \in Seq(Token) /\ ~Has(v, ":") /\ ~Has(v, "\n")
  BY <1>1, <1>2, KeyIs, Zenon
<1>4. QED
  BY <1>3, Zenon DEF Name, FieldBack

LEMMA NotDescribed ==
    ASSUME NEW o, NEW c, NEW n, NEW d, NEW i
    PROVE  State(Known(o, c, n, d, i), TRUE, TRUE) = Telling(Known(o, c, n, d, i), <<>>)
<1>1. PICK none, e : none = <<>> /\ e = Known(o, c, n, d, i)
  OBVIOUS
<1>2. e = [owner |-> o, channel |-> none, city |-> c, name |-> n, date |-> d,
           description |-> none, info |-> i]
  BY <1>1, Zenon DEF Known
<1>3. [e EXCEPT !.description = none] = e
  BY <1>2
<1>4. QED
  BY <1>1, <1>3, Zenon DEF Telling

LEMMA OpeningTold ==
    ASSUME NEW user, NEW city, NEW name, NEW date \in Date, NEW active \in Bool, NEW forces \in Bool,
           Name(user), Name(city), Name(name)
    PROVE  Told(Opening(user, city, name, date, active, forces),
                Telling(Known(FieldBack(user), FieldBack(city), FieldBack(name), date,
                              InfoBack(active, forces)), <<>>))
<1>1. PICK o, c, n : o = FieldBack(user) /\ c = FieldBack(city) /\ n = FieldBack(name)
  OBVIOUS
<1>2. PICK none, zero : none = <<>> /\ zero = 0
  OBVIOUS
<1>3. PICK a : a = Line(<<"user">>, user)
  OBVIOUS
<1>4. Told(a, State(Known(o, none, none, zero, none), FALSE, FALSE))
  <2>1. Told(none, State(Known(none, none, none, zero, none), FALSE, FALSE))
    BY <1>2, ToldNothing, StartIs, NoEventIs, Zenon
  <2>2. Told(none \o a, State(Set(Known(none, none, none, zero, none), <<"user">>, o), FALSE, FALSE))
    BY <1>1, <1>3, <2>1, Keys, ToldField, Zenon DEF Name
  <2>3. none \o a = a
    <3>1. a \in Seq(Token)
      BY <1>3, LineType, Keys, Zenon DEF Name
    <3>2. QED
      BY <1>2, <3>1
  <2>4. Sets(Known(none, none, none, zero, none), <<"user">>, o, Known(o, none, none, zero, none))
    BY SetUser, Zenon
  <2>5. QED
    BY <2>2, <2>3, <2>4, Zenon DEF Sets
<1>5. PICK b : b = a \o Line(<<"city">>, city)
  OBVIOUS
<1>6. Told(b, State(Known(o, c, none, zero, none), FALSE, FALSE))
  <2>1. Told(b, State(Set(Known(o, none, none, zero, none), <<"city">>, c), FALSE, FALSE))
    BY <1>1, <1>4, <1>5, Keys, ToldField, Zenon DEF Name
  <2>2. Sets(Known(o, none, none, zero, none), <<"city">>, c, Known(o, c, none, zero, none))
    BY SetCity, Zenon
  <2>3. QED
    BY <2>1, <2>2, Zenon DEF Sets
<1>7. PICK d : d = b \o Line(<<"event name">>, name)
  BY Zenon
<1>8. Told(d, State(Known(o, c, n, zero, none), FALSE, FALSE))
  <2>1. Told(d, State(Set(Known(o, c, none, zero, none), <<"event name">>, n), FALSE, FALSE))
    BY <1>1, <1>6, <1>7, Keys, ToldField, Zenon DEF Name
  <2>2. Sets(Known(o, c, none, zero, none), <<"event name">>, n, Known(o, c, n, zero, none))
    BY SetName, Zenon
  <2>3. QED
    BY <2>1, <2>2, Zenon DEF Sets
<1>9. PICK e : e = d \o Line(<<"date time">>, Numeral(date))
  BY Zenon
<1>10. Told(e, State(Known(o, c, n, date, none), FALSE, FALSE))
  <2>1. Told(e, State(Set(Known(o, c, n, zero, none), <<"date time">>, FieldBack(Numeral(date))), FALSE, FALSE))
    BY <1>8, <1>9, TimeBack, Keys, ToldField, Zenon
  <2>2. PICK t : t = FieldBack(Numeral(date))
    OBVIOUS
  <2>3. Sets(Known(o, c, n, zero, none), <<"date time">>, t, Known(o, c, n, Stoi(t), none))
    BY SetDate, Zenon
  <2>4. Stoi(t) = date
    BY <2>2, TimeBack
  <2>5. QED
    BY <2>1, <2>2, <2>3, <2>4, Zenon DEF Sets
<1>11. PICK f : f = e \o <<"general information", ":", "\n">>
  BY Zenon
<1>12. Told(f, State(Known(o, c, n, date, none), TRUE, FALSE))
  BY <1>10, <1>11, ToldGeneral, Zenon
<1>13. PICK x, y, key : /\ x = Put(none, <<"\t">> \o Active, <<" ">> \o active)
                        /\ y = Put(x, <<"\t">> \o Forces, <<" ">> \o forces)
                        /\ key = <<"d", "escription">>
  BY Zenon
<1>14. PICK g : g = f \o Line(<<"\t">> \o Active, active)
  OBVIOUS
<1>15. Told(g, State(Known(o, c, n, date, x), TRUE, FALSE))
  <2>1. PICK k : k = <<"\t">> \o Active
    OBVIOUS
  <2>2. /\ k \in Seq(Token) /\ ~Has(k, ":") /\ ~Has(k, "\n")
        /\ k # <<"general information">> /\ k # <<"d", "escription">>
        /\ Kept(Known(o, c, n, date, none), k, FieldBack(active))
    BY <2>1, InfoKeys, Zenon DEF Active
  <2>3. Told(f \o Line(k, active),
             State(Noted(Known(o, c, n, date, none), k, FieldBack(active)), TRUE, FALSE))
    BY <1>12, <2>2, BoolIs, ToldInfo, Zenon DEF Name
  <2>4. PICK v : v = <<" ">> \o active
    BY Zenon
  <2>5. Noted(Known(o, c, n, date, none), k, v) = Known(o, c, n, date, Put(none, k, v))
    BY NotedIs
  <2>6. FieldBack(active) = v
    BY <2>4, BoolIs, Zenon
  <2>7. QED
    BY <1>13, <1>14, <2>1, <2>3, <2>4, <2>5, <2>6, Zenon
<1>16. PICK h : h = g \o Line(<<"\t">> \o Forces, forces)
  OBVIOUS
<1>17. Told(h, State(Known(o, c, n, date, y), TRUE, FALSE))
  <2>1. PICK k : k = <<"\t">> \o Forces
    OBVIOUS
  <2>2. /\ k \in Seq(Token) /\ ~Has(k, ":") /\ ~Has(k, "\n")
        /\ k # <<"general information">> /\ k # <<"d", "escription">>
        /\ Kept(Known(o, c, n, date, x), k, FieldBack(forces))
    BY <2>1, InfoKeys, Zenon DEF Forces
  <2>3. Told(g \o Line(k, forces),
             State(Noted(Known(o, c, n, date, x), k, FieldBack(forces)), TRUE, FALSE))
    BY <1>15, <2>2, BoolIs, ToldInfo, Zenon DEF Name
  <2>4. PICK v : v = <<" ">> \o forces
    BY Zenon
  <2>5. Noted(Known(o, c, n, date, x), k, v) = Known(o, c, n, date, Put(x, k, v))
    BY NotedIs
  <2>6. FieldBack(forces) = v
    BY <2>4, BoolIs, Zenon
  <2>7. QED
    BY <1>13, <1>16, <2>1, <2>3, <2>4, <2>5, <2>6, Zenon
<1>18. Told(h \o <<"d", "escription", ":", "\n">>,
            State(Noted(Known(o, c, n, date, y), key, <<>>), TRUE, TRUE))
  <2>1. \A k, l, m : <<k, l>> # <<m>>
    OBVIOUS
  <2>2. Kept(Known(o, c, n, date, y), key, <<>>)
    BY <1>13, <2>1, SetNone, Zenon
  <2>3. QED
    BY <1>13, <1>17, <2>2, ToldDescription, Zenon
<1>19. Opening(user, city, name, date, active, forces) = h \o <<"d", "escription", ":", "\n">>
  BY <1>3, <1>5, <1>7, <1>9, <1>11, <1>14, <1>16, Zenon DEF Opening
<1>20. InfoBack(active, forces) = Put(y, key, <<>>)
  BY <1>2, <1>13, Zenon DEF InfoBack
<1>21. PICK i : i = InfoBack(active, forces)
  OBVIOUS
<1>22. Noted(Known(o, c, n, date, y), key, <<>>) = Known(o, c, n, date, i)
  BY <1>20, <1>21, NotedIs
<1>23. State(Known(o, c, n, date, i), TRUE, TRUE) = Telling(Known(o, c, n, date, i), <<>>)
  BY NotDescribed
<1>24. QED
  BY <1>1, <1>18, <1>19, <1>21, <1>22, <1>23, Zenon

-----------------------------------------------------------------------------
(* The way through the server: the body loses the blanks at its end.       *)

LEMMA TrimIs ==
    ASSUME NEW text \in Seq(Token), NEW k \in 1..Len(text),
           text[1] \notin Blank, text[k] \notin Blank,
           \A i \in k + 1..Len(text) : text[i] \in Blank
    PROVE  Trim(text) = SubSeq(text, 1, k)
<1>1. PICK ink : ink = {i \in DOMAIN text : text[i] \notin Blank}
  OBVIOUS
<1>2. DOMAIN text = 1..Len(text) /\ Len(text) \in Nat /\ k \in Nat
  OBVIOUS
<1>3. ink \in SUBSET Nat /\ 1 \in ink /\ k \in ink /\ \A i \in ink : 1 <= i /\ i <= k
  BY <1>1, <1>2
<1>4. Min(ink) = 1 /\ Max(ink) = k
  BY <1>3, MinIs, MaxIs
<1>5. ink # {}
  BY <1>3
<1>6. QED
  BY <1>1, <1>4, <1>5, Zenon DEF Trim

LEMMA ConcatIs ==
    ASSUME NEW T, NEW a \in Seq(T), NEW b \in Seq(T), NEW m, NEW n, m = Len(a), n = Len(b)
    PROVE  /\ m \in Nat /\ n \in Nat
           /\ a \o b \in Seq(T) /\ Len(a \o b) = m + n
           /\ \A i \in 1..m : (a \o b)[i] = a[i]
           /\ \A i \in 1..n : (a \o b)[m + i] = b[i]
  OBVIOUS

Joins(T, c, a, b, m, n) ==
    a \in Seq(T) /\ b \in Seq(T) /\ c = a \o b /\ m = Len(a) /\ n = Len(b)

Halves(T, c, a, b, m, n) ==
    /\ c \in Seq(T) /\ Len(c) = m + n
    /\ \A i \in 1..m : c[i] = a[i]
    /\ \A i \in 1..n : c[m + i] = b[i]

LEMMA Joined ==
    ASSUME NEW T, NEW a, NEW b, NEW c, NEW m, NEW n, Joins(T, c, a, b, m, n)
    PROVE  Halves(T, c, a, b, m, n)
<1>1. /\ a \o b \in Seq(T) /\ Len(a \o b) = m + n
      /\ \A i \in 1..m : (a \o b)[i] = a[i]
      /\ \A i \in 1..n : (a \o b)[m + i] = b[i]
  <2>1. a \in Seq(T) /\ b \in Seq(T) /\ m = Len(a) /\ n = Len(b)
    BY DEF Joins
  <2>2. QED
    BY <2>1, SMTT(30)
<1>2. QED
  BY <1>1, Zenon DEF Joins, Halves

LEMMA Regroup ==
    ASSUME NEW a \in Seq(Token), NEW b \in Seq(Token), NEW c \in Seq(Token)
    PROVE  (a \o b) \o c = a \o (b \o c)
  BY SMTT(30)

(* A body begins with the word "user".                                     *)
Begins(text) == text \in Seq(Token) /\ Len(text) > 0 /\ text[1] = "user"

LEMMA BeginsOn ==
    ASSUME NEW a, NEW b,
           Begins(a), b \in Seq(Token)
    PROVE  Begins(a \o b)
  BY DEF Begins

(* A text that is another one, with a newline at the end of it.            *)
Inked(text, o) ==
    /\ o \in Seq(Token) /\ Len(o) > 0 /\ o[1] \notin Blank /\ o[Len(o)] \notin Blank
    /\ text = Append(o, "\n")

LEMMA OpeningIs ==
    ASSUME NEW user, NEW city, NEW name, NEW date \in Date, NEW active \in Bool, NEW forces \in Bool,
           Name(user), Name(city), Name(name)
    PROVE  \E o : Inked(Opening(user, city, name, date, active, forces), o)
<1>1. PICK a : a = Line(<<"user">>, user)
  OBVIOUS
<1>2. Begins(a)
  <2>1. PICK word, colon, blank, newline : word = "user" /\ colon = ":" /\ blank = " " /\ newline = "\n"
    BY Zenon
  <2>2. word \in Token /\ colon \in Token /\ blank \in Token /\ newline \in Token
    BY <2>1, Zenon DEF Token, Written
  <2>3. user \in Seq(Token)
    BY DEF Name
  <2>4. PICK t : t = <<word>> \o <<colon, blank>> \o user \o <<newline>>
    OBVIOUS
  <2>5. t \in Seq(Token) /\ Len(t) > 0 /\ t[1] = word
    BY <2>2, <2>3, <2>4
  <2>6. a = t
    BY <1>1, <2>1, <2>4, Zenon DEF Line
  <2>7. QED
    BY <2>1, <2>5, <2>6, Zenon DEF Begins
<1>3. PICK b, c, d, e : /\ b = Line(<<"city">>, city) /\ c = Line(<<"event name">>, name)
                        /\ d = Line(<<"date time">>, Numeral(date))
                        /\ e = <<"general information", ":", "\n">>
  BY Zenon
<1>4. PICK f, g : f = Line(<<"\t">> \o Active, active) /\ g = Line(<<"\t">> \o Forces, forces)
  OBVIOUS
<1>5. b \in Seq(Token)
  BY <1>3, Keys, LineType, Zenon DEF Name
<1>6. c \in Seq(Token)
  BY <1>3, Keys, LineType, Zenon DEF Name
<1>7. d \in Seq(Token)
  BY <1>3, Keys, LineType, TimeBack, Zenon
<1>8. e \in Seq(Token)
  <2>1. PICK word, colon, newline : word = "general information" /\ colon = ":" /\ newline = "\n"
    BY Zenon
  <2>2. word \in Token /\ colon \in Token /\ newline \in Token
    BY <2>1, Zenon DEF Token, Written
  <2>3. <<word, colon, newline>> \in Seq(Token)
    BY <2>2
  <2>4. QED
    BY <1>3, <2>1, <2>3, Zenon
<1>9. f \in Seq(Token)
  BY <1>4, InfoKeys, LineType, BoolIs, Zenon DEF Name, Active
<1>10. g \in Seq(Token)
  BY <1>4, InfoKeys, LineType, BoolIs, Zenon DEF Name, Forces
<1>11. PICK h : h = a \o b \o c \o d \o e \o f \o g
  OBVIOUS
<1>12. Begins(h)
  BY <1>2, <1>5, <1>6, <1>7, <1>8, <1>9, <1>10, <1>11, BeginsOn, Zenon
<1>13. PICK word, rest, colon, newline : word = "d" /\ rest = "escription" /\ colon = ":" /\ newline = "\n"
  OBVIOUS
<1>14. word \in Token /\ rest \in Token /\ colon \in Token /\ newline \in Token
  BY <1>13, Zenon DEF Token, Written
<1>15. colon \notin Blank /\ "user" \notin Blank
  BY <1>13, Zenon DEF Blank
<1>16. PICK end : end = <<word, rest, colon>>
  OBVIOUS
<1>17. end \in Seq(Token) /\ Len(end) = 3 /\ end[3] = colon
  BY <1>14, <1>16
<1>18. PICK o : o = h \o end
  OBVIOUS
<1>19. /\ o \in Seq(Token) /\ Len(o) > 0 /\ o[1] \notin Blank /\ o[Len(o)] \notin Blank
  <2>1. h \in Seq(Token) /\ Len(h) > 0 /\ h[1] \notin Blank
    BY <1>12, <1>15 DEF Begins
  <2>2. Len(o) = Len(h) + 3 /\ o[Len(h) + 3] = colon
    <3>1. PICK m, n : m = Len(h) /\ n = Len(end)
      OBVIOUS
    <3>2. m \in Nat /\ n = 3 /\ Len(h \o end) = m + n /\ \A i \in 1..n : (h \o end)[m + i] = end[i]
      <4>1. /\ m \in Nat /\ n \in Nat /\ Len(h \o end) = m + n
            /\ \A i \in 1..n : (h \o end)[m + i] = end[i]
        <5>1. h \in Seq(Token) /\ end \in Seq(Token)
          BY <1>17, <2>1
        <5>2. QED
          BY <3>1, <5>1, ConcatIs
      <4>2. QED
        BY <1>17, <3>1, <4>1
    <3>3. QED
      BY <1>17, <1>18, <3>1, <3>2
  <2>3. QED
    BY <1>15, <1>17, <1>18, <2>1, <2>2
<1>20. Append(o, newline) = h \o <<word, rest, colon, newline>>
  <2>1. h \in Seq(Token)
    BY <1>12 DEF Begins
  <2>2. Append(h \o end, newline) = h \o Append(end, newline)
    BY <1>14, <1>17, <2>1, SMTT(30)
  <2>3. Append(end, newline) = <<word, rest, colon, newline>>
    <3>1. Append(Append(<<word, rest>>, colon), newline) = <<word, rest, colon, newline>>
      BY <1>14, Four
    <3>2. Append(<<word, rest>>, colon) = end
      BY <1>14, <1>16, Pair, Three, ZenonT(60)
    <3>3. QED
      BY <3>1, <3>2, Zenon
  <2>4. QED
    BY <1>18, <2>2, <2>3, Zenon
<1>21. Opening(user, city, name, date, active, forces) = h \o <<word, rest, colon, newline>>
  BY <1>1, <1>3, <1>4, <1>11, <1>13, Zenon DEF Opening
<1>22. QED
  BY <1>13, <1>19, <1>20, <1>21, Zenon DEF Inked

LEMMA PassedOnIs ==
    ASSUME NEW opening, NEW o, NEW text,
           Inked(opening, o), text \in Seq(Token)
    PROVE  /\ DescriptionBack(text) \in Seq(Token)
           /\ PassedOn(opening \o text \o <<"\n">>) = <<"\n", "\n">> \o (opening \o DescriptionBack(text))
<1>1. PICK newline : newline = "\n"
  OBVIOUS
<1>2. newline \in Token /\ newline \in Blank
  BY <1>1, MarksAreTokens, Zenon DEF Blank
<1>0. o \in Seq(Token) /\ Len(o) > 0 /\ o[1] \notin Blank /\ o[Len(o)] \notin Blank
  BY DEF Inked
<1>3. PICK front, last : front = <<newline, newline>> /\ last = <<newline>>
  OBVIOUS
<1>4. front \in Seq(Token) /\ last \in Seq(Token) /\ Len(last) = 1 /\ last[1] = newline
  BY <1>2, <1>3
<1>5. PICK p : p = Append(o, newline)
  OBVIOUS
<1>6. PICK n \in Nat : n = Len(o)
  BY <1>0
<1>7. PICK m \in Nat : m = Len(text)
  OBVIOUS
<1>8. /\ p \in Seq(Token) /\ Len(p) = n + 1 /\ p[n + 1] = newline
      /\ \A i \in 1..n : p[i] = o[i]
      /\ p = o \o last
  BY <1>0, <1>2, <1>3, <1>5, <1>6
<1>9. PICK q : q = p \o text
  OBVIOUS
<1>10. /\ q \in Seq(Token) /\ Len(q) = n + 1 + m
       /\ \A i \in 1..n + 1 : q[i] = p[i]
       /\ \A i \in 1..m : q[n + 1 + i] = text[i]
  <2>1. PICK k : k = n + 1
    OBVIOUS
  <2>2. k = Len(p)
    BY <1>8, <2>1
  <2>3. /\ p \o text \in Seq(Token) /\ Len(p \o text) = k + m
        /\ \A i \in 1..k : (p \o text)[i] = p[i]
        /\ \A i \in 1..m : (p \o text)[k + i] = text[i]
    BY <1>7, <1>8, <2>2, ConcatIs
  <2>4. QED
    BY <1>9, <2>1, <2>3, Zenon
<1>11. PICK body : body = q \o last
  OBVIOUS
<1>12. /\ body \in Seq(Token) /\ Len(body) = n + m + 2
       /\ \A i \in 1..n + m + 1 : body[i] = q[i]
       /\ body[n + m + 2] = newline
  <2>1. PICK k : k = n + 1 + m
    OBVIOUS
  <2>2. k = Len(q)
    BY <1>10, <2>1
  <2>3. PICK one : one = Len(last)
    OBVIOUS
  <2>4. /\ k \in Nat /\ q \o last \in Seq(Token) /\ Len(q \o last) = k + one
        /\ \A i \in 1..k : (q \o last)[i] = q[i]
        /\ \A i \in 1..one : (q \o last)[k + i] = last[i]
    <3>1. q \in Seq(Token) /\ last \in Seq(Token)
      BY <1>4, <1>10
    <3>2. QED
      BY <2>2, <2>3, <3>1, ConcatIs
  <2>5. /\ body \in Seq(Token) /\ Len(body) = k + one
        /\ \A i \in 1..k : body[i] = q[i]
        /\ \A i \in 1..one : body[k + i] = last[i]
    BY <1>11, <2>4, Zenon
  <2>6. one = 1 /\ k = n + m + 1 /\ k + 1 = n + m + 2
    BY <1>4, <2>1, <2>3
  <2>7. body[k + 1] = newline
    BY <1>4, <2>5, <2>6
  <2>8. QED
    BY <2>5, <2>6, <2>7
<1>13. /\ \A i \in 1..n : body[i] = o[i]
       /\ body[n + 1] = newline
       /\ \A i \in 1..m : body[n + 1 + i] = text[i]
  <2>1. ASSUME NEW i \in 1..n PROVE body[i] = o[i]
    <3>1. i \in 1..n + m + 1 /\ i \in 1..n + 1
      OBVIOUS
    <3>2. QED
      BY <1>8, <1>10, <1>12, <3>1
  <2>2. body[n + 1] = newline
    <3>1. n + 1 \in 1..n + m + 1 /\ n + 1 \in 1..n + 1
      OBVIOUS
    <3>2. QED
      BY <1>8, <1>10, <1>12, <3>1
  <2>3. ASSUME NEW i \in 1..m PROVE body[n + 1 + i] = text[i]
    <3>1. n + 1 + i \in 1..n + m + 1
      OBVIOUS
    <3>2. QED
      BY <1>10, <1>12, <3>1
  <2>4. QED
    BY <2>1, <2>2, <2>3
<1>14. PICK ink : ink = {i \in DOMAIN text : text[i] \notin Blank}
  OBVIOUS
<1>15. ink \in SUBSET (1..m)
  BY <1>7, <1>14
<1>16. n > 0 /\ o[1] \notin Blank /\ o[n] \notin Blank
  BY <1>0, <1>6
<1>17. CASE ink = {}
  <2>1. \A i \in 1..m : text[i] \in Blank
    BY <1>7, <1>14, <1>17
  <2>2. \A i \in n + 1..Len(body) : body[i] \in Blank
    <3>1. ASSUME NEW i \in n + 1..n + m + 2 PROVE body[i] \in Blank
      <4>1. CASE i = n + 1
        BY <1>2, <1>13, <4>1
      <4>2. CASE i = n + m + 2
        BY <1>2, <1>12, <4>2
      <4>3. CASE i # n + 1 /\ i # n + m + 2
        <5>1. PICK j : j = i - (n + 1)
          OBVIOUS
        <5>2. j \in 1..m /\ i = n + 1 + j
          BY <4>3, <5>1
        <5>3. QED
          BY <1>13, <2>1, <5>2
      <4>4. QED
        BY <4>1, <4>2, <4>3
    <3>2. QED
      BY <1>12, <3>1
  <2>3. n \in 1..Len(body) /\ body[1] \notin Blank /\ body[n] \notin Blank
    <3>1. 1 \in 1..n /\ n \in 1..n /\ n \in 1..n + m + 2
      BY <1>16
    <3>2. body[1] = o[1] /\ body[n] = o[n]
      BY <1>13, <3>1
    <3>3. QED
      BY <1>12, <1>16, <3>1, <3>2
  <2>4. Trim(body) = SubSeq(body, 1, n)
    BY <1>12, <2>2, <2>3, TrimIs
  <2>5. SubSeq(body, 1, n) = o
    <3>1. PICK s : s = SubSeq(body, 1, n)
      OBVIOUS
    <3>2. s \in Seq(Token) /\ Len(s) = n /\ \A i \in 1..n : s[i] = body[i]
      BY <1>12, <2>3, <3>1
    <3>3. s = o
      BY <1>0, <1>6, <1>13, <3>2
    <3>4. QED
      BY <3>1, <3>3
  <2>6. PICK none : none = <<>>
    OBVIOUS
  <2>7. DescriptionBack(text) = none
    BY <1>14, <1>17, <2>6, Zenon DEF DescriptionBack
  <2>8. front \o o \o last = front \o (p \o none) /\ none \in Seq(Token)
    <3>1. p \o none = p /\ none \in Seq(Token)
      BY <1>8, <2>6
    <3>2. front \o o \o last = front \o (o \o last)
      BY <1>4, SMTT(30)
    <3>3. QED
      BY <1>8, <3>1, <3>2, Zenon
  <2>9. PassedOn(body) = front \o o \o last
    BY <1>1, <1>3, <2>4, <2>5, Zenon DEF PassedOn
  <2>10. QED
    BY <1>1, <1>3, <1>5, <1>9, <1>11, <2>7, <2>8, <2>9, Zenon DEF Inked
<1>18. CASE ink # {}
  <2>1. PICK k \in 1..m : k = Max(ink) /\ k \in ink /\ \A i \in ink : i <= k
    <3>1. ink \in SUBSET (0..m)
      BY <1>15
    <3>2. Max(ink) \in ink /\ \A i \in ink : i <= Max(ink)
      BY <1>18, <3>1, MaxOf
    <3>3. QED
      BY <1>15, <3>2
  <2>2. text[k] \notin Blank /\ \A i \in k + 1..m : text[i] \in Blank
    <3>1. text[k] \notin Blank
      BY <1>14, <2>1
    <3>2. ASSUME NEW i \in k + 1..m PROVE text[i] \in Blank
      <4>1. i \in DOMAIN text /\ i \notin ink
        BY <1>7, <2>1
      <4>2. QED
        BY <1>14, <4>1
    <3>3. QED
      BY <3>1, <3>2
  <2>3. PICK l \in Nat : l = n + 1 + k
    OBVIOUS
  <2>4. \A i \in l + 1..Len(body) : body[i] \in Blank
    <3>1. ASSUME NEW i \in l + 1..n + m + 2 PROVE body[i] \in Blank
      <4>1. CASE i = n + m + 2
        BY <1>2, <1>12, <4>1
      <4>2. CASE i # n + m + 2
        <5>1. PICK j : j = i - (n + 1)
          OBVIOUS
        <5>2. j \in 1..m /\ j \in k + 1..m /\ i = n + 1 + j
          BY <2>1, <2>3, <4>2, <5>1, SMTT(30)
        <5>3. QED
          BY <1>13, <2>2, <5>2
      <4>3. QED
        BY <4>1, <4>2
    <3>2. QED
      BY <1>12, <3>1
  <2>5. l \in 1..Len(body) /\ body[1] \notin Blank /\ body[l] \notin Blank
    BY <1>12, <1>13, <1>16, <2>1, <2>2, <2>3
  <2>6. Trim(body) = SubSeq(body, 1, l)
    BY <1>12, <2>4, <2>5, TrimIs
  <2>7. PICK t : t = SubSeq(text, 1, k)
    OBVIOUS
  <2>8. t \in Seq(Token) /\ Len(t) = k /\ \A i \in 1..k : t[i] = text[i]
    BY <1>7, <2>1, <2>7
  <2>9. SubSeq(body, 1, l) = p \o t
    <3>1. PICK s : s = SubSeq(body, 1, l)
      OBVIOUS
    <3>2. s \in Seq(Token) /\ Len(s) = l /\ \A i \in 1..l : s[i] = body[i]
      BY <1>12, <2>5, <3>1
    <3>3. PICK r : r = p \o t
      OBVIOUS
    <3>4. /\ r \in Seq(Token) /\ Len(r) = l
          /\ \A i \in 1..n + 1 : r[i] = p[i]
          /\ \A i \in 1..k : r[n + 1 + i] = t[i]
      <4>1. PICK j : j = n + 1
        OBVIOUS
      <4>2. j = Len(p)
        BY <1>8, <4>1
      <4>3. /\ p \o t \in Seq(Token) /\ Len(p \o t) = j + k
            /\ \A i \in 1..j : (p \o t)[i] = p[i]
            /\ \A i \in 1..k : (p \o t)[j + i] = t[i]
        <5>1. p \in Seq(Token) /\ t \in Seq(Token) /\ k = Len(t)
          BY <1>8, <2>8
        <5>2. QED
          BY <4>2, <5>1, ConcatIs
      <4>4. QED
        BY <2>3, <3>3, <4>1, <4>3, Zenon
    <3>5. ASSUME NEW i \in 1..l PROVE s[i] = r[i]
      <4>1. CASE i \in 1..n + 1
        <5>1. i \in 1..n + m + 1
          BY <4>1
        <5>2. QED
          BY <1>10, <1>12, <3>2, <3>4, <4>1, <5>1
      <4>2. CASE i \notin 1..n + 1
        <5>1. PICK j : j = i - (n + 1)
          OBVIOUS
        <5>2. j \in 1..k /\ j \in 1..m /\ i = n + 1 + j
          BY <2>1, <2>3, <4>2, <5>1
        <5>3. s[i] = text[j] /\ r[i] = t[j]
          BY <1>13, <3>2, <3>4, <5>2
        <5>4. QED
          BY <2>8, <5>2, <5>3
      <4>3. QED
        BY <4>1, <4>2
    <3>6. s = r
      BY <3>2, <3>4, <3>5
    <3>7. QED
      BY <3>1, <3>3, <3>6
  <2>10. DescriptionBack(text) = Append(t, newline)
    BY <1>1, <1>14, <1>18, <2>1, <2>7, Zenon DEF DescriptionBack
  <2>11. front \o (p \o t) \o last = front \o (p \o Append(t, newline)) /\ Append(t, newline) \in Seq(Token)
    <3>1. t \o last = Append(t, newline) /\ Append(t, newline) \in Seq(Token)
      BY <1>2, <1>3, <2>8
    <3>2. front \o (p \o t) \o last = front \o (p \o (t \o last))
      <4>1. (p \o t) \o last = p \o (t \o last)
        <5>1. p \in Seq(Token) /\ t \in Seq(Token) /\ last \in Seq(Token)
          BY <1>4, <1>8, <2>8
        <5>2. QED
          BY <5>1, Regroup, ZenonT(60)
      <4>2. PICK r : r = p \o t
        OBVIOUS
      <4>3. r \in Seq(Token)
        BY <1>8, <2>8, <4>2
      <4>4. front \o r \o last = front \o (r \o last)
        BY <1>4, <4>3, SMTT(30)
      <4>5. QED
        BY <4>1, <4>2, <4>4, Zenon
    <3>3. QED
      BY <3>1, <3>2, Zenon
  <2>12. PassedOn(body) = front \o (p \o t) \o last
    BY <1>1, <1>3, <2>6, <2>9, Zenon DEF PassedOn
  <2>13. QED
    BY <1>1, <1>3, <1>5, <1>9, <1>11, <2>10, <2>11, <2>12, Zenon DEF Inked
<1>19. QED
  BY <1>17, <1>18

-----------------------------------------------------------------------------
(* What comes back of a report.                                            *)

InfoOf(item) ==
    [key \in {Active, Forces, <<"escription">>} |->
        IF key = <<"escription">> THEN <<>> ELSE TruthBack(item.info[key])]

LEMMA InfoIs ==
    ASSUME NEW item, NEW active, NEW forces,
           active = Truth(item.info[Active].text), forces = Truth(item.info[Forces].text)
    PROVE  InfoBack(active, forces) = InfoOf(item)
<1>1. PICK a, f, e, none : a = Active /\ f = Forces /\ e = <<"escription">> /\ none = <<>>
  OBVIOUS
<1>2. a # f /\ a # e /\ f # e
  BY <1>1 DEF Active, Forces
<1>3. PICK p, q, r : p = <<"\t">> \o Active /\ q = <<"\t">> \o Forces /\ r = <<"d", "escription">>
  OBVIOUS
<1>4. Tail(p) = a /\ Tail(q) = f
  BY <1>1, <1>3, InfoKeys, Zenon DEF Active, Forces
<1>5. Tail(r) = e
  <2>1. PICK x, y : x = "d" /\ y = "escription"
    OBVIOUS
  <2>2. x \in Token /\ y \in Token
    BY <2>1, Zenon DEF Token, Written
  <2>3. <<x, y>> \in Seq(Token) /\ Len(<<x, y>>) = 2 /\ <<x, y>>[2] = y
    BY <2>2
  <2>4. Tail(<<x, y>>) \in Seq(Token) /\ Len(Tail(<<x, y>>)) = 1 /\ Tail(<<x, y>>)[1] = y
    BY <2>3
  <2>5. Tail(<<x, y>>) = <<y>>
    BY <2>4, OnlyOne
  <2>6. QED
    BY <1>1, <1>3, <2>1, <2>5, Zenon
<1>6. PICK u, v : u = <<" ">> \o active /\ v = <<" ">> \o forces
  BY Zenon
<1>7. PICK i : i = Put(none, p, u)
  OBVIOUS
<1>8. i = [k \in {a} |-> u]
  <2>1. DOMAIN none = {}
    BY <1>1
  <2>2. i = [k \in DOMAIN none \cup {a} |-> IF k = a THEN u ELSE none[k]]
    BY <1>4, <1>7, Zenon DEF Put
  <2>3. QED
    BY <2>1, <2>2
<1>9. PICK j : j = Put(i, q, v)
  OBVIOUS
<1>10. j = [k \in {a, f} |-> IF k = f THEN v ELSE u]
  <2>1. j = [k \in DOMAIN i \cup {f} |-> IF k = f THEN v ELSE i[k]]
    BY <1>4, <1>9, Zenon DEF Put
  <2>2. QED
    BY <1>2, <1>8, <2>1
<1>11. PICK l : l = Put(j, r, none)
  OBVIOUS
<1>12. l = [k \in {a, f, e} |-> IF k = e THEN none ELSE IF k = f THEN v ELSE u]
  <2>1. l = [k \in DOMAIN j \cup {e} |-> IF k = e THEN none ELSE j[k]]
    BY <1>5, <1>11, Zenon DEF Put
  <2>2. QED
    BY <1>2, <1>10, <2>1
<1>13. TruthBack(item.info[a]) = u /\ TruthBack(item.info[f]) = v
  BY <1>1, <1>6, Zenon DEF TruthBack
<1>14. l = [k \in {a, f, e} |-> IF k = e THEN none ELSE TruthBack(item.info[k])]
  BY <1>2, <1>12, <1>13
<1>15. InfoBack(active, forces) = l
  BY <1>1, <1>3, <1>6, <1>7, <1>9, <1>11, Zenon DEF InfoBack
<1>16. QED
  BY <1>1, <1>14, <1>15, Zenon DEF InfoOf

LEMMA BodyIs ==
    ASSUME NEW user, NEW channel, NEW item, NEW active, NEW forces,
           Complete(EventFrom(user, channel, item)),
           active = Truth(item.info[Active].text), forces = Truth(item.info[Forces].text)
    PROVE  SendBody(EventFrom(user, channel, item))
               = Opening(user, item.city, item.name, item.date, active, forces)
                 \o item.description \o <<"\n">>
<1>1. PICK e : e = EventFrom(user, channel, item)
  OBVIOUS
<1>2. /\ e.owner = user /\ e.city = item.city /\ e.name = item.name /\ e.date = item.date
      /\ e.description = item.description
      /\ e.info = [key \in DOMAIN item.info |-> item.info[key].text]
  BY <1>1 DEF EventFrom, TextOf
<1>3. Active \in DOMAIN e.info /\ Forces \in DOMAIN e.info
  BY <1>1 DEF Complete
<1>4. e.info[Active] = item.info[Active].text /\ e.info[Forces] = item.info[Forces].text
  BY <1>2, <1>3
<1>5. SendBody(e) = Opening(user, item.city, item.name, item.date, active, forces)
                    \o item.description \o <<"\n">>
  BY <1>2, <1>4, Zenon DEF SendBody, Opening
<1>6. QED
  BY <1>1, <1>5, Zenon

LEMMA TruthIs ==
    \A text : Truth(text) \in Bool
  BY Zenon DEF Truth, Bool

(* What a text told before the description makes of the description.       *)
LEMMA DescriptionTold ==
    ASSUME NEW opening, NEW e, NEW text, NEW d,
           Told(opening, Telling(e, <<>>)), "description" \in DOMAIN e,
           text \in Seq(Token), d = DescriptionBack(text)
    PROVE  Gives(<<"\n", "\n">> \o (opening \o d), Telling(e, d))
<1>1. PICK newline, none : newline = "\n" /\ none = <<>>
  OBVIOUS
<1>2. PICK front : front = <<newline, newline>>
  OBVIOUS
<1>3. newline \in Token
  BY <1>1, MarksAreTokens, Zenon
<1>4. front \in Seq(Token)
  BY <1>2, <1>3
<1>5. opening \in Seq(Token) /\ Gives(front \o opening, Telling(e, none))
  BY <1>1, <1>2, Zenon DEF Told
<1>6. PICK ink : ink = {i \in DOMAIN text : text[i] \notin Blank}
  OBVIOUS
<1>7. CASE ink = {}
  <2>1. d = none
    BY <1>1, <1>6, <1>7, Zenon DEF DescriptionBack
  <2>2. opening \in Seq(Token)
    BY <1>5
  <2>3. opening \o none = opening
    BY <1>1, <2>2
  <2>4. QED
    BY <1>1, <1>2, <1>5, <2>1, <2>3, Zenon
<1>8. CASE ink # {}
  <2>1. PICK t : t = SubSeq(text, 1, Max(ink))
    OBVIOUS
  <2>2. d = Append(t, newline)
    BY <1>1, <1>6, <1>8, <2>1, Zenon DEF DescriptionBack
  <2>3. t \in Seq(Token)
    <3>1. PICK m \in Nat : m = Len(text)
      OBVIOUS
    <3>2. ink \in SUBSET (0..m) /\ ink \subseteq 1..m
      BY <1>6, <3>1
    <3>3. Max(ink) \in ink
      BY <1>8, <3>2, MaxOf
    <3>4. PICK k \in 1..m : k = Max(ink)
      BY <3>2, <3>3
    <3>5. SubSeq(text, 1, k) \in Seq(Token)
      BY <3>1, <3>4
    <3>6. QED
      BY <2>1, <3>4, <3>5
  <2>4. PICK before : before = front \o opening
    OBVIOUS
  <2>5. opening \in Seq(Token)
    BY <1>5
  <2>6. before \in Seq(Token)
    BY <1>4, <2>4, <2>5
  <2>7. Gives(before \o Append(t, newline), Telling(e, Append(t, newline)))
    BY <1>1, <1>5, <2>3, <2>4, <2>6, GivesDescription, Zenon
  <2>8. Append(t, newline) \in Seq(Token)
    BY <1>3, <2>3
  <2>9. PICK u : u = Append(t, newline)
    OBVIOUS
  <2>10. u \in Seq(Token)
    BY <2>8, <2>9
  <2>11. (front \o opening) \o u = front \o (opening \o u)
    BY <1>4, <2>5, <2>10, Regroup
  <2>12. QED
    BY <1>1, <1>2, <2>2, <2>4, <2>7, <2>9, <2>11, Zenon
<1>9. QED
  BY <1>7, <1>8

LEMMA SeqWider ==
    ASSUME NEW A, NEW B, A \subseteq B, NEW s \in Seq(A)
    PROVE  s \in Seq(B)
  OBVIOUS

(* A report of a file, sent, passed on and read, is what Back says.        *)
Plain(text) == text \in Text /\ ~Has(text, "\n")

LEMMA ReportComesBack ==
    ASSUME NEW author \in Client, NEW channel, NEW topic, NEW item,
           Plain(item.city), Plain(item.name), item.description \in Text, item.date \in Date,
           Complete(EventFrom(UserOf[author], channel, item))
    PROVE  EventOf(PassedOn(SendBody(EventFrom(UserOf[author], channel, item))), topic)
               = Back(author, topic, item)
<1>1. PICK user, city, name, date, text :
          /\ user = UserOf[author] /\ city = item.city /\ name = item.name /\ date = item.date
          /\ text = item.description
  OBVIOUS
<1>2. PICK active, forces :
          active = Truth(item.info[Active].text) /\ forces = Truth(item.info[Forces].text)
  OBVIOUS
<1>3. \A t \in Text : t \in Seq(Token)
  <2>1. STRING \subseteq Token
    BY DEF Token
  <2>2. QED
    BY <2>1, SeqWider, Zenon DEF Text
<1>4. Name(user) /\ Name(city) /\ Name(name) /\ text \in Seq(Token) /\ date \in Date
  <2>1. Name(city) /\ Name(name) /\ text \in Seq(Token) /\ date \in Date
    BY <1>1, <1>3, Zenon DEF Name, Plain
  <2>2. user \in Text /\ \A i \in DOMAIN user : user[i] \notin Blank \cup {":"}
    BY <1>1, UserAssumption
  <2>3. "\n" \in Blank
    BY DEF Blank
  <2>4. ~Has(user, "\n")
    BY <2>2, <2>3, Zenon DEF Has
  <2>5. QED
    BY <1>3, <2>1, <2>2, <2>4, Zenon DEF Name
<1>5. active \in Bool /\ forces \in Bool
  BY <1>2, TruthIs
<1>6. PICK opening : opening = Opening(user, city, name, date, active, forces)
  OBVIOUS
<1>7. PICK info : info = InfoBack(active, forces)
  OBVIOUS
<1>8. PICK e : e = Known(FieldBack(user), FieldBack(city), FieldBack(name), date, info)
  OBVIOUS
<1>9. Told(opening, Telling(e, <<>>))
  BY <1>4, <1>5, <1>6, <1>7, <1>8, OpeningTold, Zenon
<1>10. PICK d : d = DescriptionBack(text)
  OBVIOUS
<1>11. PICK none, o, c, n : none = <<>> /\ o = FieldBack(user) /\ c = FieldBack(city) /\ n = FieldBack(name)
  OBVIOUS
<1>12. e = [owner |-> o, channel |-> none, city |-> c, name |-> n, date |-> date,
            description |-> none, info |-> info]
  BY <1>8, <1>11, Zenon DEF Known
<1>13. "description" \in DOMAIN e
  BY <1>12
<1>14. Gives(<<"\n", "\n">> \o (opening \o d), Telling(e, d))
  BY <1>4, <1>9, <1>10, <1>13, DescriptionTold, Zenon
<1>15. PassedOn(opening \o text \o <<"\n">>) = <<"\n", "\n">> \o (opening \o d)
  <2>1. PICK b : Inked(opening, b)
    BY <1>4, <1>5, <1>6, OpeningIs
  <2>2. QED
    BY <1>4, <1>10, <2>1, PassedOnIs, Zenon
<1>16. SendBody(EventFrom(UserOf[author], channel, item)) = opening \o text \o <<"\n">>
  BY <1>1, <1>2, <1>6, BodyIs, ZenonT(60)
<1>17. EventOf(PassedOn(SendBody(EventFrom(UserOf[author], channel, item))), topic)
           = [Telling(e, d).event EXCEPT !.channel = topic]
  BY <1>14, <1>15, <1>16, GivesEvent, Zenon
<1>18. Telling(e, d).event = [e EXCEPT !.description = d]
  BY Zenon, StateFields DEF Telling
<1>19. [[e EXCEPT !.description = d] EXCEPT !.channel = topic]
           = [owner |-> o, channel |-> topic, city |-> c, name |-> n, date |-> date,
              description |-> d, info |-> info]
  <2>1. PICK f : f = [e EXCEPT !.description = d]
    OBVIOUS
  <2>2. f = [owner |-> o, channel |-> none, city |-> c, name |-> n, date |-> date,
             description |-> d, info |-> info]
    BY <1>12, <2>1
  <2>3. [f EXCEPT !.channel = topic]
           = [owner |-> o, channel |-> topic, city |-> c, name |-> n, date |-> date,
              description |-> d, info |-> info]
    BY <2>2
  <2>4. QED
    BY <2>1, <2>3, Zenon
<1>20. Back(author, topic, item)
           = [owner |-> o, channel |-> topic, city |-> c, name |-> n, date |-> date,
              description |-> d, info |-> info]
  <2>1. InfoBack(active, forces) = InfoOf(item)
    BY <1>2, InfoIs
  <2>2. QED
    BY <1>1, <1>7, <1>10, <1>11, <2>1, Zenon DEF Back, InfoOf
<1>21. QED
  BY <1>17, <1>18, <1>19, <1>20, Zenon

-----------------------------------------------------------------------------
(* The elements at some places of a sequence.                              *)

PicksBy(f, seq, n, places) ==
    /\ f[0] = <<>>
    /\ \A i \in 1..n : f[i] = IF i \in places THEN Append(f[i - 1], seq[i]) ELSE f[i - 1]

LEMMA AtIs ==
    ASSUME NEW T, NEW seq \in Seq(T), NEW places
    PROVE  \E f \in [0..Len(seq) -> Seq(T)] :
              PicksBy(f, seq, Len(seq), places) /\ At(seq, places) = f[Len(seq)]
<1>1. PICK n \in Nat : n = Len(seq)
  OBVIOUS
<1>2. PICK step : step = [i \in 1..n |-> [s \in Seq(T) |->
                              IF i \in places THEN Append(s, seq[i]) ELSE s]]
  OBVIOUS
<1>3. step \in [1..n -> [Seq(T) -> Seq(T)]]
  <2>1. ASSUME NEW i \in 1..n, NEW s \in Seq(T)
        PROVE  (IF i \in places THEN Append(s, seq[i]) ELSE s) \in Seq(T)
    <3>1. seq[i] \in T
      BY <1>1
    <3>2. QED
      BY <3>1
  <2>2. QED
    BY <1>2, <2>1
<1>4. PICK f : Along(f, n, Seq(T), <<>>, step)
  <2>1. <<>> \in Seq(T)
    OBVIOUS
  <2>2. QED
    BY <1>3, <2>1, Recursion
<1>5. f \in [0..n -> Seq(T)] /\ f[0] = <<>>
  BY <1>4 DEF Along
<1>6. \A i \in 1..n : f[i] = IF i \in places THEN Append(f[i - 1], seq[i]) ELSE f[i - 1]
  <2>1. ASSUME NEW i \in 1..n
        PROVE  f[i] = IF i \in places THEN Append(f[i - 1], seq[i]) ELSE f[i - 1]
    <3>1. PICK s : s = f[i - 1]
      OBVIOUS
    <3>2. s \in Seq(T)
      BY <1>5, <3>1
    <3>3. f[i] = step[i][s]
      BY <1>4, <3>1 DEF Along
    <3>4. step[i][s] = IF i \in places THEN Append(s, seq[i]) ELSE s
      BY <1>2, <3>2, Zenon
    <3>5. QED
      BY <3>1, <3>3, <3>4, Zenon
  <2>2. QED
    BY <2>1
<1>7. PICK g : g = CHOOSE h : h = [i \in 0..Len(seq) |->
                                     IF i = 0 THEN <<>>
                                     ELSE IF i \in places THEN Append(h[i - 1], seq[i]) ELSE h[i - 1]]
  OBVIOUS
<1>8. g = [i \in 0..n |-> IF i = 0 THEN <<>>
                          ELSE IF i \in places THEN Append(g[i - 1], seq[i]) ELSE g[i - 1]]
  <2>1. f = [i \in 0..n |-> f[i]]
    BY <1>5
  <2>2. \A i \in 0..n : f[i] = IF i = 0 THEN <<>>
                               ELSE IF i \in places THEN Append(f[i - 1], seq[i]) ELSE f[i - 1]
    <3>1. \A i \in 0..n : i = 0 \/ i \in 1..n
      OBVIOUS
    <3>2. QED
      BY <1>5, <1>6, <3>1, Zenon
  <2>3. f = [i \in 0..n |-> IF i = 0 THEN <<>>
                            ELSE IF i \in places THEN Append(f[i - 1], seq[i]) ELSE f[i - 1]]
    BY <2>1, <2>2, Zenon
  <2>4. QED
    BY <1>1, <1>7, <2>3, Zenon
<1>9. \A i \in 0..n : f[i] = g[i]
  <2>1. f[0] = g[0]
    <3>1. 0 \in 0..n
      OBVIOUS
    <3>2. QED
      BY <1>5, <1>8, <3>1, Zenon
  <2>2. ASSUME NEW i \in 1..n, f[i - 1] = g[i - 1] PROVE f[i] = g[i]
    <3>1. i \in 0..n /\ i # 0
      OBVIOUS
    <3>2. QED
      BY <1>6, <1>8, <2>2, <3>1, Zenon
  <2>3. GoTogether(f, g, n)
    BY <2>1, <2>2, Zenon DEF GoTogether
  <2>4. QED
    BY <2>3, Agree
<1>10. At(seq, places) = g[n]
  BY <1>1, <1>7, Zenon DEF At
<1>11. f[n] = g[n]
  <2>1. n \in 0..n
    OBVIOUS
  <2>2. QED
    BY <1>9, <2>1
<1>12. PicksBy(f, seq, n, places)
  BY <1>5, <1>6, Zenon DEF PicksBy
<1>13. QED
  BY <1>1, <1>5, <1>10, <1>11, <1>12, Zenon

LEMMA AtType ==
    ASSUME NEW T, NEW seq \in Seq(T), NEW places
    PROVE  At(seq, places) \in Seq(T)
<1>1. PICK f \in [0..Len(seq) -> Seq(T)] : At(seq, places) = f[Len(seq)]
  BY AtIs
<1>2. QED
  BY <1>1

LEMMA AtNext ==
    ASSUME NEW T, NEW seq \in Seq(T), NEW e \in T, NEW places, NEW more,
           \A i \in 1..Len(seq) : i \in places <=> i \in more
    PROVE  At(Append(seq, e), more)
               = IF Len(seq) + 1 \in more THEN Append(At(seq, places), e) ELSE At(seq, places)
<1>1. PICK n \in Nat : n = Len(seq)
  OBVIOUS
<1>2. PICK longer : longer = Append(seq, e)
  OBVIOUS
<1>3. longer \in Seq(T) /\ Len(longer) = n + 1 /\ longer[n + 1] = e /\ \A i \in 1..n : longer[i] = seq[i]
  BY <1>1, <1>2
<1>4. PICK f : PicksBy(f, seq, n, places) /\ At(seq, places) = f[n]
  BY <1>1, AtIs
<1>5. PICK g : PicksBy(g, longer, n + 1, more) /\ At(longer, more) = g[n + 1]
  <2>1. PICK l : l = Len(longer)
    OBVIOUS
  <2>2. PICK g : PicksBy(g, longer, l, more) /\ At(longer, more) = g[l]
    BY <1>3, <2>1, AtIs
  <2>3. QED
    BY <1>3, <2>1, <2>2, Zenon
<1>6. GoTogether(f, g, n)
  <2>1. f[0] = g[0]
    BY <1>4, <1>5 DEF PicksBy
  <2>2. ASSUME NEW i \in 1..n, f[i - 1] = g[i - 1] PROVE f[i] = g[i]
    <3>1. i \in 1..n + 1 /\ longer[i] = seq[i] /\ (i \in places <=> i \in more)
      BY <1>1, <1>3
    <3>2. f[i] = IF i \in places THEN Append(f[i - 1], seq[i]) ELSE f[i - 1]
      BY <1>4, Zenon DEF PicksBy
    <3>3. g[i] = IF i \in more THEN Append(g[i - 1], longer[i]) ELSE g[i - 1]
      BY <1>5, <3>1, Zenon DEF PicksBy
    <3>4. QED
      BY <2>2, <3>1, <3>2, <3>3, Zenon
  <2>3. QED
    BY <2>1, <2>2, Zenon DEF GoTogether
<1>7. f[n] = g[n]
  <2>1. n \in 0..n
    OBVIOUS
  <2>2. QED
    BY <1>6, <2>1, Agree
<1>8. g[n + 1] = IF n + 1 \in more THEN Append(g[n], e) ELSE g[n]
  <2>1. n + 1 \in 1..n + 1 /\ (n + 1) - 1 = n
    OBVIOUS
  <2>2. g[n + 1] = IF n + 1 \in more THEN Append(g[(n + 1) - 1], longer[n + 1]) ELSE g[(n + 1) - 1]
    BY <1>5, <2>1, Zenon DEF PicksBy
  <2>3. QED
    BY <1>3, <2>1, <2>2, Zenon
<1>9. QED
  BY <1>1, <1>2, <1>4, <1>5, <1>7, <1>8, Zenon

LEMMA AtNothing ==
    \A places : At(<<>>, places) = <<>>
<1>1. ASSUME NEW places PROVE At(<<>>, places) = <<>>
  <2>1. PICK none : none = <<>>
    OBVIOUS
  <2>2. none \in Seq({}) /\ Len(none) = 0
    BY <2>1
  <2>3. PICK f : PicksBy(f, none, 0, places) /\ At(none, places) = f[0]
    BY <2>2, AtIs
  <2>4. f[0] = <<>>
    BY <2>3, Zenon DEF PicksBy
  <2>5. QED
    BY <2>1, <2>3, <2>4, Zenon
<1>2. QED
  BY <1>1

-----------------------------------------------------------------------------
(* The events in some files.                                               *)

Item == UNION {Range(file.events) : file \in File}

LEMMA ItemIs ==
    /\ \A file \in File : file.events \in Seq(Item)
    /\ \A item \in Item : /\ Plain(item.city) /\ Plain(item.name) /\ item.description \in Text
                          /\ item.date \in Date
<1>1. ASSUME NEW file \in File PROVE file.events \in Seq(Item)
  <2>1. file.events \in Seq(Range(file.events))
    BY FileAssumption
  <2>2. Range(file.events) \subseteq Item
    BY DEF Item
  <2>3. QED
    BY <2>1, <2>2, SeqWider
<1>2. ASSUME NEW item \in Item
      PROVE  /\ Plain(item.city) /\ Plain(item.name) /\ item.description \in Text
             /\ item.date \in Date
  <2>1. PICK file \in File : item \in Range(file.events)
    BY DEF Item
  <2>2. PICK i \in DOMAIN file.events : item = file.events[i]
    BY <2>1 DEF Range
  <2>3. QED
    BY <2>2, FileAssumption, Zenon DEF Plain
<1>3. QED
  BY <1>1, <1>2

JoinsBy(f, files, n, ch) ==
    /\ f[0] = <<>>
    /\ \A i \in 1..n :
          f[i] = IF files[i].channel = ch THEN f[i - 1] \o files[i].events ELSE f[i - 1]

LEMMA ItemsOfIs ==
    ASSUME NEW files \in Seq(File), NEW ch
    PROVE  \E f \in [0..Len(files) -> Seq(Item)] :
              JoinsBy(f, files, Len(files), ch) /\ ItemsOf(files, ch) = f[Len(files)]
<1>1. PICK n \in Nat : n = Len(files)
  OBVIOUS
<1>2. PICK step : step = [i \in 1..n |-> [s \in Seq(Item) |->
                              IF files[i].channel = ch THEN s \o files[i].events ELSE s]]
  OBVIOUS
<1>3. step \in [1..n -> [Seq(Item) -> Seq(Item)]]
  <2>1. ASSUME NEW i \in 1..n, NEW s \in Seq(Item)
        PROVE  (IF files[i].channel = ch THEN s \o files[i].events ELSE s) \in Seq(Item)
    <3>1. PICK events : events = files[i].events
      OBVIOUS
    <3>2. files[i] \in File
      BY <1>1
    <3>3. events \in Seq(Item)
      BY <3>1, <3>2, ItemIs
    <3>4. s \o events \in Seq(Item)
      BY <3>3
    <3>5. QED
      BY <3>1, <3>4, Zenon
  <2>2. QED
    BY <1>2, <2>1
<1>4. PICK f : Along(f, n, Seq(Item), <<>>, step)
  <2>1. <<>> \in Seq(Item)
    OBVIOUS
  <2>2. QED
    BY <1>3, <2>1, Recursion
<1>5. f \in [0..n -> Seq(Item)] /\ f[0] = <<>>
  BY <1>4 DEF Along
<1>6. \A i \in 1..n : f[i] = IF files[i].channel = ch THEN f[i - 1] \o files[i].events ELSE f[i - 1]
  <2>1. ASSUME NEW i \in 1..n
        PROVE  f[i] = IF files[i].channel = ch THEN f[i - 1] \o files[i].events ELSE f[i - 1]
    <3>1. PICK s : s = f[i - 1]
      OBVIOUS
    <3>2. s \in Seq(Item)
      BY <1>5, <3>1
    <3>3. f[i] = step[i][s]
      BY <1>4, <3>1 DEF Along
    <3>4. step[i][s] = IF files[i].channel = ch THEN s \o files[i].events ELSE s
      BY <1>2, <3>2, Zenon
    <3>5. QED
      BY <3>1, <3>3, <3>4, Zenon
  <2>2. QED
    BY <2>1
<1>7. PICK g : g = CHOOSE h : h = [i \in 0..Len(files) |->
                  IF i = 0 THEN <<>>
                  ELSE IF files[i].channel = ch THEN h[i - 1] \o files[i].events
                  ELSE h[i - 1]]
  OBVIOUS
<1>8. g = [i \in 0..n |->
              IF i = 0 THEN <<>>
              ELSE IF files[i].channel = ch THEN g[i - 1] \o files[i].events
              ELSE g[i - 1]]
  <2>1. f = [i \in 0..n |-> f[i]]
    BY <1>5
  <2>2. \A i \in 0..n : f[i] = IF i = 0 THEN <<>>
                               ELSE IF files[i].channel = ch THEN f[i - 1] \o files[i].events
                               ELSE f[i - 1]
    <3>1. \A i \in 0..n : i = 0 \/ i \in 1..n
      OBVIOUS
    <3>2. QED
      BY <1>5, <1>6, <3>1, Zenon
  <2>3. f = [i \in 0..n |-> IF i = 0 THEN <<>>
                            ELSE IF files[i].channel = ch THEN f[i - 1] \o files[i].events
                            ELSE f[i - 1]]
    BY <2>1, <2>2, Zenon
  <2>4. QED
    BY <1>1, <1>7, <2>3, Zenon
<1>9. \A i \in 0..n : f[i] = g[i]
  <2>1. f[0] = g[0]
    <3>1. 0 \in 0..n
      OBVIOUS
    <3>2. QED
      BY <1>5, <1>8, <3>1, Zenon
  <2>2. ASSUME NEW i \in 1..n, f[i - 1] = g[i - 1] PROVE f[i] = g[i]
    <3>1. i \in 0..n /\ i # 0
      OBVIOUS
    <3>2. QED
      BY <1>6, <1>8, <2>2, <3>1, Zenon
  <2>3. GoTogether(f, g, n)
    BY <2>1, <2>2, Zenon DEF GoTogether
  <2>4. QED
    BY <2>3, Agree
<1>10. ItemsOf(files, ch) = g[n]
  BY <1>1, <1>7, Zenon DEF ItemsOf
<1>11. f[n] = g[n]
  <2>1. n \in 0..n
    OBVIOUS
  <2>2. QED
    BY <1>9, <2>1
<1>12. JoinsBy(f, files, n, ch)
  BY <1>5, <1>6, Zenon DEF JoinsBy
<1>13. QED
  BY <1>1, <1>5, <1>10, <1>11, <1>12, Zenon

LEMMA ItemsOfType ==
    ASSUME NEW files \in Seq(File), NEW ch
    PROVE  ItemsOf(files, ch) \in Seq(Item)
<1>1. PICK f \in [0..Len(files) -> Seq(Item)] : ItemsOf(files, ch) = f[Len(files)]
  BY ItemsOfIs
<1>2. QED
  BY <1>1

LEMMA ItemsOfNothing ==
    \A ch : ItemsOf(<<>>, ch) = <<>>
<1>1. ASSUME NEW ch PROVE ItemsOf(<<>>, ch) = <<>>
  <2>1. PICK none : none = <<>>
    OBVIOUS
  <2>2. none \in Seq(File) /\ Len(none) = 0
    BY <2>1
  <2>3. PICK f : JoinsBy(f, none, 0, ch) /\ ItemsOf(none, ch) = f[0]
    BY <2>2, ItemsOfIs
  <2>4. f[0] = <<>>
    BY <2>3, Zenon DEF JoinsBy
  <2>5. QED
    BY <2>1, <2>3, <2>4, Zenon
<1>2. QED
  BY <1>1

LEMMA ItemsOfNext ==
    ASSUME NEW files \in Seq(File), NEW file \in File, NEW ch
    PROVE  ItemsOf(Append(files, file), ch)
               = IF file.channel = ch THEN ItemsOf(files, ch) \o file.events ELSE ItemsOf(files, ch)
<1>1. PICK n \in Nat : n = Len(files)
  OBVIOUS
<1>2. PICK longer : longer = Append(files, file)
  OBVIOUS
<1>3. /\ longer \in Seq(File) /\ Len(longer) = n + 1 /\ longer[n + 1] = file
      /\ \A i \in 1..n : longer[i] = files[i]
  BY <1>1, <1>2
<1>4. PICK f : JoinsBy(f, files, n, ch) /\ ItemsOf(files, ch) = f[n]
  BY <1>1, ItemsOfIs
<1>5. PICK g : JoinsBy(g, longer, n + 1, ch) /\ ItemsOf(longer, ch) = g[n + 1]
  <2>1. PICK l : l = Len(longer)
    OBVIOUS
  <2>2. PICK g : JoinsBy(g, longer, l, ch) /\ ItemsOf(longer, ch) = g[l]
    BY <1>3, <2>1, ItemsOfIs
  <2>3. QED
    BY <1>3, <2>1, <2>2, Zenon
<1>6. GoTogether(f, g, n)
  <2>1. f[0] = g[0]
    BY <1>4, <1>5 DEF JoinsBy
  <2>2. ASSUME NEW i \in 1..n, f[i - 1] = g[i - 1] PROVE f[i] = g[i]
    <3>1. i \in 1..n + 1 /\ longer[i] = files[i]
      BY <1>1, <1>3
    <3>2. f[i] = IF files[i].channel = ch THEN f[i - 1] \o files[i].events ELSE f[i - 1]
      BY <1>4, Zenon DEF JoinsBy
    <3>3. g[i] = IF longer[i].channel = ch THEN g[i - 1] \o longer[i].events ELSE g[i - 1]
      BY <1>5, <3>1, Zenon DEF JoinsBy
    <3>4. QED
      BY <2>2, <3>1, <3>2, <3>3, Zenon
  <2>3. QED
    BY <2>1, <2>2, Zenon DEF GoTogether
<1>7. f[n] = g[n]
  <2>1. n \in 0..n
    OBVIOUS
  <2>2. QED
    BY <1>6, <2>1, Agree
<1>8. g[n + 1] = IF file.channel = ch THEN g[n] \o file.events ELSE g[n]
  <2>1. n + 1 \in 1..n + 1 /\ (n + 1) - 1 = n
    OBVIOUS
  <2>2. g[n + 1] = IF longer[n + 1].channel = ch THEN g[(n + 1) - 1] \o longer[n + 1].events
                   ELSE g[(n + 1) - 1]
    BY <1>5, <2>1, Zenon DEF JoinsBy
  <2>3. QED
    BY <1>3, <2>1, <2>2, Zenon
<1>9. QED
  BY <1>2, <1>4, <1>5, <1>7, <1>8, Zenon

-----------------------------------------------------------------------------
(* What the variables hold.                                                *)

Sendable == {item \in Item : {Active, Forces} \subseteq DOMAIN item.info}

Made == {EventFrom(UserOf[c], ch, item) : c \in Client, ch \in Channel, item \in Item}

Come == {Back(a, topic, item) : a \in Client, topic \in Topic, item \in Sendable}

Event == Made \cup Come

Whole == {e \in Event : Complete(e)}

Due == [author : Client, topic : Topic, item : Sendable]

Letter ==
    {Message(EventFrom(UserOf[c], ch, item)) : c \in Client, ch \in Channel, item \in Sendable}

TypeOK ==
    /\ alive \subseteq Client
    /\ subscribedChannels \in [Client -> SUBSET Channel]
    /\ reports \in [Client -> [Key -> Seq(Event)]]
    /\ inbox \in [Client -> Seq(Letter)]
    /\ reported \in [Client -> Seq(File)]
    /\ due \in [Client -> Seq(Due)]

LEMMA MadeIs ==
    ASSUME NEW c \in Client, NEW ch \in Channel, NEW item \in Item
    PROVE  EventFrom(UserOf[c], ch, item) \in Event
  BY DEF Event, Made

LEMMA ComeIs ==
    ASSUME NEW a \in Client, NEW topic \in Topic, NEW item \in Sendable
    PROVE  Back(a, topic, item) \in Event
  BY DEF Event, Come

LEMMA LetterIs ==
    ASSUME NEW c \in Client, NEW ch \in Channel, NEW item \in Sendable
    PROVE  Message(EventFrom(UserOf[c], ch, item)) \in Letter
  BY DEF Letter

LEMMA CompleteIs ==
    ASSUME NEW user, NEW ch, NEW item
    PROVE  Complete(EventFrom(user, ch, item)) <=> {Active, Forces} \subseteq DOMAIN item.info
<1>1. PICK info : info = item.info
  OBVIOUS
<1>2. EventFrom(user, ch, item).info = [key \in DOMAIN info |-> TextOf(info[key])]
  BY <1>1 DEF EventFrom
<1>3. DOMAIN EventFrom(user, ch, item).info = DOMAIN info
  BY <1>2
<1>4. QED
  BY <1>1, <1>3, Zenon DEF Complete

LEMMA EventIsDated == Dated(Event) /\ Dated(Whole)
<1>1. ASSUME NEW e \in Event PROVE e.date \in Nat
  <2>1. CASE e \in Made
    <3>1. PICK c \in Client, ch \in Channel, item \in Item : e = EventFrom(UserOf[c], ch, item)
      BY <2>1 DEF Made
    <3>2. e.date = item.date
      BY <3>1 DEF EventFrom
    <3>3. item.date \in Date
      BY ItemIs
    <3>4. QED
      BY <3>2, <3>3, DateAssumption
  <2>2. CASE e \in Come
    <3>1. PICK a \in Client, topic \in Topic, item \in Sendable : e = Back(a, topic, item)
      BY <2>2 DEF Come
    <3>2. e.date = item.date
      BY <3>1 DEF Back
    <3>3. item.date \in Date
      BY ItemIs, Zenon DEF Sendable
    <3>4. QED
      BY <3>2, <3>3, DateAssumption
  <2>3. QED
    BY <2>1, <2>2 DEF Event
<1>2. QED
  BY <1>1 DEF Dated, Whole

LEMMA LoneFirst ==
    ASSUME NEW x \in Token, NEW s \in Seq(Token), NEW t, t = <<x>> \o s
    PROVE  /\ t \in Seq(Token) /\ Len(t) = Len(s) + 1 /\ t[1] = x /\ 1 \in DOMAIN t
           /\ \A i \in 1..Len(s) : t[1 + i] = s[i]
  OBVIOUS

LEMMA LoneSame ==
    ASSUME NEW x \in Token, NEW s \in Seq(Token), NEW t \in Seq(Token), <<x>> \o s = <<x>> \o t
    PROVE  s = t
<1>1. PICK u : u = <<x>> \o s
  OBVIOUS
<1>2. Len(u) = Len(s) + 1 /\ \A i \in 1..Len(s) : u[1 + i] = s[i]
  BY <1>1, LoneFirst
<1>3. Len(u) = Len(t) + 1 /\ \A i \in 1..Len(t) : u[1 + i] = t[i]
  BY <1>1, LoneFirst
<1>4. Len(s) = Len(t)
  BY <1>2, <1>3
<1>5. \A i \in 1..Len(s) : s[i] = t[i]
  BY <1>2, <1>3, <1>4
<1>6. QED
  BY <1>4, <1>5

(* A report that comes in is filed under a name that is no user's, each    *)
(* author's under one of its own.                                          *)
LEMMA FiledUnder ==
    /\ \A a \in Client : FieldBack(UserOf[a]) \in OfOthers \ User
    /\ \A a, b \in Client : FieldBack(UserOf[a]) = FieldBack(UserOf[b]) => a = b
<1>1. PICK blank \in Token : blank = " "
  BY MarksAreTokens, Zenon
<1>2. ASSUME NEW a \in Client
      PROVE  /\ UserOf[a] \in Seq(Token) /\ FieldBack(UserOf[a]) = <<blank>> \o UserOf[a]
             /\ \A i \in DOMAIN UserOf[a] : UserOf[a][i] # blank
  <2>1. UserOf[a] \in Text /\ \A i \in DOMAIN UserOf[a] : UserOf[a][i] \notin Blank \cup {":"}
    BY UserAssumption
  <2>2. STRING \subseteq Token
    BY DEF Token
  <2>3. UserOf[a] \in Seq(Token)
    BY <2>1, <2>2, SeqWider, Zenon DEF Text
  <2>4. ~Has(UserOf[a], ":")
    BY <2>1, Zenon DEF Has
  <2>5. FieldBack(UserOf[a]) = <<blank>> \o UserOf[a]
    BY <1>1, <2>4, Zenon DEF FieldBack
  <2>6. \A i \in DOMAIN UserOf[a] : UserOf[a][i] # blank
    BY <1>1, <2>1, Zenon DEF Blank
  <2>7. QED
    BY <2>3, <2>5, <2>6, Zenon
<1>3. ASSUME NEW a \in Client PROVE FieldBack(UserOf[a]) \in OfOthers
  <2>1. UserOf[a] \in User
    BY DEF User
  <2>2. QED
    BY <1>1, <1>2, <2>1, Zenon DEF OfOthers
<1>4. ASSUME NEW a \in Client, NEW b \in Client, FieldBack(UserOf[a]) = UserOf[b] PROVE FALSE
  <2>1. PICK t : t = UserOf[b]
    OBVIOUS
  <2>2. t = <<blank>> \o UserOf[a]
    BY <1>2, <1>4, <2>1, Zenon
  <2>3. 1 \in DOMAIN t /\ t[1] = blank
    BY <1>2, <2>2, LoneFirst, Zenon
  <2>4. QED
    BY <1>2, <2>1, <2>3, Zenon
<1>5. ASSUME NEW a \in Client PROVE FieldBack(UserOf[a]) \notin User
  BY <1>4, Zenon DEF User
<1>6. ASSUME NEW a \in Client, NEW b \in Client, FieldBack(UserOf[a]) = FieldBack(UserOf[b])
      PROVE  a = b
  <2>1. UserOf[a] = UserOf[b]
    BY <1>2, <1>6, LoneSame, Zenon
  <2>2. QED
    BY <2>1, ReportsAssumption
<1>7. QED
  BY <1>3, <1>5, <1>6

-----------------------------------------------------------------------------
(* A client's own reports: the events of its files, in whatever order.     *)

Copies(user, ch, items) == [i \in DOMAIN items |-> EventFrom(user, ch, items[i])]

Same(a, b) == \A X : Count(a, X) = Count(b, X)

Holds(own, copies) == own \in Seq(Whole) /\ copies \in Seq(Whole) /\ Same(own, copies)

LEMMA CopiesAre ==
    ASSUME NEW c \in Client, NEW ch \in Channel, NEW items \in Seq(Item), NEW copies, NEW n,
           copies = Copies(UserOf[c], ch, items), n = Len(items)
    PROVE  /\ copies \in Seq(Event) /\ Len(copies) = n
           /\ DOMAIN copies = 1..n /\ DOMAIN items = 1..n
           /\ \A i \in 1..n : copies[i] = EventFrom(UserOf[c], ch, items[i]) /\ items[i] \in Item
<1>1. n \in Nat
  OBVIOUS
<1>2. DOMAIN items = 1..n /\ \A i \in 1..n : items[i] \in Item
  BY <1>1
<1>3. copies = [i \in 1..n |-> EventFrom(UserOf[c], ch, items[i])]
  BY <1>2, Zenon DEF Copies
<1>4. \A i \in 1..n : EventFrom(UserOf[c], ch, items[i]) \in Event
  BY <1>2, MadeIs, Zenon
<1>5. copies \in Seq(Event) /\ Len(copies) = n /\ DOMAIN copies = 1..n
  BY <1>1, <1>3, <1>4
<1>6. \A i \in 1..n : copies[i] = EventFrom(UserOf[c], ch, items[i])
  BY <1>3, Zenon
<1>7. QED
  BY <1>1, <1>2, <1>5, <1>6

LEMMA CopiesJoin ==
    ASSUME NEW c \in Client, NEW ch \in Channel, NEW a \in Seq(Item), NEW b \in Seq(Item)
    PROVE  Copies(UserOf[c], ch, a \o b) = Copies(UserOf[c], ch, a) \o Copies(UserOf[c], ch, b)
<1>1. PICK p, q, r : /\ p = Copies(UserOf[c], ch, a) /\ q = Copies(UserOf[c], ch, b)
                     /\ r = Copies(UserOf[c], ch, a \o b)
  OBVIOUS
<1>2. PICK m, n \in Nat : m = Len(a) /\ n = Len(b)
  OBVIOUS
<1>3. PICK ab : ab = a \o b
  OBVIOUS
<1>4. /\ ab \in Seq(Item) /\ Len(ab) = m + n
      /\ \A i \in 1..m : ab[i] = a[i]
      /\ \A i \in 1..n : ab[m + i] = b[i]
  <2>1. Joins(Item, ab, a, b, m, n)
    BY <1>2, <1>3, Zenon DEF Joins
  <2>2. Halves(Item, ab, a, b, m, n)
    BY <2>1, Joined, Zenon
  <2>3. QED
    BY <2>2, Zenon DEF Halves
<1>5. p \in Seq(Event) /\ Len(p) = m /\ \A i \in 1..m : p[i] = EventFrom(UserOf[c], ch, a[i])
  BY <1>1, <1>2, CopiesAre
<1>6. q \in Seq(Event) /\ Len(q) = n /\ \A i \in 1..n : q[i] = EventFrom(UserOf[c], ch, b[i])
  BY <1>1, <1>2, CopiesAre
<1>7. /\ r \in Seq(Event) /\ Len(r) = m + n
      /\ \A i \in 1..m + n : r[i] = EventFrom(UserOf[c], ch, ab[i])
  <2>1. PICK k : k = Len(ab)
    OBVIOUS
  <2>2. r \in Seq(Event) /\ Len(r) = k /\ \A i \in 1..k : r[i] = EventFrom(UserOf[c], ch, ab[i])
    <3>1. r = Copies(UserOf[c], ch, ab) /\ ab \in Seq(Item)
      BY <1>1, <1>3, <1>4, Zenon
    <3>2. QED
      BY <2>1, <3>1, CopiesAre
  <2>3. QED
    BY <1>4, <2>1, <2>2, Zenon
<1>8. PICK pq : pq = p \o q
  OBVIOUS
<1>9. /\ pq \in Seq(Event) /\ Len(pq) = m + n
      /\ \A i \in 1..m : pq[i] = p[i]
      /\ \A i \in 1..n : pq[m + i] = q[i]
  <2>1. Joins(Event, pq, p, q, m, n)
    BY <1>5, <1>6, <1>8, Zenon DEF Joins
  <2>2. Halves(Event, pq, p, q, m, n)
    BY <2>1, Joined, Zenon
  <2>3. QED
    BY <2>2, Zenon DEF Halves
<1>10. \A i \in 1..m : r[i] = pq[i]
  <2>1. ASSUME NEW i \in 1..m PROVE r[i] = pq[i]
    <3>1. i \in 1..m + n
      OBVIOUS
    <3>2. r[i] = EventFrom(UserOf[c], ch, ab[i])
      BY <1>7, <3>1, Zenon
    <3>3. pq[i] = EventFrom(UserOf[c], ch, a[i])
      BY <1>5, <1>9, Zenon
    <3>4. QED
      BY <1>4, <3>2, <3>3, Zenon
  <2>2. QED
    BY <2>1
<1>11. \A i \in 1..n : r[m + i] = pq[m + i]
  <2>1. ASSUME NEW i \in 1..n PROVE r[m + i] = pq[m + i]
    <3>1. m + i \in 1..m + n
      OBVIOUS
    <3>2. r[m + i] = EventFrom(UserOf[c], ch, ab[m + i])
      BY <1>7, <3>1, Zenon
    <3>3. pq[m + i] = EventFrom(UserOf[c], ch, b[i])
      BY <1>6, <1>9, Zenon
    <3>4. QED
      BY <1>4, <3>2, <3>3, Zenon
  <2>2. QED
    BY <2>1
<1>12. \A k \in 1..m + n : r[k] = pq[k]
  <2>1. ASSUME NEW k \in 1..m + n PROVE r[k] = pq[k]
    <3>1. CASE k <= m
      BY <1>10, <3>1
    <3>2. CASE ~(k <= m)
      <4>1. k - m \in 1..n /\ m + (k - m) = k
        BY <3>2
      <4>2. QED
        BY <1>11, <4>1, Zenon
    <3>3. QED
      BY <3>1, <3>2
  <2>2. QED
    BY <2>1
<1>13. r = pq
  BY <1>7, <1>9, <1>12
<1>14. QED
  BY <1>1, <1>3, <1>8, <1>13, Zenon

LEMMA HoldsNothing ==
    \A user, ch : Holds(<<>>, Copies(user, ch, <<>>))
<1>1. ASSUME NEW user, NEW ch PROVE Holds(<<>>, Copies(user, ch, <<>>))
  <2>1. PICK none : none = <<>>
    OBVIOUS
  <2>2. none \in Seq(Whole) /\ DOMAIN none = {}
    BY <2>1
  <2>3. Copies(user, ch, none) = none
    BY <2>1, <2>2 DEF Copies
  <2>4. Same(none, none)
    BY DEF Same
  <2>5. QED
    BY <2>1, <2>2, <2>3, <2>4, Zenon DEF Holds
<1>2. QED
  BY <1>1

LEMMA HoldsMore ==
    ASSUME NEW own, NEW copies, NEW events \in Seq(Whole), Holds(own, copies)
    PROVE  Holds(own \o events, copies \o events)
<1>1. own \in Seq(Whole) /\ copies \in Seq(Whole) /\ \A X : Count(own, X) = Count(copies, X)
  BY DEF Holds, Same
<1>2. own \o events \in Seq(Whole) /\ copies \o events \in Seq(Whole)
  BY <1>1
<1>3. ASSUME NEW X PROVE Count(own \o events, X) = Count(copies \o events, X)
  <2>1. Count(own \o events, X) = Count(own, X) + Count(events, X)
    BY <1>1, CountConcat
  <2>2. Count(copies \o events, X) = Count(copies, X) + Count(events, X)
    BY <1>1, CountConcat
  <2>3. QED
    BY <1>1, <2>1, <2>2
<1>4. QED
  BY <1>2, <1>3, Zenon DEF Holds, Same

LEMMA HoldsSorted ==
    ASSUME NEW own, NEW copies, Holds(own, copies)
    PROVE  Holds(Sorted(own), copies)
<1>1. own \in Seq(Whole) /\ copies \in Seq(Whole) /\ \A X : Count(own, X) = Count(copies, X)
  BY DEF Holds, Same
<1>2. Sorted(own) \in Seq(Whole)
  BY <1>1, SortedType, Zenon
<1>3. \A X : Count(Sorted(own), X) = Count(own, X)
  BY <1>1, SortedCount, Zenon
<1>4. QED
  BY <1>1, <1>2, <1>3, Zenon DEF Holds, Same

-----------------------------------------------------------------------------
(* What a summary of them says.                                            *)

LEMMA TrueIs ==
    ASSUME NEW user, NEW ch, NEW item, NEW key \in DOMAIN item.info
    PROVE  IsTrue(EventFrom(user, ch, item).info[key]) <=> Says(item, key)
<1>1. PICK info : info = item.info
  OBVIOUS
<1>2. EventFrom(user, ch, item).info = [k \in DOMAIN info |-> TextOf(info[k])]
  BY <1>1 DEF EventFrom
<1>3. EventFrom(user, ch, item).info[key] = info[key].text
  BY <1>1, <1>2, Zenon DEF TextOf
<1>4. QED
  BY <1>1, <1>3, Zenon DEF IsTrue, Says

LEMMA NamesAre ==
    ASSUME NEW user, NEW ch, NEW item
    PROVE  Names(EventFrom(user, ch, item)) = Names(item)
<1>1. PICK e : e = EventFrom(user, ch, item)
  OBVIOUS
<1>2. e.name = item.name /\ e.date = item.date /\ e.description = item.description
  BY <1>1 DEF EventFrom
<1>3. QED
  BY <1>1, <1>2, Zenon DEF Names

LEMMA CountAll ==
    ASSUME NEW T, NEW seq \in Seq(T)
    PROVE  Count(seq, T) = Len(seq)
<1>1. PICK n \in Nat : n = Len(seq)
  OBVIOUS
<1>2. {i \in 1..n : seq[i] \in T} = 1..n
  BY <1>1
<1>3. Cardinality(1..n) = n
  BY FS_Interval
<1>4. QED
  BY <1>1, <1>2, <1>3, Zenon DEF Count

LEMMA CountsTrue ==
    ASSUME NEW c \in Client, NEW ch \in Channel, NEW items \in Seq(Item), NEW own,
           Holds(own, Copies(UserOf[c], ch, items)), NEW key \in {Active, Forces}
    PROVE  CountTrue(own, key) = Cardinality({i \in DOMAIN items : Says(items[i], key)})
<1>1. PICK copies, n : copies = Copies(UserOf[c], ch, items) /\ n = Len(items)
  OBVIOUS
<1>2. own \in Seq(Whole) /\ copies \in Seq(Whole) /\ \A X : Count(own, X) = Count(copies, X)
  BY <1>1, Zenon DEF Holds, Same
<1>3. PICK X : X = {e \in Whole : IsTrue(e.info[key])}
  OBVIOUS
<1>4. CountTrue(own, key) = Count(own, X)
  <2>1. PICK m \in Nat : m = Len(own)
    BY <1>2
  <2>2. DOMAIN own = 1..m /\ \A i \in 1..m : own[i] \in Whole
    BY <1>2, <2>1
  <2>3. {i \in DOMAIN own : IsTrue(own[i].info[key])} = {i \in 1..m : own[i] \in X}
    BY <1>3, <2>2, Zenon
  <2>4. QED
    BY <2>1, <2>3, Zenon DEF CountTrue, Count
<1>5. /\ DOMAIN items = 1..n /\ Len(copies) = n
      /\ \A i \in 1..n : copies[i] = EventFrom(UserOf[c], ch, items[i])
  BY <1>1, CopiesAre
<1>6. \A i \in 1..n : copies[i] \in Whole
  BY <1>2, <1>5
<1>7. \A i \in 1..n : copies[i] \in X <=> Says(items[i], key)
  <2>1. ASSUME NEW i \in 1..n PROVE copies[i] \in X <=> Says(items[i], key)
    <3>1. Complete(EventFrom(UserOf[c], ch, items[i]))
      BY <1>5, <1>6, Zenon DEF Whole
    <3>2. key \in DOMAIN items[i].info
      BY <3>1, CompleteIs, Zenon
    <3>3. IsTrue(EventFrom(UserOf[c], ch, items[i]).info[key]) <=> Says(items[i], key)
      BY <3>2, TrueIs, Zenon
    <3>4. QED
      BY <1>3, <1>5, <1>6, <3>3, Zenon
  <2>2. QED
    BY <2>1
<1>8. {i \in 1..n : copies[i] \in X} = {i \in DOMAIN items : Says(items[i], key)}
  BY <1>5, <1>7, Zenon
<1>9. Count(copies, X) = Cardinality({i \in DOMAIN items : Says(items[i], key)})
  BY <1>5, <1>8, Zenon DEF Count
<1>10. QED
  BY <1>2, <1>4, <1>9, Zenon

LEMMA ListsAll ==
    ASSUME NEW c \in Client, NEW ch \in Channel, NEW items \in Seq(Item), NEW own,
           Holds(own, Copies(UserOf[c], ch, items))
    PROVE  /\ Len(own) = Len(items)
           /\ \A i \in DOMAIN items : Times(own, items[i]) = Times(items, items[i])
<1>1. PICK copies, n : copies = Copies(UserOf[c], ch, items) /\ n = Len(items)
  OBVIOUS
<1>2. own \in Seq(Whole) /\ copies \in Seq(Whole) /\ \A X : Count(own, X) = Count(copies, X)
  BY <1>1, Zenon DEF Holds, Same
<1>3. /\ DOMAIN items = 1..n /\ Len(copies) = n
      /\ \A i \in 1..n : copies[i] = EventFrom(UserOf[c], ch, items[i])
  BY <1>1, CopiesAre
<1>4. Len(own) = Len(items)
  <2>1. Count(own, Whole) = Len(own) /\ Count(copies, Whole) = Len(copies)
    BY <1>2, CountAll
  <2>2. QED
    BY <1>1, <1>2, <1>3, <2>1, Zenon
<1>5. ASSUME NEW i \in DOMAIN items PROVE Times(own, items[i]) = Times(items, items[i])
  <2>1. PICK x : x = items[i]
    OBVIOUS
  <2>2. PICK X : X = {e \in Whole : Names(e) = Names(x)}
    OBVIOUS
  <2>3. Times(own, x) = Count(own, X)
    <3>1. PICK m \in Nat : m = Len(own)
      BY <1>2
    <3>2. DOMAIN own = 1..m /\ \A k \in 1..m : own[k] \in Whole
      BY <1>2, <3>1
    <3>3. {k \in DOMAIN own : Names(own[k]) = Names(x)} = {k \in 1..m : own[k] \in X}
      BY <2>2, <3>2, Zenon
    <3>4. QED
      BY <3>1, <3>3, Zenon DEF Times, Count
  <2>4. \A k \in 1..n : copies[k] \in Whole
    BY <1>2, <1>3
  <2>5. \A k \in 1..n : copies[k] \in X <=> Names(items[k]) = Names(x)
    <3>1. \A k \in 1..n : Names(copies[k]) = Names(items[k])
      <4>1. ASSUME NEW k \in 1..n PROVE Names(copies[k]) = Names(items[k])
        <5>1. Names(EventFrom(UserOf[c], ch, items[k])) = Names(items[k])
          BY NamesAre
        <5>2. QED
          BY <1>3, <5>1, Zenon
      <4>2. QED
        BY <4>1
    <3>2. QED
      BY <2>2, <2>4, <3>1, Zenon
  <2>6. {k \in 1..n : copies[k] \in X} = {k \in DOMAIN items : Names(items[k]) = Names(x)}
    BY <1>3, <2>5, Zenon
  <2>7. Count(copies, X) = Times(items, x)
    BY <1>3, <2>6, Zenon DEF Times, Count
  <2>8. QED
    BY <1>2, <2>1, <2>3, <2>7, Zenon
<1>6. QED
  BY <1>4, <1>5

-----------------------------------------------------------------------------
(* Letters on their way, and what they were sent for.                      *)

(* A letter comes to what Back says of the event it was sent for.          *)
Answers(letter, d) == EventOf(letter.body, letter.destination) = Back(d.author, d.topic, d.item)

(* The letters on their way are for the last of the reports that were sent.*)
Meets(box, dues) ==
    /\ Len(box) <= Len(dues)
    /\ \A i \in 1..Len(box) : Answers(box[i], dues[Len(dues) - Len(box) + i])

Read(dues, box) == SubSeq(dues, 1, Len(dues) - Len(box))

LEMMA SubSeqSame ==
    ASSUME NEW T, NEW s \in Seq(T), NEW t \in Seq(T), NEW n \in Nat, n <= Len(s), n <= Len(t),
           \A i \in 1..n : s[i] = t[i]
    PROVE  SubSeq(s, 1, n) = SubSeq(t, 1, n)
  OBVIOUS

LEMMA SubSeqNext ==
    ASSUME NEW T, NEW s \in Seq(T), NEW n \in Nat, n + 1 <= Len(s)
    PROVE  SubSeq(s, 1, n + 1) = Append(SubSeq(s, 1, n), s[n + 1]) /\ SubSeq(s, 1, n) \in Seq(T)
  OBVIOUS

LEMMA MeetsMore ==
    ASSUME NEW box \in Seq(Letter), NEW dues \in Seq(Due), Meets(box, dues),
           NEW letters \in Seq(Letter), NEW sent \in Seq(Due), Len(letters) = Len(sent),
           \A i \in 1..Len(letters) : Answers(letters[i], sent[i])
    PROVE  /\ Meets(box \o letters, dues \o sent)
           /\ Read(dues \o sent, box \o letters) = Read(dues, box)
<1>1. PICK p, q, k \in Nat : p = Len(box) /\ q = Len(dues) /\ k = Len(letters) /\ k = Len(sent)
  OBVIOUS
<1>2. p <= q /\ \A i \in 1..p : Answers(box[i], dues[q - p + i])
  BY <1>1, Zenon DEF Meets
<1>3. PICK b, d : b = box \o letters /\ d = dues \o sent
  OBVIOUS
<1>4. /\ b \in Seq(Letter) /\ Len(b) = p + k
      /\ \A i \in 1..p : b[i] = box[i]
      /\ \A i \in 1..k : b[p + i] = letters[i]
  <2>1. Joins(Letter, b, box, letters, p, k)
    BY <1>1, <1>3, Zenon DEF Joins
  <2>2. Halves(Letter, b, box, letters, p, k)
    BY <2>1, Joined, Zenon
  <2>3. QED
    BY <2>2, Zenon DEF Halves
<1>5. /\ d \in Seq(Due) /\ Len(d) = q + k
      /\ \A i \in 1..q : d[i] = dues[i]
      /\ \A i \in 1..k : d[q + i] = sent[i]
  <2>1. Joins(Due, d, dues, sent, q, k)
    BY <1>1, <1>3, Zenon DEF Joins
  <2>2. Halves(Due, d, dues, sent, q, k)
    BY <2>1, Joined, Zenon
  <2>3. QED
    BY <2>2, Zenon DEF Halves
<1>6. Len(d) - Len(b) = q - p
  BY <1>4, <1>5, SMTT(30)
<1>7. ASSUME NEW i \in 1..Len(b) PROVE Answers(b[i], d[Len(d) - Len(b) + i])
  <2>1. CASE i <= p
    <3>1. i \in 1..p /\ q - p + i \in 1..q
      BY <1>2, <2>1
    <3>2. QED
      BY <1>2, <1>4, <1>5, <1>6, <3>1, Zenon
  <2>2. CASE ~(i <= p)
    <3>1. PICK j : j = i - p
      OBVIOUS
    <3>2. j \in 1..k /\ i = p + j /\ q - p + i = q + j
      BY <1>2, <1>4, <2>2, <3>1
    <3>3. b[i] = letters[j] /\ d[Len(d) - Len(b) + i] = sent[j]
      BY <1>4, <1>5, <1>6, <3>2, Zenon
    <3>4. Answers(letters[j], sent[j])
      BY <1>1, <3>2
    <3>5. QED
      BY <3>3, <3>4, Zenon
  <2>3. QED
    BY <2>1, <2>2
<1>8. Len(b) <= Len(d)
  BY <1>2, <1>4, <1>5
<1>9. SubSeq(d, 1, q - p) = SubSeq(dues, 1, q - p)
  <2>1. q - p \in Nat /\ q - p <= Len(d) /\ q - p <= Len(dues)
    BY <1>1, <1>2, <1>5
  <2>2. \A i \in 1..q - p : d[i] = dues[i]
    BY <1>2, <1>5
  <2>3. QED
    BY <1>5, <2>1, <2>2, SubSeqSame
<1>10. Read(d, b) = Read(dues, box)
  BY <1>1, <1>6, <1>9, Zenon DEF Read
<1>11. Meets(b, d)
  BY <1>7, <1>8, Zenon DEF Meets
<1>12. QED
  BY <1>3, <1>10, <1>11, Zenon

LEMMA MeetsLess ==
    ASSUME NEW box \in Seq(Letter), NEW dues \in Seq(Due), Meets(box, dues), box # <<>>
    PROVE  \E d \in Due :
              /\ Answers(Head(box), d)
              /\ Meets(Tail(box), dues)
              /\ Read(dues, box) \in Seq(Due)
              /\ Read(dues, Tail(box)) = Append(Read(dues, box), d)
<1>1. PICK p, q \in Nat : p = Len(box) /\ q = Len(dues)
  OBVIOUS
<1>2. p <= q /\ \A i \in 1..p : Answers(box[i], dues[q - p + i])
  BY <1>1, Zenon DEF Meets
<1>3. p > 0
  BY <1>1
<1>4. PICK b : b = Tail(box)
  OBVIOUS
<1>5. b \in Seq(Letter) /\ Len(b) = p - 1 /\ \A i \in 1..p - 1 : b[i] = box[i + 1]
  BY <1>1, <1>3, <1>4
<1>6. PICK n \in Nat : n = q - p
  BY <1>2
<1>7. PICK d : d = dues[n + 1]
  OBVIOUS
<1>8. d \in Due
  BY <1>1, <1>2, <1>3, <1>6, <1>7
<1>9. Answers(Head(box), d)
  <2>1. 1 \in 1..p /\ q - p + 1 = n + 1
    BY <1>3, <1>6
  <2>2. Answers(box[1], dues[n + 1])
    BY <1>2, <2>1, Zenon
  <2>3. Head(box) = box[1]
    BY <1>1, <1>3
  <2>4. QED
    BY <1>7, <2>2, <2>3, Zenon
<1>10. Meets(b, dues)
  <2>1. Len(b) <= q
    BY <1>2, <1>5
  <2>2. ASSUME NEW i \in 1..Len(b) PROVE Answers(b[i], dues[q - Len(b) + i])
    <3>1. PICK j : j = i + 1
      OBVIOUS
    <3>2. i \in 1..p - 1 /\ j \in 1..p /\ q - Len(b) + i = q - p + j
      BY <1>2, <1>5, <3>1
    <3>3. QED
      BY <1>2, <1>5, <3>1, <3>2, Zenon
  <2>3. QED
    BY <1>1, <2>1, <2>2, Zenon DEF Meets
<1>11. /\ SubSeq(dues, 1, n + 1) = Append(SubSeq(dues, 1, n), d)
       /\ SubSeq(dues, 1, n) \in Seq(Due)
  <2>1. n + 1 <= Len(dues)
    BY <1>1, <1>3, <1>6
  <2>2. QED
    BY <1>7, <2>1, SubSeqNext
<1>12. Read(dues, box) = SubSeq(dues, 1, n)
  BY <1>1, <1>6, Zenon DEF Read
<1>13. Read(dues, b) = SubSeq(dues, 1, n + 1)
  <2>1. Len(dues) - Len(b) = n + 1
    BY <1>1, <1>5, <1>6
  <2>2. QED
    BY <2>1, Zenon DEF Read
<1>14. QED
  BY <1>4, <1>8, <1>9, <1>10, <1>11, <1>12, <1>13, Zenon

-----------------------------------------------------------------------------
(* What a client knows of another one's reports.                           *)

Places(read, a, topic) == {i \in DOMAIN read : read[i].author = a /\ read[i].topic = topic}

Backs(came, a, topic) == [i \in DOMAIN came |-> Back(a, topic, came[i].item)]

Shelf(read, a, topic) == Backs(At(read, Places(read, a, topic)), a, topic)

LEMMA BacksAre ==
    ASSUME NEW a \in Client, NEW topic \in Topic, NEW came \in Seq(Due), NEW n, n = Len(came)
    PROVE  /\ Backs(came, a, topic) \in Seq(Event) /\ Len(Backs(came, a, topic)) = n
           /\ \A i \in 1..n : Backs(came, a, topic)[i] = Back(a, topic, came[i].item)
<1>1. DOMAIN came = 1..n /\ n \in Nat /\ \A i \in 1..n : came[i] \in Due
  OBVIOUS
<1>2. \A i \in 1..n : Back(a, topic, came[i].item) \in Event
  <2>1. ASSUME NEW i \in 1..n PROVE Back(a, topic, came[i].item) \in Event
    <3>1. came[i].item \in Sendable
      BY <1>1 DEF Due
    <3>2. QED
      BY <3>1, ComeIs
  <2>2. QED
    BY <2>1
<1>3. PICK f : f = [i \in 1..n |-> Back(a, topic, came[i].item)]
  OBVIOUS
<1>4. f \in Seq(Event) /\ Len(f) = n
  BY <1>1, <1>2, <1>3
<1>5. \A i \in 1..n : f[i] = Back(a, topic, came[i].item)
  BY <1>3, Zenon
<1>6. Backs(came, a, topic) = f
  BY <1>1, <1>3, Zenon DEF Backs
<1>7. QED
  BY <1>4, <1>5, <1>6, Zenon

LEMMA BacksNext ==
    ASSUME NEW a \in Client, NEW topic \in Topic, NEW came \in Seq(Due), NEW d \in Due
    PROVE  Backs(Append(came, d), a, topic)
               = Append(Backs(came, a, topic), Back(a, topic, d.item))
<1>1. PICK n \in Nat : n = Len(came)
  OBVIOUS
<1>2. PICK more : more = Append(came, d)
  OBVIOUS
<1>3. /\ more \in Seq(Due) /\ n + 1 = Len(more) /\ more[n + 1] = d
      /\ \A i \in 1..n : more[i] = came[i]
  BY <1>1, <1>2
<1>4. PICK f, g, e : /\ f = Backs(came, a, topic) /\ g = Backs(more, a, topic)
                     /\ e = Back(a, topic, d.item)
  OBVIOUS
<1>5. f \in Seq(Event) /\ Len(f) = n /\ \A i \in 1..n : f[i] = Back(a, topic, came[i].item)
  <2>1. /\ Backs(came, a, topic) \in Seq(Event) /\ Len(Backs(came, a, topic)) = n
        /\ \A i \in 1..n : Backs(came, a, topic)[i] = Back(a, topic, came[i].item)
    BY <1>1, BacksAre
  <2>2. QED
    BY <1>4, <2>1, Zenon
<1>6. /\ g \in Seq(Event) /\ Len(g) = n + 1
      /\ \A i \in 1..n + 1 : g[i] = Back(a, topic, more[i].item)
  <2>1. /\ Backs(more, a, topic) \in Seq(Event) /\ Len(Backs(more, a, topic)) = n + 1
        /\ \A i \in 1..n + 1 : Backs(more, a, topic)[i] = Back(a, topic, more[i].item)
    BY <1>3, BacksAre
  <2>2. QED
    BY <1>4, <2>1, Zenon
<1>7. \A i \in 1..n : i \in 1..n + 1
  OBVIOUS
<1>8. \A i \in 1..n : g[i] = f[i]
  BY <1>3, <1>5, <1>6, <1>7, Zenon
<1>9. g[n + 1] = e
  <2>1. n + 1 \in 1..n + 1
    OBVIOUS
  <2>2. QED
    BY <1>3, <1>4, <1>6, <2>1, Zenon
<1>10. e \in Event
  <2>1. d.item \in Sendable
    BY DEF Due
  <2>2. QED
    BY <1>4, <2>1, ComeIs
<1>11. g = Append(f, e)
  <2>1. f \in Seq(Event) /\ Len(f) = n /\ g \in Seq(Event) /\ Len(g) = n + 1
    BY <1>5, <1>6
  <2>2. QED
    BY <1>8, <1>9, <1>10, <2>1
<1>12. QED
  BY <1>2, <1>4, <1>11, Zenon

LEMMA ShelfNext ==
    ASSUME NEW a \in Client, NEW topic \in Topic, NEW read \in Seq(Due), NEW d \in Due
    PROVE  Shelf(Append(read, d), a, topic)
               = IF d.author = a /\ d.topic = topic
                 THEN Append(Shelf(read, a, topic), Back(a, topic, d.item))
                 ELSE Shelf(read, a, topic)
<1>1. PICK n \in Nat : n = Len(read)
  OBVIOUS
<1>2. PICK longer : longer = Append(read, d)
  OBVIOUS
<1>3. /\ DOMAIN read = 1..n /\ DOMAIN longer = 1..n + 1 /\ longer[n + 1] = d
      /\ \A i \in 1..n : longer[i] = read[i] /\ i \in 1..n + 1
  BY <1>1, <1>2
<1>4. PICK places, more : places = Places(read, a, topic) /\ more = Places(longer, a, topic)
  OBVIOUS
<1>5. \A i \in 1..n : i \in places <=> i \in more
  BY <1>3, <1>4, Zenon DEF Places
<1>6. n + 1 \in more <=> d.author = a /\ d.topic = topic
  <2>1. n + 1 \in 1..n + 1
    OBVIOUS
  <2>2. QED
    BY <1>3, <1>4, <2>1, Zenon DEF Places
<1>7. PICK came : came = At(read, places)
  OBVIOUS
<1>8. came \in Seq(Due)
  BY <1>7, AtType
<1>9. At(Append(read, d), more)
          = IF Len(read) + 1 \in more THEN Append(At(read, places), d) ELSE At(read, places)
  BY <1>1, <1>5, AtNext
<1>10. At(longer, more) = IF d.author = a /\ d.topic = topic THEN Append(came, d) ELSE came
  BY <1>1, <1>2, <1>6, <1>7, <1>9, Zenon
<1>11. Shelf(read, a, topic) = Backs(came, a, topic)
  BY <1>4, <1>7, Zenon DEF Shelf
<1>12. Shelf(longer, a, topic) = Backs(At(longer, more), a, topic)
  BY <1>4, Zenon DEF Shelf
<1>13. Backs(Append(came, d), a, topic) = Append(Backs(came, a, topic), Back(a, topic, d.item))
  BY <1>8, BacksNext
<1>14. CASE d.author = a /\ d.topic = topic
  BY <1>2, <1>10, <1>11, <1>12, <1>13, <1>14, Zenon
<1>15. CASE ~(d.author = a /\ d.topic = topic)
  BY <1>2, <1>10, <1>11, <1>12, <1>15, Zenon
<1>16. QED
  BY <1>14, <1>15, Zenon

LEMMA ShelfNothing ==
    \A a, topic : Shelf(<<>>, a, topic) = <<>>
<1>1. ASSUME NEW a, NEW topic PROVE Shelf(<<>>, a, topic) = <<>>
  <2>1. PICK none : none = <<>>
    OBVIOUS
  <2>2. At(none, Places(none, a, topic)) = none
    BY <2>1, AtNothing, Zenon
  <2>3. DOMAIN none = {}
    BY <2>1
  <2>4. Backs(none, a, topic) = none
    BY <2>1, <2>3 DEF Backs
  <2>5. QED
    BY <2>1, <2>2, <2>4, Zenon DEF Shelf
<1>2. QED
  BY <1>1

-----------------------------------------------------------------------------
(* What a report stores and sends of a file.                               *)

LetterFor(c, ch, item) == Message(EventFrom(UserOf[c], ch, item))

DueFor(c, ch, item) == [author |-> c, topic |-> Destination(ch), item |-> item]

LEMMA LetterAnswers ==
    ASSUME NEW c \in Client, NEW ch \in Channel, NEW item \in Sendable
    PROVE  /\ LetterFor(c, ch, item) \in Letter /\ DueFor(c, ch, item) \in Due
           /\ Answers(LetterFor(c, ch, item), DueFor(c, ch, item))
<1>1. PICK e : e = EventFrom(UserOf[c], ch, item)
  OBVIOUS
<1>2. PICK topic \in Topic : topic = Destination(ch)
  BY DEF Topic
<1>3. PICK body : body = PassedOn(SendBody(e))
  OBVIOUS
<1>4. e.channel = ch
  BY <1>1 DEF EventFrom
<1>5. Message(e) = [destination |-> topic, body |-> body]
  BY <1>2, <1>3, <1>4, Zenon DEF Message
<1>6. Message(e).destination = topic /\ Message(e).body = body
  BY <1>5
<1>7. EventOf(body, topic) = Back(c, topic, item)
  <2>1. item \in Item /\ {Active, Forces} \subseteq DOMAIN item.info
    BY Zenon DEF Sendable
  <2>2. Complete(EventFrom(UserOf[c], ch, item))
    BY <2>1, CompleteIs, Zenon
  <2>3. Plain(item.city) /\ Plain(item.name) /\ item.description \in Text /\ item.date \in Date
    BY <2>1, ItemIs, Zenon
  <2>4. QED
    BY <1>1, <1>3, <2>2, <2>3, ReportComesBack, Zenon
<1>8. PICK d : d = DueFor(c, ch, item)
  OBVIOUS
<1>9. d \in Due /\ d.author = c /\ d.topic = topic /\ d.item = item
  BY <1>2, <1>8 DEF DueFor, Due
<1>10. Answers(Message(e), d)
  BY <1>6, <1>7, <1>9, Zenon DEF Answers
<1>11. Message(e) \in Letter
  BY <1>1, LetterIs, Zenon
<1>12. QED
  BY <1>1, <1>8, <1>9, <1>10, <1>11, Zenon DEF LetterFor

LEMMA SentAre ==
    ASSUME NEW c \in Client, NEW file \in File, NEW events, NEW sent,
           events = Copies(UserOf[c], file.channel, file.events), sent = Sent(events)
    PROVE  \E n \in Nat :
              /\ DOMAIN sent = 1..n
              /\ \A i \in 1..n : /\ sent[i] = EventFrom(UserOf[c], file.channel, file.events[i])
                                 /\ file.events[i] \in Sendable
<1>1. PICK ch \in Channel : ch = file.channel
  BY FileAssumption
<1>2. PICK items \in Seq(Item) : items = file.events
  BY ItemIs
<1>3. PICK m \in Nat : m = Len(items)
  OBVIOUS
<1>4. /\ events \in Seq(Event) /\ Len(events) = m
      /\ DOMAIN events = 1..m
      /\ \A i \in 1..m : events[i] = EventFrom(UserOf[c], ch, items[i]) /\ items[i] \in Item
  <2>1. events = Copies(UserOf[c], ch, items)
    BY <1>1, <1>2, Zenon
  <2>2. QED
    BY <1>3, <2>1, CopiesAre
<1>5. PICK n \in 0..m : /\ sent = SubSeq(events, 1, n)
                        /\ \A i \in 1..n : Complete(events[i])
  <2>1. PICK I : I = Incomplete(events)
    OBVIOUS
  <2>2. \A i \in 1..m : i \notin I => Complete(events[i])
    BY <1>4, <2>1, Zenon DEF Incomplete
  <2>3. I \in SUBSET (1..m)
    BY <1>4, <2>1, Zenon DEF Incomplete
  <2>4. CASE I = {}
    <3>1. events = SubSeq(events, 1, m)
      BY <1>3, <1>4
    <3>2. sent = events
      BY <2>1, <2>4, Zenon DEF Sent
    <3>3. m \in 0..m
      OBVIOUS
    <3>4. QED
      BY <2>2, <2>4, <3>1, <3>2, <3>3, Zenon
  <2>5. CASE I # {}
    <3>1. PICK k : k = Min(I)
      OBVIOUS
    <3>2. k \in I /\ \A i \in I : k <= i
      <4>1. I \in SUBSET Nat
        BY <2>3
      <4>2. QED
        BY <2>5, <3>1, <4>1, MinOf
    <3>3. k - 1 \in 0..m /\ \A i \in 1..k - 1 : i \in 1..m /\ i \notin I
      BY <2>3, <3>2
    <3>4. sent = SubSeq(events, 1, k - 1)
      BY <2>1, <2>5, <3>1, Zenon DEF Sent
    <3>5. QED
      BY <2>2, <3>3, <3>4, Zenon
  <2>6. QED
    BY <2>4, <2>5
<1>6. DOMAIN sent = 1..n /\ \A i \in 1..n : sent[i] = events[i] /\ i \in 1..m
  BY <1>4, <1>5
<1>7. ASSUME NEW i \in 1..n PROVE items[i] \in Sendable
  <2>1. items[i] \in Item /\ Complete(EventFrom(UserOf[c], ch, items[i]))
    BY <1>4, <1>5, <1>6, Zenon
  <2>2. {Active, Forces} \subseteq DOMAIN items[i].info
    BY <2>1, CompleteIs, Zenon
  <2>3. QED
    BY <2>1, <2>2, Zenon DEF Sendable
<1>8. n \in Nat
  OBVIOUS
<1>9. QED
  BY <1>1, <1>2, <1>4, <1>6, <1>7, <1>8, Zenon

LEMMA StoredAre ==
    ASSUME NEW c \in Client, NEW file \in File, NEW events,
           events = Copies(UserOf[c], file.channel, file.events)
    PROVE  /\ Stored(events) \in Seq(Event)
           /\ Incomplete(events) = {} => Stored(events) = events /\ events \in Seq(Whole)
           /\ Incomplete(events) # {} =>
                 \E i \in DOMAIN file.events : ~({Active, Forces} \subseteq DOMAIN file.events[i].info)
<1>1. PICK ch \in Channel : ch = file.channel
  BY FileAssumption
<1>2. PICK items \in Seq(Item) : items = file.events
  BY ItemIs
<1>3. PICK m \in Nat : m = Len(items)
  OBVIOUS
<1>4. /\ events \in Seq(Event) /\ Len(events) = m
      /\ DOMAIN events = 1..m /\ DOMAIN items = 1..m
      /\ \A i \in 1..m : events[i] = EventFrom(UserOf[c], ch, items[i]) /\ items[i] \in Item
  <2>1. events = Copies(UserOf[c], ch, items)
    BY <1>1, <1>2, Zenon
  <2>2. QED
    BY <1>3, <2>1, CopiesAre
<1>5. CASE Incomplete(events) = {}
  <2>1. Stored(events) = events
    BY <1>5, Zenon DEF Stored
  <2>2. \A i \in 1..m : Complete(events[i])
    BY <1>4, <1>5, Zenon DEF Incomplete
  <2>3. \A i \in 1..m : events[i] \in Event
    BY <1>4
  <2>4. \A i \in 1..m : events[i] \in Whole
    BY <2>2, <2>3, Zenon DEF Whole
  <2>5. events \in Seq(Whole)
    BY <1>4, <2>4
  <2>6. QED
    BY <1>4, <1>5, <2>1, <2>5, Zenon
<1>6. CASE Incomplete(events) # {}
  <2>1. PICK i \in 1..m : ~Complete(events[i])
    BY <1>4, <1>6, Zenon DEF Incomplete
  <2>2. ~({Active, Forces} \subseteq DOMAIN items[i].info)
    BY <1>4, <2>1, CompleteIs, Zenon
  <2>3. PICK k \in Incomplete(events) : k = Min(Incomplete(events))
    <3>1. Incomplete(events) \in SUBSET Nat
      BY <1>4 DEF Incomplete
    <3>2. QED
      BY <1>6, <3>1, MinOf
  <2>4. k \in 1..m
    BY <1>4, <2>3, Zenon DEF Incomplete
  <2>5. Stored(events) = SubSeq(events, 1, k)
    BY <1>6, <2>3, Zenon DEF Stored
  <2>6. SubSeq(events, 1, k) \in Seq(Event)
    BY <1>4, <2>4
  <2>7. QED
    BY <1>2, <1>4, <1>6, <2>1, <2>2, <2>5, <2>6, Zenon
<1>7. QED
  BY <1>5, <1>6

-----------------------------------------------------------------------------
(* The invariant: the letters on their way are for the last of what was    *)
(* sent; what a client knows of another one's reports is what Back says of *)
(* the ones before those; its own reports are its files' events in some    *)
(* order; and under another one's user it keeps nothing.                   *)

Awaited == \A r \in Client : Meets(inbox[r], due[r])

Filed ==
    \A r \in Client, a \in Client, topic \in Topic :
        reports[r][<<FieldBack(UserOf[a]), topic>>] = Shelf(Read(due[r], inbox[r]), a, topic)

Wrote(c, ch) == Copies(UserOf[c], ch, ItemsOf(reported[c], ch))

OwnKept ==
    \A c \in alive, ch \in Channel : Holds(reports[c][<<UserOf[c], ch>>], Wrote(c, ch))

NoneOfOthers ==
    \A c \in Client, user \in User, ch \in Channel :
        user # UserOf[c] => reports[c][<<user, ch>>] = <<>>

IInv == TypeOK /\ Awaited /\ Filed /\ OwnKept /\ NoneOfOthers /\ DiesOfOwnFile

LEMMA KeysAre ==
    /\ \A c \in Client, ch \in Channel : <<UserOf[c], ch>> \in Key
    /\ \A user \in User, ch \in Channel : <<user, ch>> \in Key
    /\ \A a \in Client, topic \in Topic : <<FieldBack(UserOf[a]), topic>> \in Key
    /\ \A a, c \in Client : FieldBack(UserOf[a]) # UserOf[c]
<1>1. \A c \in Client : UserOf[c] \in User
  BY DEF User
<1>2. \A a \in Client : FieldBack(UserOf[a]) \in OfOthers \ User
  BY FiledUnder, Zenon
<1>3. QED
  BY <1>1, <1>2 DEF Key

LEMMA Shelved ==
    ASSUME NEW old \in [Client -> [Key -> Seq(Event)]], NEW c \in Client, NEW key \in Key,
           NEW v \in Seq(Event), NEW new, new = [old EXCEPT ![c][key] = v]
    PROVE  /\ new \in [Client -> [Key -> Seq(Event)]]
           /\ new[c][key] = v
           /\ \A r \in Client, k \in Key : r # c \/ k # key => new[r][k] = old[r][k]
  OBVIOUS

LEMMA InitHolds == Init => IInv
<1> SUFFICES ASSUME Init PROVE IInv
  OBVIOUS
<1>1. PICK none : none = <<>>
  OBVIOUS
<1>2. none \in Seq(Event) /\ none \in Seq(Letter) /\ none \in Seq(Due) /\ none \in Seq(File)
  BY <1>1
<1>3. /\ alive = Client /\ subscribedChannels = [c \in Client |-> {}]
      /\ reports = [c \in Client |-> [k \in Key |-> none]]
      /\ inbox = [c \in Client |-> none]
      /\ reported = [c \in Client |-> none] /\ due = [c \in Client |-> none]
  BY <1>1, Zenon DEF Init
<1>4. TypeOK
  BY <1>2, <1>3 DEF TypeOK
<1>5. /\ \A c \in Client, k \in Key : reports[c][k] = none
      /\ \A c \in Client : inbox[c] = none /\ reported[c] = none /\ due[c] = none
  BY <1>3, Zenon
<1>6. Meets(none, none) /\ Read(none, none) = none
  BY <1>1 DEF Meets, Read
<1>7. Awaited
  BY <1>5, <1>6, Zenon DEF Awaited
<1>8. Filed
  <2>1. ASSUME NEW r \in Client, NEW a \in Client, NEW topic \in Topic
        PROVE  reports[r][<<FieldBack(UserOf[a]), topic>>]
                   = Shelf(Read(due[r], inbox[r]), a, topic)
    <3>1. Shelf(none, a, topic) = none
      BY <1>1, ShelfNothing, Zenon
    <3>2. reports[r][<<FieldBack(UserOf[a]), topic>>] = none
      BY <1>5, KeysAre, Zenon
    <3>3. QED
      BY <1>5, <1>6, <3>1, <3>2, Zenon
  <2>2. QED
    BY <2>1, Zenon DEF Filed
<1>9. OwnKept
  <2>1. ASSUME NEW c \in Client, NEW ch \in Channel
        PROVE  Holds(reports[c][<<UserOf[c], ch>>], Wrote(c, ch))
    <3>1. ItemsOf(none, ch) = none
      BY <1>1, ItemsOfNothing, Zenon
    <3>2. Wrote(c, ch) = Copies(UserOf[c], ch, none)
      BY <1>5, <3>1, Zenon DEF Wrote
    <3>3. reports[c][<<UserOf[c], ch>>] = none
      BY <1>5, KeysAre, Zenon
    <3>4. Holds(none, Copies(UserOf[c], ch, none))
      BY <1>1, HoldsNothing, Zenon
    <3>5. QED
      BY <3>2, <3>3, <3>4, Zenon
  <2>2. QED
    BY <1>3, <2>1, Zenon DEF OwnKept
<1>10. NoneOfOthers
  BY <1>1, <1>5, KeysAre, Zenon DEF NoneOfOthers
<1>11. DiesOfOwnFile
  BY <1>3 DEF DiesOfOwnFile
<1>12. QED
  BY <1>4, <1>7, <1>8, <1>9, <1>10, <1>11 DEF IInv

(* A step that reports nothing and passes nothing on.                      *)
LEMMA QuietKeeps ==
    ASSUME IInv, UNCHANGED <<alive, reports, inbox, reported, due>>,
           subscribedChannels' \in [Client -> SUBSET Channel]
    PROVE  IInv'
<1>1. TypeOK'
  BY DEF IInv, TypeOK
<1>2. Awaited' /\ Filed'
  BY DEF IInv, Awaited, Filed
<1>3. OwnKept' /\ NoneOfOthers'
  BY DEF IInv, OwnKept, Wrote, NoneOfOthers
<1>4. DiesOfOwnFile'
  BY DEF IInv, DiesOfOwnFile
<1>5. QED
  BY <1>1, <1>2, <1>3, <1>4 DEF IInv

LEMMA JoinKeeps ==
    ASSUME IInv, NEW c \in Client, NEW ch \in Channel, Join(c, ch)
    PROVE  IInv'
<1>1. subscribedChannels' \in [Client -> SUBSET Channel]
  BY DEF Join, IInv, TypeOK
<1>2. UNCHANGED <<alive, reports, inbox, reported, due>>
  BY DEF Join
<1>3. QED
  BY <1>1, <1>2, QuietKeeps

(* A summary does not fail: the client's own reports have the two entries, *)
(* and of another user there are none.                                     *)
LEMMA SummaryIs ==
    ASSUME IInv, NEW c \in Client, NEW user \in User, NEW ch \in Channel, Summary(c, user, ch)
    PROVE  LET events == reports[c][<<user, ch>>]
               items  == Items(c, user, ch)
           IN  /\ items \in Seq(Item) /\ Holds(events, Copies(UserOf[c], ch, items))
               /\ alive' = alive
               /\ reports' = [reports EXCEPT ![c][<<user, ch>>] = Sorted(events)]
               /\ summary' = [by |-> c, user |-> user, channel |-> ch,
                              active |-> CountTrue(events, Active),
                              forces |-> CountTrue(events, Forces), rows |-> Sorted(events)]
<1>1. PICK events, items : events = reports[c][<<user, ch>>] /\ items = Items(c, user, ch)
  OBVIOUS
<1>2. c \in alive /\ reported[c] \in Seq(File)
  BY DEF Summary, IInv, TypeOK
<1>3. items \in Seq(Item) /\ Holds(events, Copies(UserOf[c], ch, items))
  <2>1. CASE user = UserOf[c]
    <3>1. items = ItemsOf(reported[c], ch)
      BY <1>1, <2>1, Zenon DEF Items
    <3>2. items \in Seq(Item)
      BY <1>2, <3>1, ItemsOfType
    <3>3. Holds(events, Wrote(c, ch))
      BY <1>1, <1>2, <2>1, Zenon DEF IInv, OwnKept
    <3>4. QED
      BY <3>1, <3>2, <3>3, Zenon DEF Wrote
  <2>2. CASE user # UserOf[c]
    <3>1. PICK none : none = <<>>
      OBVIOUS
    <3>2. events = none
      BY <1>1, <2>2, <3>1, Zenon DEF IInv, NoneOfOthers
    <3>3. items = none
      BY <1>1, <2>2, <3>1, Zenon DEF Items
    <3>4. none \in Seq(Item)
      BY <3>1
    <3>5. Holds(none, Copies(UserOf[c], ch, none))
      BY <3>1, HoldsNothing, Zenon
    <3>6. QED
      BY <3>2, <3>3, <3>4, <3>5, Zenon
  <2>3. QED
    BY <2>1, <2>2
<1>4. \A i \in DOMAIN events : Complete(events[i])
  <2>1. events \in Seq(Whole)
    BY <1>3, Zenon DEF Holds
  <2>2. \A i \in DOMAIN events : events[i] \in Whole
    BY <2>1
  <2>3. QED
    BY <2>2, Zenon DEF Whole
<1>5. /\ alive' = alive
      /\ reports' = [reports EXCEPT ![c][<<user, ch>>] = Sorted(events)]
      /\ summary' = [by |-> c, user |-> user, channel |-> ch,
                     active |-> CountTrue(events, Active),
                     forces |-> CountTrue(events, Forces), rows |-> Sorted(events)]
  BY <1>1, <1>4, Zenon DEF Summary
<1>6. QED
  BY <1>1, <1>3, <1>5, Zenon

LEMMA SummaryKeeps ==
    ASSUME IInv, NEW c \in Client, NEW user \in User, NEW ch \in Channel, Summary(c, user, ch)
    PROVE  IInv'
<1>1. PICK events, items, key, sorted :
          /\ events = reports[c][<<user, ch>>] /\ items = Items(c, user, ch)
          /\ key = <<user, ch>> /\ sorted = Sorted(events)
  OBVIOUS
<1>2. /\ items \in Seq(Item) /\ Holds(events, Copies(UserOf[c], ch, items)) /\ alive' = alive
      /\ reports' = [reports EXCEPT ![c][key] = sorted]
  <2>1. /\ Items(c, user, ch) \in Seq(Item)
        /\ Holds(reports[c][<<user, ch>>], Copies(UserOf[c], ch, Items(c, user, ch)))
    BY SummaryIs
  <2>2. /\ alive' = alive
        /\ reports' = [reports EXCEPT ![c][<<user, ch>>] = Sorted(reports[c][<<user, ch>>])]
    BY SummaryIs
  <2>3. QED
    BY <1>1, <2>1, <2>2, Zenon
<1>3. UNCHANGED <<subscribedChannels, inbox, reported, due>>
  BY DEF Summary
<1>4. Holds(sorted, Copies(UserOf[c], ch, items)) /\ sorted \in Seq(Event)
  <2>1. Holds(sorted, Copies(UserOf[c], ch, items))
    BY <1>1, <1>2, HoldsSorted, Zenon
  <2>2. sorted \in Seq(Whole)
    BY <2>1, Zenon DEF Holds
  <2>3. Whole \subseteq Event
    BY DEF Whole
  <2>4. QED
    BY <2>1, <2>2, <2>3, SeqWider
<1>5. key \in Key /\ reports \in [Client -> [Key -> Seq(Event)]]
  BY <1>1, KeysAre, Zenon DEF IInv, TypeOK
<1>6. /\ reports' \in [Client -> [Key -> Seq(Event)]]
      /\ reports'[c][key] = sorted
      /\ \A r \in Client, k \in Key : r # c \/ k # key => reports'[r][k] = reports[r][k]
  BY <1>2, <1>4, <1>5, Shelved
<1>7. TypeOK'
  BY <1>2, <1>3, <1>6 DEF IInv, TypeOK
<1>8. Awaited'
  BY <1>3 DEF IInv, Awaited
<1>9. Filed'
  <2>1. ASSUME NEW r \in Client, NEW a \in Client, NEW topic \in Topic
        PROVE  reports'[r][<<FieldBack(UserOf[a]), topic>>]
                   = Shelf(Read(due[r], inbox[r]), a, topic)
    <3>1. PICK k \in Key : k = <<FieldBack(UserOf[a]), topic>>
      BY KeysAre, Zenon
    <3>2. k # key
      <4>1. FieldBack(UserOf[a]) # user
        BY FiledUnder, Zenon
      <4>2. QED
        BY <1>1, <3>1, <4>1
    <3>3. reports'[r][k] = reports[r][k]
      BY <1>6, <3>2, Zenon
    <3>4. reports[r][k] = Shelf(Read(due[r], inbox[r]), a, topic)
      BY <3>1, Zenon DEF IInv, Filed
    <3>5. QED
      BY <3>1, <3>3, <3>4, Zenon
  <2>2. QED
    BY <1>3, <2>1, Zenon DEF Filed
<1>10. OwnKept'
  <2>1. ASSUME NEW r \in alive', NEW x \in Channel
        PROVE  Holds(reports'[r][<<UserOf[r], x>>], Wrote(r, x))
    <3>1. r \in alive /\ r \in Client
      BY <1>2 DEF IInv, TypeOK
    <3>2. PICK k \in Key : k = <<UserOf[r], x>>
      BY <3>1, KeysAre, Zenon
    <3>3. Holds(reports[r][k], Wrote(r, x))
      BY <3>1, <3>2, Zenon DEF IInv, OwnKept
    <3>4. CASE r = c /\ k = key
      <4>1. user = UserOf[c] /\ x = ch
        BY <1>1, <3>2, <3>4
      <4>2. Wrote(r, x) = Copies(UserOf[c], ch, items)
        BY <1>1, <3>4, <4>1, Zenon DEF Wrote, Items
      <4>3. QED
        BY <1>4, <1>6, <3>2, <3>4, <4>2, Zenon
    <3>5. CASE ~(r = c /\ k = key)
      <4>1. reports'[r][k] = reports[r][k]
        BY <1>6, <3>1, <3>5, Zenon
      <4>2. QED
        BY <3>2, <3>3, <4>1, Zenon
    <3>6. QED
      BY <3>4, <3>5, Zenon
  <2>2. QED
    BY <1>3, <2>1, Zenon DEF OwnKept, Wrote
<1>11. NoneOfOthers'
  <2>1. ASSUME NEW r \in Client, NEW other \in User, NEW x \in Channel, other # UserOf[r]
        PROVE  reports'[r][<<other, x>>] = <<>>
    <3>1. PICK k \in Key : k = <<other, x>>
      BY KeysAre, Zenon
    <3>2. reports[r][k] = <<>>
      BY <2>1, <3>1, Zenon DEF IInv, NoneOfOthers
    <3>3. CASE r = c /\ k = key
      <4>1. user # UserOf[c]
        BY <1>1, <2>1, <3>1, <3>3
      <4>2. items = <<>>
        BY <1>1, <4>1, Zenon DEF Items
      <4>3. Len(sorted) = Len(items)
        BY <1>2, <1>4, ListsAll
      <4>4. sorted = <<>>
        BY <1>4, <4>2, <4>3
      <4>5. QED
        BY <1>6, <3>1, <3>3, <4>4, Zenon
    <3>4. CASE ~(r = c /\ k = key)
      BY <1>6, <3>1, <3>2, <3>4, Zenon
    <3>5. QED
      BY <3>3, <3>4, Zenon
  <2>2. QED
    BY <2>1, Zenon DEF NoneOfOthers
<1>12. DiesOfOwnFile'
  BY <1>2, <1>3 DEF IInv, DiesOfOwnFile
<1>13. QED
  BY <1>7, <1>8, <1>9, <1>10, <1>11, <1>12 DEF IInv

LEMMA ReceiveKeeps ==
    ASSUME IInv, NEW c \in Client, Receive(c)
    PROVE  IInv'
<1>1. /\ inbox \in [Client -> Seq(Letter)] /\ due \in [Client -> Seq(Due)]
      /\ reports \in [Client -> [Key -> Seq(Event)]] /\ inbox[c] # <<>> /\ Meets(inbox[c], due[c])
  BY Zenon DEF IInv, TypeOK, Awaited, Receive
<1>2. PICK box, dues : box = inbox[c] /\ dues = due[c]
  OBVIOUS
<1>3. PICK d \in Due : /\ Answers(Head(box), d) /\ Meets(Tail(box), dues)
                       /\ Read(dues, box) \in Seq(Due)
                       /\ Read(dues, Tail(box)) = Append(Read(dues, box), d)
  <2>1. box \in Seq(Letter) /\ dues \in Seq(Due) /\ box # <<>> /\ Meets(box, dues)
    BY <1>1, <1>2
  <2>2. QED
    BY <2>1, MeetsLess, Zenon
<1>4. PICK a \in Client, topic \in Topic, item \in Sendable :
          a = d.author /\ topic = d.topic /\ item = d.item
  BY DEF Due
<1>5. PICK event, key : event = Back(a, topic, item) /\ key = <<FieldBack(UserOf[a]), topic>>
  OBVIOUS
<1>6. EventOf(Head(inbox[c]).body, Head(inbox[c]).destination) = event
  BY <1>2, <1>3, <1>4, <1>5, Zenon DEF Answers
<1>7. event.owner = FieldBack(UserOf[a]) /\ event.channel = topic /\ event.date # None
  <2>1. event.owner = FieldBack(UserOf[a]) /\ event.channel = topic /\ event.date = item.date
    BY <1>5 DEF Back
  <2>2. item.date \in Date
    BY ItemIs, Zenon DEF Sendable
  <2>3. QED
    BY <2>1, <2>2, DateAssumption
<1>8. event \in Event /\ key \in Key
  BY <1>5, ComeIs, KeysAre, Zenon
<1>9. /\ inbox' = [inbox EXCEPT ![c] = Tail(@)] /\ UNCHANGED <<subscribedChannels, reported, due>>
      /\ UNCHANGED alive /\ reports' = [reports EXCEPT ![c][key] = Append(@, event)]
  <2>1. <<event.owner, event.channel>> = key
    BY <1>5, <1>7, Zenon
  <2>2. QED
    BY <1>6, <1>7, <2>1, Zenon DEF Receive
<1>10. PICK v : v = Append(reports[c][key], event)
  OBVIOUS
<1>11. v \in Seq(Event)
  <2>1. reports[c][key] \in Seq(Event)
    BY <1>1, <1>8
  <2>2. QED
    BY <1>8, <1>10, <2>1
<1>12. /\ reports' \in [Client -> [Key -> Seq(Event)]]
       /\ reports'[c][key] = v
       /\ \A r \in Client, k \in Key : r # c \/ k # key => reports'[r][k] = reports[r][k]
  <2>1. reports' = [reports EXCEPT ![c][key] = v]
    BY <1>9, <1>10
  <2>2. QED
    BY <1>1, <1>8, <1>11, <2>1, Shelved
<1>13. /\ inbox' \in [Client -> Seq(Letter)] /\ inbox'[c] = Tail(box)
       /\ \A r \in Client : r # c => inbox'[r] = inbox[r]
  <2>1. Tail(box) \in Seq(Letter)
    BY <1>1, <1>2
  <2>2. QED
    BY <1>1, <1>2, <1>9, <2>1
<1>14. TypeOK'
  BY <1>9, <1>12, <1>13 DEF IInv, TypeOK
<1>15. Awaited'
  <2>1. ASSUME NEW r \in Client PROVE Meets(inbox'[r], due[r])
    <3>1. Meets(inbox[r], due[r])
      BY Zenon DEF IInv, Awaited
    <3>2. QED
      BY <1>2, <1>3, <1>13, <3>1, Zenon
  <2>2. QED
    BY <1>9, <2>1, Zenon DEF Awaited
<1>16. Filed'
  <2>1. ASSUME NEW r \in Client, NEW b \in Client, NEW t \in Topic
        PROVE  reports'[r][<<FieldBack(UserOf[b]), t>>] = Shelf(Read(due[r], inbox'[r]), b, t)
    <3>1. PICK k \in Key : k = <<FieldBack(UserOf[b]), t>>
      BY KeysAre, Zenon
    <3>2. reports[r][k] = Shelf(Read(due[r], inbox[r]), b, t)
      BY <3>1, Zenon DEF IInv, Filed
    <3>3. CASE r # c
      BY <1>12, <1>13, <3>1, <3>2, <3>3, Zenon
    <3>4. CASE r = c
      <4>1. PICK read : read = Read(dues, box)
        OBVIOUS
      <4>2. Shelf(Append(read, d), b, t)
                = IF d.author = b /\ d.topic = t
                  THEN Append(Shelf(read, b, t), Back(b, t, d.item))
                  ELSE Shelf(read, b, t)
        BY <1>3, <4>1, ShelfNext
      <4>3. Read(due[r], inbox'[r]) = Append(read, d) /\ reports[r][k] = Shelf(read, b, t)
        BY <1>2, <1>3, <1>13, <3>2, <3>4, <4>1, Zenon
      <4>4. CASE a = b /\ topic = t
        <5>1. k = key /\ event = Back(b, t, d.item)
          BY <1>4, <1>5, <3>1, <4>4, Zenon
        <5>2. Shelf(Append(read, d), b, t) = Append(Shelf(read, b, t), event)
          BY <1>4, <4>2, <4>4, <5>1, Zenon
        <5>3. reports'[r][k] = Append(Shelf(read, b, t), event)
          BY <1>10, <1>12, <3>4, <4>3, <5>1, Zenon
        <5>4. QED
          BY <3>1, <4>3, <5>2, <5>3, Zenon
      <4>5. CASE ~(a = b /\ topic = t)
        <5>1. k # key
          <6>1. ASSUME k = key PROVE a = b /\ topic = t
            <7>1. FieldBack(UserOf[a]) = FieldBack(UserOf[b]) /\ topic = t
              BY <1>5, <3>1, <6>1
            <7>2. QED
              BY <7>1, FiledUnder, Zenon
          <6>2. QED
            BY <4>5, <6>1
        <5>2. reports'[r][k] = reports[r][k]
          BY <1>12, <5>1, Zenon
        <5>3. Shelf(Append(read, d), b, t) = Shelf(read, b, t)
          BY <1>4, <4>2, <4>5, Zenon
        <5>4. QED
          BY <3>1, <4>3, <5>2, <5>3, Zenon
      <4>6. QED
        BY <4>4, <4>5
    <3>5. QED
      BY <3>3, <3>4
  <2>2. due' = due
    BY <1>9
  <2>3. QED
    BY <2>1, <2>2 DEF Filed
<1>17. \A r \in Client, user \in User, ch \in Channel :
           reports'[r][<<user, ch>>] = reports[r][<<user, ch>>]
  <2>1. ASSUME NEW r \in Client, NEW user \in User, NEW ch \in Channel
        PROVE  reports'[r][<<user, ch>>] = reports[r][<<user, ch>>]
    <3>1. PICK k \in Key : k = <<user, ch>>
      BY KeysAre, Zenon
    <3>2. k # key
      <4>1. FieldBack(UserOf[a]) # user
        BY FiledUnder, Zenon
      <4>2. QED
        BY <1>5, <3>1, <4>1
    <3>3. QED
      BY <1>12, <3>1, <3>2, Zenon
  <2>2. QED
    BY <2>1, Zenon
<1>18. OwnKept'
  <2>1. ASSUME NEW r \in alive, NEW ch \in Channel
        PROVE  Holds(reports'[r][<<UserOf[r], ch>>], Wrote(r, ch))
    <3>1. r \in Client
      BY DEF IInv, TypeOK
    <3>2. UserOf[r] \in User
      BY <3>1, Zenon DEF User
    <3>3. Holds(reports[r][<<UserOf[r], ch>>], Wrote(r, ch))
      BY Zenon DEF IInv, OwnKept
    <3>4. QED
      BY <1>17, <3>1, <3>2, <3>3, Zenon
  <2>2. QED
    BY <1>9, <2>1, Zenon DEF OwnKept, Wrote
<1>19. NoneOfOthers'
  BY <1>17, ZenonT(60) DEF IInv, NoneOfOthers
<1>20. DiesOfOwnFile'
  BY <1>9 DEF IInv, DiesOfOwnFile
<1>21. QED
  BY <1>14, <1>15, <1>16, <1>18, <1>19, <1>20 DEF IInv

LEMMA ReportKeeps ==
    ASSUME IInv, NEW c \in Client, NEW file \in File, Report(c, file)
    PROVE  IInv'
<1>1. PICK ch \in Channel : ch = file.channel
  BY FileAssumption
<1>2. PICK items \in Seq(Item) : items = file.events
  BY ItemIs
<1>3. PICK events, sent, stored :
          /\ events = Copies(UserOf[c], ch, items) /\ sent = Sent(events)
          /\ stored = Stored(events)
  OBVIOUS
<1>4. PICK letters, dues :
          /\ letters = [i \in DOMAIN sent |-> Message(sent[i])]
          /\ dues = [i \in DOMAIN sent |->
                        [author |-> c, topic |-> Destination(ch), item |-> items[i]]]
  OBVIOUS
<1>5. PICK others : others = Subscribers(Destination(ch)) \ {c}
  OBVIOUS
<1>6. PICK key : key = <<UserOf[c], ch>>
  OBVIOUS
<1>7. /\ c \in alive
      /\ reports' = [reports EXCEPT ![c][key] = @ \o stored]
      /\ inbox' = [r \in Client |-> IF r \in others THEN inbox[r] \o letters ELSE inbox[r]]
      /\ alive' = IF Incomplete(events) = {} THEN alive ELSE alive \ {c}
      /\ reported' = [reported EXCEPT ![c] = Append(@, file)]
      /\ due' = [r \in Client |-> IF r \in others THEN due[r] \o dues ELSE due[r]]
      /\ UNCHANGED subscribedChannels
  BY <1>1, <1>2, <1>3, <1>4, <1>5, <1>6, Zenon DEF Report, Copies
<1>8. /\ alive \subseteq Client /\ subscribedChannels \in [Client -> SUBSET Channel]
      /\ reports \in [Client -> [Key -> Seq(Event)]]
      /\ inbox \in [Client -> Seq(Letter)] /\ due \in [Client -> Seq(Due)]
      /\ reported \in [Client -> Seq(File)]
  BY DEF IInv, TypeOK
(* What was sent is on its way.                                            *)
<1>9. PICK n \in Nat :
          /\ DOMAIN sent = 1..n
          /\ \A i \in 1..n : sent[i] = EventFrom(UserOf[c], ch, items[i]) /\ items[i] \in Sendable
  <2>1. events = Copies(UserOf[c], file.channel, file.events)
    BY <1>1, <1>2, <1>3, Zenon
  <2>2. \E n \in Nat :
            /\ DOMAIN sent = 1..n
            /\ \A i \in 1..n : /\ sent[i] = EventFrom(UserOf[c], file.channel, file.events[i])
                               /\ file.events[i] \in Sendable
    BY <1>3, <2>1, SentAre
  <2>3. QED
    BY <1>1, <1>2, <2>2, Zenon
<1>10. /\ letters \in Seq(Letter) /\ dues \in Seq(Due) /\ Len(letters) = Len(dues)
       /\ \A i \in 1..Len(letters) : Answers(letters[i], dues[i])
  <2>1. letters = [i \in 1..n |-> Message(sent[i])]
    BY <1>4, <1>9, Zenon
  <2>2. dues = [i \in 1..n |-> DueFor(c, ch, items[i])]
    BY <1>4, <1>9, Zenon DEF DueFor
  <2>3. \A i \in 1..n : Message(sent[i]) = LetterFor(c, ch, items[i])
    BY <1>9, Zenon DEF LetterFor
  <2>4. \A i \in 1..n : /\ LetterFor(c, ch, items[i]) \in Letter
                        /\ DueFor(c, ch, items[i]) \in Due
                        /\ Answers(LetterFor(c, ch, items[i]), DueFor(c, ch, items[i]))
    BY <1>9, LetterAnswers, Zenon
  <2>5. \A i \in 1..n : letters[i] = LetterFor(c, ch, items[i])
    BY <2>1, <2>3, Zenon
  <2>6. \A i \in 1..n : dues[i] = DueFor(c, ch, items[i])
    BY <2>2, Zenon
  <2>7. letters \in Seq(Letter) /\ Len(letters) = n
    <3>1. \A i \in 1..n : Message(sent[i]) \in Letter
      BY <2>3, <2>4, Zenon
    <3>2. QED
      BY <2>1, <3>1
  <2>8. dues \in Seq(Due) /\ Len(dues) = n
    <3>1. \A i \in 1..n : DueFor(c, ch, items[i]) \in Due
      BY <2>4, Zenon
    <3>2. QED
      BY <2>2, <3>1
  <2>9. QED
    BY <2>4, <2>5, <2>6, <2>7, <2>8, Zenon
<1>11. ASSUME NEW r \in Client
       PROVE  /\ inbox'[r] \in Seq(Letter) /\ due'[r] \in Seq(Due)
              /\ Meets(inbox'[r], due'[r])
              /\ Read(due'[r], inbox'[r]) = Read(due[r], inbox[r])
  <2>1. inbox[r] \in Seq(Letter) /\ due[r] \in Seq(Due)
    BY <1>8
  <2>2. Meets(inbox[r], due[r])
    BY Zenon DEF IInv, Awaited
  <2>3. CASE r \in others
    <3>1. inbox'[r] = inbox[r] \o letters /\ due'[r] = due[r] \o dues
      BY <1>7, <2>3, Zenon
    <3>2. inbox[r] \o letters \in Seq(Letter) /\ due[r] \o dues \in Seq(Due)
      BY <1>10, <2>1
    <3>3. /\ Meets(inbox[r] \o letters, due[r] \o dues)
          /\ Read(due[r] \o dues, inbox[r] \o letters) = Read(due[r], inbox[r])
      BY <1>10, <2>1, <2>2, MeetsMore
    <3>4. QED
      BY <3>1, <3>2, <3>3, Zenon
  <2>4. CASE r \notin others
    <3>1. inbox'[r] = inbox[r] /\ due'[r] = due[r]
      BY <1>7, <2>4, Zenon
    <3>2. QED
      BY <2>1, <2>2, <3>1, Zenon
  <2>5. QED
    BY <2>3, <2>4
<1>12. inbox' \in [Client -> Seq(Letter)] /\ due' \in [Client -> Seq(Due)]
  <2>1. inbox' = [r \in Client |-> inbox'[r]] /\ due' = [r \in Client |-> due'[r]]
    BY <1>7, Zenon
  <2>2. QED
    BY <1>11, <2>1
(* What was stored is added to the client's own reports.                   *)
<1>13. /\ stored \in Seq(Event)
       /\ Incomplete(events) = {} => stored = events /\ events \in Seq(Whole)
       /\ Incomplete(events) # {} =>
             \E i \in DOMAIN items : ~({Active, Forces} \subseteq DOMAIN items[i].info)
  <2>1. events = Copies(UserOf[c], file.channel, file.events)
    BY <1>1, <1>2, <1>3, Zenon
  <2>2. /\ Stored(events) \in Seq(Event)
        /\ Incomplete(events) = {} => Stored(events) = events /\ events \in Seq(Whole)
        /\ Incomplete(events) # {} =>
              \E i \in DOMAIN file.events :
                  ~({Active, Forces} \subseteq DOMAIN file.events[i].info)
    BY <2>1, StoredAre
  <2>3. QED
    BY <1>2, <1>3, <2>2, Zenon
<1>14. key \in Key /\ key = <<UserOf[c], ch>>
  BY <1>6, KeysAre, Zenon
<1>15. PICK v : v = reports[c][key] \o stored
  OBVIOUS
<1>16. v \in Seq(Event)
  <2>1. reports[c][key] \in Seq(Event)
    BY <1>8, <1>14
  <2>2. QED
    BY <1>13, <1>15, <2>1
<1>17. /\ reports' \in [Client -> [Key -> Seq(Event)]]
       /\ reports'[c][key] = v
       /\ \A r \in Client, k \in Key : r # c \/ k # key => reports'[r][k] = reports[r][k]
  <2>1. reports' = [reports EXCEPT ![c][key] = v]
    BY <1>7, <1>15
  <2>2. QED
    BY <1>8, <1>14, <1>16, <2>1, Shelved
<1>18. /\ reported' \in [Client -> Seq(File)] /\ reported'[c] = Append(reported[c], file)
       /\ \A r \in Client : r # c => reported'[r] = reported[r]
  <2>1. Append(reported[c], file) \in Seq(File)
    BY <1>8
  <2>2. QED
    BY <1>7, <1>8, <2>1
<1>19. alive' \subseteq alive
  BY <1>7
<1>20. TypeOK'
  BY <1>7, <1>8, <1>12, <1>17, <1>18, <1>19 DEF TypeOK
<1>21. Awaited'
  BY <1>11, Zenon DEF Awaited
<1>22. Filed'
  <2>1. ASSUME NEW r \in Client, NEW a \in Client, NEW topic \in Topic
        PROVE  reports'[r][<<FieldBack(UserOf[a]), topic>>]
                   = Shelf(Read(due'[r], inbox'[r]), a, topic)
    <3>1. PICK k \in Key : k = <<FieldBack(UserOf[a]), topic>>
      BY KeysAre, Zenon
    <3>2. k # key
      <4>1. FieldBack(UserOf[a]) # UserOf[c]
        BY KeysAre, Zenon
      <4>2. QED
        BY <1>14, <3>1, <4>1
    <3>3. reports'[r][k] = reports[r][k]
      BY <1>17, <3>2, Zenon
    <3>4. reports[r][k] = Shelf(Read(due[r], inbox[r]), a, topic)
      BY <3>1, Zenon DEF IInv, Filed
    <3>5. QED
      BY <1>11, <3>1, <3>3, <3>4, Zenon
  <2>2. QED
    BY <2>1, Zenon DEF Filed
<1>23. ASSUME NEW r \in alive', NEW x \in Channel
       PROVE  Holds(reports'[r][<<UserOf[r], x>>], Copies(UserOf[r], x, ItemsOf(reported'[r], x)))
  <2>1. r \in alive /\ r \in Client
    BY <1>8, <1>19
  <2>2. PICK k \in Key : k = <<UserOf[r], x>>
    BY <2>1, KeysAre, Zenon
  <2>3. Holds(reports[r][k], Copies(UserOf[r], x, ItemsOf(reported[r], x)))
    BY <2>1, <2>2, Zenon DEF IInv, OwnKept, Wrote
  <2>4. CASE r # c
    BY <1>17, <1>18, <2>1, <2>2, <2>3, <2>4, Zenon
  <2>5. CASE r = c /\ x # ch
    <3>1. k # key
      BY <1>14, <2>2, <2>5
    <3>2. ItemsOf(Append(reported[c], file), x) = ItemsOf(reported[c], x)
      <4>1. reported[c] \in Seq(File) /\ file.channel # x
        BY <1>1, <1>8, <2>5
      <4>2. ItemsOf(Append(reported[c], file), x)
                = IF file.channel = x THEN ItemsOf(reported[c], x) \o file.events
                  ELSE ItemsOf(reported[c], x)
        BY <4>1, ItemsOfNext
      <4>3. QED
        BY <4>1, <4>2, Zenon
    <3>3. reports'[r][k] = reports[r][k]
      BY <1>17, <2>1, <3>1, Zenon
    <3>4. QED
      BY <1>18, <2>2, <2>3, <2>5, <3>2, <3>3, Zenon
  <2>6. CASE r = c /\ x = ch
    <3>1. PICK before, copies : /\ before = ItemsOf(reported[c], ch)
                                /\ copies = Copies(UserOf[c], ch, before)
      OBVIOUS
    <3>2. before \in Seq(Item) /\ ItemsOf(Append(reported[c], file), ch) = before \o items
      <4>1. reported[c] \in Seq(File)
        BY <1>8
      <4>2. ItemsOf(Append(reported[c], file), ch)
                = IF file.channel = ch THEN ItemsOf(reported[c], ch) \o file.events
                  ELSE ItemsOf(reported[c], ch)
        BY <4>1, ItemsOfNext
      <4>3. ItemsOf(reported[c], ch) \in Seq(Item)
        BY <4>1, ItemsOfType
      <4>4. QED
        BY <1>1, <1>2, <3>1, <4>2, <4>3, Zenon
    <3>3. Copies(UserOf[c], ch, before \o items) = copies \o events
      <4>1. Copies(UserOf[c], ch, before \o items)
                = Copies(UserOf[c], ch, before) \o Copies(UserOf[c], ch, items)
        BY <3>2, CopiesJoin
      <4>2. QED
        BY <1>3, <3>1, <4>1, Zenon
    <3>4. stored = events /\ events \in Seq(Whole)
      <4>1. Incomplete(events) = {}
        <5>1. ASSUME Incomplete(events) # {} PROVE FALSE
          <6>1. alive' = alive \ {c}
            BY <1>7, <5>1, Zenon
          <6>2. QED
            BY <2>6, <6>1
        <5>2. QED
          BY <5>1
      <4>2. QED
        BY <1>13, <4>1, Zenon
    <3>5. k = key
      BY <1>14, <2>2, <2>6, Zenon
    <3>6. PICK own : own = reports[c][key]
      OBVIOUS
    <3>7. Holds(own, copies)
      BY <2>3, <2>6, <3>1, <3>5, <3>6, Zenon
    <3>8. Holds(own \o events, copies \o events)
      BY <3>4, <3>7, HoldsMore
    <3>9. reports'[r][k] = own \o events
      BY <1>15, <1>17, <2>6, <3>4, <3>5, <3>6, Zenon
    <3>10. ItemsOf(reported'[r], x) = before \o items
      BY <1>18, <2>6, <3>2, Zenon
    <3>11. Copies(UserOf[r], x, ItemsOf(reported'[r], x)) = copies \o events
      BY <2>6, <3>3, <3>10, Zenon
    <3>12. QED
      BY <2>2, <3>8, <3>9, <3>11, Zenon
  <2>7. QED
    BY <2>4, <2>5, <2>6, Zenon
<1>24. OwnKept'
  BY <1>23, Zenon DEF OwnKept, Wrote
<1>25. NoneOfOthers'
  <2>1. ASSUME NEW r \in Client, NEW user \in User, NEW x \in Channel, user # UserOf[r]
        PROVE  reports'[r][<<user, x>>] = <<>>
    <3>1. PICK k \in Key : k = <<user, x>>
      BY KeysAre, Zenon
    <3>2. r # c \/ k # key
      BY <1>14, <2>1, <3>1
    <3>3. reports'[r][k] = reports[r][k]
      BY <1>17, <3>2, Zenon
    <3>4. reports[r][k] = <<>>
      BY <2>1, <3>1, Zenon DEF IInv, NoneOfOthers
    <3>5. QED
      BY <3>1, <3>3, <3>4, Zenon
  <2>2. QED
    BY <2>1, Zenon DEF NoneOfOthers
(* Whoever dies of the report dies of this file.                           *)
<1>26. ASSUME NEW r \in Client \ alive'
       PROVE  /\ reported'[r] # <<>>
              /\ \E i \in DOMAIN Last(reported'[r]).events :
                    ~({Active, Forces} \subseteq DOMAIN Last(reported'[r]).events[i].info)
  <2>1. CASE r = c
    <3>1. Incomplete(events) # {}
      BY <1>7, <2>1
    <3>2. reported'[c] # <<>> /\ Last(reported'[c]) = file
      <4>1. reported[c] \in Seq(File)
        BY <1>8
      <4>2. QED
        <5>1. PICK t : t = Append(reported[c], file)
          OBVIOUS
        <5>2. t # <<>> /\ t[Len(t)] = file
          BY <4>1, <5>1
        <5>3. QED
          BY <1>18, <5>1, <5>2, Zenon DEF Last
    <3>3. \E i \in DOMAIN file.events : ~({Active, Forces} \subseteq DOMAIN file.events[i].info)
      BY <1>2, <1>13, <3>1, Zenon
    <3>4. QED
      BY <2>1, <3>2, <3>3, Zenon
  <2>2. CASE r # c
    <3>1. r \in Client \ alive
      BY <1>7, <2>2
    <3>2. reported'[r] = reported[r]
      BY <1>18, <2>2
    <3>3. /\ reported[r] # <<>>
          /\ \E i \in DOMAIN Last(reported[r]).events :
                ~({Active, Forces} \subseteq DOMAIN Last(reported[r]).events[i].info)
      BY <3>1, Zenon DEF IInv, DiesOfOwnFile
    <3>4. QED
      BY <3>2, <3>3, Zenon
  <2>3. QED
    BY <2>1, <2>2
<1>27. DiesOfOwnFile'
  BY <1>26, Zenon DEF DiesOfOwnFile
<1>28. QED
  BY <1>20, <1>21, <1>22, <1>24, <1>25, <1>27 DEF IInv

-----------------------------------------------------------------------------
(* The theorems.                                                           *)

LEMMA NextKeeps == IInv /\ [Next]_vars => IInv'
<1> SUFFICES ASSUME IInv, [Next]_vars PROVE IInv'
  OBVIOUS
<1>1. CASE UNCHANGED vars
  <2>1. UNCHANGED <<alive, reports, inbox, reported, due>> /\ UNCHANGED subscribedChannels
    BY <1>1 DEF vars
  <2>2. subscribedChannels' \in [Client -> SUBSET Channel]
    BY <2>1 DEF IInv, TypeOK
  <2>3. QED
    BY <2>1, <2>2, QuietKeeps
<1>2. ASSUME NEW c \in Client, NEW ch \in Channel, Join(c, ch) PROVE IInv'
  BY <1>2, JoinKeeps
<1>3. ASSUME NEW c \in Client, NEW file \in File, Report(c, file) PROVE IInv'
  BY <1>3, ReportKeeps
<1>4. ASSUME NEW c \in Client, Receive(c) PROVE IInv'
  BY <1>4, ReceiveKeeps
<1>5. ASSUME NEW c \in Client, NEW user \in User, NEW ch \in Channel, Summary(c, user, ch)
      PROVE  IInv'
  BY <1>5, SummaryKeeps
<1>6. QED
  BY <1>1, <1>2, <1>3, <1>4, <1>5, Zenon DEF Next

(* The letters on their way, the reports of others and the client's own    *)
(* are as the invariant says.                                              *)
THEOREM ReportsInvariant == Spec => []IInv
  BY InitHolds, NextKeeps, PTL DEF Spec

(* What a client knows of another one's reports is that, report by report, *)
(* in the order they were made (socketHandler and Event(frame_body)).      *)
THEOREM ReportsComeBack == Spec => []ComesBack
<1>1. IInv => ComesBack
  <2>1. SUFFICES ASSUME IInv, NEW r \in alive, NEW a \in Client, NEW topic \in Topic
                 PROVE  LET came == Came(r, a, topic)
                        IN  reports[r][<<FieldBack(UserOf[a]), topic>>]
                                = [i \in DOMAIN came |-> Back(a, topic, came[i].item)]
    BY Zenon DEF ComesBack
  <2>2. r \in Client
    BY <2>1 DEF IInv, TypeOK
  <2>3. reports[r][<<FieldBack(UserOf[a]), topic>>] = Shelf(Read(due[r], inbox[r]), a, topic)
    BY <2>1, <2>2, Zenon DEF IInv, Filed
  <2>4. Came(r, a, topic) = At(Read(due[r], inbox[r]), Places(Read(due[r], inbox[r]), a, topic))
    BY Zenon DEF Came, Read, Places
  <2>5. QED
    BY <2>3, <2>4, Zenon DEF Shelf, Backs
<1>2. QED
  BY <1>1, ReportsInvariant, PTL

(* A client is ended by an incomplete event of its own last file, and by   *)
(* nothing else (createSendMessage, Event(frame_body), handle_summary).    *)
THEOREM DiesOfItsFile == Spec => []DiesOfOwnFile
<1>1. IInv => DiesOfOwnFile
  BY DEF IInv
<1>2. QED
  BY <1>1, ReportsInvariant, PTL

(* A step that is no summary writes none.                                  *)
LEMMA NoneWritten ==
    ASSUME [Next]_vars,
           \A c \in Client, user \in User, ch \in Channel : ~Summary(c, user, ch)
    PROVE  summary' = NoSummary \/ (summary' = summary /\ reported' = reported)
<1>1. CASE UNCHANGED vars
  BY <1>1 DEF vars
<1>2. ASSUME NEW c \in Client, NEW ch \in Channel, Join(c, ch) PROVE summary' = NoSummary
  BY <1>2, Zenon DEF Join
<1>3. ASSUME NEW c \in Client, NEW file \in File, Report(c, file) PROVE summary' = NoSummary
  BY <1>3, Zenon DEF Report
<1>4. ASSUME NEW c \in Client, Receive(c) PROVE summary' = NoSummary
  BY <1>4, Zenon DEF Receive
<1>5. QED
  BY <1>1, <1>2, <1>3, <1>4, Zenon DEF Next

LEMMA SummaryCovers ==
    ASSUME IInv, NEW c \in Client, NEW user \in User, NEW ch \in Channel, Summary(c, user, ch)
    PROVE  SummaryCoversOwn'
<1>1. PICK events, items, sorted :
          /\ events = reports[c][<<user, ch>>] /\ items = Items(c, user, ch)
          /\ sorted = Sorted(events)
  OBVIOUS
<1>2. items \in Seq(Item) /\ Holds(events, Copies(UserOf[c], ch, items))
  <2>1. /\ Items(c, user, ch) \in Seq(Item)
        /\ Holds(reports[c][<<user, ch>>], Copies(UserOf[c], ch, Items(c, user, ch)))
    BY SummaryIs
  <2>2. QED
    BY <1>1, <2>1, Zenon
<1>3. PICK active, forces :
          active = CountTrue(events, Active) /\ forces = CountTrue(events, Forces)
  OBVIOUS
<1>4. summary' = [by |-> c, user |-> user, channel |-> ch,
                  active |-> active, forces |-> forces, rows |-> sorted]
  <2>1. summary' = [by |-> c, user |-> user, channel |-> ch,
                    active |-> CountTrue(reports[c][<<user, ch>>], Active),
                    forces |-> CountTrue(reports[c][<<user, ch>>], Forces),
                    rows |-> Sorted(reports[c][<<user, ch>>])]
    BY SummaryIs
  <2>2. QED
    BY <1>1, <1>3, <2>1, Zenon
<1>5. /\ summary'.by = c /\ summary'.user = user /\ summary'.channel = ch
      /\ summary'.active = active /\ summary'.forces = forces /\ summary'.rows = sorted
  BY <1>4
<1>6. reported' = reported
  BY DEF Summary
<1>7. Items(c, user, ch)' = items
  BY <1>1, <1>6 DEF Items
<1>8. /\ active = Cardinality({i \in DOMAIN items : Says(items[i], Active)})
      /\ forces = Cardinality({i \in DOMAIN items : Says(items[i], Forces)})
  BY <1>2, <1>3, CountsTrue
<1>9. /\ Len(sorted) = Len(items)
      /\ \A i \in DOMAIN items : Times(sorted, items[i]) = Times(items, items[i])
  <2>1. Holds(sorted, Copies(UserOf[c], ch, items))
    BY <1>1, <1>2, HoldsSorted, Zenon
  <2>2. QED
    BY <1>2, <2>1, ListsAll
<1>10. QED
  BY <1>5, <1>7, <1>8, <1>9, Zenon DEF SummaryCoversOwn

LEMMA SummaryOrders ==
    ASSUME IInv, NEW c \in Client, NEW user \in User, NEW ch \in Channel, Summary(c, user, ch)
    PROVE  InOrderOfTime'
<1>1. PICK sorted : sorted = Sorted(reports[c][<<user, ch>>])
  OBVIOUS
<1>2. summary'.rows = sorted
  <2>1. PICK active, forces, rows :
            summary' = [by |-> c, user |-> user, channel |-> ch,
                        active |-> active, forces |-> forces, rows |-> rows]
            /\ rows = Sorted(reports[c][<<user, ch>>])
    BY SummaryIs
  <2>2. QED
    BY <1>1, <2>1
<1>3. reports[c][<<user, ch>>] \in Seq(Event)
  BY KeysAre DEF IInv, TypeOK
<1>4. InTime(sorted)
  BY <1>1, <1>3, EventIsDated, SortedInTime, Zenon
<1>5. QED
  BY <1>2, <1>4, Zenon DEF InTime, InOrderOfTime

(* A summary counts what the client's own files said and lists each of     *)
(* their events once (handle_summary).                                     *)
THEOREM SummariesCoverOwn == Spec => []SummaryCoversOwn
<1>1. Init => SummaryCoversOwn
  BY Zenon DEF Init, SummaryCoversOwn
<1>2. IInv /\ SummaryCoversOwn /\ [Next]_vars => SummaryCoversOwn'
  <2>1. SUFFICES ASSUME IInv, SummaryCoversOwn, [Next]_vars PROVE SummaryCoversOwn'
    OBVIOUS
  <2>2. ASSUME NEW c \in Client, NEW user \in User, NEW ch \in Channel, Summary(c, user, ch)
        PROVE  SummaryCoversOwn'
    BY <2>1, <2>2, SummaryCovers
  <2>3. CASE \A c \in Client, user \in User, ch \in Channel : ~Summary(c, user, ch)
    <3>1. CASE summary' = NoSummary
      BY <3>1, Zenon DEF SummaryCoversOwn, NoSummary
    <3>2. CASE summary' = summary /\ reported' = reported
      BY <2>1, <3>2 DEF SummaryCoversOwn, Items
    <3>3. QED
      BY <2>1, <2>3, <3>1, <3>2, NoneWritten
  <2>4. QED
    BY <2>2, <2>3, Zenon
<1>3. QED
  BY <1>1, <1>2, ReportsInvariant, PTL DEF Spec

(* A summary is in the order of time, although what lessThanEventComparator*)
(* tells std::sort is no order.                                            *)
THEOREM SummariesInOrder == Spec => []InOrderOfTime
<1>1. Init => InOrderOfTime
  BY Zenon DEF Init, InOrderOfTime
<1>2. IInv /\ InOrderOfTime /\ [Next]_vars => InOrderOfTime'
  <2>1. SUFFICES ASSUME IInv, InOrderOfTime, [Next]_vars PROVE InOrderOfTime'
    OBVIOUS
  <2>2. ASSUME NEW c \in Client, NEW user \in User, NEW ch \in Channel, Summary(c, user, ch)
        PROVE  InOrderOfTime'
    BY <2>1, <2>2, SummaryOrders
  <2>3. CASE \A c \in Client, user \in User, ch \in Channel : ~Summary(c, user, ch)
    <3>1. CASE summary' = NoSummary
      BY <3>1, Zenon DEF InOrderOfTime, NoSummary
    <3>2. CASE summary' = summary /\ reported' = reported
      BY <2>1, <3>2 DEF InOrderOfTime
    <3>3. QED
      BY <2>1, <2>3, <3>1, <3>2, NoneWritten
  <2>4. QED
    BY <2>2, <2>3, Zenon
<1>3. QED
  BY <1>1, <1>2, ReportsInvariant, PTL DEF Spec
=============================================================================
