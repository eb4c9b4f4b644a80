---------------------------- MODULE UtListProofs ----------------------------
(***************************************************************************)
(* Proofs about UtList for every set of elements: the links always spell a *)
(* sequence of elements, the walks along them find that sequence and its   *)
(* reverse, and every operation changes the sequence as ListSpec says.     *)
(***************************************************************************)
EXTENDS UtList, SequenceTheorems, FiniteSetTheorems, WellFoundedInduction, TLAPS

\* The element at place i of s, or NULL outside of s.
At(s, i) == IF i \in 1 .. Len(s) THEN s[i] ELSE NULL

\* The list is the sequence s: its ends, its count and the links of its nodes.
\* What the links of the other elements hold is of no account.
Spells(s) ==
    /\ s \in Seq(Elem)
    /\ \A i, j \in 1 .. Len(s) : s[i] = s[j] => i = j
    /\ start = At(s, 1) /\ end = At(s, Len(s)) /\ count = Len(s)
    /\ \A i \in 1 .. Len(s) : next[s[i]] = At(s, i + 1) /\ prev[s[i]] = At(s, i - 1)

\* The inductive invariant.
IInv ==
    /\ next \in [Elem -> Elem \cup {NULL, Junk}]
    /\ prev \in [Elem -> Elem \cup {NULL, Junk}]
    /\ \E s : Spells(s)

----------------------------------------------------------------------------
(* Induction over the natural numbers, for sets: the provers cannot        *)
(* instantiate the library's theorems with a predicate.                    *)

LEMMA Least ==
  ASSUME NEW T, T \subseteq Nat, T # {}
  PROVE  \E x \in T : \A y \in T : x =< y
<1> DEFINE R == OpToRel(<, Nat)
<1>1. IsWellFoundedOn(R, Nat)
  BY NatLessThanWellFounded
<1>2. \A x, y \in Nat : y < x => <<y, x>> \in R
  BY DEF OpToRel
<1> HIDE DEF R
<1>3. \E x \in T : \A y \in T : ~ (<<y, x>> \in R)
  BY <1>1, WFMin
<1>4. \A x, y \in Nat : ~ (<<y, x>> \in R) => x =< y
  BY <1>2
<1> QED
  BY <1>3, <1>4

LEMMA Induction ==
  ASSUME NEW S, 0 \in S, \A n \in Nat : n \in S => n + 1 \in S
  PROVE  Nat \subseteq S
<1> DEFINE T == Nat \ S
<1> SUFFICES ASSUME T # {} PROVE FALSE
  OBVIOUS
<1>1. T \subseteq Nat
  OBVIOUS
<1> HIDE DEF T
<1>2. PICK x \in T : \A y \in T : x =< y
  BY <1>1, Least
<1>3. x \in Nat /\ x \notin S /\ x # 0
  BY <1>2 DEF T
<1>4. x - 1 \in Nat /\ x - 1 \notin T
  BY <1>2, <1>3
<1>5. x - 1 \in S /\ (x - 1) + 1 = x
  BY <1>3, <1>4 DEF T
<1> QED
  BY <1>3, <1>4, <1>5

----------------------------------------------------------------------------
(* The walk along the links.                                               *)

\* One step of a walk along the links f.
Further(f, w) == IF w # <<>> /\ f[Last(w)] \in Elem THEN Append(w, f[Last(w)]) ELSE w

\* w has the walk from e along the links f, of each number of steps up to n.
IsWalk(w, f, e, n) ==
    w = [k \in 0 .. n |-> IF k = 0 THEN IF e \in Elem THEN <<e>> ELSE <<>>
                          ELSE Further(f, w[k - 1])]

\* Such a function exists.
LEMMA WalkExists ==
  ASSUME NEW f, NEW e, NEW n \in Nat
  PROVE  \E w : IsWalk(w, f, e, n)
<1> DEFINE S == {m \in Nat : \E w : IsWalk(w, f, e, m)}
<1>1. 0 \in S
  <2> DEFINE w == [k \in 0 .. 0 |-> IF e \in Elem THEN <<e>> ELSE <<>>]
  <2>1. IsWalk(w, f, e, 0)
    BY DEF IsWalk
  <2> QED
    BY <2>1
<1>2. ASSUME NEW m \in Nat, m \in S
      PROVE  m + 1 \in S
  <2>1. PICK w : IsWalk(w, f, e, m)
    BY <1>2
  <2> DEFINE x == [k \in 0 .. m + 1 |-> IF k =< m THEN w[k] ELSE Further(f, w[m])]
  <2>2. \A k \in 0 .. m : x[k] = w[k]
    OBVIOUS
  <2>3. \A k \in 0 .. m + 1 :
          x[k] = IF k = 0 THEN IF e \in Elem THEN <<e>> ELSE <<>> ELSE Further(f, x[k - 1])
    <3> SUFFICES ASSUME NEW k \in 0 .. m + 1
                 PROVE  x[k] = IF k = 0 THEN IF e \in Elem THEN <<e>> ELSE <<>>
                               ELSE Further(f, x[k - 1])
      OBVIOUS
    <3>1. CASE k = 0
      BY <2>1, <3>1 DEF IsWalk
    <3>2. CASE k \in 1 .. m
      <4>1. w[k] = Further(f, w[k - 1])
        BY <2>1, <3>2 DEF IsWalk
      <4>2. x[k] = w[k] /\ x[k - 1] = w[k - 1]
        BY <2>2, <3>2
      <4> HIDE DEF x
      <4> QED
        BY <3>2, <4>1, <4>2
    <3>3. CASE k = m + 1
      <4>1. x[k] = Further(f, w[m]) /\ x[m] = w[m] /\ k - 1 = m
        BY <3>3
      <4> HIDE DEF x
      <4> QED
        BY <3>3, <4>1
    <3> QED
      BY <3>1, <3>2, <3>3
  <2>4. IsWalk(x, f, e, m + 1)
    <3>1. x = [k \in 0 .. m + 1 |-> x[k]]
      OBVIOUS
    <3> HIDE DEF x
    <3> QED
      BY <2>3, <3>1 DEF IsWalk
  <2> QED
    BY <2>4
<1> HIDE DEF S
<1>3. Nat \subseteq S
  BY <1>1, <1>2, Induction
<1> QED
  BY <1>3 DEF S

LEMMA WalkIsLast ==
  ASSUME NEW f, NEW e
  PROVE  \E w : /\ IsWalk(w, f, e, Cardinality(Elem) + 1)
                /\ Walk(f, e) = w[Cardinality(Elem) + 1]
<1> DEFINE n == Cardinality(Elem) + 1
           c == CHOOSE w : IsWalk(w, f, e, n)
<1>1. n \in Nat
  BY ElemAssumption, FS_CardinalityType
<1>2. \E w : IsWalk(w, f, e, n)
  BY <1>1, WalkExists
<1>3. IsWalk(c, f, e, n)
  BY <1>2
<1>4. Walk(f, e) = c[n]
  BY DEF Walk, IsWalk, Further
<1> QED
  BY <1>3, <1>4

\* A sequence without repetition is not longer than there are elements.
LEMMA LengthBound ==
  ASSUME NEW s \in Seq(Elem), \A i, j \in 1 .. Len(s) : s[i] = s[j] => i = j
  PROVE  Len(s) \in Nat /\ Len(s) =< Cardinality(Elem)
<1>1. Len(s) \in Nat /\ s \in [1 .. Len(s) -> Elem]
  BY LenProperties
<1>2. s \in Injection(1 .. Len(s), Elem)
  BY <1>1 DEF Injection, IsInjective
<1>3. Cardinality(1 .. Len(s)) = Len(s)
  BY <1>1, FS_Interval, SMTT(40)
<1>4. Cardinality(1 .. Len(s)) =< Cardinality(Elem)
  BY <1>2, ElemAssumption, FS_Injection
<1> QED
  BY <1>1, <1>3, <1>4

\* If the links f lead along s, the walk from its first element is s.
LEMMA WalkFinds ==
  ASSUME NEW s \in Seq(Elem), \A i, j \in 1 .. Len(s) : s[i] = s[j] => i = j,
         NEW f, \A i \in 1 .. Len(s) : f[s[i]] = At(s, i + 1)
  PROVE  Walk(f, At(s, 1)) = s
<1> DEFINE n == Cardinality(Elem) + 1
           e == At(s, 1)
           L(k) == IF k < Len(s) THEN k + 1 ELSE Len(s)
<1>1. Len(s) \in Nat /\ n \in Nat /\ Len(s) < n
  BY LengthBound, ElemAssumption, FS_CardinalityType
<1>2. s \in [1 .. Len(s) -> Elem] /\ DOMAIN s = 1 .. Len(s)
  BY LenProperties
<1>3. PICK w : IsWalk(w, f, e, n) /\ Walk(f, e) = w[n]
  BY WalkIsLast
<1> HIDE DEF n
<1> DEFINE S == {k \in Nat : k =< n => /\ w[k] \in Seq(Elem) /\ Len(w[k]) = L(k)
                                       /\ \A i \in 1 .. L(k) : w[k][i] = s[i]}
<1>4. 0 \in S
  <2>1. w[0] = IF e \in Elem THEN <<e>> ELSE <<>>
    BY <1>1, <1>3 DEF IsWalk
  <2>2. CASE Len(s) = 0
    <3>1. w[0] = <<>>
      BY <2>1, <2>2, ElemAssumption DEF At
    <3>2. w[0] \in Seq(Elem) /\ Len(w[0]) = 0 /\ L(0) = 0
      BY <2>2, <3>1, EmptySeq
    <3>3. \A i \in 1 .. L(0) : w[0][i] = s[i]
      BY <3>2
    <3> QED
      BY <3>2, <3>3
  <2>3. CASE Len(s) > 0
    <3>1. e = s[1] /\ e \in Elem
      BY <1>1, <1>2, <2>3 DEF At
    <3>2. w[0] = <<s[1]>> /\ s[1] \in Elem
      BY <2>1, <3>1
    <3>3. w[0] \in Seq(Elem) /\ Len(w[0]) = 1 /\ w[0][1] = s[1]
      BY <3>2
    <3>4. L(0) = 1
      BY <2>3
    <3>5. \A i \in 1 .. L(0) : w[0][i] = s[i]
      BY <3>3, <3>4
    <3> QED
      BY <3>3, <3>4, <3>5
  <2> QED
    BY <1>1, <2>2, <2>3
<1>5. ASSUME NEW k \in Nat, k \in S
      PROVE  k + 1 \in S
  <2> SUFFICES ASSUME k + 1 =< n
               PROVE  /\ w[k + 1] \in Seq(Elem) /\ Len(w[k + 1]) = L(k + 1)
                      /\ \A i \in 1 .. L(k + 1) : w[k + 1][i] = s[i]
    OBVIOUS
  <2>1. /\ w[k] \in Seq(Elem) /\ Len(w[k]) = L(k)
        /\ \A i \in 1 .. L(k) : w[k][i] = s[i]
    BY <1>1, <1>5
  <2>2. w[k + 1] = Further(f, w[k])
    <3>1. k + 1 \in 0 .. n /\ k + 1 # 0 /\ (k + 1) - 1 = k
      BY <1>1
    <3> QED
      BY <1>3, <3>1 DEF IsWalk
  <2>3. CASE Len(s) = 0
    <3>1. w[k] = <<>>
      BY <2>1, <2>3, EmptySeq
    <3>2. w[k + 1] = <<>>
      BY <2>2, <3>1 DEF Further
    <3> QED
      BY <2>3, <3>2, EmptySeq
  <2>4. CASE Len(s) > 0
    <3>1. L(k) \in 1 .. Len(s) /\ w[k] # <<>> /\ Last(w[k]) = s[L(k)]
      <4>1. L(k) \in 1 .. Len(s)
        BY <1>1, <2>4
      <4>2. w[k] # <<>>
        BY <2>1, <4>1, EmptySeq
      <4>3. w[k][L(k)] = s[L(k)]
        BY <2>1, <4>1
      <4> QED
        BY <2>1, <4>1, <4>2, <4>3 DEF Last
    <3>2. f[Last(w[k])] = At(s, L(k) + 1)
      BY <3>1
    <3>3. CASE k + 1 < Len(s)
      <4>1. L(k) = k + 1 /\ L(k + 1) = k + 2 /\ k + 2 \in 1 .. Len(s)
        BY <1>1, <3>3
      <4>2. f[Last(w[k])] = s[k + 2] /\ s[k + 2] \in Elem
        BY <1>2, <3>2, <4>1 DEF At
      <4>3. w[k + 1] = Append(w[k], s[k + 2])
        BY <2>2, <3>1, <4>2 DEF Further
      <4>4. /\ w[k + 1] \in Seq(Elem) /\ Len(w[k + 1]) = k + 2
            /\ \A i \in 1 .. k + 2 : w[k + 1][i] = IF i = k + 2 THEN s[k + 2] ELSE w[k][i]
        <5> HIDE DEF L, S
        <5> QED
          BY <2>1, <4>1, <4>2, <4>3, AppendProperties
      <4>5. \A i \in 1 .. k + 2 : i # k + 2 => i \in 1 .. L(k)
        BY <4>1
      <4> QED
        BY <2>1, <4>1, <4>4, <4>5
    <3>4. CASE ~ (k + 1 < Len(s))
      <4>1. L(k) = Len(s) /\ L(k + 1) = Len(s)
        BY <1>1, <3>4
      <4>2. f[Last(w[k])] = NULL
        BY <1>1, <3>2, <4>1 DEF At
      <4>3. w[k + 1] = w[k]
        BY <2>2, <4>2, ElemAssumption DEF Further
      <4> QED
        BY <2>1, <4>1, <4>3
    <3> QED
      BY <3>3, <3>4
  <2> QED
    BY <1>1, <2>3, <2>4
<1>6. n \in S
  <2> HIDE DEF S
  <2> QED
    BY <1>1, <1>4, <1>5, Induction
<1>7. w[n] \in Seq(Elem) /\ Len(w[n]) = Len(s) /\ \A i \in 1 .. Len(s) : w[n][i] = s[i]
  <2>1. L(n) = Len(s)
    BY <1>1
  <2> QED
    BY <1>1, <1>6, <2>1
<1>8. w[n] = s
  <2> HIDE DEF S
  <2> QED
    BY <1>7, SeqEqual
<1> QED
  BY <1>3, <1>8

----------------------------------------------------------------------------
(* What the walks find in a list that is s.                                *)

LEMMA ReverseProperties ==
  ASSUME NEW s \in Seq(Elem)
  PROVE  /\ Reverse(s) \in Seq(Elem) /\ Len(Reverse(s)) = Len(s)
         /\ \A i \in 1 .. Len(s) : Reverse(s)[i] = s[(Len(s) - i) + 1]
<1>1. Len(s) \in Nat /\ s \in [1 .. Len(s) -> Elem]
  BY LenProperties
<1>2. \A i \in 1 .. Len(s) : (Len(s) - i) + 1 \in 1 .. Len(s)
  BY <1>1
<1>3. Reverse(s) \in [1 .. Len(s) -> Elem]
  BY <1>1, <1>2 DEF Reverse
<1>4. Reverse(s) \in Seq(Elem)
  BY <1>1, <1>3, SeqDef
<1>5. Len(Reverse(s)) = Len(s)
  BY <1>1, <1>3, <1>4, LenProperties
<1> QED
  BY <1>4, <1>5 DEF Reverse

LEMMA BackFinds ==
  ASSUME NEW s \in Seq(Elem), \A i, j \in 1 .. Len(s) : s[i] = s[j] => i = j,
         NEW f, \A i \in 1 .. Len(s) : f[s[i]] = At(s, i - 1)
  PROVE  Walk(f, At(s, Len(s))) = Reverse(s)
<1> DEFINE r == Reverse(s)
<1>1. s \in Seq(Elem) /\ Len(s) \in Nat /\ DOMAIN s = 1 .. Len(s)
  BY LenProperties
<1>3. /\ r \in Seq(Elem) /\ Len(r) = Len(s)
      /\ \A i \in 1 .. Len(s) : r[i] = s[(Len(s) - i) + 1]
  BY <1>1, ReverseProperties
<1> HIDE DEF r
<1>4. \A i, j \in 1 .. Len(r) : r[i] = r[j] => i = j
  <2> SUFFICES ASSUME NEW i \in 1 .. Len(r), NEW j \in 1 .. Len(r), r[i] = r[j]
               PROVE  i = j
    OBVIOUS
  <2>1. (Len(s) - i) + 1 \in 1 .. Len(s) /\ (Len(s) - j) + 1 \in 1 .. Len(s)
    BY <1>1, <1>3
  <2>2. (Len(s) - i) + 1 = (Len(s) - j) + 1
    BY <1>3, <2>1
  <2> QED
    BY <1>1, <1>3, <2>2
<1>5. \A i \in 1 .. Len(r) : f[r[i]] = At(r, i + 1)
  <2> SUFFICES ASSUME NEW i \in 1 .. Len(r)
               PROVE  f[r[i]] = At(r, i + 1)
    OBVIOUS
  <2> DEFINE j == (Len(s) - i) + 1
  <2>1. j \in 1 .. Len(s) /\ r[i] = s[j] /\ i \in Nat
    BY <1>1, <1>3
  <2>2. f[s[j]] = At(s, j - 1)
    BY <2>1
  <2>3. CASE i = Len(s)
    <3>1. j - 1 = 0 /\ i + 1 \notin 1 .. Len(r)
      BY <1>1, <1>3, <2>3
    <3>2. j - 1 \notin 1 .. Len(s)
      BY <3>1
    <3> HIDE DEF j
    <3> QED
      BY <2>1, <2>2, <3>1, <3>2 DEF At
  <2>4. CASE i # Len(s)
    <3>1. i \in Int /\ Len(s) \in Int /\ 1 =< i /\ i < Len(s) /\ Len(r) = Len(s)
      <4>1. i \in 1 .. Len(s) /\ Len(r) = Len(s)
        BY <1>3
      <4>2. \A k \in Nat : \A x \in 1 .. k : x # k => x < k /\ x \in Int /\ 1 =< x /\ k \in Int
        OBVIOUS
      <4> QED
        BY <1>1, <2>4, <4>1, <4>2
    <3>2. j - 1 \in 1 .. Len(s) /\ i + 1 \in 1 .. Len(r) /\ (Len(s) - (i + 1)) + 1 = j - 1
      BY <3>1
    <3> HIDE DEF j
    <3>3. r[i + 1] = s[j - 1]
      BY <1>3, <3>1, <3>2
    <3> QED
      BY <2>1, <2>2, <3>2, <3>3, SMTT(40) DEF At
  <2> QED
    BY <2>3, <2>4
<1>6. At(r, 1) = At(s, Len(s))
  <2>1. CASE Len(s) = 0
    BY <1>3, <2>1 DEF At
  <2>2. CASE Len(s) # 0
    <3>1. r[1] = s[Len(s)] /\ 1 \in 1 .. Len(r) /\ Len(s) \in 1 .. Len(s)
      BY <1>1, <1>3, <2>2
    <3> QED
      BY <3>1 DEF At
  <2> QED
    BY <2>1, <2>2
<1>7. Walk(f, At(r, 1)) = r
  BY <1>3, <1>4, <1>5, WalkFinds
<1> QED
  BY <1>6, <1>7 DEF r

LEMMA WalksFind ==
  ASSUME NEW s, Spells(s)
  PROVE  Forward = s /\ Backward = Reverse(s) /\ Listed = {s[i] : i \in 1 .. Len(s)}
<1>1. s \in Seq(Elem) /\ DOMAIN s = 1 .. Len(s)
  BY LenProperties DEF Spells
<1>2. Forward = s
  BY WalkFinds DEF Spells, Forward
<1>3. Backward = Reverse(s)
  BY BackFinds DEF Spells, Backward
<1> QED
  BY <1>1, <1>2, <1>3 DEF Listed, Range

LEMMA WalksFindNext ==
  ASSUME NEW s, Spells(s)'
  PROVE  Forward' = s
<1>1. /\ s \in Seq(Elem) /\ \A i, j \in 1 .. Len(s) : s[i] = s[j] => i = j
      /\ start' = At(s, 1)
      /\ \A i \in 1 .. Len(s) : next'[s[i]] = At(s, i + 1)
  BY DEF Spells, At
<1>2. Walk(next', At(s, 1)) = s
  BY <1>1, WalkFinds
<1> QED
  BY <1>1, <1>2 DEF Forward


----------------------------------------------------------------------------
(* Sequences with one element more or less.                                *)

\* s with e at place p, and s without its element at place p.
Inserted(s, p, e) ==
    [i \in 1 .. Len(s) + 1 |-> IF i < p THEN s[i] ELSE IF i = p THEN e ELSE s[i - 1]]
Removed(s, p) == [i \in 1 .. Len(s) - 1 |-> IF i < p THEN s[i] ELSE s[i + 1]]

LEMMA InsertedProperties ==
  ASSUME NEW s \in Seq(Elem), NEW p \in 1 .. Len(s) + 1, NEW e \in Elem
  PROVE  /\ Inserted(s, p, e) \in Seq(Elem) /\ Len(Inserted(s, p, e)) = Len(s) + 1
         /\ \A i \in 1 .. Len(s) + 1 : Inserted(s, p, e)[i] =
                IF i < p THEN s[i] ELSE IF i = p THEN e ELSE s[i - 1]
<1>1. Len(s) \in Nat /\ s \in [1 .. Len(s) -> Elem]
  BY LenProperties
<1>2. Inserted(s, p, e) \in [1 .. Len(s) + 1 -> Elem] /\ Len(s) + 1 \in Nat
  BY <1>1 DEF Inserted
<1>3. Inserted(s, p, e) \in Seq(Elem)
  BY <1>2, SeqDef
<1>4. Len(Inserted(s, p, e)) = Len(s) + 1
  BY <1>2, <1>3, LenProperties
<1> QED
  BY <1>3, <1>4 DEF Inserted

LEMMA RemovedProperties ==
  ASSUME NEW s \in Seq(Elem), NEW p \in 1 .. Len(s)
  PROVE  /\ Removed(s, p) \in Seq(Elem) /\ Len(Removed(s, p)) = Len(s) - 1
         /\ \A i \in 1 .. Len(s) - 1 : Removed(s, p)[i] = IF i < p THEN s[i] ELSE s[i + 1]
<1>1. Len(s) \in Nat /\ s \in [1 .. Len(s) -> Elem]
  BY LenProperties
<1>2. Removed(s, p) \in [1 .. Len(s) - 1 -> Elem] /\ Len(s) - 1 \in Nat
  BY <1>1 DEF Removed
<1>3. Removed(s, p) \in Seq(Elem)
  BY <1>2, SeqDef
<1>4. Len(Removed(s, p)) = Len(s) - 1
  BY <1>2, <1>3, LenProperties
<1> QED
  BY <1>3, <1>4 DEF Removed

\* The operators of ListSpec make these sequences.
LEMMA InsertAtIs ==
  ASSUME NEW s \in Seq(Elem), NEW p \in 1 .. Len(s) + 1, NEW e \in Elem
  PROVE  InsertAt(s, p, e) = Inserted(s, p, e)
<1>1. Len(s) \in Nat /\ s \in [1 .. Len(s) -> Elem]
  BY LenProperties
<1> DEFINE a == SubSeq(s, 1, p - 1)
           b == SubSeq(s, p, Len(s))
<1>2. /\ a \in Seq(Elem) /\ Len(a) = p - 1
      /\ \A i \in 1 .. p - 1 : a[i] = s[i]
  BY <1>1, SubSeqProperties
<1>3. /\ b \in Seq(Elem) /\ Len(b) = Len(s) - p + 1
      /\ \A i \in 1 .. Len(s) - p + 1 : b[i] = s[p + i - 1]
  BY <1>1, SubSeqProperties
<1>4. <<e>> \in Seq(Elem) /\ Len(<<e>>) = 1 /\ <<e>>[1] = e
  OBVIOUS
<1> HIDE DEF a, b
<1>5. PICK c : c = a \o <<e>>
  OBVIOUS
<1>6. /\ c \in Seq(Elem) /\ Len(c) = p
      /\ \A i \in 1 .. p : c[i] = IF i < p THEN s[i] ELSE e
  <2>1. /\ c \in Seq(Elem) /\ Len(c) = Len(a) + Len(<<e>>)
        /\ \A i \in 1 .. Len(a) + Len(<<e>>) :
              c[i] = IF i =< Len(a) THEN a[i] ELSE <<e>>[i - Len(a)]
    BY <1>2, <1>4, <1>5, ConcatProperties
  <2>2. Len(a) + Len(<<e>>) = p /\ p \in Int /\ p >= 1
    BY <1>1, <1>2, <1>4
  <2>3. ASSUME NEW i \in 1 .. p
        PROVE  c[i] = IF i < p THEN s[i] ELSE e
    <3>1. CASE i < p
      BY <1>2, <2>1, <2>2, <3>1
    <3>2. CASE i = p
      BY <1>2, <1>4, <2>1, <2>2, <3>2
    <3> QED
      BY <2>2, <3>1, <3>2
  <2> QED
    BY <2>1, <2>2, <2>3
<1>7. PICK d : d = c \o b
  OBVIOUS
<1>8. /\ d \in Seq(Elem) /\ Len(d) = Len(s) + 1
      /\ \A i \in 1 .. Len(s) + 1 : d[i] = IF i =< p THEN c[i] ELSE b[i - p]
  <2>1. /\ d \in Seq(Elem) /\ Len(d) = Len(c) + Len(b)
        /\ \A i \in 1 .. Len(c) + Len(b) : d[i] = IF i =< Len(c) THEN c[i] ELSE b[i - Len(c)]
    BY <1>3, <1>6, <1>7, ConcatProperties
  <2>2. Len(c) = p /\ Len(c) + Len(b) = Len(s) + 1
    BY <1>1, <1>3, <1>6
  <2> QED
    BY <2>1, <2>2
<1>9. PICK z : z = Inserted(s, p, e)
  OBVIOUS
<1>10. /\ z \in Seq(Elem) /\ Len(z) = Len(s) + 1
       /\ \A i \in 1 .. Len(s) + 1 : z[i] = IF i < p THEN s[i] ELSE IF i = p THEN e ELSE s[i - 1]
  <2>1. /\ Inserted(s, p, e) \in Seq(Elem) /\ Len(Inserted(s, p, e)) = Len(s) + 1
        /\ \A i \in 1 .. Len(s) + 1 : Inserted(s, p, e)[i] =
               IF i < p THEN s[i] ELSE IF i = p THEN e ELSE s[i - 1]
    BY InsertedProperties, ZenonT(60)
  <2> QED
    BY <1>9, <2>1, Zenon
<1>11. ASSUME NEW i \in 1 .. Len(s) + 1
       PROVE  d[i] = z[i]
  <2>1. i \in Int /\ p \in Int /\ 1 =< i
    BY <1>1
  <2>2. CASE i =< p
    <3>1. i \in 1 .. p
      BY <2>1, <2>2
    <3> QED
      BY <1>6, <1>8, <1>10, <2>1, <2>2, <3>1
  <2>3. CASE i > p
    <3>1. i - p \in 1 .. Len(s) - p + 1 /\ p + (i - p) - 1 = i - 1
      BY <1>1, <2>3
    <3>2. b[i - p] = s[i - 1]
      BY <1>3, <3>1
    <3> QED
      BY <1>8, <1>10, <2>1, <2>3, <3>2
  <2> QED
    BY <2>1, <2>2, <2>3
<1>12. d = z
  BY <1>8, <1>10, <1>11, SeqEqual
<1> QED
  BY <1>5, <1>7, <1>9, <1>12 DEF InsertAt, a, b

LEMMA RemoveAtIs ==
  ASSUME NEW s \in Seq(Elem), NEW p \in 1 .. Len(s)
  PROVE  RemoveAt(s, p) = Removed(s, p)
<1>1. Len(s) \in Nat /\ s \in [1 .. Len(s) -> Elem]
  BY LenProperties
<1> DEFINE a == SubSeq(s, 1, p - 1)
           b == SubSeq(s, p + 1, Len(s))
<1>2. /\ a \in Seq(Elem) /\ Len(a) = p - 1
      /\ \A i \in 1 .. p - 1 : a[i] = s[i]
  BY <1>1, SubSeqProperties
<1>3. /\ b \in Seq(Elem) /\ Len(b) = Len(s) - p
      /\ \A i \in 1 .. Len(s) - p : b[i] = s[p + i]
  <2>1. \A i \in p + 1 .. Len(s) : s[i] \in Elem
    BY <1>1
  <2>2. /\ b \in Seq(Elem) /\ Len(b) = IF p + 1 <= Len(s) THEN Len(s) - (p + 1) + 1 ELSE 0
        /\ \A i \in 1 .. Len(s) - (p + 1) + 1 : b[i] = s[(p + 1) + i - 1]
    BY <1>1, <2>1, SubSeqProperties
  <2>3. p \in Int /\ 1 =< p /\ p =< Len(s) /\ Len(s) - (p + 1) + 1 = Len(s) - p
    BY <1>1
  <2> HIDE DEF b
  <2>4. Len(b) = Len(s) - p
    <3>1. CASE p + 1 =< Len(s)
      BY <2>2, <2>3, <3>1
    <3>2. CASE p = Len(s)
      <4>1. Len(b) = 0
        BY <1>1, <2>2, <2>3, <3>2
      <4>2. Len(s) - p = 0
        BY <1>1, <3>2
      <4> QED
        BY <4>1, <4>2
    <3>3. \A k \in Nat : \A x \in 1 .. k : x + 1 =< k \/ x = k
      OBVIOUS
    <3> QED
      BY <1>1, <3>1, <3>2, <3>3
  <2>5. ASSUME NEW i \in 1 .. Len(s) - p
        PROVE  b[i] = s[p + i]
    <3>1. i \in 1 .. Len(s) - (p + 1) + 1 /\ (p + 1) + i - 1 = p + i
      BY <1>1, <2>3
    <3> QED
      BY <2>2, <3>1
  <2> QED
    BY <2>2, <2>4, <2>5
<1> HIDE DEF a, b
<1>4. PICK d : d = a \o b
  OBVIOUS
<1>5. /\ d \in Seq(Elem) /\ Len(d) = Len(s) - 1
      /\ \A i \in 1 .. Len(s) - 1 : d[i] = IF i < p THEN s[i] ELSE b[i - (p - 1)]
  <2>1. /\ d \in Seq(Elem) /\ Len(d) = Len(a) + Len(b)
        /\ \A i \in 1 .. Len(a) + Len(b) : d[i] = IF i =< Len(a) THEN a[i] ELSE b[i - Len(a)]
    BY <1>2, <1>3, <1>4, ConcatProperties
  <2>2. Len(a) = p - 1 /\ Len(a) + Len(b) = Len(s) - 1 /\ p \in Int
    BY <1>1, <1>2, <1>3
  <2>3. ASSUME NEW i \in 1 .. Len(s) - 1
        PROVE  d[i] = IF i < p THEN s[i] ELSE b[i - (p - 1)]
    <3>1. i \in Int /\ 1 =< i /\ (i < p => i \in 1 .. p - 1)
      BY <1>1, <2>2
    <3>2. i \in 1 .. Len(a) + Len(b) /\ (i < p <=> i =< Len(a))
      BY <2>2, <3>1
    <3>3. d[i] = IF i < p THEN a[i] ELSE b[i - (p - 1)]
      BY <2>1, <2>2, <3>2
    <3> QED
      BY <1>2, <3>1, <3>3
  <2> QED
    BY <2>1, <2>2, <2>3
<1>6. PICK z : z = Removed(s, p)
  OBVIOUS
<1>7. /\ z \in Seq(Elem) /\ Len(z) = Len(s) - 1
      /\ \A i \in 1 .. Len(s) - 1 : z[i] = IF i < p THEN s[i] ELSE s[i + 1]
  BY <1>6, RemovedProperties
<1>8. ASSUME NEW i \in 1 .. Len(s) - 1
      PROVE  d[i] = z[i]
  <2>1. i \in Int /\ p \in Int
    BY <1>1
  <2>2. CASE i < p
    BY <1>5, <1>7, <2>2
  <2>3. CASE ~ (i < p)
    <3>1. i - (p - 1) \in 1 .. Len(s) - p /\ p + (i - (p - 1)) = i + 1
      BY <1>1, <2>1, <2>3
    <3>2. b[i - (p - 1)] = s[i + 1]
      BY <1>3, <3>1
    <3> QED
      BY <1>5, <1>7, <2>3, <3>2
  <2> QED
    BY <2>2, <2>3
<1>9. d = z
  BY <1>5, <1>7, <1>8, SeqEqual
<1> QED
  BY <1>4, <1>6, <1>9 DEF RemoveAt, a, b

\* Putting an element in front or at the back is an insertion, too.
LEMMA ConcatIs ==
  ASSUME NEW s \in Seq(Elem), NEW e \in Elem
  PROVE  <<e>> \o s = Inserted(s, 1, e) /\ s \o <<e>> = Inserted(s, Len(s) + 1, e)
<1>1. Len(s) \in Nat /\ s \in [1 .. Len(s) -> Elem]
  BY LenProperties
<1>2. <<e>> \in Seq(Elem) /\ Len(<<e>>) = 1 /\ <<e>>[1] = e
  OBVIOUS
<1>3. /\ <<e>> \o s \in Seq(Elem) /\ Len(<<e>> \o s) = Len(s) + 1
      /\ \A i \in 1 .. Len(s) + 1 : (<<e>> \o s)[i] = IF i = 1 THEN e ELSE s[i - 1]
  <2>1. /\ <<e>> \o s \in Seq(Elem) /\ Len(<<e>> \o s) = Len(<<e>>) + Len(s)
        /\ \A i \in 1 .. Len(<<e>>) + Len(s) :
              (<<e>> \o s)[i] = IF i =< Len(<<e>>) THEN <<e>>[i] ELSE s[i - Len(<<e>>)]
    BY <1>2, ConcatProperties
  <2> QED
    BY <1>1, <1>2, <2>1
<1>4. /\ s \o <<e>> \in Seq(Elem) /\ Len(s \o <<e>>) = Len(s) + 1
      /\ \A i \in 1 .. Len(s) + 1 : (s \o <<e>>)[i] = IF i = Len(s) + 1 THEN e ELSE s[i]
  <2>1. /\ s \o <<e>> \in Seq(Elem) /\ Len(s \o <<e>>) = Len(s) + Len(<<e>>)
        /\ \A i \in 1 .. Len(s) + Len(<<e>>) :
              (s \o <<e>>)[i] = IF i =< Len(s) THEN s[i] ELSE <<e>>[i - Len(s)]
    BY <1>2, ConcatProperties
  <2> QED
    BY <1>1, <1>2, <2>1
<1>5. <<e>> \o s = Inserted(s, 1, e)
  <2>1. /\ Inserted(s, 1, e) \in Seq(Elem) /\ Len(Inserted(s, 1, e)) = Len(s) + 1
        /\ \A i \in 1 .. Len(s) + 1 : Inserted(s, 1, e)[i] = IF i = 1 THEN e ELSE s[i - 1]
    BY <1>1, InsertedProperties, SMTT(40)
  <2> QED
    BY <1>3, <2>1, SeqEqual
<1>6. s \o <<e>> = Inserted(s, Len(s) + 1, e)
  <2>1. /\ Inserted(s, Len(s) + 1, e) \in Seq(Elem)
        /\ Len(Inserted(s, Len(s) + 1, e)) = Len(s) + 1
        /\ \A i \in 1 .. Len(s) + 1 :
              Inserted(s, Len(s) + 1, e)[i] = IF i = Len(s) + 1 THEN e ELSE s[i]
    BY <1>1, InsertedProperties
  <2> QED
    BY <1>4, <2>1, SeqEqual, SMTT(40)
<1> QED
  BY <1>5, <1>6

----------------------------------------------------------------------------
(* What an insertion and a removal do to the links.                        *)

LEMMA InsertSpells ==
  ASSUME NEW s, Spells(s), NEW p \in 1 .. Len(s) + 1, NEW e \in Elem,
         \A i \in 1 .. Len(s) : s[i] # e,
         next' = [f \in Elem |-> IF f = e THEN At(s, p)
                                 ELSE IF f = At(s, p - 1) THEN e ELSE next[f]],
         prev' = [f \in Elem |-> IF f = e THEN At(s, p - 1)
                                 ELSE IF f = At(s, p) THEN e ELSE prev[f]],
         start' = IF p = 1 THEN e ELSE start,
         end' = IF p = Len(s) + 1 THEN e ELSE end,
         count' = count + 1
  PROVE  Spells(Inserted(s, p, e))'
<1>1. PICK n \in Nat : n = Len(s) /\ s \in [1 .. n -> Elem] /\ s \in Seq(Elem)
  BY LenProperties DEF Spells
<1>2. PICK z : z = Inserted(s, p, e)
  OBVIOUS
<1>3. /\ z \in Seq(Elem) /\ Len(z) = n + 1 /\ p \in 1 .. n + 1
      /\ \A i \in 1 .. n + 1 : z[i] = IF i < p THEN s[i] ELSE IF i = p THEN e ELSE s[i - 1]
  <2>1. /\ Inserted(s, p, e) \in Seq(Elem) /\ Len(Inserted(s, p, e)) = Len(s) + 1
        /\ \A i \in 1 .. Len(s) + 1 : Inserted(s, p, e)[i] =
              IF i < p THEN s[i] ELSE IF i = p THEN e ELSE s[i - 1]
    <3>1. s \in Seq(Elem)
      BY <1>1
    <3> QED
      BY <3>1, InsertedProperties, ZenonT(60)
  <2> QED
    BY <1>1, <1>2, <2>1
<1>4. /\ \A i \in 1 .. n + 1 : i < p => i \in 1 .. n /\ z[i] = s[i]
      /\ z[p] = e
      /\ \A i \in 1 .. n + 1 : i > p => i - 1 \in 1 .. n /\ z[i] = s[i - 1]
  BY <1>3
<1>5. /\ \A i, j \in 1 .. n : s[i] = s[j] => i = j
      /\ \A i \in 1 .. n : next[s[i]] = At(s, i + 1) /\ prev[s[i]] = At(s, i - 1)
      /\ \A i \in 1 .. n : s[i] \in Elem /\ s[i] # e
      /\ start = At(s, 1) /\ end = At(s, n) /\ count = n
  BY <1>1 DEF Spells
<1>6. /\ \A i : At(s, i) = IF i \in 1 .. n THEN s[i] ELSE NULL
      /\ \A i : At(z, i) = IF i \in 1 .. n + 1 THEN z[i] ELSE NULL
  BY <1>1, <1>3 DEF At
<1>7. \A i, j \in 1 .. n + 1 : z[i] = z[j] => i = j
  <2> SUFFICES ASSUME NEW i \in 1 .. n + 1, NEW j \in 1 .. n + 1, z[i] = z[j]
               PROVE  i = j
    OBVIOUS
  <2>1. \A k \in 1 .. n + 1 : k # p => \E m \in 1 .. n :
          z[k] = s[m] /\ m = IF k < p THEN k ELSE k - 1
    BY <1>3, <1>4
  <2>2. CASE i = p \/ j = p
    <3>1. \A k \in 1 .. n + 1 : k # p => z[k] # e
      <4> SUFFICES ASSUME NEW k \in 1 .. n + 1, k # p PROVE z[k] # e
        OBVIOUS
      <4>1. PICK m \in 1 .. n : z[k] = s[m]
        BY <2>1
      <4> QED
        BY <1>5, <4>1
    <3> QED
      BY <1>4, <2>2, <3>1
  <2>3. CASE i # p /\ j # p
    <3>1. PICK k \in 1 .. n : z[i] = s[k] /\ k = IF i < p THEN i ELSE i - 1
      BY <2>1, <2>3
    <3>2. PICK m \in 1 .. n : z[j] = s[m] /\ m = IF j < p THEN j ELSE j - 1
      BY <2>1, <2>3
    <3>3. k = m
      BY <1>5, <3>1, <3>2
    <3> QED
      BY <1>3, <2>3, <3>1, <3>2, <3>3
  <2> QED
    BY <2>2, <2>3
<1>8. ASSUME NEW i \in 1 .. n + 1
      PROVE  next'[z[i]] = At(z, i + 1)
  <2>1. CASE i < p - 1
    <3>1. i \in 1 .. n /\ p - 1 \in 1 .. n /\ i + 1 \in 1 .. n /\ i + 1 \in 1 .. n + 1
          /\ i + 1 < p /\ i < p
      BY <1>3, <2>1
    <3>2. z[i] = s[i] /\ At(z, i + 1) = s[i + 1] /\ s[i] # s[p - 1] /\ At(s, p - 1) = s[p - 1]
      <4>1. z[i] = s[i] /\ z[i + 1] = s[i + 1]
        BY <1>4, <3>1
      <4>2. i # p - 1
        BY <1>3, <2>1
      <4> QED
        BY <1>5, <1>6, <3>1, <4>1, <4>2
    <3>3. next'[s[i]] = next[s[i]] /\ next[s[i]] = s[i + 1]
      BY <1>5, <1>6, <3>1, <3>2
    <3> QED
      BY <3>2, <3>3
  <2>2. CASE i = p - 1
    <3>1. i \in 1 .. n /\ i < p /\ i + 1 = p
      BY <1>3, <2>2
    <3>2. z[i] = s[i] /\ At(s, p - 1) = s[i] /\ At(z, i + 1) = e
      BY <1>3, <1>4, <1>6, <2>2, <3>1
    <3> QED
      BY <1>5, <3>1, <3>2
  <2>3. CASE i = p
    <3>1. next'[z[i]] = At(s, p)
      BY <1>4, <2>3
    <3>2. At(z, p + 1) = At(s, p)
      <4>1. CASE p = n + 1
        BY <1>6, <4>1
      <4>2. CASE p # n + 1
        <5>1. p \in 1 .. n /\ p + 1 \in 1 .. n + 1 /\ p + 1 > p /\ (p + 1) - 1 = p
          BY <1>3, <4>2
        <5> QED
          BY <1>4, <1>6, <5>1
      <4> QED
        BY <4>1, <4>2
    <3> QED
      BY <2>3, <3>1, <3>2
  <2>4. CASE i > p
    <3>1. z[i] = s[i - 1] /\ i - 1 \in 1 .. n /\ (i - 1) + 1 = i /\ i - 1 # p - 1
      BY <1>3, <1>4, <2>4
    <3>2. s[i - 1] # At(s, p - 1)
      <4>1. CASE p - 1 \in 1 .. n
        BY <1>5, <1>6, <3>1, <4>1
      <4>2. CASE p - 1 \notin 1 .. n
        <5>1. At(s, p - 1) = NULL
          BY <1>6, <4>2
        <5> QED
          BY <1>5, <3>1, <5>1, ElemAssumption
      <4> QED
        BY <4>1, <4>2
    <3>3. next'[s[i - 1]] = At(s, i)
      BY <1>5, <3>1, <3>2
    <3>4. At(z, i + 1) = At(s, i)
      <4>1. CASE i = n + 1
        BY <1>6, <4>1
      <4>2. CASE i # n + 1
        <5>1. i \in 1 .. n /\ i + 1 \in 1 .. n + 1 /\ i + 1 > p /\ (i + 1) - 1 = i
          BY <1>3, <2>4, <4>2
        <5> QED
          BY <1>4, <1>6, <5>1
      <4> QED
        BY <4>1, <4>2
    <3> QED
      BY <3>1, <3>3, <3>4
  <2> QED
    BY <1>3, <2>1, <2>2, <2>3, <2>4
<1>9. ASSUME NEW i \in 1 .. n + 1
      PROVE  prev'[z[i]] = At(z, i - 1)
  <2>1. CASE i > p + 1
    <3>1. /\ i - 1 \in 1 .. n /\ p \in 1 .. n /\ (i - 1) - 1 \in 1 .. n /\ i - 1 \in 1 .. n + 1
          /\ i - 1 > p /\ i > p
      BY <1>3, <2>1
    <3>2. z[i] = s[i - 1] /\ At(z, i - 1) = s[(i - 1) - 1] /\ s[i - 1] # s[p] /\ At(s, p) = s[p]
      BY <1>4, <1>5, <1>6, <2>1, <3>1, ZenonT(60)
    <3>3. prev'[s[i - 1]] = prev[s[i - 1]] /\ prev[s[i - 1]] = s[(i - 1) - 1]
      BY <1>5, <1>6, <3>1, <3>2
    <3> QED
      BY <3>2, <3>3
  <2>2. CASE i = p + 1
    <3>1. p \in 1 .. n /\ i > p /\ i - 1 = p
      BY <1>3, <2>2
    <3>2. z[i] = s[p] /\ At(s, p) = s[p] /\ At(z, i - 1) = e
      BY <1>3, <1>4, <1>6, <3>1
    <3> QED
      BY <1>5, <3>1, <3>2
  <2>3. CASE i = p
    <3>1. prev'[z[i]] = At(s, p - 1)
      BY <1>4, <2>3
    <3>2. At(z, p - 1) = At(s, p - 1)
      <4>1. CASE p = 1
        BY <1>6, <4>1
      <4>2. CASE p # 1
        <5>1. p - 1 \in 1 .. n /\ p - 1 \in 1 .. n + 1 /\ p - 1 < p
          BY <1>3, <4>2
        <5> QED
          BY <1>4, <1>6, <5>1
      <4> QED
        BY <4>1, <4>2
    <3> QED
      BY <2>3, <3>1, <3>2
  <2>4. CASE i < p
    <3>1. z[i] = s[i] /\ i \in 1 .. n /\ i # p
      BY <1>3, <1>4, <2>4
    <3>2. s[i] # At(s, p)
      <4>1. CASE p \in 1 .. n
        BY <1>5, <1>6, <3>1, <4>1
      <4>2. CASE p \notin 1 .. n
        <5>1. At(s, p) = NULL
          BY <1>6, <4>2
        <5> QED
          BY <1>5, <3>1, <5>1, ElemAssumption
      <4> QED
        BY <4>1, <4>2
    <3>3. prev'[s[i]] = At(s, i - 1)
      BY <1>5, <3>1, <3>2
    <3>4. At(z, i - 1) = At(s, i - 1)
      <4>1. CASE i = 1
        BY <1>6, <4>1
      <4>2. CASE i # 1
        <5>1. i - 1 \in 1 .. n /\ i - 1 \in 1 .. n + 1 /\ i - 1 < p
          BY <1>3, <2>4, <4>2
        <5> QED
          BY <1>4, <1>6, <5>1
      <4> QED
        BY <4>1, <4>2
    <3> QED
      BY <3>1, <3>3, <3>4
  <2> QED
    BY <1>3, <2>1, <2>2, <2>3, <2>4
<1>10. start' = At(z, 1)
  <2>1. CASE p = 1
    BY <1>4, <1>6, <2>1
  <2>2. CASE p # 1
    <3>1. 1 < p /\ 1 \in 1 .. n + 1
      BY <1>3, <2>2
    <3> QED
      BY <1>4, <1>5, <1>6, <2>2, <3>1, ZenonT(60)
  <2> QED
    BY <2>1, <2>2
<1>11. end' = At(z, n + 1)
  <2>1. CASE p = n + 1
    BY <1>1, <1>4, <1>6, <2>1
  <2>2. CASE p # n + 1
    <3>1. n + 1 > p /\ n + 1 \in 1 .. n + 1 /\ (n + 1) - 1 = n /\ n \in 1 .. n
      <4>1. \A k \in Nat : \A x \in 1 .. k + 1 : x # k + 1 =>
              k + 1 > x /\ k + 1 \in 1 .. k + 1 /\ (k + 1) - 1 = k /\ k \in 1 .. k
        OBVIOUS
      <4> QED
        BY <1>3, <2>2, <4>1
    <3> QED
      BY <1>1, <1>4, <1>5, <1>6, <2>2, <3>1, SMTT(40)
  <2> QED
    BY <2>1, <2>2
<1>12. count' = n + 1
  BY <1>5
<1>13. Spells(z)'
  BY <1>3, <1>7, <1>8, <1>9, <1>10, <1>11, <1>12 DEF Spells, At
<1> QED
  BY <1>2, <1>13

LEMMA RemoveSpells ==
  ASSUME NEW s, Spells(s), NEW p \in 1 .. Len(s),
         next' = [f \in Elem |-> IF f = At(s, p - 1) THEN At(s, p + 1) ELSE next[f]],
         prev' = [f \in Elem |-> IF f = At(s, p + 1) THEN At(s, p - 1) ELSE prev[f]],
         start' = IF At(s, p - 1) = NULL THEN At(s, p + 1) ELSE start,
         end' = IF At(s, p + 1) = NULL THEN At(s, p - 1) ELSE end,
         count' = count - 1
  PROVE  Spells(Removed(s, p))'
<1>1. PICK n \in Nat : n = Len(s) /\ s \in [1 .. n -> Elem] /\ s \in Seq(Elem)
  BY LenProperties DEF Spells
<1>2. PICK z : z = Removed(s, p)
  OBVIOUS
<1>3. /\ z \in Seq(Elem) /\ Len(z) = n - 1 /\ p \in 1 .. n
      /\ \A i \in 1 .. n - 1 : z[i] = IF i < p THEN s[i] ELSE s[i + 1]
  <2>1. /\ Removed(s, p) \in Seq(Elem) /\ Len(Removed(s, p)) = Len(s) - 1
        /\ \A i \in 1 .. Len(s) - 1 : Removed(s, p)[i] = IF i < p THEN s[i] ELSE s[i + 1]
    <3>1. s \in Seq(Elem)
      BY <1>1
    <3> QED
      BY <3>1, RemovedProperties, Zenon
  <2> QED
    BY <1>1, <1>2, <2>1
<1>4. /\ \A i, j \in 1 .. n : s[i] = s[j] => i = j
      /\ \A i \in 1 .. n : next[s[i]] = At(s, i + 1) /\ prev[s[i]] = At(s, i - 1)
      /\ \A i \in 1 .. n : s[i] \in Elem
      /\ start = At(s, 1) /\ end = At(s, n) /\ count = n
  BY <1>1 DEF Spells
<1>5. /\ \A i : At(s, i) = IF i \in 1 .. n THEN s[i] ELSE NULL
      /\ \A i : At(z, i) = IF i \in 1 .. n - 1 THEN z[i] ELSE NULL
  BY <1>1, <1>3 DEF At
<1>6. ASSUME NEW i \in 0 .. n
      PROVE  At(z, i) = IF i < p THEN At(s, i) ELSE At(s, i + 1)
  <2>1. CASE i = 0
    <3>1. i \notin 1 .. n /\ i \notin 1 .. n - 1 /\ i < p
      BY <1>3, <2>1
    <3> QED
      BY <1>5, <3>1
  <2>2. CASE i = n
    <3>1. i \notin 1 .. n - 1 /\ ~ (i < p) /\ i + 1 \notin 1 .. n
      BY <1>3, <2>2
    <3> QED
      BY <1>5, <3>1
  <2>3. CASE i \in 1 .. n - 1
    <3>1. i \in 1 .. n /\ i + 1 \in 1 .. n
      BY <2>3
    <3> QED
      BY <1>3, <1>5, <2>3, <3>1
  <2>4. i = 0 \/ i = n \/ i \in 1 .. n - 1
    OBVIOUS
  <2> QED
    BY <2>1, <2>2, <2>3, <2>4
<1>7. ASSUME NEW i \in 1 .. n, NEW j, i # j
      PROVE  s[i] # At(s, j)
  <2>1. CASE j \in 1 .. n
    BY <1>4, <1>5, <1>7, <2>1
  <2>2. CASE j \notin 1 .. n
    <3>1. At(s, j) = NULL
      BY <1>5, <2>2
    <3> QED
      BY <1>4, <3>1, ElemAssumption
  <2> QED
    BY <2>1, <2>2
<1>8. \A i, j \in 1 .. n - 1 : z[i] = z[j] => i = j
  <2> SUFFICES ASSUME NEW i \in 1 .. n - 1, NEW j \in 1 .. n - 1, z[i] = z[j]
               PROVE  i = j
    OBVIOUS
  <2>1. \A k \in 1 .. n - 1 : \E m \in 1 .. n : z[k] = s[m] /\ m = IF k < p THEN k ELSE k + 1
    BY <1>3
  <2>2. PICK k \in 1 .. n : z[i] = s[k] /\ k = IF i < p THEN i ELSE i + 1
    BY <2>1
  <2>3. PICK m \in 1 .. n : z[j] = s[m] /\ m = IF j < p THEN j ELSE j + 1
    BY <2>1
  <2>4. k = m
    BY <1>4, <2>2, <2>3
  <2> QED
    BY <1>3, <2>2, <2>3, <2>4
<1>9. ASSUME NEW i \in 1 .. n - 1
      PROVE  next'[z[i]] = At(z, i + 1)
  <2>1. i + 1 \in 0 .. n /\ i \in Int /\ p \in Int
    BY <1>3
  <2>2. CASE i < p - 1
    <3>1. i \in 1 .. n /\ i # p - 1 /\ i + 1 < p /\ i < p
      BY <1>3, <2>2
    <3>2. z[i] = s[i] /\ At(z, i + 1) = At(s, i + 1)
      BY <1>3, <1>6, <2>1, <3>1
    <3>3. s[i] # At(s, p - 1)
      BY <1>7, <3>1
    <3> QED
      BY <1>4, <3>1, <3>2, <3>3
  <2>3. CASE i = p - 1
    <3>1. i \in 1 .. n /\ i < p /\ ~ (i + 1 < p) /\ (i + 1) + 1 = p + 1
      BY <1>3, <2>3
    <3>2. z[i] = s[i] /\ At(z, i + 1) = At(s, p + 1) /\ At(s, p - 1) = s[i]
      BY <1>3, <1>5, <1>6, <2>1, <2>3, <3>1
    <3> QED
      BY <1>4, <3>1, <3>2
  <2>4. CASE i >= p
    <3>1. i + 1 \in 1 .. n /\ i + 1 # p - 1 /\ ~ (i < p) /\ ~ (i + 1 < p)
      BY <1>3, <2>4
    <3>2. z[i] = s[i + 1] /\ At(z, i + 1) = At(s, (i + 1) + 1)
      BY <1>3, <1>6, <2>1, <3>1
    <3>3. s[i + 1] # At(s, p - 1)
      BY <1>7, <3>1
    <3>4. next'[s[i + 1]] = At(s, (i + 1) + 1)
      BY <1>4, <3>1, <3>3
    <3> QED
      BY <3>2, <3>4
  <2>5. i < p - 1 \/ i = p - 1 \/ i >= p
    BY <2>1
  <2> QED
    BY <2>2, <2>3, <2>4, <2>5
<1>10. ASSUME NEW i \in 1 .. n - 1
       PROVE  prev'[z[i]] = At(z, i - 1)
  <2>1. i - 1 \in 0 .. n /\ i \in Int /\ p \in Int
    BY <1>3
  <2>2. CASE i < p
    <3>1. i \in 1 .. n /\ i # p + 1 /\ i - 1 < p
      BY <1>3, <2>2
    <3>2. z[i] = s[i] /\ At(z, i - 1) = At(s, i - 1)
      BY <1>3, <1>6, <2>1, <2>2, <3>1
    <3>3. s[i] # At(s, p + 1)
      BY <1>7, <3>1
    <3> QED
      BY <1>4, <3>1, <3>2, <3>3
  <2>3. CASE i = p
    <3>1. i + 1 \in 1 .. n /\ ~ (i < p) /\ i - 1 < p /\ i + 1 = p + 1
      BY <1>3, <2>3
    <3>2. z[i] = s[i + 1] /\ At(z, i - 1) = At(s, p - 1) /\ At(s, p + 1) = s[i + 1]
      BY <1>3, <1>5, <1>6, <2>1, <2>3, <3>1
    <3> QED
      BY <1>4, <3>1, <3>2
  <2>4. CASE i > p
    <3>1. i + 1 \in 1 .. n /\ i + 1 # p + 1 /\ ~ (i < p) /\ ~ (i - 1 < p)
          /\ (i - 1) + 1 = (i + 1) - 1
      BY <1>3, <2>4
    <3>2. z[i] = s[i + 1] /\ At(z, i - 1) = At(s, (i + 1) - 1)
      BY <1>3, <1>6, <2>1, <3>1
    <3>3. s[i + 1] # At(s, p + 1)
      BY <1>7, <3>1
    <3>4. prev'[s[i + 1]] = At(s, (i + 1) - 1)
      BY <1>4, <3>1, <3>3
    <3> QED
      BY <3>2, <3>4
  <2>5. i < p \/ i = p \/ i > p
    BY <2>1
  <2> QED
    BY <2>2, <2>3, <2>4, <2>5
<1>11. start' = At(z, 1)
  <2>1. 1 \in 0 .. n
    BY <1>3
  <2>2. CASE p = 1
    <3>1. At(s, p - 1) = NULL
      BY <1>5, <2>2
    <3>2. At(z, 1) = At(s, p + 1)
      BY <1>6, <2>1, <2>2
    <3> QED
      BY <3>1, <3>2
  <2>3. CASE p # 1
    <3>1. p - 1 \in 1 .. n /\ 1 < p
      BY <1>3, <2>3
    <3>2. At(s, p - 1) # NULL
      <4>1. At(s, p - 1) = s[p - 1] /\ s[p - 1] \in Elem
        BY <1>4, <1>5, <3>1
      <4> QED
        BY <4>1, ElemAssumption
    <3>3. At(z, 1) = At(s, 1)
      BY <1>6, <2>1, <3>1
    <3> QED
      BY <1>4, <3>2, <3>3
  <2> QED
    BY <2>2, <2>3
<1>12. end' = At(z, n - 1)
  <2>1. n - 1 \in 0 .. n
    BY <1>3
  <2>2. CASE p = n
    <3>1. At(s, p + 1) = NULL
      BY <1>5, <2>2
    <3>2. At(z, n - 1) = At(s, p - 1)
      BY <1>6, <2>1, <2>2
    <3> QED
      BY <3>1, <3>2
  <2>3. CASE p # n
    <3>1. p + 1 \in 1 .. n /\ ~ (n - 1 < p) /\ (n - 1) + 1 = n
      <4>1. \A k \in Nat : \A x \in 1 .. k : x # k =>
              x + 1 \in 1 .. k /\ ~ (k - 1 < x) /\ (k - 1) + 1 = k
        OBVIOUS
      <4> QED
        BY <1>3, <2>3, <4>1
    <3>2. At(s, p + 1) # NULL
      <4>1. At(s, p + 1) = s[p + 1] /\ s[p + 1] \in Elem
        BY <1>4, <1>5, <3>1
      <4> QED
        BY <4>1, ElemAssumption
    <3>3. At(z, n - 1) = At(s, n)
      BY <1>6, <2>1, <3>1
    <3> QED
      BY <1>4, <3>2, <3>3
  <2> QED
    BY <2>2, <2>3
<1>13. count' = n - 1
  BY <1>4
<1>14. Spells(z)'
  BY <1>3, <1>8, <1>9, <1>10, <1>11, <1>12, <1>13 DEF Spells, At
<1> QED
  BY <1>2, <1>14

----------------------------------------------------------------------------
(* The operations.                                                         *)

\* What a list that is s says of its ends and of the links of its elements.
LEMMA Places ==
  ASSUME NEW s, Spells(s)
  PROVE  /\ s \in Seq(Elem) /\ Len(s) \in Nat
         /\ start = NULL <=> Len(s) = 0
         /\ end = NULL <=> Len(s) = 0
         /\ \A e : e \notin Listed <=> \A i \in 1 .. Len(s) : s[i] # e
         /\ \A e \in Listed : \E p \in 1 .. Len(s) :
               /\ e = s[p] /\ next[e] = At(s, p + 1) /\ prev[e] = At(s, p - 1)
               /\ p = CHOOSE i \in 1 .. Len(s) : s[i] = e
               /\ end = e <=> p = Len(s)
<1>1. PICK n \in Nat : n = Len(s) /\ s \in [1 .. n -> Elem] /\ s \in Seq(Elem)
  BY LenProperties DEF Spells
<1>2. Listed = {s[i] : i \in 1 .. Len(s)}
  BY WalksFind
<1>3. (start = NULL <=> n = 0) /\ (end = NULL <=> n = 0)
  <2>1. CASE n = 0
    BY <1>1, <2>1 DEF Spells, At
  <2>2. CASE n # 0
    <3>1. 1 \in 1 .. n /\ n \in 1 .. n
      BY <2>2
    <3>2. start = s[1] /\ end = s[n] /\ s[1] \in Elem /\ s[n] \in Elem
      BY <1>1, <3>1 DEF Spells, At
    <3> QED
      BY <2>2, <3>2, ElemAssumption
  <2> QED
    BY <2>1, <2>2
<1>4. ASSUME NEW e \in Listed
      PROVE  \E p \in 1 .. Len(s) :
               /\ e = s[p] /\ next[e] = At(s, p + 1) /\ prev[e] = At(s, p - 1)
               /\ p = CHOOSE i \in 1 .. Len(s) : s[i] = e
               /\ end = e <=> p = Len(s)
  <2>1. PICK p \in 1 .. Len(s) : s[p] = e
    BY <1>2
  <2>2. next[e] = At(s, p + 1) /\ prev[e] = At(s, p - 1)
    BY <2>1 DEF Spells
  <2>3. \A i \in 1 .. Len(s) : s[i] = e => i = p
    BY <2>1 DEF Spells
  <2>4. p = CHOOSE i \in 1 .. Len(s) : s[i] = e
    BY <2>1, <2>3
  <2>5. end = e <=> p = Len(s)
    <3>1. Len(s) \in 1 .. Len(s)
      BY <1>1, <2>1
    <3>2. end = s[Len(s)]
      BY <3>1 DEF Spells, At
    <3> QED
      BY <2>1, <2>3, <3>1, <3>2
  <2> QED
    BY <2>1, <2>2, <2>4, <2>5
<1> QED
  BY <1>1, <1>2, <1>3, <1>4

LEMMA Prepend ==
  ASSUME NEW s, Spells(s), NEW e \in Elem, ut_list_prepend(e), IInv
  PROVE  IInv' /\ Abstract!AddFirst(e)
<1>1. /\ s \in Seq(Elem) /\ Len(s) \in Nat /\ (start = NULL <=> Len(s) = 0)
      /\ (end = NULL <=> Len(s) = 0) /\ \A i \in 1 .. Len(s) : s[i] # e
  BY Places DEF ut_list_prepend
<1>2. start = At(s, 1) /\ At(s, 1 - 1) = NULL
  BY DEF Spells, At
<1>3. next' = [f \in Elem |-> IF f = e THEN At(s, 1) ELSE IF f = At(s, 1 - 1) THEN e ELSE next[f]]
  <2>1. next' = [next EXCEPT ![e] = At(s, 1)] /\ DOMAIN next = Elem
    BY <1>2 DEF ut_list_prepend, IInv
  <2>2. \A f \in Elem : f # At(s, 1 - 1)
    BY <1>2, ElemAssumption
  <2>3. next' = [f \in Elem |-> IF f = e THEN At(s, 1) ELSE next[f]]
    BY <2>1, Zenon
  <2> QED
    BY <2>2, <2>3, Zenon
<1>4. prev' = [f \in Elem |-> IF f = e THEN At(s, 1 - 1) ELSE IF f = At(s, 1) THEN e ELSE prev[f]]
  BY <1>2 DEF ut_list_prepend
<1>5. end' = IF 1 = Len(s) + 1 THEN e ELSE end
  BY <1>1 DEF ut_list_prepend
<1>6. Spells(Inserted(s, 1, e))'
  <2>1. 1 \in 1 .. Len(s) + 1
    BY <1>1
  <2>2. start' = (IF 1 = 1 THEN e ELSE start) /\ count' = count + 1
    BY DEF ut_list_prepend
  <2> QED
    BY <1>1, <1>3, <1>4, <1>5, <2>1, <2>2, InsertSpells
<1>7. IInv'
  <2>1. At(s, 1) \in Elem \cup {NULL, Junk}
    BY <1>1 DEF At
  <2>2. /\ next' \in [Elem -> Elem \cup {NULL, Junk}]
        /\ prev' \in [Elem -> Elem \cup {NULL, Junk}]
    BY <1>2, <2>1 DEF ut_list_prepend, IInv
  <2> QED
    BY <1>6, <2>2 DEF IInv
<1>8. Forward = s /\ Forward' = <<e>> \o s
  BY <1>1, <1>6, WalksFind, WalksFindNext, ConcatIs
<1>9. e \notin Range(Forward)
  BY DEF ut_list_prepend, Listed
<1> QED
  BY <1>7, <1>8, <1>9 DEF Abstract!AddFirst, Abstract!Range, Range

LEMMA AppendBehind ==
  ASSUME NEW s, Spells(s), NEW e \in Elem, ut_list_append(e), IInv
  PROVE  IInv' /\ Abstract!AddLast(e)
<1> DEFINE p == Len(s) + 1
<1>1. /\ s \in Seq(Elem) /\ Len(s) \in Nat /\ (start = NULL <=> Len(s) = 0)
      /\ (end = NULL <=> Len(s) = 0) /\ \A i \in 1 .. Len(s) : s[i] # e
  BY Places DEF ut_list_append
<1>2. end = At(s, p - 1) /\ At(s, p) = NULL
  <2>1. p - 1 = Len(s) /\ p \notin 1 .. Len(s)
    BY <1>1
  <2> QED
    BY <2>1 DEF Spells, At
<1>3. p \in 1 .. Len(s) + 1 /\ (p = 1 <=> start = NULL)
  BY <1>1
<1>4. next' = [f \in Elem |-> IF f = e THEN At(s, p) ELSE IF f = At(s, p - 1) THEN e ELSE next[f]]
  BY <1>2 DEF ut_list_append
<1>5. prev' = [f \in Elem |-> IF f = e THEN At(s, p - 1) ELSE IF f = At(s, p) THEN e ELSE prev[f]]
  <2>1. prev' = [prev EXCEPT ![e] = At(s, p - 1)] /\ DOMAIN prev = Elem
    BY <1>2 DEF ut_list_append, IInv
  <2>2. \A f \in Elem : f # At(s, p)
    BY <1>2, ElemAssumption
  <2>3. prev' = [f \in Elem |-> IF f = e THEN At(s, p - 1) ELSE prev[f]]
    BY <2>1, Zenon
  <2> HIDE DEF p
  <2> QED
    BY <2>2, <2>3, Zenon
<1>6. /\ start' = IF p = 1 THEN e ELSE start
      /\ end' = IF p = Len(s) + 1 THEN e ELSE end
      /\ count' = count + 1
  BY <1>3 DEF ut_list_append
<1>7. Spells(Inserted(s, p, e))'
  <2> HIDE DEF p
  <2> QED
    BY <1>1, <1>3, <1>4, <1>5, <1>6, InsertSpells
<1>8. IInv'
  <2>1. At(s, p - 1) \in Elem \cup {NULL, Junk}
    BY <1>1 DEF At
  <2>2. /\ next' \in [Elem -> Elem \cup {NULL, Junk}]
        /\ prev' \in [Elem -> Elem \cup {NULL, Junk}]
    BY <1>2, <2>1 DEF ut_list_append, IInv
  <2> QED
    BY <1>7, <2>2 DEF IInv
<1>9. Forward = s /\ Forward' = s \o <<e>>
  BY <1>1, <1>7, WalksFind, WalksFindNext, ConcatIs
<1>10. e \notin Range(Forward)
  BY DEF ut_list_append, Listed
<1> QED
  BY <1>8, <1>9, <1>10 DEF Abstract!AddLast, Abstract!Range, Range

LEMMA InsertBehind ==
  ASSUME NEW s, Spells(s), NEW e1 \in Elem, NEW e2 \in Elem, ut_list_insert(e1, e2), IInv
  PROVE  IInv' /\ Abstract!InsertBehind(e1, e2)
<1>1. /\ s \in Seq(Elem) /\ Len(s) \in Nat /\ \A i \in 1 .. Len(s) : s[i] # e2
      /\ e1 \in Listed
  BY Places DEF ut_list_insert
<1>2. PICK q \in 1 .. Len(s) :
         /\ e1 = s[q] /\ next[e1] = At(s, q + 1) /\ prev[e1] = At(s, q - 1)
         /\ q = CHOOSE i \in 1 .. Len(s) : s[i] = e1
         /\ end = e1 <=> q = Len(s)
  BY <1>1, Places
<1> DEFINE p == q + 1
<1>3. p \in 1 .. Len(s) + 1 /\ p # 1 /\ p - 1 = q /\ (p = Len(s) + 1 <=> end = e1)
  <2>1. \A k \in Nat : \A x \in 1 .. k :
          x + 1 \in 1 .. k + 1 /\ x + 1 # 1 /\ (x + 1) - 1 = x /\ (x + 1 = k + 1 <=> x = k)
    OBVIOUS
  <2> QED
    BY <1>1, <1>2, <2>1
<1>4. At(s, p) = next[e1] /\ At(s, p - 1) = e1 /\ e1 # e2
  BY <1>1, <1>2, <1>3 DEF At
<1>5. next' = [f \in Elem |-> IF f = e2 THEN At(s, p)
                              ELSE IF f = At(s, p - 1) THEN e2 ELSE next[f]]
  <2>1. next' = [next EXCEPT ![e2] = next[e1], ![e1] = e2] /\ DOMAIN next = Elem
    BY DEF ut_list_insert, IInv
  <2>2. next' = [f \in Elem |-> IF f = e2 THEN next[e1] ELSE IF f = e1 THEN e2 ELSE next[f]]
    BY <1>4, <2>1
  <2> HIDE DEF p
  <2> QED
    BY <1>4, <2>2
<1>6. prev' = [f \in Elem |-> IF f = e2 THEN At(s, p - 1)
                              ELSE IF f = At(s, p) THEN e2 ELSE prev[f]]
  BY <1>4 DEF ut_list_insert
<1>7. /\ start' = IF p = 1 THEN e2 ELSE start
      /\ end' = IF p = Len(s) + 1 THEN e2 ELSE end
      /\ count' = count + 1
  BY <1>3 DEF ut_list_insert, EndAfterInsert
<1>8. Spells(Inserted(s, p, e2))'
  <2> HIDE DEF p
  <2> QED
    BY <1>1, <1>3, <1>5, <1>6, <1>7, InsertSpells
<1>9. IInv'
  <2>1. /\ next' \in [Elem -> Elem \cup {NULL, Junk}]
        /\ prev' \in [Elem -> Elem \cup {NULL, Junk}]
    BY DEF ut_list_insert, IInv
  <2> QED
    BY <1>8, <2>1 DEF IInv
<1>10. Forward = s /\ Forward' = InsertAt(s, p, e2)
  <2> HIDE DEF p
  <2> QED
    BY <1>1, <1>3, <1>8, WalksFind, WalksFindNext, InsertAtIs
<1>11. e1 \in Range(Forward) /\ e2 \notin Range(Forward)
  BY DEF ut_list_insert, Listed
<1>12. Abstract!Position(e1) = q
  BY <1>2, <1>10 DEF Abstract!Position
<1>13. Forward' = Abstract!InsertAt(Forward, Abstract!Position(e1) + 1, e2)
  BY <1>10, <1>12 DEF Abstract!InsertAt, InsertAt
<1> QED
  BY <1>9, <1>11, <1>13 DEF Abstract!InsertBehind, Abstract!Range, Range

LEMMA TakeOut ==
  ASSUME NEW s, Spells(s), NEW e \in Elem, ut_list_remove(e), IInv
  PROVE  IInv' /\ Abstract!TakeOut(e)
<1>1. s \in Seq(Elem) /\ Len(s) \in Nat /\ e \in Listed
  BY Places DEF ut_list_remove
<1>2. PICK p \in 1 .. Len(s) :
         /\ e = s[p] /\ next[e] = At(s, p + 1) /\ prev[e] = At(s, p - 1)
         /\ p = CHOOSE i \in 1 .. Len(s) : s[i] = e
  BY <1>1, Places
<1>3. /\ next' = [f \in Elem |-> IF f = At(s, p - 1) THEN At(s, p + 1) ELSE next[f]]
      /\ prev' = [f \in Elem |-> IF f = At(s, p + 1) THEN At(s, p - 1) ELSE prev[f]]
      /\ start' = IF At(s, p - 1) = NULL THEN At(s, p + 1) ELSE start
      /\ end' = IF At(s, p + 1) = NULL THEN At(s, p - 1) ELSE end
      /\ count' = count - 1
  BY <1>2 DEF ut_list_remove, StartAfterRemove, CountAfterRemove
<1>4. Spells(Removed(s, p))'
  BY <1>3, RemoveSpells
<1>5. IInv'
  <2>1. /\ next' \in [Elem -> Elem \cup {NULL, Junk}]
        /\ prev' \in [Elem -> Elem \cup {NULL, Junk}]
    BY DEF ut_list_remove, IInv
  <2> QED
    BY <1>4, <2>1 DEF IInv
<1>6. Forward = s /\ Forward' = RemoveAt(s, p)
  BY <1>1, <1>4, WalksFind, WalksFindNext, RemoveAtIs
<1>7. e \in Range(Forward)
  BY DEF ut_list_remove, Listed
<1>8. Abstract!Position(e) = p
  BY <1>2, <1>6 DEF Abstract!Position
<1>9. Forward' = Abstract!RemoveAt(Forward, Abstract!Position(e))
  BY <1>6, <1>8 DEF Abstract!RemoveAt, RemoveAt
<1> QED
  BY <1>5, <1>7, <1>9 DEF Abstract!TakeOut, Abstract!Range, Range

----------------------------------------------------------------------------
(* The theorems.                                                           *)

LEMMA InitSpells ==
  ASSUME Init
  PROVE  IInv /\ Abstract!Init
<1>1. Spells(<<>>)
  BY EmptySeq DEF Init, Spells, At
<1>2. Forward = <<>>
  BY <1>1, WalksFind
<1> QED
  BY <1>1, <1>2 DEF Init, IInv, Abstract!Init

LEMMA NextSteps ==
  ASSUME IInv, [Next]_vars
  PROVE  IInv' /\ [Abstract!Next]_Forward
<1>1. PICK s : Spells(s)
  BY DEF IInv
<1>2. ASSUME NEW e \in Elem, ut_list_prepend(e)
      PROVE  IInv' /\ [Abstract!Next]_Forward
  BY <1>1, <1>2, Prepend DEF Abstract!Next
<1>3. ASSUME NEW e \in Elem, ut_list_append(e)
      PROVE  IInv' /\ [Abstract!Next]_Forward
  BY <1>1, <1>3, AppendBehind DEF Abstract!Next
<1>4. ASSUME NEW e \in Elem, ut_list_remove(e)
      PROVE  IInv' /\ [Abstract!Next]_Forward
  BY <1>1, <1>4, TakeOut DEF Abstract!Next
<1>5. ASSUME NEW e1 \in Elem, NEW e2 \in Elem, ut_list_insert(e1, e2)
      PROVE  IInv' /\ [Abstract!Next]_Forward
  BY <1>1, <1>5, InsertBehind DEF Abstract!Next
<1>6. CASE UNCHANGED vars
  BY <1>6 DEF vars, IInv, Spells, At, Forward
<1> QED
  BY <1>2, <1>3, <1>4, <1>5, <1>6 DEF Next

\* ut_list_validate: after any sequence of operations the walk from the start
\* and the walk from the end meet count elements, the same ones in opposite
\* order.
THEOREM ListValidates == Spec => []Validates
<1>1. Init => IInv
  BY InitSpells
<1>2. IInv /\ [Next]_vars => IInv'
  BY NextSteps
<1>3. IInv => Validates
  <2> SUFFICES ASSUME IInv PROVE Validates
    OBVIOUS
  <2>1. PICK s : Spells(s)
    BY DEF IInv
  <2>2. Forward = s /\ Backward = Reverse(s)
    BY <2>1, WalksFind
  <2>3. Len(s) = count
    BY <2>1 DEF Spells
  <2> QED
    BY <2>2, <2>3 DEF Validates
<1> QED
  BY <1>1, <1>2, <1>3, PTL DEF Spec

\* The operations of ut0lst.h implement the sequence of ListSpec: each changes
\* the elements met from the start as the abstract operation says.
THEOREM Refinement == Spec => ImplementsList
<1>1. Init => IInv /\ Abstract!Init
  BY InitSpells
<1>2. IInv /\ [Next]_vars => IInv' /\ [Abstract!Next]_Forward
  BY NextSteps
<1> QED
  BY <1>1, <1>2, PTL DEF Spec, ImplementsList, Abstract!Spec
=============================================================================
