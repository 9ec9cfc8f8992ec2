------------------------------ MODULE TimerProof ------------------------------
(***************************************************************************)
(* Proofs about Timer: what the lists are, as sequences without            *)
(* repetitions (as in KernelProof), differences of ticks, the inductive    *)
(* invariant IInv and its theorems.                                        *)
(***************************************************************************)
EXTENDS Timer, SequenceTheorems, FiniteSetTheorems, WellFoundedInduction, TLAPS

\* Nothing is in s twice.
Distinct(s) == \A i, j \in 1 .. Len(s) : s[i] = s[j] => i = j
In(x, s) == \E i \in 1 .. Len(s) : s[i] = x
\* What is in front of what in r is so in s.
Within(r, s) ==
  \A i, j \in 1 .. Len(r) : i < j =>
    \E k, l \in 1 .. Len(s) : k < l /\ r[i] = s[k] /\ r[j] = s[l]
-----------------------------------------------------------------------------
(***************************************************************************)
(* Sequences without repetitions.                                          *)
(***************************************************************************)

\* A set of numbers that is not empty has a least one.
LEMMA MinIs ==
  ASSUME NEW S \in SUBSET Nat, S # {}
  PROVE  Min(S) \in S /\ \A x \in S : Min(S) <= x
<1> DEFINE R == {ss \in Nat \X Nat : ss[1] < ss[2]}
<1>1. \E x \in S : \A y \in S : ~(<<y, x>> \in R)
  <2>1. IsWellFoundedOn(R, Nat)
    BY NatLessThanWellFounded DEF OpToRel
  <2> HIDE DEF R
  <2> QED
    BY <2>1, WFMin
<1>2. PICK x \in S : \A y \in S : x <= y
  <2>1. \A x, y \in Nat : y < x => <<y, x>> \in R
    OBVIOUS
  <2> HIDE DEF R
  <2>2. PICK x \in S : \A y \in S : ~(<<y, x>> \in R)
    BY <1>1
  <2>3. ASSUME NEW y \in S PROVE x <= y
    <3>1. x \in Nat /\ y \in Nat /\ ~(y < x)
      BY <2>1, <2>2
    <3> QED
      BY <3>1
  <2> QED
    BY <2>3
<1> QED
  BY <1>2 DEF Min

\* The first thing in a sequence that is the given one.
LEMMA FirstIs ==
  ASSUME NEW S, NEW s \in Seq(S), NEW e, In(e, s)
  PROVE  LET k == SelectInSeq(s, LAMBDA v : v = e)
         IN  k \in 1 .. Len(s) /\ s[k] = e
<1> DEFINE I == {i \in 1 .. Len(s) : s[i] = e}
<1>1. I # {} /\ I \subseteq Nat
  BY DEF In
<1>2. SelectInSeq(s, LAMBDA v : v = e) = Min(I)
  BY <1>1 DEF SelectInSeq
<1>3. Min(I) \in I
  BY <1>1, MinIs
<1> QED
  BY <1>2, <1>3

\* A sequence with one place cut out.
LEMMA CutOut ==
  ASSUME NEW S, NEW s \in Seq(S), NEW k \in 1 .. Len(s)
  PROVE  /\ RemoveAt(s, k) \in Seq(S) /\ Len(RemoveAt(s, k)) = Len(s) - 1
         /\ \A i \in 1 .. Len(s) - 1 : i < k => RemoveAt(s, k)[i] = s[i]
         /\ \A i \in 1 .. Len(s) - 1 : i >= k => RemoveAt(s, k)[i] = s[i + 1]
<1> DEFINE a == SubSeq(s, 1, k - 1)
           b == SubSeq(s, k + 1, Len(s))
<1>1. Len(s) \in Nat /\ \A i \in 1 .. Len(s) : s[i] \in S
  BY LenProperties, ElementOfSeq
<1>2. /\ a \in Seq(S) /\ Len(a) = k - 1
      /\ \A i \in 1 .. k - 1 : a[i] = s[i]
  BY <1>1, SubSeqProperties
<1>3. /\ b \in Seq(S) /\ Len(b) = Len(s) - k
      /\ \A i \in 1 .. Len(s) - k : b[i] = s[k + i]
  BY <1>1, SubSeqProperties
<1>4. RemoveAt(s, k) = a \o b
  BY DEF RemoveAt
<1> HIDE DEF a, b
<1>5. /\ a \o b \in Seq(S) /\ Len(a \o b) = Len(s) - 1
      /\ \A i \in 1 .. Len(s) - 1 : (a \o b)[i] = IF i <= Len(a) THEN a[i] ELSE b[i - Len(a)]
  <2>1. Len(a) + Len(b) = Len(s) - 1
    BY <1>1, <1>2, <1>3
  <2>2. /\ a \o b \in Seq(S) /\ Len(a \o b) = Len(a) + Len(b)
        /\ \A i \in 1 .. Len(a) + Len(b) : (a \o b)[i] = IF i <= Len(a) THEN a[i] ELSE b[i - Len(a)]
    BY <1>2, <1>3, ConcatProperties
  <2> QED
    BY <2>1, <2>2
<1>6. ASSUME NEW i \in 1 .. Len(s) - 1, i < k PROVE (a \o b)[i] = s[i]
  BY <1>1, <1>2, <1>5, <1>6
<1>7. ASSUME NEW i \in 1 .. Len(s) - 1, i >= k PROVE (a \o b)[i] = s[i + 1]
  <2>1. i - Len(a) \in 1 .. Len(s) - k /\ ~(i <= Len(a)) /\ k + (i - Len(a)) = i + 1
    BY <1>1, <1>2, <1>7
  <2> QED
    BY <1>3, <1>5, <2>1
<1> QED
  BY <1>4, <1>5, <1>6, <1>7

\* Unlinking takes just the one out.
LEMMA Unlinked ==
  ASSUME NEW S, NEW s \in Seq(S), Distinct(s), NEW e
  PROVE  /\ RemoveFirst(s, e) \in Seq(S) /\ Distinct(RemoveFirst(s, e))
         /\ \A x : In(x, RemoveFirst(s, e)) <=> In(x, s) /\ x # e
         /\ Within(RemoveFirst(s, e), s)
         /\ ~In(e, s) => RemoveFirst(s, e) = s
<1> DEFINE r == RemoveFirst(s, e)
<1>1. Len(s) \in Nat
  BY LenProperties
<1>2. CASE ~In(e, s)
  <2>1. r = s
    BY <1>2 DEF RemoveFirst, In
  <2> HIDE DEF r
  <2>2. Within(r, s)
    BY <2>1 DEF Within
  <2>3. \A x : In(x, r) <=> In(x, s) /\ x # e
    BY <1>2, <2>1
  <2> QED
    BY <2>1, <2>2, <2>3 DEF r
<1>3. CASE In(e, s)
  <2> DEFINE k == SelectInSeq(s, LAMBDA v : v = e)
  <2>1. r = RemoveAt(s, k)
    BY <1>3 DEF RemoveFirst, In
  <2>2. k \in 1 .. Len(s) /\ s[k] = e
    BY <1>3, FirstIs
  <2> HIDE DEF k
  <2>3. /\ r \in Seq(S) /\ Len(r) = Len(s) - 1
        /\ \A i \in 1 .. Len(s) - 1 : i < k => r[i] = s[i]
        /\ \A i \in 1 .. Len(s) - 1 : i >= k => r[i] = s[i + 1]
    BY <2>1, <2>2, CutOut
  <2> HIDE DEF r
  <2> DEFINE at(i) == IF i < k THEN i ELSE i + 1
  <2>4. \A i \in 1 .. Len(r) : at(i) \in 1 .. Len(s) /\ at(i) # k /\ r[i] = s[at(i)]
    BY <1>1, <2>2, <2>3
  <2>5. \A i, j \in 1 .. Len(r) : (at(i) = at(j) => i = j) /\ (i < j => at(i) < at(j))
    BY <1>1, <2>2, <2>3
  <2>6. \A i \in 1 .. Len(s) : i # k => \E j \in 1 .. Len(r) : at(j) = i
    <3> SUFFICES ASSUME NEW i \in 1 .. Len(s), i # k PROVE \E j \in 1 .. Len(r) : at(j) = i
      OBVIOUS
    <3>1. CASE i < k
      <4>1. i \in 1 .. Len(r) /\ at(i) = i
        BY <1>1, <2>2, <2>3, <3>1
      <4> QED
        BY <4>1
    <3>2. CASE i > k
      <4>1. i - 1 \in 1 .. Len(r) /\ at(i - 1) = i
        BY <1>1, <2>2, <2>3, <3>2
      <4> QED
        BY <4>1
    <3> QED
      BY <1>1, <2>2, <3>1, <3>2
  <2> HIDE DEF at
  <2>7. Distinct(r)
    BY <2>4, <2>5 DEF Distinct
  <2>8. Within(r, s)
    BY <2>4, <2>5 DEF Within
  <2>9. ASSUME NEW x PROVE In(x, r) <=> In(x, s) /\ x # e
    <3>1. ASSUME In(x, r) PROVE In(x, s) /\ x # e
      <4>1. PICK i \in 1 .. Len(r) : r[i] = x
        BY <3>1 DEF In
      <4> QED
        BY <4>1, <2>2, <2>4 DEF In, Distinct
    <3>2. ASSUME In(x, s), x # e PROVE In(x, r)
      <4>1. PICK i \in 1 .. Len(s) : s[i] = x
        BY <3>2 DEF In
      <4>2. PICK j \in 1 .. Len(r) : at(j) = i
        BY <2>2, <2>6, <3>2, <4>1
      <4> QED
        BY <2>4, <4>1, <4>2 DEF In
    <3> QED
      BY <3>1, <3>2
  <2> QED
    BY <1>3, <2>3, <2>7, <2>8, <2>9 DEF r
<1> QED
  BY <1>2, <1>3

\* What is not there yet may be put at the end ...
LEMMA Appended ==
  ASSUME NEW S, NEW s \in Seq(S), Distinct(s), NEW e \in S, ~In(e, s)
  PROVE  /\ Append(s, e) \in Seq(S) /\ Distinct(Append(s, e)) /\ Append(s, e) # <<>>
         /\ Len(Append(s, e)) = Len(s) + 1 /\ Len(s) \in Nat
         /\ \A i \in 1 .. Len(s) : Append(s, e)[i] = s[i]
         /\ Append(s, e)[Len(s) + 1] = e
         /\ \A x : In(x, Append(s, e)) <=> In(x, s) \/ x = e
<1> DEFINE r == Append(s, e)
<1>1. /\ r \in Seq(S) /\ Len(r) = Len(s) + 1 /\ Len(s) \in Nat
      /\ \A i \in 1 .. Len(s) : r[i] = s[i]
      /\ r[Len(s) + 1] = e
  BY AppendProperties, LenProperties
<1> HIDE DEF r
<1>2. Distinct(r)
  <2> SUFFICES ASSUME NEW i \in 1 .. Len(r), NEW j \in 1 .. Len(r), r[i] = r[j] PROVE i = j
    BY DEF Distinct
  <2>1. CASE i = Len(s) + 1 /\ j = Len(s) + 1
    BY <2>1
  <2>2. CASE i # Len(s) + 1 /\ j = Len(s) + 1
    <3>1. i \in 1 .. Len(s)
      BY <1>1, <2>2
    <3> QED
      BY <1>1, <2>2, <3>1 DEF In
  <2>3. CASE i = Len(s) + 1 /\ j # Len(s) + 1
    <3>1. j \in 1 .. Len(s)
      BY <1>1, <2>3
    <3> QED
      BY <1>1, <2>3, <3>1 DEF In
  <2>4. CASE i # Len(s) + 1 /\ j # Len(s) + 1
    <3>1. i \in 1 .. Len(s) /\ j \in 1 .. Len(s)
      BY <1>1, <2>4
    <3> QED
      BY <1>1, <3>1 DEF Distinct
  <2> QED
    BY <2>1, <2>2, <2>3, <2>4
<1>3. ASSUME NEW x PROVE In(x, r) <=> In(x, s) \/ x = e
  <2>1. ASSUME In(x, r) PROVE In(x, s) \/ x = e
    <3>1. PICK i \in 1 .. Len(r) : r[i] = x
      BY <2>1 DEF In
    <3>2. i \in 1 .. Len(s) \/ i = Len(s) + 1
      BY <1>1
    <3> QED
      BY <1>1, <3>1, <3>2 DEF In
  <2>2. ASSUME In(x, s) PROVE In(x, r)
    <3>1. PICK i \in 1 .. Len(s) : s[i] = x
      BY <2>2 DEF In
    <3>2. i \in 1 .. Len(r)
      BY <1>1
    <3> QED
      BY <1>1, <3>1, <3>2 DEF In
  <2>3. Len(s) + 1 \in 1 .. Len(r)
    BY <1>1
  <2>4. In(e, r)
    BY <1>1, <2>3 DEF In
  <2> QED
    BY <2>1, <2>2, <2>4
<1>4. r # <<>>
  BY <1>1, EmptySeq
<1> QED
  BY <1>1, <1>2, <1>3, <1>4 DEF r

\* ... or anywhere.
LEMMA Inserted ==
  ASSUME NEW S, NEW s \in Seq(S), Distinct(s), NEW e \in S, ~In(e, s), NEW k \in 1 .. Len(s)
  PROVE  /\ InsertAt(s, k, e) \in Seq(S) /\ Distinct(InsertAt(s, k, e))
         /\ Len(InsertAt(s, k, e)) = Len(s) + 1 /\ Len(s) \in Nat
         /\ \A i \in 1 .. Len(s) + 1 : i < k => InsertAt(s, k, e)[i] = s[i]
         /\ InsertAt(s, k, e)[k] = e
         /\ \A i \in 1 .. Len(s) + 1 : i > k => InsertAt(s, k, e)[i] = s[i - 1]
         /\ \A x : In(x, InsertAt(s, k, e)) <=> In(x, s) \/ x = e
<1> DEFINE a == SubSeq(s, 1, k - 1)
           b == SubSeq(s, k, Len(s))
           m == a \o <<e>>
           r == InsertAt(s, k, e)
<1>1. Len(s) \in Nat /\ \A i \in 1 .. Len(s) : s[i] \in S
  BY LenProperties, ElementOfSeq
<1>2. /\ a \in Seq(S) /\ Len(a) = k - 1
      /\ \A i \in 1 .. k - 1 : a[i] = s[i]
  BY <1>1, SubSeqProperties
<1>3. /\ b \in Seq(S) /\ Len(b) = Len(s) - k + 1
      /\ \A i \in 1 .. Len(s) - k + 1 : b[i] = s[k + i - 1]
  BY <1>1, SubSeqProperties
<1>4. r = m \o b
  BY DEF InsertAt
<1> HIDE DEF a, b, m, r
<1>5. /\ m \in Seq(S) /\ Len(m) = k
      /\ \A i \in 1 .. k : i < k => m[i] = s[i]
      /\ m[k] = e
  <2>1. <<e>> \in Seq(S) /\ Len(<<e>>) = 1 /\ <<e>>[1] = e
    OBVIOUS
  <2>2. /\ m \in Seq(S) /\ Len(m) = Len(a) + 1
        /\ \A i \in 1 .. Len(a) + 1 : m[i] = IF i <= Len(a) THEN a[i] ELSE <<e>>[i - Len(a)]
    BY <1>2, <2>1, ConcatProperties DEF m
  <2>3. k \in 1 .. Len(a) + 1 /\ ~(k <= Len(a)) /\ k - Len(a) = 1 /\ Len(a) + 1 = k
    BY <1>1, <1>2
  <2>4. m[k] = e
    BY <2>1, <2>2, <2>3
  <2>5. ASSUME NEW i \in 1 .. k, i < k PROVE m[i] = s[i]
    <3>1. i \in 1 .. k - 1 /\ i <= Len(a) /\ i \in 1 .. Len(a) + 1
      BY <1>1, <1>2, <2>5
    <3> QED
      BY <1>2, <2>2, <3>1
  <2> QED
    BY <2>2, <2>3, <2>4, <2>5
<1>6. /\ r \in Seq(S) /\ Len(r) = Len(s) + 1
      /\ \A i \in 1 .. Len(s) + 1 : r[i] = IF i <= k THEN m[i] ELSE b[i - k]
  <2>1. Len(m) + Len(b) = Len(s) + 1
    BY <1>1, <1>3, <1>5
  <2> QED
    BY <1>3, <1>4, <1>5, <2>1, ConcatProperties
<1>7. /\ \A i \in 1 .. Len(s) + 1 : i < k => r[i] = s[i]
      /\ r[k] = e
      /\ \A i \in 1 .. Len(s) + 1 : i > k => r[i] = s[i - 1]
  <2>1. ASSUME NEW i \in 1 .. Len(s) + 1, i < k PROVE r[i] = s[i]
    <3>1. i \in 1 .. k /\ i <= k
      BY <1>1, <2>1
    <3> QED
      BY <1>5, <1>6, <2>1, <3>1
  <2>2. k \in 1 .. Len(s) + 1 /\ k <= k
    BY <1>1
  <2>3. ASSUME NEW i \in 1 .. Len(s) + 1, i > k PROVE r[i] = s[i - 1]
    <3>1. i - k \in 1 .. Len(s) - k + 1 /\ ~(i <= k) /\ k + (i - k) - 1 = i - 1
      BY <1>1, <2>3
    <3> QED
      BY <1>3, <1>6, <3>1
  <2> QED
    BY <1>5, <1>6, <2>1, <2>2, <2>3
<1> DEFINE at(i) == IF i < k THEN i ELSE i - 1
<1>8. \A i \in 1 .. Len(r) : i # k => at(i) \in 1 .. Len(s) /\ r[i] = s[at(i)]
  BY <1>1, <1>6, <1>7
<1>9. \A i, j \in 1 .. Len(r) : i # k /\ j # k /\ at(i) = at(j) => i = j
  BY <1>1, <1>6
<1>10. \A i \in 1 .. Len(s) : \E j \in 1 .. Len(r) : j # k /\ at(j) = i
  <2> SUFFICES ASSUME NEW i \in 1 .. Len(s) PROVE \E j \in 1 .. Len(r) : j # k /\ at(j) = i
    OBVIOUS
  <2>1. CASE i < k
    <3>1. i \in 1 .. Len(r) /\ at(i) = i
      BY <1>1, <1>6, <2>1
    <3> QED
      BY <2>1, <3>1
  <2>2. CASE ~(i < k)
    <3>1. i + 1 \in 1 .. Len(r) /\ i + 1 # k /\ at(i + 1) = i
      BY <1>1, <1>6, <2>2
    <3> QED
      BY <3>1
  <2> QED
    BY <2>1, <2>2
<1>11. k \in 1 .. Len(r)
  BY <1>1, <1>6
<1> HIDE DEF at
<1>12. Distinct(r)
  <2> SUFFICES ASSUME NEW i \in 1 .. Len(r), NEW j \in 1 .. Len(r), r[i] = r[j] PROVE i = j
    BY DEF Distinct
  <2>1. CASE i = k /\ j # k
    BY <1>7, <1>8, <2>1 DEF In
  <2>2. CASE i # k /\ j = k
    BY <1>7, <1>8, <2>2 DEF In
  <2>3. CASE i # k /\ j # k
    BY <1>8, <1>9, <2>3 DEF Distinct
  <2> QED
    BY <2>1, <2>2, <2>3
<1>13. ASSUME NEW x PROVE In(x, r) <=> In(x, s) \/ x = e
  <2>1. ASSUME In(x, r) PROVE In(x, s) \/ x = e
    BY <1>7, <1>8, <2>1 DEF In
  <2>2. ASSUME In(x, s) PROVE In(x, r)
    BY <1>8, <1>10, <2>2 DEF In
  <2>3. In(e, r)
    BY <1>7, <1>11 DEF In
  <2> QED
    BY <2>1, <2>2, <2>3
<1> QED
  BY <1>1, <1>6, <1>7, <1>12, <1>13 DEF r

\* The head of a sequence and what is behind it.
LEMMA Headed ==
  ASSUME NEW S, NEW s \in Seq(S), Distinct(s), s # <<>>
  PROVE  /\ Head(s) \in S /\ In(Head(s), s) /\ Head(s) = s[1] /\ Len(s) \in Nat \ {0}
         /\ Tail(s) \in Seq(S) /\ Distinct(Tail(s)) /\ Within(Tail(s), s)
         /\ \A x : In(x, Tail(s)) <=> In(x, s) /\ x # Head(s)
<1> DEFINE r == Tail(s)
<1>1. /\ Head(s) \in S /\ Head(s) = s[1] /\ r \in Seq(S) /\ Len(r) = Len(s) - 1
      /\ \A i \in 1 .. Len(r) : r[i] = s[i + 1]
      /\ Len(s) \in Nat \ {0}
  BY HeadTailProperties, EmptySeq
<1> HIDE DEF r
<1>2. 1 \in 1 .. Len(s)
  BY <1>1
<1>3. \A i \in 1 .. Len(r) : i + 1 \in 1 .. Len(s) /\ i + 1 # 1
  BY <1>1
<1>4. \A i, j \in 1 .. Len(r) : (i + 1 = j + 1 => i = j) /\ (i < j => i + 1 < j + 1)
  BY <1>1
<1>5. Distinct(r)
  <2> SUFFICES ASSUME NEW i \in 1 .. Len(r), NEW j \in 1 .. Len(r), r[i] = r[j] PROVE i = j
    BY DEF Distinct
  <2>1. s[i + 1] = s[j + 1]
    BY <1>1
  <2>2. i + 1 = j + 1
    BY <1>3, <2>1 DEF Distinct
  <2> QED
    BY <1>4, <2>2
<1>6. Within(r, s)
  BY <1>1, <1>3, <1>4 DEF Within
<1>7. ASSUME NEW x PROVE In(x, r) <=> In(x, s) /\ x # Head(s)
  <2>1. ASSUME In(x, r) PROVE In(x, s) /\ x # Head(s)
    <3>1. PICK i \in 1 .. Len(r) : r[i] = x
      BY <2>1 DEF In
    <3>2. i + 1 \in 1 .. Len(s) /\ i + 1 # 1 /\ s[i + 1] = x
      BY <1>1, <1>3, <3>1
    <3>3. s[i + 1] # s[1]
      BY <1>2, <3>2 DEF Distinct
    <3> QED
      BY <1>1, <3>2, <3>3 DEF In
  <2>2. ASSUME In(x, s), x # Head(s) PROVE In(x, r)
    <3>1. PICK i \in 1 .. Len(s) : s[i] = x
      BY <2>2 DEF In
    <3>2. i # 1
      BY <1>1, <2>2, <3>1
    <3>3. i - 1 \in 1 .. Len(r) /\ (i - 1) + 1 = i
      BY <1>1, <3>2
    <3>4. r[i - 1] = x
      BY <1>1, <3>1, <3>3
    <3> QED
      BY <3>3, <3>4 DEF In
  <2> QED
    BY <2>1, <2>2
<1>8. In(Head(s), s)
  BY <1>1, <1>2 DEF In
<1> QED
  BY <1>1, <1>5, <1>6, <1>7, <1>8 DEF r

\* The elements of a sequence.
LEMMA ToSetIs ==
  ASSUME NEW S, NEW s \in Seq(S), NEW x
  PROVE  x \in ToSet(s) <=> In(x, s)
<1>1. DOMAIN s = 1 .. Len(s)
  BY LenProperties
<1> QED
  BY <1>1 DEF ToSet, In

\* Nothing is in the empty sequence.
LEMMA NotInEmpty == \A x : ~In(x, <<>>)
BY EmptySeq DEF In
\* The rest of a sequence.
LEMMA Rest ==
  ASSUME NEW S, NEW s \in Seq(S), Distinct(s), NEW n \in 0 .. Len(s)
  PROVE  /\ SubSeq(s, n + 1, Len(s)) \in Seq(S) /\ Distinct(SubSeq(s, n + 1, Len(s)))
         /\ Within(SubSeq(s, n + 1, Len(s)), s)
         /\ \A x : In(x, SubSeq(s, n + 1, Len(s))) <=> In(x, s) /\ x \notin {s[i] : i \in 1 .. n}
<1> DEFINE r == SubSeq(s, n + 1, Len(s))
<1>1. Len(s) \in Nat /\ \A i \in 1 .. Len(s) : s[i] \in S
  BY LenProperties, ElementOfSeq
<1>2. /\ r \in Seq(S) /\ Len(r) = Len(s) - n
      /\ \A i \in 1 .. Len(s) - n : r[i] = s[n + i]
  BY <1>1, SubSeqProperties
<1> HIDE DEF r
<1>3. \A i \in 1 .. Len(r) : n + i \in 1 .. Len(s) /\ r[i] = s[n + i] /\ n + i > n
  BY <1>1, <1>2
<1>4. \A i, j \in 1 .. Len(r) : (n + i = n + j => i = j) /\ (i < j => n + i < n + j)
  BY <1>1, <1>2
<1>5. Distinct(r)
  <2> SUFFICES ASSUME NEW i \in 1 .. Len(r), NEW j \in 1 .. Len(r), r[i] = r[j] PROVE i = j
    BY DEF Distinct
  <2>1. n + i = n + j
    BY <1>3 DEF Distinct
  <2> QED
    BY <1>4, <2>1
<1>6. Within(r, s)
  BY <1>3, <1>4 DEF Within
<1>7. ASSUME NEW x PROVE In(x, r) <=> In(x, s) /\ x \notin {s[i] : i \in 1 .. n}
  <2>1. ASSUME In(x, r) PROVE In(x, s) /\ x \notin {s[i] : i \in 1 .. n}
    <3>1. PICK i \in 1 .. Len(r) : r[i] = x
      BY <2>1 DEF In
    <3>2. n + i \in 1 .. Len(s) /\ s[n + i] = x /\ n + i > n
      BY <1>3, <3>1
    <3>3. ASSUME NEW k \in 1 .. n, s[k] = x PROVE FALSE
      <4>1. k \in 1 .. Len(s) /\ k # n + i
        BY <1>1, <1>2, <3>3
      <4> QED
        BY <3>2, <3>3, <4>1 DEF Distinct
    <3> QED
      BY <3>2, <3>3 DEF In
  <2>2. ASSUME In(x, s), x \notin {s[i] : i \in 1 .. n} PROVE In(x, r)
    <3>1. PICK i \in 1 .. Len(s) : s[i] = x
      BY <2>2 DEF In
    <3>2. i \notin 1 .. n
      BY <2>2, <3>1
    <3>3. i - n \in 1 .. Len(r) /\ n + (i - n) = i
      BY <1>1, <1>2, <3>1, <3>2
    <3> QED
      BY <1>3, <3>1, <3>3 DEF In
  <2> QED
    BY <2>1, <2>2
<1> QED
  BY <1>2, <1>5, <1>6, <1>7 DEF r

\* In the order of their keys.
Sorted(key, s) == \A i, j \in 1 .. Len(s) : i < j => key[s[i]] <= key[s[j]]

\* What is left of an ordered list is ordered.
LEMMA WithinSorted ==
  ASSUME NEW key, NEW r, NEW s, Within(r, s), Sorted(key, s)
  PROVE  Sorted(key, r)
BY DEF Within, Sorted

\* So it is with keys that agree on it, or are all less by the same.
LEMMA SortedSame ==
  ASSUME NEW key, NEW other, NEW s, Sorted(key, s),
         \A i \in 1 .. Len(s) : other[s[i]] = key[s[i]]
  PROVE  Sorted(other, s)
BY DEF Sorted

LEMMA SortedLess ==
  ASSUME NEW key, NEW other, NEW s, Sorted(key, s),
         \A i \in 1 .. Len(s) : key[s[i]] \in Int /\ other[s[i]] = key[s[i]] - 1
  PROVE  Sorted(other, s)
<1> SUFFICES ASSUME NEW i \in 1 .. Len(s), NEW j \in 1 .. Len(s), i < j
             PROVE  other[s[i]] <= other[s[j]]
  BY DEF Sorted
<1>1. key[s[i]] <= key[s[j]]
  BY DEF Sorted
<1>2. key[s[i]] \in Int /\ key[s[j]] \in Int
  OBVIOUS
<1>3. other[s[i]] = key[s[i]] - 1 /\ other[s[j]] = key[s[j]] - 1
  OBVIOUS
<1> QED
  BY <1>1, <1>2, <1>3

\* Something is put before the first whose key is greater.
Keys(key, S) == \A x \in S : key[x] \in Int
Behind(after, key, s, t) ==
  after \in SUBSET (1 .. Len(s)) /\ \A i \in 1 .. Len(s) : i \in after <=> key[t] < key[s[i]]
PutBefore(r, s, after, t) ==
  /\ after = {} => r = Append(s, t)
  /\ after # {} => r = InsertAt(s, Min(after), t)

LEMMA PutInOrder ==
  ASSUME NEW S, NEW key, Keys(key, S), NEW s \in Seq(S), Distinct(s), Sorted(key, s),
         NEW t \in S, ~In(t, s), NEW after, Behind(after, key, s, t),
         NEW r, PutBefore(r, s, after, t)
  PROVE  /\ r \in Seq(S) /\ Distinct(r) /\ Sorted(key, r)
         /\ \A x : In(x, r) <=> In(x, s) \/ x = t
<1>0. s \in Seq(S) /\ Distinct(s) /\ t \in S /\ ~In(t, s)
  OBVIOUS
<1>1. Len(s) \in Nat /\ DOMAIN s = 1 .. Len(s)
  BY LenProperties
<1>3. /\ \A x \in S : key[x] \in Int
      /\ \A i \in 1 .. Len(s) : s[i] \in S
  BY ElementOfSeq DEF Keys
<1>5. /\ after \in SUBSET Nat
      /\ \A i \in 1 .. Len(s) : i \in after <=> key[t] < key[s[i]]
      /\ \A i \in after : i \in 1 .. Len(s)
  <2>1. after \in SUBSET (1 .. Len(s))
    BY DEF Behind
  <2>2. \A i \in after : i \in 1 .. Len(s) /\ i \in Nat
    BY <1>1, <2>1
  <2>3. \A i \in 1 .. Len(s) : i \in after <=> key[t] < key[s[i]]
    BY DEF Behind
  <2> QED
    BY <2>2, <2>3
<1>6. CASE after = {}
  <2>1. /\ r \in Seq(S) /\ Distinct(r) /\ Len(r) = Len(s) + 1
        /\ \A i \in 1 .. Len(s) : r[i] = s[i]
        /\ r[Len(s) + 1] = t
        /\ \A x : In(x, r) <=> In(x, s) \/ x = t
    <3>1. r = Append(s, t)
      BY <1>6 DEF PutBefore
    <3> QED
      BY ONLY <1>0, <3>1, Appended
  <2>2. ASSUME NEW i \in 1 .. Len(r), NEW j \in 1 .. Len(r), i < j PROVE key[r[i]] <= key[r[j]]
    <3> DEFINE n == Len(s)
    <3>0. n \in Nat /\ i \in 1 .. n + 1 /\ j \in 1 .. n + 1
      BY <1>1, <2>1
    <3> HIDE DEF n
    <3>4. i \in 1 .. n /\ (j # n + 1 => j \in 1 .. n)
      BY <2>2, <3>0
    <3>1. i \in 1 .. Len(s) /\ r[i] = s[i]
      BY <2>1, <3>4 DEF n
    <3>2. CASE j = Len(s) + 1
      <4>1. ~(key[t] < key[s[i]]) /\ s[i] \in S
        BY <1>3, <1>5, <1>6, <3>1
      <4>2. key[s[i]] <= key[t]
        BY <1>3, <4>1
      <4> QED
        BY <2>1, <3>1, <3>2, <4>2
    <3>3. CASE j # Len(s) + 1
      <4>1. j \in 1 .. Len(s)
        BY <3>3, <3>4 DEF n
      <4> QED
        BY <2>1, <2>2, <3>1, <4>1 DEF Sorted
    <3> QED
      BY <3>2, <3>3
  <2> QED
    BY <2>1, <2>2 DEF Sorted
<1>7. CASE after # {}
  <2> DEFINE k == Min(after)
  <2>1. k \in after /\ \A i \in after : k <= i
    BY <1>5, <1>7, MinIs
  <2>2. k \in 1 .. Len(s) /\ key[t] < key[s[k]]
    BY <1>5, <2>1
  <2>3. r = InsertAt(s, k, t)
    BY <1>7 DEF PutBefore
  <2> HIDE DEF k
  <2>4. /\ r \in Seq(S) /\ Distinct(r) /\ Len(r) = Len(s) + 1
        /\ \A i \in 1 .. Len(s) + 1 : i < k => r[i] = s[i]
        /\ r[k] = t
        /\ \A i \in 1 .. Len(s) + 1 : i > k => r[i] = s[i - 1]
        /\ \A x : In(x, r) <=> In(x, s) \/ x = t
    <3> DEFINE q == InsertAt(s, k, t)
    <3>1. k \in 1 .. Len(s)
      BY <2>2
    <3>2. /\ q \in Seq(S) /\ Distinct(q) /\ Len(q) = Len(s) + 1
          /\ \A i \in 1 .. Len(s) + 1 : i < k => q[i] = s[i]
          /\ q[k] = t
          /\ \A i \in 1 .. Len(s) + 1 : i > k => q[i] = s[i - 1]
          /\ \A x : In(x, q) <=> In(x, s) \/ x = t
      BY ONLY <1>0, <3>1, Inserted
    <3> HIDE DEF q
    <3> QED
      BY <2>3, <3>2 DEF q
  <2>5. \A i \in 1 .. Len(s) : i < k => key[s[i]] <= key[t]
    <3> SUFFICES ASSUME NEW i \in 1 .. Len(s), i < k PROVE key[s[i]] <= key[t]
      OBVIOUS
    <3>1. i \notin after
      BY <1>1, <2>1, <2>2
    <3>2. ~(key[t] < key[s[i]]) /\ s[i] \in S
      BY <1>3, <1>5, <3>1
    <3> QED
      BY <1>3, <3>2
  <2>6. \A i \in 1 .. Len(s) : i >= k => key[t] <= key[s[i]]
    <3> SUFFICES ASSUME NEW i \in 1 .. Len(s), i >= k PROVE key[t] <= key[s[i]]
      OBVIOUS
    <3>1. i = k \/ k < i
      BY <1>1, <2>2
    <3>3. key[t] \in Int /\ key[s[k]] \in Int /\ key[s[i]] \in Int
      BY <1>3, <2>2
    <3>2. key[s[k]] <= key[s[i]]
      BY <2>2, <3>1, <3>3 DEF Sorted
    <3> QED
      BY <2>2, <3>2, <3>3
  <2>7. ASSUME NEW i \in 1 .. Len(r), NEW j \in 1 .. Len(r), i < j PROVE key[r[i]] <= key[r[j]]
    <3> DEFINE n == Len(s)
    <3>0. n \in Nat /\ k \in 1 .. n /\ i \in 1 .. n + 1 /\ j \in 1 .. n + 1
      BY <1>1, <2>2, <2>4
    <3> HIDE DEF n
    <3>1. CASE j < k
      <4>1. i < k /\ i \in 1 .. n /\ j \in 1 .. n
        BY <2>7, <3>0, <3>1
      <4>2. r[i] = s[i] /\ r[j] = s[j]
        BY <2>4, <3>0, <3>1, <4>1 DEF n
      <4> QED
        BY <2>7, <4>1, <4>2 DEF Sorted, n
    <3>2. CASE j = k
      <4>1. i < k /\ i \in 1 .. n
        BY <2>7, <3>0, <3>2
      <4>2. r[i] = s[i] /\ r[j] = t
        BY <2>4, <3>0, <3>2, <4>1 DEF n
      <4> QED
        BY <2>5, <4>1, <4>2 DEF n
    <3>3. CASE j > k /\ i = k
      <4>1. j - 1 \in 1 .. n /\ j - 1 >= k
        BY <3>0, <3>3
      <4>2. r[j] = s[j - 1] /\ r[i] = t
        BY <2>4, <3>0, <3>3 DEF n
      <4> QED
        BY <2>6, <4>1, <4>2 DEF n
    <3>4. CASE j > k /\ i < k
      <4>1. i \in 1 .. n /\ j - 1 \in 1 .. n /\ i < j - 1
        BY <3>0, <3>4
      <4>2. r[j] = s[j - 1] /\ r[i] = s[i]
        BY <2>4, <3>0, <3>4 DEF n
      <4> QED
        BY <4>1, <4>2 DEF Sorted, n
    <3>5. CASE i > k
      <4>1. i - 1 \in 1 .. n /\ j - 1 \in 1 .. n /\ i - 1 < j - 1 /\ j > k
        BY <2>7, <3>0, <3>5
      <4>2. r[j] = s[j - 1] /\ r[i] = s[i - 1]
        BY <2>4, <3>0, <3>5, <4>1 DEF n
      <4> QED
        BY <4>1, <4>2 DEF Sorted, n
    <3>6. j < k \/ j = k \/ (j > k /\ i = k) \/ (j > k /\ i < k) \/ i > k
      BY <2>7, <3>0
    <3> QED
      BY <3>1, <3>2, <3>3, <3>4, <3>5, <3>6
  <2> QED
    BY <2>4, <2>7 DEF Sorted
<1> QED
  BY <1>6, <1>7
-----------------------------------------------------------------------------
(***************************************************************************)
(* Ticks.                                                                  *)
(***************************************************************************)

\* The half turn, as numbers.
LEMMA Numbers ==
  /\ TickMax \in Nat /\ Late \in Nat /\ Half \in Nat /\ Half >= 2 /\ 2 * Half <= TickMax /\ TickMax <= 2 * Half + 1
  /\ Word = TickMax + 1
  /\ \A t \in Soft : Period[t] \in 1 .. Half - 1 /\ Late + Period[t] <= Half
BY TimerAssumption DEF Half, Word

\* A word is reduced by at most one turn.
LEMMA ModIs ==
  ASSUME NEW W \in Nat \ {0}, NEW x \in Int
  PROVE  /\ x \in 0 .. W - 1 => x % W = x
         /\ x \in W .. 2 * W - 1 => x % W = x - W
         /\ x \in -W .. -1 => x % W = x + W
<1> DEFINE q == x \div W
           r == x % W
<1>1. q \in Int /\ r \in Int /\ 0 <= r /\ r < W /\ x = W * q + r
  OBVIOUS
<1> HIDE DEF q, r
<1>2. \A a, b \in Int : a <= b => W * a <= W * b
  OBVIOUS
<1>3. ASSUME x \in 0 .. W - 1 PROVE r = x
  <2>1. CASE q >= 1
    <3>1. W * 1 <= W * q
      BY <1>1, <1>2, <2>1
    <3> QED
      BY <1>1, <1>3, <3>1
  <2>2. CASE q <= -1
    <3>1. W * q <= W * (-1)
      BY <1>1, <1>2, <2>2
    <3> QED
      BY <1>1, <1>3, <3>1
  <2>3. CASE q = 0
    BY <1>1, <2>3
  <2> QED
    BY <1>1, <2>1, <2>2, <2>3
<1>4. ASSUME x \in W .. 2 * W - 1 PROVE r = x - W
  <2>1. CASE q >= 2
    <3>1. W * 2 <= W * q
      BY <1>1, <1>2, <2>1
    <3> QED
      BY <1>1, <1>4, <3>1
  <2>2. CASE q <= 0
    <3>1. W * q <= W * 0
      BY <1>1, <1>2, <2>2
    <3> QED
      BY <1>1, <1>4, <3>1
  <2>3. CASE q = 1
    BY <1>1, <2>3
  <2> QED
    BY <1>1, <2>1, <2>2, <2>3
<1>5. ASSUME x \in -W .. -1 PROVE r = x + W
  <2>1. CASE q >= 0
    <3>1. W * 0 <= W * q
      BY <1>1, <1>2, <2>1
    <3> QED
      BY <1>1, <1>5, <3>1
  <2>2. CASE q <= -2
    <3>1. W * q <= W * (-2)
      BY <1>1, <1>2, <2>2
    <3> QED
      BY <1>1, <1>5, <3>1
  <2>3. CASE q = -1
    BY <1>1, <2>3
  <2> QED
    BY <1>1, <2>1, <2>2, <2>3
<1> QED
  BY <1>3, <1>4, <1>5 DEF r

\* The tick when is as far from now as the time says, a turn more or less.
Points(when, now, time) ==
  when \in {now + time, now + time - Word, now + time + Word}

\* The difference of two ticks.
LEMMA MinusIs ==
  ASSUME NEW a \in 0 .. TickMax, NEW b \in 0 .. TickMax
  PROVE  /\ Minus(a, b) \in 0 .. TickMax
         /\ a >= b => Minus(a, b) = a - b
         /\ a < b => Minus(a, b) = a - b + Word
<1> DEFINE x == a - b
           W == Word
<1>1. W \in Nat \ {0} /\ x \in Int /\ W = TickMax + 1 /\ TickMax \in Nat
  BY Numbers
<1>2. Minus(a, b) = x % W
  BY DEF Minus
<1>3. a >= b => x \in 0 .. W - 1
  BY <1>1
<1>4. a < b => x \in -W .. -1
  BY <1>1
<1>5. a >= b \/ a < b
  BY <1>1
<1> HIDE DEF x, W
<1>6. a >= b => x % W = x
  BY <1>1, <1>3, ModIs
<1>7. a < b => x % W = x + W
  BY <1>1, <1>4, ModIs
<1>8. a >= b => x \in 0 .. TickMax
  BY <1>1, <1>3
<1>9. a < b => x + W \in 0 .. TickMax
  BY <1>1, <1>4
<1> QED
  BY <1>2, <1>5, <1>6, <1>7, <1>8, <1>9 DEF x, W

\* The tick a timer is due at.
LEMMA StartPoints ==
  ASSUME NEW now \in 0 .. TickMax, NEW time \in 0 .. Half - 1
  PROVE  (now + time) % Word \in 0 .. TickMax /\ Points((now + time) % Word, now, time)
<1> DEFINE x == now + time
           W == Word
<1>1. W \in Nat \ {0} /\ x \in Int /\ W = TickMax + 1 /\ TickMax \in Nat /\ x >= 0 /\ x < 2 * W
  BY Numbers
<1>4. x - W = now + time - Word
  BY <1>1
<1> HIDE DEF x, W
<1>2. CASE x < W
  <2>1. x \in 0 .. W - 1
    BY <1>1, <1>2
  <2>2. x % W = x
    BY <1>1, <2>1, ModIs
  <2>3. x \in 0 .. TickMax
    BY <1>1, <2>1
  <2> QED
    BY <2>2, <2>3 DEF Points, x, W
<1>3. CASE x >= W
  <2>1. x \in W .. 2 * W - 1
    BY <1>1, <1>3
  <2>2. x % W = x - W
    BY <1>1, <2>1, ModIs
  <2>3. x - W \in 0 .. TickMax
    BY <1>1, <2>1
  <2>4. x % W \in 0 .. TickMax /\ Points(x % W, now, time)
    BY <1>4, <2>2, <2>3 DEF Points
  <2> QED
    BY <2>4 DEF x, W
<1> QED
  BY <1>1, <1>2, <1>3

\* The tick goes on.
LEMMA TickPoints ==
  ASSUME NEW now \in 0 .. TickMax, NEW when \in 0 .. TickMax, NEW time \in Int,
         -Half <= time, time <= Half, Points(when, now, time)
  PROVE  (now + 1) % Word \in 0 .. TickMax /\ Points(when, (now + 1) % Word, time - 1)
<1> DEFINE x == now + 1
           W == Word
<1>1. /\ W \in Nat \ {0} /\ x \in 1 .. W /\ W = TickMax + 1 /\ TickMax \in Nat
      /\ Half \in Nat /\ 2 * Half < W
  BY Numbers
<1>2. CASE x < W
  <2>1. x \in 0 .. W - 1
    BY <1>1, <1>2
  <2> HIDE DEF x, W
  <2>2. x % W = x
    BY <1>1, <2>1, ModIs
  <2>3. x + (time - 1) = now + time
    BY DEF x
  <2> QED
    BY <1>1, <2>1, <2>2, <2>3 DEF Points, x, W
<1>3. CASE x = W
  <2>1. x \in W .. 2 * W - 1 /\ x - W = 0
    BY <1>1, <1>3
  <2>2. now = TickMax
    BY <1>1, <1>3
  <2>6. now + time + Word > TickMax
    BY <1>1, <2>2
  <2>7. when # now + time + Word
    <3>1. when <= TickMax /\ when \in Int /\ now + time + Word \in Int /\ TickMax \in Int
      BY <1>1
    <3> QED
      BY <2>6, <3>1
  <2>3. when \in {now + time, now + time - Word}
    BY <2>7 DEF Points
  <2> HIDE DEF x, W
  <2>4. x % W = 0
    BY <1>1, <2>1, ModIs
  <2>5. 0 + (time - 1) + Word = now + time /\ 0 + (time - 1) = now + time - Word
    BY <1>1, <2>2 DEF W
  <2> QED
    BY <1>1, <2>3, <2>4, <2>5 DEF Points, x, W
<1> QED
  BY <1>1, <1>2, <1>3

\* What is due has no time left, and conversely if it is not too late.
LEMMA DueIs ==
  ASSUME NEW now \in 0 .. TickMax, NEW when \in 0 .. TickMax, NEW time \in Int,
         -Half <= time, time <= Half - 1, Points(when, now, time)
  PROVE  /\ Minus(now, when) < Half => time <= 0
         /\ time <= 0 /\ time > -Half => Minus(now, when) < Half
         /\ Minus(when, now) < Half => Minus(when, now) = time
<1>1. /\ Word = TickMax + 1 /\ TickMax \in Nat /\ Half \in Nat /\ 2 * Half <= TickMax
  BY Numbers
<1>2. /\ now >= when => Minus(now, when) = now - when
      /\ now < when => Minus(now, when) = now - when + Word
      /\ when >= now => Minus(when, now) = when - now
      /\ when < now => Minus(when, now) = when - now + Word
  BY MinusIs
<1> QED
  BY <1>1, <1>2 DEF Points

\* The comparison of two timers, if they are not too far apart.
LEMMA LaterIs ==
  ASSUME NEW now \in 0 .. TickMax, NEW a \in 0 .. TickMax, NEW b \in 0 .. TickMax,
         NEW v \in Int, NEW w \in Int, -Half <= v, v < Half, 0 <= w, w < Half,
         -Half - 1 <= v - w, Points(a, now, v), Points(b, now, w)
  PROVE  Minus(a, b) \in 1 .. Half - 1 <=> w < v
<1>1. /\ Word = TickMax + 1 /\ TickMax \in Nat /\ Half \in Nat /\ 2 * Half <= TickMax
  BY Numbers
<1>2. /\ a >= b => Minus(a, b) = a - b
      /\ a < b => Minus(a, b) = a - b + Word
  BY MinusIs
<1> QED
  BY <1>1, <1>2 DEF Points

-----------------------------------------------------------------------------
(***************************************************************************)
(* The inductive invariant.                                                *)
(***************************************************************************)
HardOnes == Hard \cup {Own}

\* The list l of timers of S holds just those that are on, in order.
Proper(l, S, on, key) ==
  l \in Seq(S) /\ Distinct(l) /\ Sorted(key, l) /\ \A x : In(x, l) <=> x \in on

\* The timer that its function has been taken off the list.
Called == IF temp THEN {running} ELSE {}
OnSoft == (activated \cap Soft) \ Called

HardList == Proper(list["hard"], HardOnes, activated \ Soft, left)
SoftList == Proper(list["soft"], Soft, OnSoft, left)

\* The ticks of the timers stand for the times they have left ...
Timing == \A t \in activated : Points(timeout_tick[t], tick, left[t])

\* ... which are less than half a turn, and not too late to be compared with
\* one that is started.
Ranges ==
  /\ \A t \in activated \ Soft : left[t] \in 0 .. Half - 1
  /\ \A t \in activated \cap Soft :
       left[t] < Half /\ \A u \in Soft : left[t] >= Period[u] - Half - 1

\* Where the timer thread is, and what it knows there.
Places ==
  /\ running # None <=> pc = "call"
  /\ temp => pc = "call" /\ (running \in Periodic \/ running \notin activated)
  /\ Own \in activated => pc = "sleep"
  /\ fooled => pc = "sleep" /\ Own \notin activated

Known ==
  LET soft == list["soft"]
      first == Head(soft)
  IN /\ pc = "decide" => next = IF soft = <<>> THEN TickMax ELSE timeout_tick[first]
     /\ pc = "delay" => soft # <<>> /\ next = left[first] + late /\ next < Half
     /\ pc = "sleep" /\ soft # <<>> /\ ~fooled =>
          Own \in activated /\ left[Own] <= left[first] + Late

Listed == HardList /\ SoftList /\ Timing /\ Ranges

IInv == TypeOK /\ Listed /\ Places /\ Known
-----------------------------------------------------------------------------
(***************************************************************************)
(* The lists.                                                              *)
(***************************************************************************)

\* The timers are soft ones and hard ones.
LEMMA Kinds ==
  /\ Timers = Soft \cup HardOnes /\ Soft \cap HardOnes = {} /\ None \notin Timers
  /\ Own \in HardOnes /\ Hard \subseteq HardOnes
  /\ \A t \in Soft : KindOf(t) = "soft"
  /\ \A t \in HardOnes : KindOf(t) = "hard"
BY TimerAssumption DEF Timers, HardOnes, KindOf

\* A sequence over a set is one over a larger set.
LEMMA Wider ==
  ASSUME NEW S, NEW R, R \subseteq S, NEW s \in Seq(R)
  PROVE  s \in Seq(S)
<1>1. Len(s) \in Nat /\ s \in [1 .. Len(s) -> R]
  BY LenProperties
<1>2. s \in [1 .. Len(s) -> S]
  BY <1>1
<1> QED
  BY <1>1, <1>2, SeqDef

\* The times that timers on a list may have left.
LEMMA Bounds ==
  ASSUME TypeOK, Ranges, NEW t \in activated
  PROVE  /\ t \in Timers /\ left[t] \in Int /\ -Half <= left[t] /\ left[t] <= Half - 1
         /\ \A u \in Soft : t \in Soft => -Half - 1 <= left[t] - Period[u]
<1>1. t \in Timers /\ left[t] \in Int
  BY DEF TypeOK
<1>2. Half \in Nat /\ \A u \in Soft : Period[u] \in Int /\ Period[u] >= 1
  BY Numbers
<1>3. CASE t \in Soft
  <2>1. left[t] < Half /\ \A u \in Soft : left[t] >= Period[u] - Half - 1
    BY <1>3 DEF Ranges
  <2>2. left[t] >= Period[t] - Half - 1
    BY <1>3, <2>1
  <2>3. -Half <= left[t] /\ left[t] <= Half - 1
    BY <1>1, <1>2, <1>3, <2>1, <2>2
  <2>4. ASSUME NEW u \in Soft PROVE -Half - 1 <= left[t] - Period[u]
    <3>1. left[t] >= Period[u] - Half - 1 /\ Period[u] \in Int
      BY <1>2, <2>1
    <3> QED
      BY <1>1, <1>2, <3>1
  <2> QED
    BY <1>1, <2>3, <2>4
<1>4. CASE t \notin Soft
  <2>1. left[t] \in 0 .. Half - 1
    BY <1>4 DEF Ranges
  <2> QED
    BY <1>1, <1>2, <1>4, <2>1
<1> QED
  BY <1>3, <1>4

\* Taking a timer off a list, or doing so in vain.
LEMMA TakenOff ==
  ASSUME NEW l, NEW S, NEW on, NEW key, Proper(l, S, on, key), NEW t
  PROVE  /\ Proper(RemoveFirst(l, t), S, on \ {t}, key)
         /\ t \notin on => RemoveFirst(l, t) = l
<1>1. /\ RemoveFirst(l, t) \in Seq(S) /\ Distinct(RemoveFirst(l, t))
      /\ \A x : In(x, RemoveFirst(l, t)) <=> In(x, l) /\ x # t
      /\ Within(RemoveFirst(l, t), l)
      /\ ~In(t, l) => RemoveFirst(l, t) = l
  BY Unlinked DEF Proper
<1>2. Sorted(key, RemoveFirst(l, t))
  BY <1>1, WithinSorted DEF Proper
<1>3. \A x : In(x, RemoveFirst(l, t)) <=> x \in on \ {t}
  BY <1>1 DEF Proper
<1>4. t \notin on => RemoveFirst(l, t) = l
  BY <1>1 DEF Proper
<1> QED
  BY <1>1, <1>2, <1>3, <1>4 DEF Proper

\* What times others have does not matter.
LEMMA OthersTimes ==
  ASSUME NEW l, NEW S, NEW on, NEW key, NEW other, Proper(l, S, on, key),
         \A x \in on : other[x] = key[x]
  PROVE  Proper(l, S, on, other)
<1>1. \A i \in 1 .. Len(l) : l[i] \in on
  BY DEF Proper, In
<1>2. Sorted(other, l)
  BY <1>1, SortedSame DEF Proper
<1> QED
  BY <1>2 DEF Proper

\* rt_timer_start puts the timer in its place, whichever side of the
\* wrap-around the ticks are on.
LEMMA PutOn ==
  ASSUME TypeOK, NEW S \in SUBSET Timers, NEW l, NEW on, Proper(l, S, on, left),
         NEW t \in S, t \notin on, NEW init_tick \in 0 .. Half - 1,
         \A x \in on :
           /\ Points(timeout_tick[x], tick, left[x])
           /\ -Half <= left[x] /\ left[x] <= Half - 1 /\ -Half - 1 <= left[x] - init_tick
  PROVE  Proper(Insert(l, t, (tick + init_tick) % Word), S, on \cup {t},
                [left EXCEPT ![t] = init_tick])
<1> DEFINE when == (tick + init_tick) % Word
           key == [left EXCEPT ![t] = init_tick]
           later == {i \in DOMAIN l : Minus(timeout_tick[l[i]], when) \in 1 .. Half - 1}
<1>1. tick \in 0 .. TickMax /\ when \in 0 .. TickMax /\ Points(when, tick, init_tick)
  BY StartPoints DEF TypeOK
<1>2. /\ key[t] = init_tick /\ \A x \in S : key[x] \in Int
      /\ \A x \in on : key[x] = left[x]
  BY Numbers DEF TypeOK
<1>3. l \in Seq(S) /\ Len(l) \in Nat /\ DOMAIN l = 1 .. Len(l)
  BY LenProperties DEF Proper
<1>4. \A i \in 1 .. Len(l) : l[i] \in on /\ l[i] \in S
  BY <1>3, ElementOfSeq DEF Proper, In
<1>5. Insert(l, t, when) = IF later = {} THEN Append(l, t) ELSE InsertAt(l, Min(later), t)
  BY DEF Insert
<1> HIDE DEF when, key
<1>6. ASSUME NEW i \in 1 .. Len(l)
      PROVE  Minus(timeout_tick[l[i]], when) \in 1 .. Half - 1 <=> key[t] < key[l[i]]
  <2> DEFINE a == timeout_tick[l[i]]
             v == left[l[i]]
  <2>1. a \in 0 .. TickMax /\ v \in Int
    BY <1>4 DEF TypeOK
  <2>2. Points(a, tick, v) /\ -Half <= v /\ v <= Half - 1 /\ -Half - 1 <= v - init_tick
    BY <1>4
  <2>3. key[t] = init_tick /\ key[l[i]] = v
    BY <1>2, <1>4
  <2> HIDE DEF a, v
  <2>4. v < Half /\ 0 <= init_tick /\ init_tick < Half /\ init_tick \in Int
    BY <2>1, <2>2, Numbers
  <2>5. Minus(a, when) \in 1 .. Half - 1 <=> init_tick < v
    BY <1>1, <2>1, <2>2, <2>4, LaterIs
  <2> QED
    BY <2>3, <2>5 DEF a
<1>7. Behind(later, key, l, t)
  BY <1>3, <1>6 DEF Behind
<1>8. Distinct(l) /\ ~In(t, l) /\ Sorted(key, l)
  <2>1. Proper(l, S, on, key)
    BY <1>2, OthersTimes
  <2> QED
    BY <2>1 DEF Proper
<1> DEFINE r == Insert(l, t, when)
<1> HIDE DEF later, r
<1>9. PutBefore(r, l, later, t)
  BY <1>5 DEF PutBefore, r
<1>10. /\ r \in Seq(S) /\ Distinct(r) /\ Sorted(key, r)
       /\ \A x : In(x, r) <=> In(x, l) \/ x = t
  <2>1. Keys(key, S)
    BY <1>2 DEF Keys
  <2>2. l \in Seq(S) /\ t \in S
    BY <1>3
  <2> QED
    BY ONLY <1>7, <1>8, <1>9, <2>1, <2>2, PutInOrder
<1>11. Proper(r, S, on \cup {t}, key)
  BY <1>10 DEF Proper
<1> QED
  BY <1>11 DEF r, when, key

-----------------------------------------------------------------------------
(***************************************************************************)
(* Starting and stopping.                                                  *)
(***************************************************************************)

\* What the types say of the data, for what changes it.
Data ==
  /\ list \in [{"hard", "soft"} -> Seq(Timers)]
  /\ timeout_tick \in [Timers -> 0 .. TickMax] /\ activated \subseteq Timers
  /\ left \in [Timers -> Int]

\* What a soft timer that is started does to the soft list.
LEMMA SoftPut ==
  ASSUME TypeOK, SoftList, Timing, Ranges, NEW t \in Soft
  PROVE  Proper(Insert(RemoveFirst(list["soft"], t), t, (tick + Period[t]) % Word), Soft,
                (OnSoft \ {t}) \cup {t}, [left EXCEPT ![t] = Period[t]])
<1>1. Soft \in SUBSET Timers /\ Period[t] \in 0 .. Half - 1
  BY Kinds, Numbers
<1>2. Proper(RemoveFirst(list["soft"], t), Soft, OnSoft \ {t}, left)
  BY TakenOff DEF SoftList
<1>3. ASSUME NEW x \in OnSoft \ {t}
      PROVE  /\ Points(timeout_tick[x], tick, left[x])
             /\ -Half <= left[x] /\ left[x] <= Half - 1 /\ -Half - 1 <= left[x] - Period[t]
  <2>1. x \in activated /\ x \in Soft
    BY DEF OnSoft
  <2> QED
    BY <2>1, Bounds DEF Timing
<1> DEFINE l == RemoveFirst(list["soft"], t)
           on == OnSoft \ {t}
           time == Period[t]
<1>4. t \notin on
  OBVIOUS
<1> HIDE DEF l, on, time
<1> QED
  BY <1>1, <1>2, <1>3, <1>4, PutOn DEF l, on, time

\* What the timer of a thread that is started does to the hard list.
LEMMA HardPut ==
  ASSUME TypeOK, HardList, Timing, Ranges, NEW t \in HardOnes \ activated,
         NEW time \in 0 .. Half - 1
  PROVE  Proper(Insert(list["hard"], t, (tick + time) % Word), HardOnes,
                (activated \ Soft) \cup {t}, [left EXCEPT ![t] = time])
<1>1. HardOnes \in SUBSET Timers /\ Half \in Nat
  BY Kinds, Numbers
<1>2. ASSUME NEW x \in activated \ Soft
      PROVE  /\ Points(timeout_tick[x], tick, left[x])
             /\ -Half <= left[x] /\ left[x] <= Half - 1 /\ -Half - 1 <= left[x] - time
  <2>1. left[x] \in 0 .. Half - 1
    BY DEF Ranges
  <2> QED
    BY <1>1, <2>1 DEF Timing
<1> DEFINE l == list["hard"]
           on == activated \ Soft
<1>3. t \notin on /\ Proper(l, HardOnes, on, left)
  BY DEF HardList
<1> HIDE DEF l, on
<1> QED
  BY <1>1, <1>2, <1>3, PutOn DEF l, on

\* A timer that is started has its time left, and the others keep theirs.
LEMMA StartTimes ==
  ASSUME TypeOK, Timing, Ranges, NEW t \in Timers, NEW time \in 0 .. Half - 1,
         t \in Soft => time = Period[t],
         tick' = tick,
         timeout_tick' \in [Timers -> 0 .. TickMax], left' \in [Timers -> Int],
         timeout_tick'[t] = (tick + time) % Word, left'[t] = time,
         activated' \subseteq activated \cup {t},
         \A x \in activated' : x # t => timeout_tick'[x] = timeout_tick[x] /\ left'[x] = left[x]
  PROVE  Timing' /\ Ranges'
<1>1. tick \in 0 .. TickMax /\ Half \in Nat
  BY Numbers DEF TypeOK
<1>2. Timing'
  <2> SUFFICES ASSUME NEW x \in activated' PROVE Points(timeout_tick'[x], tick, left'[x])
    BY DEF Timing, Points
  <2>1. CASE x = t
    BY <1>1, <2>1, StartPoints
  <2>2. CASE x # t
    BY <2>2 DEF Timing
  <2> QED
    BY <2>1, <2>2
<1>3. ASSUME NEW x \in activated' \ Soft PROVE left'[x] \in 0 .. Half - 1
  BY <1>3 DEF Ranges
<1>4. ASSUME NEW x \in activated' \cap Soft
      PROVE  left'[x] < Half /\ \A u \in Soft : left'[x] >= Period[u] - Half - 1
  <2>1. CASE x = t
    <3>1. left'[x] = Period[t] /\ Period[t] \in 1 .. Half - 1
      BY <1>4, <2>1, Numbers
    <3>2. \A u \in Soft : Period[u] \in 1 .. Half - 1
      BY Numbers
    <3> QED
      BY <1>1, <3>1, <3>2
  <2>2. CASE x # t
    BY <2>2 DEF Ranges
  <2> QED
    BY <2>1, <2>2
<1> QED
  BY <1>2, <1>3, <1>4 DEF Ranges

\* Timers that are off no longer matter.
LEMMA StopTimes ==
  ASSUME Timing, Ranges, tick' = tick, activated' \subseteq activated,
         \A x \in activated' : timeout_tick'[x] = timeout_tick[x] /\ left'[x] = left[x]
  PROVE  Timing' /\ Ranges'
<1>1. Timing'
  BY DEF Timing, Points
<1>2. \A x \in activated' : x \in activated /\ left'[x] = left[x]
  OBVIOUS
<1>3. Ranges'
  BY <1>2 DEF Ranges
<1> QED
  BY <1>1, <1>3

\* The timer of a thread is started.
LEMMA HardStart ==
  ASSUME TypeOK, Listed, NEW t \in HardOnes \ activated, NEW time \in 0 .. Half - 1,
         rt_timer_start(t, time), UNCHANGED <<tick, running, temp>>
  PROVE  /\ Listed' /\ Data' /\ list'["soft"] = list["soft"]
         /\ activated' = activated \cup {t} /\ left'[t] = time
         /\ \A x \in activated : left'[x] = left[x] /\ timeout_tick'[x] = timeout_tick[x]
<1> DEFINE when == (tick + time) % Word
<1>1. /\ t \in Timers /\ t \notin Soft /\ KindOf(t) = "hard" /\ t \notin OnSoft
      /\ activated \subseteq Timers /\ list \in [{"hard", "soft"} -> Seq(Timers)]
  BY Kinds DEF TypeOK, OnSoft
<1>2. HardList /\ SoftList /\ Timing /\ Ranges
  BY DEF Listed
<1>3. /\ list' = [Without(t) EXCEPT !["hard"] = Insert(@, t, when)]
      /\ timeout_tick' = [timeout_tick EXCEPT ![t] = when]
      /\ activated' = activated \cup {t} /\ left' = [left EXCEPT ![t] = time]
  BY <1>1 DEF rt_timer_start
<1>4. when \in 0 .. TickMax
  BY StartPoints DEF TypeOK
<1>5. /\ timeout_tick' \in [Timers -> 0 .. TickMax] /\ left' \in [Timers -> Int]
      /\ timeout_tick'[t] = when /\ left'[t] = time
      /\ \A x \in activated : left'[x] = left[x] /\ timeout_tick'[x] = timeout_tick[x]
  BY <1>1, <1>3, <1>4, Numbers DEF TypeOK
<1>6. Timing' /\ Ranges'
  <2>1. \A x \in activated' : x # t => timeout_tick'[x] = timeout_tick[x] /\ left'[x] = left[x]
    BY <1>3, <1>5
  <2>2. activated' \subseteq activated \cup {t}
    BY <1>3
  <2>3. t \in Soft => time = Period[t]
    BY <1>1
  <2> HIDE DEF when
  <2> QED
    BY <1>1, <1>2, <1>5, <2>1, <2>2, <2>3, StartTimes DEF when
<1>7. RemoveFirst(list["hard"], t) = list["hard"] /\ RemoveFirst(list["soft"], t) = list["soft"]
  <2>1. /\ Proper(list["hard"], HardOnes, activated \ Soft, left) /\ t \notin activated \ Soft
        /\ Proper(list["soft"], Soft, OnSoft, left) /\ t \notin OnSoft
    BY <1>1, <1>2 DEF HardList, SoftList
  <2> QED
    BY ONLY <2>1, TakenOff
<1>8. /\ list'["hard"] = Insert(list["hard"], t, when) /\ list'["soft"] = list["soft"]
      /\ DOMAIN list' = {"hard", "soft"} /\ list' = [k \in DOMAIN list' |-> list'[k]]
  BY <1>1, <1>3, <1>7 DEF Without
<1>9. HardList'
  <2>1. activated' \ Soft = (activated \ Soft) \cup {t}
    BY <1>1, <1>3
  <2>2. Proper(Insert(list["hard"], t, when), HardOnes, (activated \ Soft) \cup {t},
               [left EXCEPT ![t] = time])
    BY <1>2, HardPut
  <2> HIDE DEF when
  <2> QED
    BY <1>3, <1>8, <2>1, <2>2 DEF HardList
<1>10. SoftList'
  <2>1. OnSoft' = OnSoft
    BY <1>1, <1>3 DEF OnSoft, Called
  <2>2. \A x \in OnSoft : left'[x] = left[x]
    BY <1>5 DEF OnSoft
  <2>3. Proper(list["soft"], Soft, OnSoft, left')
    BY <1>2, <2>2, OthersTimes DEF SoftList
  <2> QED
    BY <1>8, <2>1, <2>3 DEF SoftList
<1>11. list' \in [{"hard", "soft"} -> Seq(Timers)]
  <2>1. list'["hard"] \in Seq(Timers) /\ list'["soft"] \in Seq(Timers)
    BY <1>9, <1>10, Kinds, Wider DEF HardList, SoftList, Proper
  <2> QED
    BY <1>8, <2>1
<1> QED
  BY <1>1, <1>3, <1>5, <1>6, <1>8, <1>9, <1>10, <1>11 DEF Listed, Data

\* A soft timer is started.
LEMMA SoftStart ==
  ASSUME TypeOK, Listed, NEW t \in Soft, tick' = tick,
         list'["soft"] = Insert(RemoveFirst(list["soft"], t), t, (tick + Period[t]) % Word),
         OnSoft' = (OnSoft \ {t}) \cup {t},
         timeout_tick' \in [Timers -> 0 .. TickMax], left' \in [Timers -> Int],
         timeout_tick'[t] = (tick + Period[t]) % Word, left'[t] = Period[t],
         activated' \subseteq activated \cup {t},
         \A x \in activated' : x # t => timeout_tick'[x] = timeout_tick[x] /\ left'[x] = left[x]
  PROVE  SoftList' /\ Timing' /\ Ranges'
<1> DEFINE when == (tick + Period[t]) % Word
           time == Period[t]
           key == [left EXCEPT ![t] = time]
<1>1. SoftList /\ Timing /\ Ranges
  BY DEF Listed
<1>2. t \in Timers /\ time \in 0 .. Half - 1 /\ activated \subseteq Timers
  <2>1. t \in Timers /\ activated \subseteq Timers
    BY Kinds DEF TypeOK
  <2>2. time \in 0 .. Half - 1
    BY ONLY Numbers
  <2> QED
    BY <2>1, <2>2
<1>3. Proper(list'["soft"], Soft, OnSoft', key)
  BY <1>1, SoftPut
<1>4. \A x \in OnSoft' : left'[x] = key[x]
  BY <1>2 DEF OnSoft, TypeOK
<1>5. Timing' /\ Ranges'
  <2> HIDE DEF time
  <2>1. timeout_tick'[t] = (tick + time) % Word /\ left'[t] = time /\ (t \in Soft => time = Period[t])
    BY DEF time
  <2> QED
    BY <1>1, <1>2, <2>1, StartTimes
<1> HIDE DEF key
<1>6. Proper(list'["soft"], Soft, OnSoft', left')
  BY <1>3, <1>4, OthersTimes
<1> QED
  BY <1>5, <1>6 DEF SoftList

\* A timer is taken off its list, and some are switched off.
LEMMA WithoutIs ==
  ASSUME TypeOK, Listed, NEW t \in Timers, NEW off, list' = Without(t), TurnOff(off), tick' = tick
  PROVE  /\ Data' /\ Timing' /\ Ranges' /\ activated' = activated \ off
         /\ \A x \in activated' : left'[x] = left[x] /\ timeout_tick'[x] = timeout_tick[x]
         /\ activated' \subseteq activated
         /\ Proper(list'["hard"], HardOnes, (activated \ Soft) \ {t}, left)
         /\ Proper(list'["soft"], Soft, OnSoft \ {t}, left)
         /\ t \notin OnSoft => list'["soft"] = list["soft"]
<1>1. HardList /\ SoftList /\ Timing /\ Ranges
  BY DEF Listed
<1>2. /\ activated' = activated \ off /\ activated' \subseteq activated
      /\ \A x \in activated' : left'[x] = left[x] /\ timeout_tick'[x] = timeout_tick[x]
  BY DEF TurnOff, TypeOK
<1>3. Timing' /\ Ranges'
  BY <1>1, <1>2, StopTimes
<1>4. /\ list'["hard"] = RemoveFirst(list["hard"], t) /\ list'["soft"] = RemoveFirst(list["soft"], t)
      /\ DOMAIN list' = {"hard", "soft"} /\ list' = [k \in DOMAIN list' |-> list'[k]]
  BY DEF Without, TypeOK
<1>5. /\ Proper(RemoveFirst(list["hard"], t), HardOnes, (activated \ Soft) \ {t}, left)
      /\ Proper(RemoveFirst(list["soft"], t), Soft, OnSoft \ {t}, left)
      /\ t \notin OnSoft => RemoveFirst(list["soft"], t) = list["soft"]
  <2>1. /\ Proper(list["hard"], HardOnes, activated \ Soft, left)
        /\ Proper(list["soft"], Soft, OnSoft, left)
    BY <1>1 DEF HardList, SoftList
  <2> QED
    BY ONLY <2>1, TakenOff
<1>6. list' \in [{"hard", "soft"} -> Seq(Timers)]
  <2>1. list'["hard"] \in Seq(Timers) /\ list'["soft"] \in Seq(Timers)
    BY <1>4, <1>5, Kinds, Wider DEF Proper
  <2> QED
    BY <1>4, <2>1
<1>7. timeout_tick' \in [Timers -> 0 .. TickMax] /\ left' \in [Timers -> Int]
  <2>1. 0 \in 0 .. TickMax /\ 0 \in Int
    BY Numbers
  <2> QED
    BY <2>1 DEF TurnOff, TypeOK
<1>8. Data'
  BY <1>2, <1>6, <1>7 DEF Data, TypeOK
<1> QED
  BY <1>2, <1>3, <1>4, <1>5, <1>8

\* The first timer of a list is the one with the least time left.
LEMMA FirstOf ==
  ASSUME NEW s, NEW S, NEW on, NEW key, Proper(s, S, on, key), Keys(key, on), s # <<>>
  PROVE  Head(s) \in on /\ \A x \in on : key[Head(s)] <= key[x]
<1>1. s \in Seq(S) /\ Distinct(s) /\ Sorted(key, s) /\ \A x : In(x, s) <=> x \in on
  BY DEF Proper
<1>3. In(Head(s), s) /\ Head(s) = s[1] /\ Len(s) \in Nat \ {0}
  BY <1>1, Headed
<1>4. Head(s) \in on
  BY <1>1, <1>3
<1>6. ASSUME NEW x \in on PROVE key[Head(s)] <= key[x]
  <2>1. PICK i \in 1 .. Len(s) : s[i] = x
    BY <1>1 DEF In
  <2>2. CASE i = 1
    BY <1>3, <2>1, <2>2 DEF Keys
  <2>3. CASE i # 1
    <3>1. 1 \in 1 .. Len(s) /\ 1 < i
      BY <1>3, <2>3
    <3> QED
      BY <1>1, <1>3, <2>1, <3>1 DEF Sorted
  <2> QED
    BY <2>2, <2>3
<1> QED
  BY <1>4, <1>6

LEMMA FirstSoft ==
  ASSUME TypeOK, SoftList, list["soft"] # <<>>
  PROVE  /\ Head(list["soft"]) \in OnSoft
         /\ Head(list["soft"]) \in activated \cap Soft
         /\ \A x \in OnSoft : left[Head(list["soft"])] <= left[x]
<1>1. OnSoft \subseteq activated \cap Soft /\ Keys(left, OnSoft)
  BY DEF OnSoft, TypeOK, Keys
<1>2. Proper(list["soft"], Soft, OnSoft, left)
  BY DEF SoftList
<1> QED
  BY <1>1, <1>2, FirstOf

\* All that is active is on time: a list whose times all go on.
LEMMA Aged ==
  ASSUME NEW l, NEW S, NEW on, NEW key, NEW other, Proper(l, S, on, key),
         \A x \in on : key[x] \in Int /\ other[x] = key[x] - 1
  PROVE  Proper(l, S, on, other)
<1>1. \A i \in 1 .. Len(l) : l[i] \in on
  BY DEF Proper, In
<1>2. Sorted(other, l)
  BY <1>1, SortedLess DEF Proper
<1> QED
  BY <1>2 DEF Proper

-----------------------------------------------------------------------------
(***************************************************************************)
(* Each action keeps the invariant.  The scalars of the types are those    *)
(* that are not in Data.                                                   *)
(***************************************************************************)
Scalars ==
  /\ tick \in 0 .. TickMax /\ next \in 0 .. TickMax /\ pc \in PC
  /\ running \in Soft \cup {None} /\ temp \in BOOLEAN /\ late \in 0 .. Late
  /\ fooled \in BOOLEAN

LEMMA Types == (TypeOK <=> Scalars /\ Data) /\ (TypeOK' <=> Scalars' /\ Data')
BY DEF TypeOK, Scalars, Data

LEMMA Initial == Init => IInv
<1> SUFFICES ASSUME Init PROVE IInv
  OBVIOUS
<1>1. 0 \in 0 .. TickMax /\ 0 \in 0 .. Late /\ 0 \in Int
  BY Numbers
<1>2. <<>> \in Seq(Timers) /\ <<>> \in Seq(HardOnes) /\ <<>> \in Seq(Soft)
  OBVIOUS
<1>3. list["hard"] = <<>> /\ list["soft"] = <<>> /\ activated = {} /\ OnSoft = {}
  BY DEF Init, OnSoft
<1>4. TypeOK
  <2>2. list = [k \in {"hard", "soft"} |-> <<>>]
    BY DEF Init
  <2>1. list \in [{"hard", "soft"} -> Seq(Timers)]
    BY <1>2, <2>2
  <2> QED
    BY <1>1, <2>1 DEF Init, TypeOK, PC
<1>5. Distinct(<<>>) /\ Sorted(left, <<>>)
  <2>1. Len(<<>>) = 0
    OBVIOUS
  <2>2. 1 .. Len(<<>>) = {}
    BY <2>1
  <2> QED
    BY <2>2 DEF Distinct, Sorted
<1>6. HardList /\ SoftList
  BY <1>2, <1>3, <1>5, NotInEmpty DEF HardList, SoftList, Proper
<1>7. Timing /\ Ranges
  BY <1>3 DEF Timing, Ranges
<1>8. Places
  BY <1>3 DEF Init, Places
<1>9. Known
  BY DEF Init, Known
<1> QED
  BY <1>4, <1>6, <1>7, <1>8, <1>9 DEF IInv, Listed

\* Nothing of the data and of the tick has changed.
LEMMA SameData ==
  ASSUME IInv, UNCHANGED <<tick, data, left>>, Called' = Called
  PROVE  Listed' /\ Data'
<1>1. OnSoft' = OnSoft
  BY DEF OnSoft, data
<1>2. HardList' /\ SoftList'
  BY <1>1 DEF IInv, Listed, HardList, SoftList, data
<1>3. Timing' /\ Ranges'
  BY DEF IInv, Listed, Timing, Ranges, Points, data
<1>4. Data'
  BY Types DEF IInv, Data, data
<1> QED
  BY <1>2, <1>3, <1>4 DEF Listed

LEMMA NextTimeoutStep ==
  ASSUME IInv, rt_timer_list_next_timeout
  PROVE  IInv'
<1> USE DEF rt_timer_list_next_timeout, GoesOn
<1>1. Listed' /\ Data'
  BY SameData DEF Called
<1>2. list' = list /\ timeout_tick' = timeout_tick /\ activated' = activated
  BY DEF data
<1>3. next' \in 0 .. TickMax
  <2>1. CASE list["soft"] = <<>>
    BY <2>1, Numbers
  <2>2. CASE list["soft"] # <<>>
    <3>1. Head(list["soft"]) \in Timers
      BY <2>2, FirstSoft, Kinds DEF IInv, Listed
    <3> QED
      BY <2>2, <3>1 DEF IInv, TypeOK
  <2> QED
    BY <2>1, <2>2
<1>4. Scalars'
  <2>1. 0 \in 0 .. Late
    BY Numbers
  <2> QED
    BY <1>3, <2>1, Types DEF IInv, Scalars, PC
<1>5. Places'
  BY <1>2 DEF IInv, Places
<1>6. Known'
  BY <1>2 DEF Known
<1> QED
  BY <1>1, <1>4, <1>5, <1>6, Types DEF IInv

LEMMA SuspendStep ==
  ASSUME IInv, Suspend
  PROVE  IInv'
<1> USE DEF Suspend, GoesOn
<1>1. Listed' /\ Data'
  BY SameData DEF Called
<1>2. list' = list /\ timeout_tick' = timeout_tick /\ activated' = activated
  BY DEF data
<1>4. Scalars'
  <2>1. 0 \in 0 .. Late /\ 0 \in 0 .. TickMax
    BY Numbers
  <2> QED
    BY <2>1, Types DEF IInv, Scalars, PC
<1>5. Places'
  BY <1>2 DEF IInv, Places
<1>6. list["soft"] # <<>> => fooled'
  BY DEF IInv, Known
<1>7. Known'
  BY <1>2, <1>6 DEF Known
<1> QED
  BY <1>1, <1>4, <1>5, <1>7, Types DEF IInv

LEMMA DelayStep ==
  ASSUME IInv, Delay
  PROVE  IInv'
<1> USE DEF Delay, GoesOn
<1> DEFINE first == Head(list["soft"])
<1>1. Listed' /\ Data'
  BY SameData DEF Called
<1>2. /\ list' = list /\ timeout_tick' = timeout_tick /\ activated' = activated
      /\ left' = left /\ tick' = tick
  BY DEF data
<1>3. list["soft"] # <<>> /\ next = timeout_tick[first]
  BY DEF IInv, Known
<1>4. first \in activated /\ first \in Soft
  BY <1>3, FirstSoft DEF IInv, Listed
<1> HIDE DEF first
<1>5. /\ tick \in 0 .. TickMax /\ next \in 0 .. TickMax /\ left[first] \in Int
      /\ -Half <= left[first] /\ left[first] <= Half - 1 /\ Points(next, tick, left[first])
  BY <1>3, <1>4, Bounds DEF IInv, TypeOK, Listed, Timing
<1>6. next' = left[first] /\ next' < Half /\ next' \in 0 .. TickMax
  BY <1>5, DueIs, MinusIs
<1>7. Scalars'
  <2>1. 0 \in 0 .. Late
    BY Numbers
  <2> QED
    BY <1>6, <2>1, Types DEF IInv, Scalars, PC
<1>8. Places'
  BY <1>2 DEF IInv, Places
<1>9. Known'
  <2>1. next' = left[first] + 0
    BY <1>5, <1>6
  <2> QED
    BY <1>2, <1>3, <1>6, <2>1 DEF Known, first
<1> QED
  BY <1>1, <1>7, <1>8, <1>9, Types DEF IInv

LEMMA OverdueStep ==
  ASSUME IInv, Overdue
  PROVE  IInv'
<1> USE DEF Overdue, GoesOn
<1>1. Listed' /\ Data'
  BY SameData DEF Called
<1>2. list' = list /\ timeout_tick' = timeout_tick /\ activated' = activated
  BY DEF data
<1>4. Scalars'
  <2>1. 0 \in 0 .. Late /\ 0 \in 0 .. TickMax
    BY Numbers
  <2> QED
    BY <2>1, Types DEF IInv, Scalars, PC
<1>5. Places'
  BY <1>2 DEF IInv, Places
<1>6. Known'
  BY DEF Known
<1> QED
  BY <1>1, <1>4, <1>5, <1>6, Types DEF IInv

LEMMA NothingDueStep ==
  ASSUME IInv, NothingDue
  PROVE  IInv'
<1> USE DEF NothingDue, GoesOn
<1>1. Listed' /\ Data'
  BY SameData DEF Called
<1>2. list' = list /\ timeout_tick' = timeout_tick /\ activated' = activated
  BY DEF data
<1>4. Scalars'
  <2>1. 0 \in 0 .. Late
    BY Numbers
  <2> QED
    BY <2>1, Types DEF IInv, Scalars, PC
<1>5. Places'
  BY <1>2 DEF IInv, Places
<1>6. Known'
  BY DEF Known
<1> QED
  BY <1>1, <1>4, <1>5, <1>6, Types DEF IInv

LEMMA ThreadDelayStep ==
  ASSUME IInv, rt_thread_delay
  PROVE  IInv'
<1> USE DEF rt_thread_delay, GoesOn
<1> DEFINE first == Head(list["soft"])
<1>1. list["soft"] # <<>> /\ next = left[first] + late /\ next < Half
  BY DEF IInv, Known
<1>2. first \in activated /\ first # Own
  BY <1>1, FirstSoft, Kinds DEF IInv, Listed
<1>3. Own \in HardOnes \ activated
  BY Kinds DEF IInv, Places
<1>4. next \in 0 .. Half - 1
  BY <1>1, Numbers DEF IInv, TypeOK
<1> HIDE DEF first
<1>5. /\ Listed' /\ Data' /\ list'["soft"] = list["soft"]
      /\ activated' = activated \cup {Own} /\ left'[Own] = next
      /\ \A x \in activated : left'[x] = left[x] /\ timeout_tick'[x] = timeout_tick[x]
  <2> DEFINE time == next
  <2>1. rt_timer_start(Own, time) /\ UNCHANGED <<tick, running, temp>> /\ time \in 0 .. Half - 1
    BY <1>4
  <2>2. TypeOK /\ Listed
    BY DEF IInv
  <2> HIDE DEF time
  <2>3. /\ Listed' /\ Data' /\ list'["soft"] = list["soft"]
        /\ activated' = activated \cup {Own} /\ left'[Own] = time
        /\ \A x \in activated : left'[x] = left[x] /\ timeout_tick'[x] = timeout_tick[x]
    BY ONLY <1>3, <2>1, <2>2, HardStart
  <2> QED
    BY <2>3 DEF time
<1>6. Scalars'
  <2>1. 0 \in 0 .. Late /\ 0 \in 0 .. TickMax
    BY Numbers
  <2> QED
    BY <2>1, Types DEF IInv, Scalars, PC
<1>7. Places'
  <2>1. ~fooled /\ ~temp
    BY DEF IInv, Places
  <2> QED
    BY <1>5, <2>1 DEF IInv, Places
<1>8. Known'
  <2>1. left'[Own] <= left'[first] + Late
    <3>1. left[first] \in Int /\ late \in Int /\ late <= Late /\ Late \in Int
      BY <1>2, Numbers DEF IInv, TypeOK
    <3>2. left'[Own] = left[first] + late /\ left'[first] = left[first]
      BY <1>1, <1>2, <1>5
    <3> QED
      BY <3>1, <3>2
  <2>2. pc' = "sleep" /\ Own \in activated'
    BY <1>5
  <2> QED
    BY <1>5, <2>1, <2>2 DEF Known, first
<1> QED
  BY <1>5, <1>6, <1>7, <1>8, Types DEF IInv

LEMMA CallStep ==
  ASSUME IInv, Call
  PROVE  IInv'
<1> DEFINE t == Head(list["soft"])
           off == {t} \ Periodic
<1>1. /\ pc \in {"check", "again"} /\ list["soft"] # <<>> /\ pc' = "call" /\ late' = 0
      /\ running' = t /\ temp' = TRUE /\ list' = Without(t) /\ TurnOff(off)
      /\ tick' = tick /\ next' = next /\ fooled' = fooled
  BY DEF Call
<1>2. t \in OnSoft /\ t \in activated /\ t \in Soft
  BY <1>1, FirstSoft DEF IInv, Listed
<1>3. t \in Timers /\ t \notin activated \ Soft
  BY <1>2, Kinds
<1>4. TypeOK /\ Listed /\ ~temp /\ ~fooled /\ Own \notin activated
  BY <1>1 DEF IInv, Places
<1> HIDE DEF t, off
<1>5. /\ Data' /\ Timing' /\ Ranges' /\ activated' = activated \ off
      /\ \A x \in activated' : left'[x] = left[x] /\ timeout_tick'[x] = timeout_tick[x]
      /\ Proper(list'["hard"], HardOnes, (activated \ Soft) \ {t}, left)
      /\ Proper(list'["soft"], Soft, OnSoft \ {t}, left)
  BY ONLY <1>1, <1>3, <1>4, WithoutIs
<1>6. off \subseteq {t} /\ (t \notin Periodic => t \in off)
  BY DEF off
<1>7. HardList'
  <2>1. activated' \ Soft = (activated \ Soft) \ {t}
    BY <1>2, <1>5, <1>6
  <2>2. \A x \in activated' \ Soft : left'[x] = left[x]
    BY <1>5
  <2>3. Proper(list'["hard"], HardOnes, activated' \ Soft, left')
    BY <1>5, <2>1, <2>2, OthersTimes
  <2> QED
    BY <2>3 DEF HardList
<1>8. SoftList'
  <2>1. OnSoft' = OnSoft \ {t}
    BY <1>1, <1>4, <1>5, <1>6 DEF OnSoft, Called
  <2>2. \A x \in OnSoft \ {t} : left'[x] = left[x]
    BY <1>5, <1>6 DEF OnSoft
  <2>3. Proper(list'["soft"], Soft, OnSoft \ {t}, left')
    BY <1>5, <2>2, OthersTimes
  <2> QED
    BY <2>1, <2>3 DEF SoftList
<1>9. Scalars'
  <2>1. 0 \in 0 .. Late
    BY Numbers
  <2> QED
    BY <1>1, <1>2, <2>1, Types DEF IInv, Scalars, PC
<1>10. Places'
  <2>1. running' # None
    BY <1>1, <1>3, Kinds
  <2>2. running' \in Periodic \/ running' \notin activated'
    BY <1>1, <1>5, <1>6
  <2> QED
    BY <1>1, <1>4, <1>5, <2>1, <2>2 DEF Places
<1>11. Known'
  BY <1>1 DEF Known
<1> QED
  BY <1>5, <1>7, <1>8, <1>9, <1>10, <1>11, Types DEF IInv, Listed

LEMMA ReturnStep ==
  ASSUME IInv, Return
  PROVE  IInv'
<1> DEFINE t == running
<1>1. /\ pc = "call" /\ pc' = "again" /\ late' = 0 /\ running' = None /\ temp' = FALSE
      /\ tick' = tick /\ next' = next /\ fooled' = fooled
  BY DEF Return, GoesOn
<1>2. /\ TypeOK /\ Listed /\ ~fooled /\ Own \notin activated /\ t \in Soft
      /\ HardList /\ SoftList /\ activated \subseteq Timers /\ t \in Timers
  BY <1>1, Kinds DEF IInv, Places, TypeOK, Listed
<1>3. Scalars'
  <2>1. 0 \in 0 .. Late
    BY Numbers
  <2> QED
    BY <1>1, <2>1, Types DEF IInv, Scalars, PC
<1>4. Known'
  BY <1>1 DEF Known
<1>5. CASE temp /\ t \in Periodic \cap activated
  <2> DEFINE when == (tick + Period[t]) % Word
  <2>1. /\ list' = [Without(t) EXCEPT !["soft"] = Insert(@, t, when)]
        /\ timeout_tick' = [timeout_tick EXCEPT ![t] = when]
        /\ activated' = activated \cup {t} /\ left' = [left EXCEPT ![t] = Period[t]]
    BY <1>2, <1>5, Kinds DEF Return, rt_timer_start
  <2>2. activated' = activated
    BY <1>5, <2>1
  <2>3. OnSoft' = (OnSoft \ {t}) \cup {t}
    BY <1>1, <1>2, <1>5, <2>2 DEF OnSoft, Called
  <2>4. RemoveFirst(list["hard"], t) = list["hard"]
    <3>1. Proper(list["hard"], HardOnes, activated \ Soft, left) /\ t \notin activated \ Soft
      BY <1>2 DEF HardList
    <3> QED
      BY ONLY <3>1, TakenOff
  <2>5. /\ list'["soft"] = Insert(RemoveFirst(list["soft"], t), t, when)
        /\ list'["hard"] = list["hard"]
        /\ DOMAIN list' = {"hard", "soft"} /\ list' = [k \in DOMAIN list' |-> list'[k]]
    BY <1>2, <2>1, <2>4 DEF Without, TypeOK
  <2>6. when \in 0 .. TickMax /\ Period[t] \in Int
    <3>1. Period[t] \in 0 .. Half - 1
      BY <1>2, Numbers
    <3>2. tick \in 0 .. TickMax
      BY <1>2 DEF TypeOK
    <3> DEFINE time == Period[t]
    <3> HIDE DEF time
    <3>3. (tick + time) % Word \in 0 .. TickMax
      BY <3>1, <3>2, StartPoints DEF time
    <3> QED
      BY <3>1, <3>3 DEF time
  <2>7. /\ timeout_tick' \in [Timers -> 0 .. TickMax] /\ left' \in [Timers -> Int]
        /\ timeout_tick'[t] = when /\ left'[t] = Period[t]
        /\ \A x \in activated' : x # t => timeout_tick'[x] = timeout_tick[x] /\ left'[x] = left[x]
    <3> HIDE DEF when
    <3> QED
      BY <1>2, <2>1, <2>2, <2>6 DEF TypeOK
  <2>8. SoftList' /\ Timing' /\ Ranges'
    <3> HIDE DEF t
    <3>1. activated' \subseteq activated \cup {t}
      BY <2>2
    <3> QED
      BY ONLY <1>1, <1>2, <2>3, <2>5, <2>7, <3>1, SoftStart
  <2>9. HardList'
    <3>1. \A x \in activated \ Soft : left'[x] = left[x]
      BY <1>2, <2>2, <2>7
    <3>2. Proper(list["hard"], HardOnes, activated \ Soft, left')
      BY <1>2, <3>1, OthersTimes DEF HardList
    <3> QED
      BY <2>2, <2>5, <3>2 DEF HardList
  <2>10. list' \in [{"hard", "soft"} -> Seq(Timers)]
    <3>1. list'["hard"] \in Seq(Timers) /\ list'["soft"] \in Seq(Timers)
      BY <2>8, <2>9, Kinds, Wider DEF HardList, SoftList, Proper
    <3> QED
      BY <2>5, <3>1
  <2>11. Data' /\ Listed'
    BY <1>2, <2>2, <2>7, <2>8, <2>9, <2>10 DEF Data, Listed
  <2>12. Places'
    BY <1>1, <1>2, <2>2 DEF Places
  <2> QED
    BY <1>3, <1>4, <2>11, <2>12, Types DEF IInv
<1>6. CASE ~(temp /\ t \in Periodic \cap activated)
  <2>1. UNCHANGED <<data, left>>
    BY <1>6 DEF Return
  <2>2. list' = list /\ timeout_tick' = timeout_tick /\ activated' = activated /\ left' = left
    BY <2>1 DEF data
  <2>3. temp => t \notin activated
    BY <1>6 DEF IInv, Places
  <2>4. OnSoft' = OnSoft
    BY <1>1, <2>2, <2>3 DEF OnSoft, Called
  <2>5. Listed' /\ Data'
    <3>1. HardList' /\ SoftList'
      BY <1>2, <2>2, <2>4 DEF HardList, SoftList
    <3>2. Timing' /\ Ranges'
      BY <1>1, <1>2, <2>2 DEF Listed, Timing, Ranges, Points
    <3>3. Data'
      BY <1>2, <2>2, Types DEF Data
    <3> QED
      BY <3>1, <3>2, <3>3 DEF Listed
  <2>6. Places'
    BY <1>1, <1>2, <2>2 DEF Places
  <2> QED
    BY <1>3, <1>4, <2>5, <2>6, Types DEF IInv
<1> QED
  BY <1>5, <1>6

LEMMA ThreadSleepsStep ==
  ASSUME IInv, NEW t \in Hard, NEW time \in SleepTimes, ThreadSleeps(t, time)
  PROVE  IInv'
<1>1. /\ t \in HardOnes \ activated /\ t # Own /\ rt_timer_start(t, time) /\ pc # "again"
      /\ UNCHANGED <<tick, pc, next, running, temp, late, fooled>>
  BY Kinds, TimerAssumption DEF ThreadSleeps, Unmasked
<1>2. time \in 0 .. Half - 1 /\ TypeOK /\ Listed
  BY TimerAssumption DEF IInv
<1>3. /\ Listed' /\ Data' /\ list'["soft"] = list["soft"]
      /\ activated' = activated \cup {t} /\ left'[t] = time
      /\ \A x \in activated : left'[x] = left[x] /\ timeout_tick'[x] = timeout_tick[x]
  BY ONLY <1>1, <1>2, HardStart
<1>4. Scalars'
  BY <1>1, <1>2, Types DEF Scalars
<1>5. Places'
  <2>1. t \notin Soft
    BY <1>1, Kinds
  <2>2. running \in Soft \cup {None} /\ (running \notin Soft => running = None)
    BY <1>2 DEF TypeOK
  <2>3. temp => running # None
    BY DEF IInv, Places
  <2>4. Own \in activated' => Own \in activated
    BY <1>1, <1>3
  <2> QED
    BY <1>1, <1>3, <2>1, <2>2, <2>3, <2>4 DEF IInv, Places
<1>6. Known'
  <2>1. list["soft"] # <<>> => Head(list["soft"]) \in activated
    BY <1>2, FirstSoft DEF Listed
  <2> QED
    BY <1>1, <1>3, <2>1 DEF IInv, Known
<1> QED
  BY <1>3, <1>4, <1>5, <1>6, Types DEF IInv

LEMMA ThreadWokenStep ==
  ASSUME IInv, NEW t \in Hard, ThreadWoken(t)
  PROVE  IInv'
<1>1. /\ t \in activated /\ list' = Without(t) /\ TurnOff({t})
      /\ UNCHANGED <<tick, pc, next, running, temp, late, fooled>>
  BY DEF ThreadWoken
<1>2. TypeOK /\ Listed /\ t \in Timers /\ t \notin Soft /\ t # Own /\ t \notin OnSoft
  BY Kinds, TimerAssumption DEF IInv, OnSoft
<1>3. /\ Data' /\ Timing' /\ Ranges' /\ activated' = activated \ {t}
      /\ \A x \in activated' : left'[x] = left[x] /\ timeout_tick'[x] = timeout_tick[x]
      /\ Proper(list'["hard"], HardOnes, (activated \ Soft) \ {t}, left)
      /\ Proper(list'["soft"], Soft, OnSoft \ {t}, left)
      /\ list'["soft"] = list["soft"]
  <2> DEFINE off == {t}
  <2>1. TurnOff(off)
    BY <1>1
  <2> HIDE DEF off
  <2>2. /\ Data' /\ Timing' /\ Ranges' /\ activated' = activated \ off
        /\ \A x \in activated' : left'[x] = left[x] /\ timeout_tick'[x] = timeout_tick[x]
        /\ Proper(list'["hard"], HardOnes, (activated \ Soft) \ {t}, left)
        /\ Proper(list'["soft"], Soft, OnSoft \ {t}, left)
        /\ list'["soft"] = list["soft"]
    BY ONLY <1>1, <1>2, <2>1, WithoutIs
  <2> QED
    BY <2>2 DEF off
<1>4. HardList'
  <2>1. activated' \ Soft = (activated \ Soft) \ {t}
    BY <1>3
  <2>2. \A x \in activated' \ Soft : left'[x] = left[x]
    BY <1>3
  <2>3. Proper(list'["hard"], HardOnes, activated' \ Soft, left')
    BY <1>3, <2>1, <2>2, OthersTimes
  <2> QED
    BY <2>3 DEF HardList
<1>5. SoftList'
  <2>1. OnSoft' = OnSoft \ {t}
    BY <1>1, <1>3 DEF OnSoft, Called
  <2>2. \A x \in OnSoft \ {t} : left'[x] = left[x]
    BY <1>3 DEF OnSoft
  <2>3. Proper(list'["soft"], Soft, OnSoft \ {t}, left')
    BY <1>3, <2>2, OthersTimes
  <2> QED
    BY <2>1, <2>3 DEF SoftList
<1>6. Scalars'
  BY <1>1, <1>2, Types DEF Scalars
<1>7. Places'
  BY <1>1, <1>3 DEF IInv, Places
<1>8. Known'
  <2>1. list["soft"] # <<>> => Head(list["soft"]) \in activated /\ Head(list["soft"]) \in Soft
    BY <1>2, FirstSoft DEF Listed
  <2>2. Own \in activated => Own \in activated'
    BY <1>2, <1>3
  <2>3. list["soft"] # <<>> => Head(list["soft"]) \in activated'
    BY <1>2, <1>3, <2>1
  <2> QED
    BY <1>1, <1>3, <2>2, <2>3 DEF IInv, Known
<1> QED
  BY <1>3, <1>4, <1>5, <1>6, <1>7, <1>8, Types DEF IInv, Listed

LEMMA StopSoftStep ==
  ASSUME IInv, NEW t \in Soft, StopSoft(t)
  PROVE  IInv'
<1>1. /\ t \in activated /\ pc \in {"sleep", "call"} /\ list' = Without(t) /\ TurnOff({t})
      /\ temp' = (temp /\ running # t)
      /\ UNCHANGED <<tick, pc, next, running, late, fooled>>
  BY DEF StopSoft
<1>2. TypeOK /\ Listed /\ t \in Timers /\ t # Own /\ t \notin activated \ Soft
  BY Kinds DEF IInv
<1>3. /\ Data' /\ Timing' /\ Ranges' /\ activated' = activated \ {t}
      /\ \A x \in activated' : left'[x] = left[x] /\ timeout_tick'[x] = timeout_tick[x]
      /\ Proper(list'["hard"], HardOnes, (activated \ Soft) \ {t}, left)
      /\ Proper(list'["soft"], Soft, OnSoft \ {t}, left)
      /\ t \notin OnSoft => list'["soft"] = list["soft"]
  <2> DEFINE off == {t}
  <2>1. TurnOff(off)
    BY <1>1
  <2> HIDE DEF off
  <2>2. /\ Data' /\ Timing' /\ Ranges' /\ activated' = activated \ off
        /\ \A x \in activated' : left'[x] = left[x] /\ timeout_tick'[x] = timeout_tick[x]
        /\ Proper(list'["hard"], HardOnes, (activated \ Soft) \ {t}, left)
        /\ Proper(list'["soft"], Soft, OnSoft \ {t}, left)
        /\ t \notin OnSoft => list'["soft"] = list["soft"]
    BY ONLY <1>1, <1>2, <2>1, WithoutIs
  <2> QED
    BY <2>2 DEF off
<1>4. HardList'
  <2>1. activated' \ Soft = (activated \ Soft) \ {t}
    BY <1>3
  <2>2. \A x \in activated' \ Soft : left'[x] = left[x]
    BY <1>3
  <2>3. Proper(list'["hard"], HardOnes, activated' \ Soft, left')
    BY <1>3, <2>1, <2>2, OthersTimes
  <2> QED
    BY <2>3 DEF HardList
<1>5. OnSoft' = OnSoft \ {t}
  BY <1>1, <1>3 DEF OnSoft, Called
<1>6. SoftList'
  <2>1. \A x \in OnSoft \ {t} : left'[x] = left[x]
    BY <1>3 DEF OnSoft
  <2>2. Proper(list'["soft"], Soft, OnSoft \ {t}, left')
    BY <1>3, <2>1, OthersTimes
  <2> QED
    BY <1>5, <2>2 DEF SoftList
<1>7. Scalars'
  BY <1>1, <1>2, Types DEF Scalars
<1>8. Places'
  BY <1>1, <1>2, <1>3 DEF IInv, Places
<1>9. Known'
  <2> DEFINE was == Head(list["soft"])
             is == Head(list'["soft"])
  <2>1. SUFFICES ASSUME pc = "sleep", list'["soft"] # <<>>, ~fooled
                 PROVE  Own \in activated' /\ left'[Own] <= left'[is] + Late
    BY <1>1 DEF Known
  <2>2. Proper(list'["soft"], Soft, OnSoft', left') /\ Keys(left', OnSoft')
    <3>1. left' \in [Timers -> Int] /\ activated' \subseteq Timers
      BY <1>3 DEF Data
    <3> QED
      BY <1>6, <3>1 DEF SoftList, OnSoft, Keys
  <2>3. is \in OnSoft'
    BY <2>1, <2>2, FirstOf
  <2>4. is \in OnSoft /\ is \in activated' /\ is \in activated
    BY <1>5, <2>3 DEF OnSoft
  <2>5. list["soft"] # <<>>
    BY <1>2, <2>4, NotInEmpty DEF Listed, SoftList, Proper
  <2>6. was \in activated /\ left[was] <= left[is]
    BY <1>2, <2>4, <2>5, FirstSoft DEF Listed
  <2>7. Own \in activated /\ left[Own] <= left[was] + Late
    BY <2>1, <2>5 DEF IInv, Known
  <2> HIDE DEF was, is
  <2>8. left[was] \in Int /\ left[is] \in Int /\ left[Own] \in Int /\ Late \in Int
    BY <1>2, <2>4, <2>6, <2>7, Bounds, Numbers DEF Listed
  <2>9. left[Own] <= left[is] + Late
    BY <2>6, <2>7, <2>8
  <2>10. Own \in activated' /\ left'[Own] = left[Own] /\ left'[is] = left[is]
    BY <1>2, <1>3, <2>4, <2>7
  <2> QED
    BY <2>9, <2>10
<1> QED
  BY <1>3, <1>4, <1>6, <1>7, <1>8, <1>9, Types DEF IInv, Listed

LEMMA StartSoftStep ==
  ASSUME IInv, NEW t \in Soft, StartSoft(t)
  PROVE  IInv'
<1> DEFINE when == (tick + Period[t]) % Word
           woken == IF pc = "sleep" THEN {Own} ELSE {}
<1>1. /\ pc \in {"sleep", "call"} /\ pc' = IF pc = "sleep" THEN "check" ELSE pc
      /\ temp' = (temp /\ running # t) /\ fooled' = FALSE
      /\ tick' = tick /\ next' = next /\ running' = running /\ late' = late
  BY DEF StartSoft
<1>2. /\ list'["soft"] = Insert(RemoveFirst(list["soft"], t), t, when)
      /\ list'["hard"] = IF pc = "sleep" THEN RemoveFirst(list["hard"], Own) ELSE list["hard"]
      /\ list' = [k \in {"hard", "soft"} |-> list'[k]]
      /\ activated' = (activated \cup {t}) \ woken
  BY DEF StartSoft
<1>3. /\ timeout_tick' = [u \in Timers |-> IF u = t THEN when
                                           ELSE IF u \in woken THEN 0 ELSE timeout_tick[u]]
      /\ left' = [u \in Timers |-> IF u = t THEN Period[t]
                                   ELSE IF u \in woken THEN 0 ELSE left[u]]
  BY DEF StartSoft
<1>4. /\ TypeOK /\ Listed /\ HardList /\ SoftList /\ t \in Timers /\ t # Own /\ Own \notin Soft
      /\ activated \subseteq Timers
  BY Kinds DEF IInv, Listed, TypeOK
<1>5. when \in 0 .. TickMax /\ Period[t] \in Int /\ 0 \in 0 .. TickMax
  <2> DEFINE time == Period[t]
  <2>1. time \in 0 .. Half - 1 /\ time \in Int /\ 0 \in 0 .. TickMax
    BY ONLY Numbers
  <2>2. tick \in 0 .. TickMax
    BY <1>4 DEF TypeOK
  <2> HIDE DEF time
  <2>3. (tick + time) % Word \in 0 .. TickMax
    BY <2>1, <2>2, StartPoints
  <2> QED
    BY <2>1, <2>3 DEF time
<1> HIDE DEF when
<1>6. woken \subseteq {Own} /\ Own \notin activated'
  BY <1>1, <1>2, <1>4 DEF IInv, Places
<1>7. /\ timeout_tick' \in [Timers -> 0 .. TickMax] /\ left' \in [Timers -> Int]
      /\ timeout_tick'[t] = when /\ left'[t] = Period[t]
      /\ \A x \in activated' : x # t => timeout_tick'[x] = timeout_tick[x] /\ left'[x] = left[x]
  BY <1>2, <1>3, <1>4, <1>5 DEF TypeOK
<1>8. OnSoft' = (OnSoft \ {t}) \cup {t}
  BY <1>1, <1>2, <1>4, <1>6 DEF OnSoft, Called
<1>9. SoftList' /\ Timing' /\ Ranges'
  <2>1. activated' \subseteq activated \cup {t}
    BY <1>2
  <2> QED
    BY <1>1, <1>2, <1>4, <1>7, <1>8, <2>1, SoftStart DEF when
<1>10. HardList'
  <2>1. activated' \ Soft = (activated \ Soft) \ {Own}
    BY <1>2, <1>4, <1>6
  <2>2. \A x \in activated' \ Soft : left'[x] = left[x]
    BY <1>4, <1>7
  <2>3. Proper(list'["hard"], HardOnes, (activated \ Soft) \ {Own}, left)
    <3>1. Proper(list["hard"], HardOnes, activated \ Soft, left)
      BY <1>4 DEF HardList
    <3>2. Proper(RemoveFirst(list["hard"], Own), HardOnes, (activated \ Soft) \ {Own}, left)
      BY ONLY <3>1, TakenOff
    <3>3. CASE pc = "sleep"
      BY <1>2, <3>2, <3>3
    <3>4. CASE pc # "sleep"
      <4>1. (activated \ Soft) \ {Own} = activated \ Soft
        BY <3>4 DEF IInv, Places
      <4> QED
        BY <1>2, <3>1, <3>4, <4>1
    <3> QED
      BY <3>3, <3>4
  <2>4. Proper(list'["hard"], HardOnes, activated' \ Soft, left')
    BY <2>1, <2>2, <2>3, OthersTimes
  <2> QED
    BY <2>4 DEF HardList
<1>11. list' \in [{"hard", "soft"} -> Seq(Timers)]
  <2>1. list'["hard"] \in Seq(Timers) /\ list'["soft"] \in Seq(Timers)
    BY <1>9, <1>10, Kinds, Wider DEF HardList, SoftList, Proper
  <2> QED
    BY <1>2, <2>1
<1>12. Data'
  BY <1>2, <1>4, <1>7, <1>11 DEF Data
<1>13. Scalars'
  BY <1>1, <1>4, Types DEF Scalars, PC
<1>14. Places'
  BY <1>1, <1>2, <1>6 DEF IInv, Places
<1>15. Known'
  BY <1>1 DEF Known
<1> QED
  BY <1>9, <1>10, <1>12, <1>13, <1>14, <1>15, Types DEF IInv, Listed

\* The hard timers that the tick finds due are those at the front that have
\* no time left; all behind them have some.
LEMMA FrontIsDue ==
  ASSUME TypeOK, HardList, Timing, Ranges,
         NEW waits, waits = {i \in DOMAIN list["hard"] : ~Due(list["hard"][i], (tick + 1) % Word)},
         NEW n, waits = {} => n = Len(list["hard"]), waits # {} => n = Min(waits) - 1
  PROVE  /\ n \in 0 .. Len(list["hard"])
         /\ \A i \in 1 .. Len(list["hard"]) :
              /\ i <= n => left[list["hard"][i]] <= 1
              /\ i > n => left[list["hard"][i]] >= 2
<1> DEFINE s == list["hard"]
           now == (tick + 1) % Word
<1>1. /\ s \in Seq(HardOnes) /\ Sorted(left, s) /\ Len(s) \in Nat /\ DOMAIN s = 1 .. Len(s)
      /\ \A i \in 1 .. Len(s) : s[i] \in activated \ Soft
  <2>1. s \in Seq(HardOnes) /\ Sorted(left, s) /\ \A x : In(x, s) <=> x \in activated \ Soft
    BY DEF HardList, Proper
  <2> HIDE DEF s
  <2> QED
    BY <2>1, LenProperties DEF In
<1>2. waits = {i \in DOMAIN s : ~Due(s[i], now)}
  OBVIOUS
<1> HIDE DEF s, now
<1>3. ASSUME NEW i \in 1 .. Len(s)
      PROVE  left[s[i]] \in Int /\ (Due(s[i], now) <=> left[s[i]] <= 1)
  <2> DEFINE when == timeout_tick[s[i]]
             time == left[s[i]]
  <2>1. s[i] \in activated /\ s[i] \notin Soft
    BY <1>1
  <2>2. when \in 0 .. TickMax /\ time \in 0 .. Half - 1 /\ Points(when, tick, time) /\ tick \in 0 .. TickMax
    BY <2>1 DEF TypeOK, Timing, Ranges
  <2>3. Due(s[i], now) <=> Minus(now, when) < Half
    BY DEF Due
  <2> HIDE DEF when, time
  <2>4. time \in Int /\ -Half <= time /\ time <= Half /\ Half \in Nat /\ Half >= 2
    BY <2>2, Numbers
  <2>5. now \in 0 .. TickMax /\ Points(when, now, time - 1)
    BY <2>2, <2>4, TickPoints DEF now
  <2> DEFINE rest == time - 1
  <2>6. rest \in Int /\ -Half < rest /\ -Half <= rest /\ rest <= Half - 1 /\ (rest <= 0 <=> time <= 1)
    BY <2>2, <2>4
  <2>7. Points(when, now, rest)
    BY <2>5
  <2> HIDE DEF rest
  <2>8. /\ Minus(now, when) < Half => rest <= 0
        /\ rest <= 0 /\ rest > -Half => Minus(now, when) < Half
    BY <2>2, <2>5, <2>6, <2>7, DueIs
  <2>9. rest > -Half
    BY <2>4, <2>6
  <2>10. Minus(now, when) < Half <=> time <= 1
    BY <2>6, <2>8, <2>9
  <2> QED
    BY <2>3, <2>4, <2>10 DEF time
<1>4. /\ waits \in SUBSET Nat /\ waits \subseteq 1 .. Len(s)
      /\ \A i \in 1 .. Len(s) : i \in waits <=> ~(left[s[i]] <= 1)
  BY <1>1, <1>2, <1>3
<1>5. CASE waits = {}
  <2>1. n = Len(s)
    BY <1>5 DEF s
  <2>2. n \in 0 .. Len(s)
    BY <1>1, <2>1
  <2>3. ASSUME NEW i \in 1 .. Len(s) PROVE i <= n /\ left[s[i]] <= 1
    BY <1>1, <1>4, <1>5, <2>1
  <2>4. ASSUME NEW i \in 1 .. Len(s) PROVE ~(i > n)
    BY <1>1, <2>1
  <2> QED
    BY <2>2, <2>3, <2>4 DEF s
<1>6. CASE waits # {}
  <2> DEFINE m == Min(waits)
  <2>1. m \in waits /\ \A i \in waits : m <= i
    BY <1>4, <1>6, MinIs
  <2>2. n = m - 1
    BY <1>6
  <2> HIDE DEF m
  <2>3. m \in 1 .. Len(s) /\ ~(left[s[m]] <= 1)
    BY <1>4, <2>1
  <2>4. n \in 0 .. Len(s)
    BY <1>1, <2>2, <2>3
  <2>5. ASSUME NEW i \in 1 .. Len(s), i <= n PROVE left[s[i]] <= 1
    <3>1. i < m
      BY <1>1, <2>2, <2>3, <2>5
    <3>2. i \notin waits
      BY <1>1, <2>1, <2>3, <3>1
    <3> QED
      BY <1>4, <3>2
  <2>6. ASSUME NEW i \in 1 .. Len(s), i > n PROVE left[s[i]] >= 2
    <3>1. i = m \/ m < i
      BY <1>1, <2>2, <2>3, <2>6
    <3>2. left[s[i]] \in Int /\ left[s[m]] \in Int
      BY <1>3, <2>3
    <3>3. left[s[m]] <= left[s[i]]
      BY <1>1, <2>3, <3>1, <3>2 DEF Sorted
    <3> QED
      BY <2>3, <3>2, <3>3
  <2> QED
    BY <2>4, <2>5, <2>6 DEF s
<1> QED
  BY <1>5, <1>6

LEMMA TickStep ==
  ASSUME IInv, Tick
  PROVE  /\ IInv'
         /\ \A t \in activated \ activated' : left[t] <= 1
<1> DEFINE now == (tick + 1) % Word
           hard == list["hard"]
           waits == {i \in DOMAIN hard : ~Due(hard[i], now)}
           n == IF waits = {} THEN Len(hard) ELSE Min(waits) - 1
           fired == {hard[i] : i \in 1 .. n}
           rest == SubSeq(hard, n + 1, Len(hard))
<1>1. /\ TypeOK /\ Listed /\ HardList /\ SoftList /\ Timing /\ Ranges
      /\ activated \subseteq Timers /\ left \in [Timers -> Int] /\ Places /\ Known
  BY DEF IInv, Listed, TypeOK
<1>2. n \in 0 .. Len(hard)
      /\ \A i \in 1 .. Len(hard) :
           (i <= n => left[hard[i]] <= 1) /\ (i > n => left[hard[i]] >= 2)
  <2>1. waits = {} => n = Len(hard)
    OBVIOUS
  <2>2. waits # {} => n = Min(waits) - 1
    OBVIOUS
  <2>3. waits = {i \in DOMAIN list["hard"] : ~Due(list["hard"][i], (tick + 1) % Word)}
    OBVIOUS
  <2> HIDE DEF waits, n
  <2> QED
    BY <1>1, <2>1, <2>2, <2>3, FrontIsDue
<1>3. /\ (pc # "sleep" => late < Late)
      /\ \A t \in Soft \cap activated, u \in Soft :
           left[t] > IF fooled THEN -Late ELSE Period[u] - Half - 1
      /\ tick' = now /\ list' = [list EXCEPT !["hard"] = rest]
      /\ activated' = activated \ fired
      /\ timeout_tick' = [t \in Timers |-> IF t \in fired THEN 0 ELSE timeout_tick[t]]
      /\ left' = [t \in Timers |-> IF t \in activated \ fired THEN left[t] - 1 ELSE 0]
      /\ late' = (IF pc = "sleep" THEN 0 ELSE late + 1)
      /\ pc' = (IF Own \in fired THEN "check" ELSE pc)
      /\ UNCHANGED <<next, running, temp, fooled>>
  BY DEF Tick
<1>4. /\ hard \in Seq(HardOnes) /\ Distinct(hard) /\ Sorted(left, hard) /\ Len(hard) \in Nat
      /\ \A x : In(x, hard) <=> x \in activated \ Soft
  <2>1. hard \in Seq(HardOnes) /\ Distinct(hard) /\ Sorted(left, hard)
        /\ \A x : In(x, hard) <=> x \in activated \ Soft
    BY <1>1 DEF HardList, Proper
  <2> HIDE DEF hard
  <2> QED
    BY <2>1, LenProperties
<1> HIDE DEF waits, n, hard
<1>5. /\ \A t \in fired : t \in activated \ Soft /\ left[t] <= 1
      /\ \A t \in activated \ Soft : t \notin fired => left[t] >= 2
  <2>1. ASSUME NEW i \in 1 .. n PROVE hard[i] \in activated \ Soft /\ left[hard[i]] <= 1
    <3>1. i \in 1 .. Len(hard) /\ i <= n
      BY <1>2, <1>4
    <3> QED
      BY <1>2, <1>4, <3>1 DEF In
  <2>2. ASSUME NEW t \in activated \ Soft, t \notin fired PROVE left[t] >= 2
    <3>1. PICK i \in 1 .. Len(hard) : hard[i] = t
      BY <1>4 DEF In
    <3>2. i \notin 1 .. n
      BY <2>2, <3>1
    <3>3. i > n
      BY <1>2, <1>4, <3>1, <3>2
    <3> QED
      BY <1>2, <3>1, <3>3
  <2> QED
    BY <2>1, <2>2
<1>6. /\ rest \in Seq(HardOnes) /\ Distinct(rest) /\ Within(rest, hard)
      /\ \A x : In(x, rest) <=> In(x, hard) /\ x \notin fired
  BY <1>2, <1>4, Rest
<1> HIDE DEF fired, rest, now
<1>7. /\ list'["hard"] = rest /\ list'["soft"] = list["soft"]
      /\ DOMAIN list' = {"hard", "soft"} /\ list' = [k \in DOMAIN list' |-> list'[k]]
  BY <1>1, <1>3 DEF TypeOK
<1>8. \A x \in activated' : /\ x \in activated /\ x \notin fired
                            /\ left[x] \in Int /\ left'[x] = left[x] - 1
                            /\ timeout_tick'[x] = timeout_tick[x]
  BY <1>1, <1>3
<1>9. HardList'
  <2>1. Proper(rest, HardOnes, (activated \ Soft) \ fired, left)
    <3>1. Sorted(left, rest)
      BY <1>4, <1>6, WithinSorted
    <3>2. \A x : In(x, rest) <=> x \in (activated \ Soft) \ fired
      BY <1>4, <1>6
    <3> QED
      BY <1>6, <3>1, <3>2 DEF Proper
  <2>2. activated' \ Soft = (activated \ Soft) \ fired
    BY <1>3
  <2>3. \A x \in activated' \ Soft : left[x] \in Int /\ left'[x] = left[x] - 1
    BY <1>8
  <2>4. Proper(rest, HardOnes, activated' \ Soft, left')
    BY <2>1, <2>2, <2>3, Aged
  <2> QED
    BY <1>7, <2>4 DEF HardList
<1>10. OnSoft' = OnSoft /\ OnSoft \subseteq activated'
  BY <1>3, <1>5 DEF OnSoft, Called
<1>11. SoftList'
  <2>1. Proper(list["soft"], Soft, OnSoft, left)
    BY <1>1 DEF SoftList
  <2>2. \A x \in OnSoft : left[x] \in Int /\ left'[x] = left[x] - 1
    BY <1>8, <1>10
  <2>3. Proper(list["soft"], Soft, OnSoft, left')
    BY <2>1, <2>2, Aged
  <2> QED
    BY <1>7, <1>10, <2>3 DEF SoftList
<1>12. now \in 0 .. TickMax /\ \A x \in activated' : Points(timeout_tick[x], now, left[x] - 1)
  <2>1. ASSUME NEW x \in activated'
        PROVE  now \in 0 .. TickMax /\ Points(timeout_tick[x], now, left[x] - 1)
    <3> DEFINE when == timeout_tick[x]
               time == left[x]
    <3>1. x \in activated
      BY <1>8
    <3>2. /\ time \in Int /\ -Half <= time /\ time <= Half - 1
          /\ Points(when, tick, time) /\ when \in 0 .. TickMax /\ tick \in 0 .. TickMax
      BY <1>1, <3>1, Bounds DEF Timing, TypeOK
    <3> HIDE DEF when, time
    <3>3. time <= Half
      BY <3>2, Numbers
    <3>4. now \in 0 .. TickMax /\ Points(when, now, time - 1)
      BY <3>2, <3>3, TickPoints DEF now
    <3> QED
      BY <3>4 DEF when, time
  <2>2. now \in 0 .. TickMax
    <3>1. tick \in 0 .. TickMax /\ TickMax \in Nat /\ Half \in Nat
      BY <1>1, Numbers DEF TypeOK
    <3>2. Points(tick, tick, 0) /\ 0 \in Int /\ -Half <= 0 /\ 0 <= Half
      BY <3>1 DEF Points
    <3> QED
      BY <3>1, <3>2, TickPoints DEF now
  <2> QED
    BY <2>1, <2>2
<1>13. Timing'
  BY <1>3, <1>8, <1>12 DEF Timing, Points
<1>14. Ranges'
  <2>1. ASSUME NEW x \in activated' \ Soft PROVE left'[x] \in 0 .. Half - 1
    <3>1. left[x] >= 2 /\ left[x] \in 0 .. Half - 1 /\ left'[x] = left[x] - 1
      BY <1>1, <1>5, <1>8, <2>1 DEF Ranges
    <3> QED
      BY <3>1, Numbers
  <2>2. ASSUME NEW x \in activated' \cap Soft
        PROVE  left'[x] < Half /\ \A u \in Soft : left'[x] >= Period[u] - Half - 1
    <3>1. x \in activated \cap Soft /\ left[x] \in Int /\ left'[x] = left[x] - 1
      BY <1>8, <2>2
    <3>2. left[x] < Half /\ Half \in Nat
      BY <1>1, <3>1, Numbers DEF Ranges
    <3>3. left'[x] < Half
      BY <3>1, <3>2
    <3>4. ASSUME NEW u \in Soft PROVE left'[x] >= Period[u] - Half - 1
      <4>1. Period[u] \in Int /\ Late \in Nat /\ Late + Period[u] <= Half
        BY Numbers
      <4>2. CASE fooled
        <5>1. left[x] > -Late
          BY <1>3, <3>1, <4>2
        <5> QED
          BY <3>1, <3>2, <4>1, <5>1
      <4>3. CASE ~fooled
        <5>1. left[x] > Period[u] - Half - 1
          BY <1>3, <3>1, <4>3
        <5> QED
          BY <3>1, <3>2, <4>1, <5>1
      <4> QED
        BY <4>2, <4>3
    <3> QED
      BY <3>3, <3>4
  <2> QED
    BY <2>1, <2>2 DEF Ranges
<1>15. Data'
  <2>1. list' \in [{"hard", "soft"} -> Seq(Timers)]
    <3>1. list'["hard"] \in Seq(Timers) /\ list'["soft"] \in Seq(Timers)
      BY <1>9, <1>11, Kinds, Wider DEF HardList, SoftList, Proper
    <3> QED
      BY <1>7, <3>1
  <2>2. timeout_tick' \in [Timers -> 0 .. TickMax]
    <3>1. 0 \in 0 .. TickMax
      BY Numbers
    <3> QED
      BY <1>1, <1>3, <3>1 DEF TypeOK
  <2>3. left' \in [Timers -> Int] /\ activated' \subseteq Timers
    BY <1>1, <1>3
  <2> QED
    BY <2>1, <2>2, <2>3 DEF Data
<1>16. Own \in fired => pc = "sleep" /\ ~fooled /\ Own \notin activated'
  BY <1>1, <1>3, <1>5 DEF Places
<1>17. Scalars'
  <2>1. late' \in 0 .. Late
    <3>1. late \in 0 .. Late /\ Late \in Nat
      BY <1>1, Numbers DEF TypeOK
    <3>2. CASE pc = "sleep"
      BY <1>3, <3>1, <3>2
    <3>3. CASE pc # "sleep"
      BY <1>3, <3>1, <3>3
    <3> QED
      BY <3>2, <3>3
  <2>2. pc' \in PC
    BY <1>1, <1>3 DEF TypeOK, PC
  <2> QED
    BY <1>1, <1>3, <1>12, <2>1, <2>2 DEF TypeOK, Scalars
<1>18. Places'
  <2>1. Own \in fired => pc' = "check" /\ running' = None /\ ~temp' /\ ~fooled' /\ Own \notin activated'
    BY <1>1, <1>3, <1>16 DEF Places
  <2>2. Own \notin fired => pc' = pc
    BY <1>3
  <2> QED
    BY <1>1, <1>3, <2>1, <2>2 DEF Places
<1>19. Known'
  <2> DEFINE soft == list["soft"]
             first == Head(soft)
  <2>1. soft # <<>> => first \in activated'
    BY <1>1, <1>10, FirstSoft
  <2>2. ASSUME pc' = "decide" PROVE next' = IF soft = <<>> THEN TickMax ELSE timeout_tick'[first]
    <3>1. pc = "decide"
      BY <1>3, <2>2
    <3> QED
      BY <1>1, <1>3, <1>8, <2>1, <3>1 DEF Known
  <2>3. ASSUME pc' = "delay" PROVE soft # <<>> /\ next' = left'[first] + late' /\ next' < Half
    <3>1. pc = "delay" /\ next' = next
      BY <1>3, <2>3
    <3>2. soft # <<>> /\ next = left[first] + late /\ next < Half /\ late' = late + 1
      BY <1>1, <1>3, <3>1 DEF Known
    <3>3. left[first] \in Int /\ late \in Int /\ left'[first] = left[first] - 1
      BY <1>1, <1>8, <2>1, <3>2 DEF TypeOK
    <3> HIDE DEF soft, first
    <3> QED
      BY <3>1, <3>2, <3>3
  <2>4. ASSUME pc' = "sleep", soft # <<>>, ~fooled'
        PROVE  Own \in activated' /\ left'[Own] <= left'[first] + Late
    <3>1. pc = "sleep" /\ Own \notin fired /\ ~fooled
      BY <1>3, <2>4
    <3>2. Own \in activated /\ left[Own] <= left[first] + Late
      BY <1>1, <2>4, <3>1 DEF Known
    <3>3. Own \in activated'
      BY <1>3, <3>1, <3>2
    <3>4. /\ left[first] \in Int /\ left'[first] = left[first] - 1
          /\ left[Own] \in Int /\ left'[Own] = left[Own] - 1 /\ Late \in Int
      BY <1>8, <2>1, <2>4, <3>3, Numbers
    <3> HIDE DEF soft, first
    <3> QED
      BY <3>2, <3>3, <3>4
  <2> QED
    BY <1>7, <2>2, <2>3, <2>4 DEF Known
<1>20. IInv'
  BY <1>9, <1>11, <1>13, <1>14, <1>15, <1>17, <1>18, <1>19, Types DEF IInv, Listed
<1> QED
  BY <1>3, <1>5, <1>20

-----------------------------------------------------------------------------
(***************************************************************************)
(* The theorems.                                                           *)
(***************************************************************************)
LEMMA Stutter == IInv /\ UNCHANGED vars => IInv'
<1> SUFFICES ASSUME IInv, UNCHANGED vars PROVE IInv'
  OBVIOUS
<1>1. /\ tick' = tick /\ list' = list /\ timeout_tick' = timeout_tick
      /\ activated' = activated /\ pc' = pc /\ next' = next /\ running' = running
      /\ temp' = temp /\ late' = late /\ left' = left /\ fooled' = fooled
  BY DEF vars, data
<1>2. Listed' /\ Data'
  BY <1>1, SameData DEF Called, data
<1>3. Scalars'
  BY <1>1, Types DEF IInv, Scalars
<1>4. Places' /\ Known'
  BY <1>1 DEF IInv, Places, Known
<1> QED
  BY <1>2, <1>3, <1>4, Types DEF IInv

LEMMA Inductive == IInv /\ [Next]_vars => IInv'
<1> SUFFICES ASSUME IInv, [Next]_vars PROVE IInv'
  OBVIOUS
<1>1. CASE Tick
  BY <1>1, TickStep
<1>2. CASE Thread
  BY <1>2, NextTimeoutStep, SuspendStep, DelayStep, OverdueStep, ThreadDelayStep, CallStep,
     NothingDueStep, ReturnStep DEF Thread
<1>3. ASSUME NEW t \in Hard, ThreadWoken(t) PROVE IInv'
  BY <1>3, ThreadWokenStep
<1>4. ASSUME NEW t \in Hard, NEW time \in SleepTimes, ThreadSleeps(t, time) PROVE IInv'
  BY <1>4, ThreadSleepsStep
<1>5. ASSUME NEW t \in Soft, StartSoft(t) PROVE IInv'
  BY <1>5, StartSoftStep
<1>6. ASSUME NEW t \in Soft, StopSoft(t) PROVE IInv'
  BY <1>6, StopSoftStep
<1>7. CASE UNCHANGED vars
  BY <1>7, Stutter
<1> QED
  BY <1>1, <1>2, <1>3, <1>4, <1>5, <1>6, <1>7 DEF Next

\* The lists, the timers and where the timer thread is always fit together.
THEOREM Invariance == Spec => []IInv
<1>1. Init => IInv
  BY Initial
<1>2. IInv /\ [Next]_vars => IInv'
  BY Inductive
<1> QED
  BY <1>1, <1>2, PTL DEF Spec

LEMMA IInvConsistent == IInv => Consistent
<1> SUFFICES ASSUME IInv PROVE Consistent
  OBVIOUS
<1>1. TypeOK /\ HardList /\ SoftList /\ Ranges /\ Places
  BY DEF IInv, Listed
<1>2. DOMAIN list = {"hard", "soft"} /\ Half \in Nat
  BY <1>1, Numbers DEF TypeOK
<1>3. /\ list["hard"] \in Seq(HardOnes) /\ list["soft"] \in Seq(Soft)
      /\ \A k \in DOMAIN list : Distinct(list[k]) /\ Sorted(left, list[k])
      /\ \A x : In(x, list["hard"]) <=> x \in activated \ Soft
      /\ \A x : In(x, list["soft"]) <=> x \in OnSoft
  BY <1>1, <1>2 DEF HardList, SoftList, Proper
<1>4. OnList = activated \ (IF temp THEN {running} ELSE {})
  <2>1. \A x : x \in OnList <=> In(x, list["hard"]) \/ In(x, list["soft"])
    BY <1>3, ToSetIs DEF OnList
  <2>2. temp => running \in Soft
    BY <1>1 DEF Places, TypeOK
  <2> QED
    BY <1>3, <2>1, <2>2 DEF OnSoft, Called
<1>5. ASSUME NEW k \in DOMAIN list, NEW i \in DOMAIN list[k], NEW j \in DOMAIN list[k], i < j
      PROVE  list[k][i] # list[k][j] /\ left[list[k][i]] <= left[list[k][j]]
  <2> DEFINE s == list[k]
  <2>1. s \in Seq(HardOnes) \/ s \in Seq(Soft)
    BY <1>2, <1>3
  <2>2. Distinct(s) /\ Sorted(left, s)
    BY <1>3
  <2>3. i \in DOMAIN s /\ j \in DOMAIN s
    BY <1>5
  <2> HIDE DEF s
  <2>4. DOMAIN s = 1 .. Len(s)
    BY <2>1, LenProperties
  <2>5. s[i] # s[j] /\ left[s[i]] <= left[s[j]]
    BY <1>5, <2>2, <2>3, <2>4 DEF Distinct, Sorted
  <2> QED
    BY <2>5 DEF s
<1>6. InOrder
  BY <1>4, <1>5 DEF InOrder
<1>7. OnTime
  BY <1>1, <1>2 DEF OnTime, Ranges
<1> QED
  BY <1>1, <1>6, <1>7 DEF Consistent

\* The two lists hold just the activated timers, in the order in which they
\* are really due, across the wrap-around of the tick; no hard timer is late.
THEOREM KeepsOrder == Spec => []Consistent
BY Invariance, IInvConsistent, PTL

\* The greater of a number and zero.
LEMMA MaxIs ==
  ASSUME NEW a \in Int
  PROVE  Max({a, 0}) \in Int /\ a <= Max({a, 0})
<1>1. \E x \in {a, 0} : \A y \in {a, 0} : x >= y
  <2>1. CASE a >= 0
    BY <2>1
  <2>2. CASE ~(a >= 0)
    BY <2>2
  <2> QED
    BY <2>1, <2>2
<1>2. Max({a, 0}) \in {a, 0} /\ \A y \in {a, 0} : Max({a, 0}) >= y
  BY <1>1 DEF Max
<1> DEFINE m == Max({a, 0})
<1> HIDE DEF m
<1>3. m \in {a, 0} /\ m >= a
  BY <1>2 DEF m
<1>4. m \in Int /\ a <= m
  BY <1>3
<1> QED
  BY <1>4 DEF m

LEMMA IInvSleeps == IInv => SleepsUntilDue
<1> SUFFICES ASSUME IInv, pc = "sleep", list["soft"] # <<>>, ~fooled
             PROVE  /\ Own \in activated
                    /\ left[Own] <= Max({left[Head(list["soft"])], 0}) + Late
  BY DEF SleepsUntilDue
<1> DEFINE first == left[Head(list["soft"])]
<1>1. Own \in activated /\ left[Own] <= first + Late
  BY DEF IInv, Known
<1>2. Head(list["soft"]) \in activated
  BY FirstSoft DEF IInv, Listed
<1>3. first \in Int /\ left[Own] \in Int /\ Late \in Int
  BY <1>1, <1>2, Bounds, Numbers DEF IInv, Listed
<1> HIDE DEF first
<1> DEFINE most == Max({first, 0})
<1>4. most \in Int /\ first <= most
  BY <1>3, MaxIs
<1> HIDE DEF most
<1>5. left[Own] <= most + Late
  BY <1>1, <1>3, <1>4
<1> QED
  BY <1>1, <1>5 DEF first, most

\* The timer thread never sleeps past the first soft timer, but for the ticks
\* by which it was late and the timeout that it takes for an empty list.
THEOREM WakesInTime == Spec => []SleepsUntilDue
BY Invariance, IInvSleeps, PTL

\* A function is only called when its timer has no time left.
LEMMA CallIsDue ==
  ASSUME IInv, Call
  PROVE  left[running'] <= 0
<1> DEFINE t == Head(list["soft"])
<1>1. list["soft"] # <<>> /\ Due(t, tick) /\ running' = t
  BY DEF Call
<1>2. t \in activated /\ TypeOK /\ Ranges /\ Timing
  BY <1>1, FirstSoft DEF IInv, Listed
<1> HIDE DEF t
<1> DEFINE when == timeout_tick[t]
           time == left[t]
<1>3. /\ time \in Int /\ -Half <= time /\ time <= Half - 1 /\ Points(when, tick, time)
      /\ when \in 0 .. TickMax /\ tick \in 0 .. TickMax /\ Minus(tick, when) < Half
  BY <1>1, <1>2, Bounds DEF Timing, TypeOK, Due
<1> HIDE DEF when, time
<1>4. time <= 0
  BY <1>3, DueIs
<1> QED
  BY <1>1, <1>4 DEF time

LEMMA StepIsNotEarly ==
  ASSUME IInv, [Next]_vars
  PROVE  /\ running' \notin {None, running} => left[running'] <= 0
         /\ tick' # tick => \A t \in activated \ activated' : left[t] <= 1
         /\ \A t \in Soft : t \in activated' \ activated => StartSoft(t)
<1>1. CASE Tick
  BY <1>1, TickStep DEF Tick
<1>2. CASE Call
  <2>1. tick' = tick /\ activated' \subseteq activated
    BY <1>2 DEF Call, TurnOff
  <2> QED
    BY <1>2, <2>1, CallIsDue
<1>3. CASE Return
  <2>1. tick' = tick /\ running' = None
    BY <1>3 DEF Return
  <2>2. activated' \subseteq activated
    BY <1>3 DEF Return, rt_timer_start, data
  <2> QED
    BY <2>1, <2>2
<1>4. CASE rt_thread_delay
  <2>1. tick' = tick /\ running' = running /\ activated' = activated \cup {Own} /\ Own \notin Soft
    BY <1>4, Kinds DEF rt_thread_delay, rt_timer_start
  <2> QED
    BY <2>1
<1>5. CASE rt_timer_list_next_timeout \/ Suspend \/ Delay \/ Overdue \/ NothingDue
  <2>1. tick' = tick /\ running' = running /\ activated' = activated
    BY <1>5 DEF rt_timer_list_next_timeout, Suspend, Delay, Overdue, NothingDue, data
  <2> QED
    BY <2>1
<1>6. ASSUME NEW h \in Hard, NEW time \in SleepTimes, ThreadSleeps(h, time)
      PROVE  tick' = tick /\ running' = running /\ activated' = activated \cup {h} /\ h \notin Soft
  BY <1>6, Kinds DEF ThreadSleeps, rt_timer_start
<1>7. ASSUME NEW h \in Hard, ThreadWoken(h)
      PROVE  tick' = tick /\ running' = running /\ activated' \subseteq activated
  BY <1>7 DEF ThreadWoken, TurnOff
<1>8. ASSUME NEW u \in Soft, StopSoft(u)
      PROVE  tick' = tick /\ running' = running /\ activated' \subseteq activated
  BY <1>8 DEF StopSoft, TurnOff
<1>9. ASSUME NEW u \in Soft, StartSoft(u)
      PROVE  tick' = tick /\ running' = running /\ activated' \subseteq activated \cup {u}
  BY <1>9 DEF StartSoft
<1>10. CASE UNCHANGED vars
  BY <1>10 DEF vars, data
<1> QED
  BY <1>1, <1>2, <1>3, <1>4, <1>5, <1>6, <1>7, <1>8, <1>9, <1>10 DEF Next, Thread

\* No function is called before its time is over, no thread is woken before
\* its, and a soft timer is only switched on by a start.
THEOREM CallsNoneEarly == Spec => NoStrayCall
<1>1. IInv /\ [Next]_vars =>
        [/\ running' \notin {None, running} => left[running'] <= 0
         /\ tick' # tick => \A t \in activated \ activated' : left[t] <= 1]_vars
  BY StepIsNotEarly
<1>2. IInv /\ [Next]_vars =>
        [\A t \in Soft : t \in activated' \ activated => StartSoft(t)]_vars
  BY StepIsNotEarly
<1> QED
  BY <1>1, <1>2, Invariance, PTL DEF Spec, NoStrayCall, NeverEarly, StoppedStaysOff
=============================================================================
