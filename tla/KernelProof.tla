----------------------------- MODULE KernelProof -----------------------------
(***************************************************************************)
(* Proofs about Kernel: what the ready queue and the list of a mutex are,  *)
(* as sequences without repetitions; the inductive invariant IInv, one     *)
(* lemma for each action; and from it the theorems KeepsThreads,           *)
(* OwnerInherits, MutexIsLock and ForemostRuns.                            *)
(***************************************************************************)
EXTENDS Kernel, SequenceTheorems, FiniteSetTheorems, WellFoundedInduction, TLAPS

\* Nothing is in s twice.
Distinct(s) == \A i, j \in 1 .. Len(s) : s[i] = s[j] => i = j
In(x, s) == \E i \in 1 .. Len(s) : s[i] = x
\* What is in front of what in r is so in s.
Within(r, s) ==
  \A i, j \in 1 .. Len(r) : i < j =>
    \E k, l \in 1 .. Len(s) : k < l /\ r[i] = s[k] /\ r[j] = s[l]
-----------------------------------------------------------------------------
(***************************************************************************)
(* Sequences without repetitions.                                          *)
(***************************************************************************)

\* A set of numbers that is not empty has a least one.
LEMMA MinIs ==
  ASSUME NEW S \in SUBSET Nat, S # {}
  PROVE  Min(S) \in S /\ \A x \in S : Min(S) <= x
<1> DEFINE R == {ss \in Nat \X Nat : ss[1] < ss[2]}
<1>1. \E x \in S : \A y \in S : ~(<<y, x>> \in R)
  <2>1. IsWellFoundedOn(R, Nat)
    BY NatLessThanWellFounded DEF OpToRel
  <2> HIDE DEF R
  <2> QED
    BY <2>1, WFMin
<1>2. PICK x \in S : \A y \in S : x <= y
  <2>1. \A x, y \in Nat : y < x => <<y, x>> \in R
    OBVIOUS
  <2> HIDE DEF R
  <2>2. PICK x \in S : \A y \in S : ~(<<y, x>> \in R)
    BY <1>1
  <2>3. ASSUME NEW y \in S PROVE x <= y
    <3>1. x \in Nat /\ y \in Nat /\ ~(y < x)
      BY <2>1, <2>2
    <3> QED
      BY <3>1
  <2> QED
    BY <2>3
<1> QED
  BY <1>2 DEF Min

\* The first thing in a sequence that is the given one.
LEMMA FirstIs ==
  ASSUME NEW S, NEW s \in Seq(S), NEW e, In(e, s)
  PROVE  LET k == SelectInSeq(s, LAMBDA v : v = e)
         IN  k \in 1 .. Len(s) /\ s[k] = e
<1> DEFINE I == {i \in 1 .. Len(s) : s[i] = e}
<1>1. I # {} /\ I \subseteq Nat
  BY DEF In
<1>2. SelectInSeq(s, LAMBDA v : v = e) = Min(I)
  BY <1>1 DEF SelectInSeq
<1>3. Min(I) \in I
  BY <1>1, MinIs
<1> QED
  BY <1>2, <1>3

\* A sequence with one place cut out.
LEMMA CutOut ==
  ASSUME NEW S, NEW s \in Seq(S), NEW k \in 1 .. Len(s)
  PROVE  /\ RemoveAt(s, k) \in Seq(S) /\ Len(RemoveAt(s, k)) = Len(s) - 1
         /\ \A i \in 1 .. Len(s) - 1 : i < k => RemoveAt(s, k)[i] = s[i]
         /\ \A i \in 1 .. Len(s) - 1 : i >= k => RemoveAt(s, k)[i] = s[i + 1]
<1> DEFINE a == SubSeq(s, 1, k - 1)
           b == SubSeq(s, k + 1, Len(s))
<1>1. Len(s) \in Nat /\ \A i \in 1 .. Len(s) : s[i] \in S
  BY LenProperties, ElementOfSeq
<1>2. /\ a \in Seq(S) /\ Len(a) = k - 1
      /\ \A i \in 1 .. k - 1 : a[i] = s[i]
  BY <1>1, SubSeqProperties
<1>3. /\ b \in Seq(S) /\ Len(b) = Len(s) - k
      /\ \A i \in 1 .. Len(s) - k : b[i] = s[k + i]
  BY <1>1, SubSeqProperties
<1>4. RemoveAt(s, k) = a \o b
  BY DEF RemoveAt
<1> HIDE DEF a, b
<1>5. /\ a \o b \in Seq(S) /\ Len(a \o b) = Len(s) - 1
      /\ \A i \in 1 .. Len(s) - 1 : (a \o b)[i] = IF i <= Len(a) THEN a[i] ELSE b[i - Len(a)]
  <2>1. Len(a) + Len(b) = Len(s) - 1
    BY <1>1, <1>2, <1>3
  <2>2. /\ a \o b \in Seq(S) /\ Len(a \o b) = Len(a) + Len(b)
        /\ \A i \in 1 .. Len(a) + Len(b) : (a \o b)[i] = IF i <= Len(a) THEN a[i] ELSE b[i - Len(a)]
    BY <1>2, <1>3, ConcatProperties
  <2> QED
    BY <2>1, <2>2
<1>6. ASSUME NEW i \in 1 .. Len(s) - 1, i < k PROVE (a \o b)[i] = s[i]
  BY <1>1, <1>2, <1>5, <1>6
<1>7. ASSUME NEW i \in 1 .. Len(s) - 1, i >= k PROVE (a \o b)[i] = s[i + 1]
  <2>1. i - Len(a) \in 1 .. Len(s) - k /\ ~(i <= Len(a)) /\ k + (i - Len(a)) = i + 1
    BY <1>1, <1>2, <1>7
  <2> QED
    BY <1>3, <1>5, <2>1
<1> QED
  BY <1>4, <1>5, <1>6, <1>7

\* Unlinking takes just the one out.
LEMMA Unlinked ==
  ASSUME NEW S, NEW s \in Seq(S), Distinct(s), NEW e
  PROVE  /\ RemoveFirst(s, e) \in Seq(S) /\ Distinct(RemoveFirst(s, e))
         /\ \A x : In(x, RemoveFirst(s, e)) <=> In(x, s) /\ x # e
         /\ Within(RemoveFirst(s, e), s)
         /\ ~In(e, s) => RemoveFirst(s, e) = s
<1> DEFINE r == RemoveFirst(s, e)
<1>1. Len(s) \in Nat
  BY LenProperties
<1>2. CASE ~In(e, s)
  <2>1. r = s
    BY <1>2 DEF RemoveFirst, In
  <2> HIDE DEF r
  <2>2. Within(r, s)
    BY <2>1 DEF Within
  <2>3. \A x : In(x, r) <=> In(x, s) /\ x # e
    BY <1>2, <2>1
  <2> QED
    BY <2>1, <2>2, <2>3 DEF r
<1>3. CASE In(e, s)
  <2> DEFINE k == SelectInSeq(s, LAMBDA v : v = e)
  <2>1. r = RemoveAt(s, k)
    BY <1>3 DEF RemoveFirst, In
  <2>2. k \in 1 .. Len(s) /\ s[k] = e
    BY <1>3, FirstIs
  <2> HIDE DEF k
  <2>3. /\ r \in Seq(S) /\ Len(r) = Len(s) - 1
        /\ \A i \in 1 .. Len(s) - 1 : i < k => r[i] = s[i]
        /\ \A i \in 1 .. Len(s) - 1 : i >= k => r[i] = s[i + 1]
    BY <2>1, <2>2, CutOut
  <2> HIDE DEF r
  <2> DEFINE at(i) == IF i < k THEN i ELSE i + 1
  <2>4. \A i \in 1 .. Len(r) : at(i) \in 1 .. Len(s) /\ at(i) # k /\ r[i] = s[at(i)]
    BY <1>1, <2>2, <2>3
  <2>5. \A i, j \in 1 .. Len(r) : (at(i) = at(j) => i = j) /\ (i < j => at(i) < at(j))
    BY <1>1, <2>2, <2>3
  <2>6. \A i \in 1 .. Len(s) : i # k => \E j \in 1 .. Len(r) : at(j) = i
    <3> SUFFICES ASSUME NEW i \in 1 .. Len(s), i # k PROVE \E j \in 1 .. Len(r) : at(j) = i
      OBVIOUS
    <3>1. CASE i < k
      <4>1. i \in 1 .. Len(r) /\ at(i) = i
        BY <1>1, <2>2, <2>3, <3>1
      <4> QED
        BY <4>1
    <3>2. CASE i > k
      <4>1. i - 1 \in 1 .. Len(r) /\ at(i - 1) = i
        BY <1>1, <2>2, <2>3, <3>2
      <4> QED
        BY <4>1
    <3> QED
      BY <1>1, <2>2, <3>1, <3>2
  <2> HIDE DEF at
  <2>7. Distinct(r)
    BY <2>4, <2>5 DEF Distinct
  <2>8. Within(r, s)
    BY <2>4, <2>5 DEF Within
  <2>9. ASSUME NEW x PROVE In(x, r) <=> In(x, s) /\ x # e
    <3>1. ASSUME In(x, r) PROVE In(x, s) /\ x # e
      <4>1. PICK i \in 1 .. Len(r) : r[i] = x
        BY <3>1 DEF In
      <4> QED
        BY <4>1, <2>2, <2>4 DEF In, Distinct
    <3>2. ASSUME In(x, s), x # e PROVE In(x, r)
      <4>1. PICK i \in 1 .. Len(s) : s[i] = x
        BY <3>2 DEF In
      <4>2. PICK j \in 1 .. Len(r) : at(j) = i
        BY <2>2, <2>6, <3>2, <4>1
      <4> QED
        BY <2>4, <4>1, <4>2 DEF In
    <3> QED
      BY <3>1, <3>2
  <2> QED
    BY <1>3, <2>3, <2>7, <2>8, <2>9 DEF r
<1> QED
  BY <1>2, <1>3

\* What is not there yet may be put at the end ...
LEMMA Appended ==
  ASSUME NEW S, NEW s \in Seq(S), Distinct(s), NEW e \in S, ~In(e, s)
  PROVE  /\ Append(s, e) \in Seq(S) /\ Distinct(Append(s, e)) /\ Append(s, e) # <<>>
         /\ Len(Append(s, e)) = Len(s) + 1 /\ Len(s) \in Nat
         /\ \A i \in 1 .. Len(s) : Append(s, e)[i] = s[i]
         /\ Append(s, e)[Len(s) + 1] = e
         /\ \A x : In(x, Append(s, e)) <=> In(x, s) \/ x = e
<1> DEFINE r == Append(s, e)
<1>1. /\ r \in Seq(S) /\ Len(r) = Len(s) + 1 /\ Len(s) \in Nat
      /\ \A i \in 1 .. Len(s) : r[i] = s[i]
      /\ r[Len(s) + 1] = e
  BY AppendProperties, LenProperties
<1> HIDE DEF r
<1>2. Distinct(r)
  <2> SUFFICES ASSUME NEW i \in 1 .. Len(r), NEW j \in 1 .. Len(r), r[i] = r[j] PROVE i = j
    BY DEF Distinct
  <2>1. CASE i = Len(s) + 1 /\ j = Len(s) + 1
    BY <2>1
  <2>2. CASE i # Len(s) + 1 /\ j = Len(s) + 1
    <3>1. i \in 1 .. Len(s)
      BY <1>1, <2>2
    <3> QED
      BY <1>1, <2>2, <3>1 DEF In
  <2>3. CASE i = Len(s) + 1 /\ j # Len(s) + 1
    <3>1. j \in 1 .. Len(s)
      BY <1>1, <2>3
    <3> QED
      BY <1>1, <2>3, <3>1 DEF In
  <2>4. CASE i # Len(s) + 1 /\ j # Len(s) + 1
    <3>1. i \in 1 .. Len(s) /\ j \in 1 .. Len(s)
      BY <1>1, <2>4
    <3> QED
      BY <1>1, <3>1 DEF Distinct
  <2> QED
    BY <2>1, <2>2, <2>3, <2>4
<1>3. ASSUME NEW x PROVE In(x, r) <=> In(x, s) \/ x = e
  <2>1. ASSUME In(x, r) PROVE In(x, s) \/ x = e
    <3>1. PICK i \in 1 .. Len(r) : r[i] = x
      BY <2>1 DEF In
    <3>2. i \in 1 .. Len(s) \/ i = Len(s) + 1
      BY <1>1
    <3> QED
      BY <1>1, <3>1, <3>2 DEF In
  <2>2. ASSUME In(x, s) PROVE In(x, r)
    <3>1. PICK i \in 1 .. Len(s) : s[i] = x
      BY <2>2 DEF In
    <3>2. i \in 1 .. Len(r)
      BY <1>1
    <3> QED
      BY <1>1, <3>1, <3>2 DEF In
  <2>3. Len(s) + 1 \in 1 .. Len(r)
    BY <1>1
  <2>4. In(e, r)
    BY <1>1, <2>3 DEF In
  <2> QED
    BY <2>1, <2>2, <2>4
<1>4. r # <<>>
  BY <1>1, EmptySeq
<1> QED
  BY <1>1, <1>2, <1>3, <1>4 DEF r

\* ... or anywhere.
LEMMA Inserted ==
  ASSUME NEW S, NEW s \in Seq(S), Distinct(s), NEW e \in S, ~In(e, s), NEW k \in 1 .. Len(s)
  PROVE  /\ InsertAt(s, k, e) \in Seq(S) /\ Distinct(InsertAt(s, k, e))
         /\ Len(InsertAt(s, k, e)) = Len(s) + 1 /\ Len(s) \in Nat
         /\ \A i \in 1 .. Len(s) + 1 : i < k => InsertAt(s, k, e)[i] = s[i]
         /\ InsertAt(s, k, e)[k] = e
         /\ \A i \in 1 .. Len(s) + 1 : i > k => InsertAt(s, k, e)[i] = s[i - 1]
         /\ \A x : In(x, InsertAt(s, k, e)) <=> In(x, s) \/ x = e
<1> DEFINE a == SubSeq(s, 1, k - 1)
           b == SubSeq(s, k, Len(s))
           m == a \o <<e>>
           r == InsertAt(s, k, e)
<1>1. Len(s) \in Nat /\ \A i \in 1 .. Len(s) : s[i] \in S
  BY LenProperties, ElementOfSeq
<1>2. /\ a \in Seq(S) /\ Len(a) = k - 1
      /\ \A i \in 1 .. k - 1 : a[i] = s[i]
  BY <1>1, SubSeqProperties
<1>3. /\ b \in Seq(S) /\ Len(b) = Len(s) - k + 1
      /\ \A i \in 1 .. Len(s) - k + 1 : b[i] = s[k + i - 1]
  BY <1>1, SubSeqProperties
<1>4. r = m \o b
  BY DEF InsertAt
<1> HIDE DEF a, b, m, r
<1>5. /\ m \in Seq(S) /\ Len(m) = k
      /\ \A i \in 1 .. k : i < k => m[i] = s[i]
      /\ m[k] = e
  <2>1. <<e>> \in Seq(S) /\ Len(<<e>>) = 1 /\ <<e>>[1] = e
    OBVIOUS
  <2>2. /\ m \in Seq(S) /\ Len(m) = Len(a) + 1
        /\ \A i \in 1 .. Len(a) + 1 : m[i] = IF i <= Len(a) THEN a[i] ELSE <<e>>[i - Len(a)]
    BY <1>2, <2>1, ConcatProperties DEF m
  <2>3. k \in 1 .. Len(a) + 1 /\ ~(k <= Len(a)) /\ k - Len(a) = 1 /\ Len(a) + 1 = k
    BY <1>1, <1>2
  <2>4. m[k] = e
    BY <2>1, <2>2, <2>3
  <2>5. ASSUME NEW i \in 1 .. k, i < k PROVE m[i] = s[i]
    <3>1. i \in 1 .. k - 1 /\ i <= Len(a) /\ i \in 1 .. Len(a) + 1
      BY <1>1, <1>2, <2>5
    <3> QED
      BY <1>2, <2>2, <3>1
  <2> QED
    BY <2>2, <2>3, <2>4, <2>5
<1>6. /\ r \in Seq(S) /\ Len(r) = Len(s) + 1
      /\ \A i \in 1 .. Len(s) + 1 : r[i] = IF i <= k THEN m[i] ELSE b[i - k]
  <2>1. Len(m) + Len(b) = Len(s) + 1
    BY <1>1, <1>3, <1>5
  <2> QED
    BY <1>3, <1>4, <1>5, <2>1, ConcatProperties
<1>7. /\ \A i \in 1 .. Len(s) + 1 : i < k => r[i] = s[i]
      /\ r[k] = e
      /\ \A i \in 1 .. Len(s) + 1 : i > k => r[i] = s[i - 1]
  <2>1. ASSUME NEW i \in 1 .. Len(s) + 1, i < k PROVE r[i] = s[i]
    <3>1. i \in 1 .. k /\ i <= k
      BY <1>1, <2>1
    <3> QED
      BY <1>5, <1>6, <2>1, <3>1
  <2>2. k \in 1 .. Len(s) + 1 /\ k <= k
    BY <1>1
  <2>3. ASSUME NEW i \in 1 .. Len(s) + 1, i > k PROVE r[i] = s[i - 1]
    <3>1. i - k \in 1 .. Len(s) - k + 1 /\ ~(i <= k) /\ k + (i - k) - 1 = i - 1
      BY <1>1, <2>3
    <3> QED
      BY <1>3, <1>6, <3>1
  <2> QED
    BY <1>5, <1>6, <2>1, <2>2, <2>3
<1> DEFINE at(i) == IF i < k THEN i ELSE i - 1
<1>8. \A i \in 1 .. Len(r) : i # k => at(i) \in 1 .. Len(s) /\ r[i] = s[at(i)]
  BY <1>1, <1>6, <1>7
<1>9. \A i, j \in 1 .. Len(r) : i # k /\ j # k /\ at(i) = at(j) => i = j
  BY <1>1, <1>6
<1>10. \A i \in 1 .. Len(s) : \E j \in 1 .. Len(r) : j # k /\ at(j) = i
  <2> SUFFICES ASSUME NEW i \in 1 .. Len(s) PROVE \E j \in 1 .. Len(r) : j # k /\ at(j) = i
    OBVIOUS
  <2>1. CASE i < k
    <3>1. i \in 1 .. Len(r) /\ at(i) = i
      BY <1>1, <1>6, <2>1
    <3> QED
      BY <2>1, <3>1
  <2>2. CASE ~(i < k)
    <3>1. i + 1 \in 1 .. Len(r) /\ i + 1 # k /\ at(i + 1) = i
      BY <1>1, <1>6, <2>2
    <3> QED
      BY <3>1
  <2> QED
    BY <2>1, <2>2
<1>11. k \in 1 .. Len(r)
  BY <1>1, <1>6
<1> HIDE DEF at
<1>12. Distinct(r)
  <2> SUFFICES ASSUME NEW i \in 1 .. Len(r), NEW j \in 1 .. Len(r), r[i] = r[j] PROVE i = j
    BY DEF Distinct
  <2>1. CASE i = k /\ j # k
    BY <1>7, <1>8, <2>1 DEF In
  <2>2. CASE i # k /\ j = k
    BY <1>7, <1>8, <2>2 DEF In
  <2>3. CASE i # k /\ j # k
    BY <1>8, <1>9, <2>3 DEF Distinct
  <2> QED
    BY <2>1, <2>2, <2>3
<1>13. ASSUME NEW x PROVE In(x, r) <=> In(x, s) \/ x = e
  <2>1. ASSUME In(x, r) PROVE In(x, s) \/ x = e
    BY <1>7, <1>8, <2>1 DEF In
  <2>2. ASSUME In(x, s) PROVE In(x, r)
    BY <1>8, <1>10, <2>2 DEF In
  <2>3. In(e, r)
    BY <1>7, <1>11 DEF In
  <2> QED
    BY <2>1, <2>2, <2>3
<1> QED
  BY <1>1, <1>6, <1>7, <1>12, <1>13 DEF r

\* The head of a sequence and what is behind it.
LEMMA Headed ==
  ASSUME NEW S, NEW s \in Seq(S), Distinct(s), s # <<>>
  PROVE  /\ Head(s) \in S /\ In(Head(s), s) /\ Head(s) = s[1] /\ Len(s) \in Nat \ {0}
         /\ Tail(s) \in Seq(S) /\ Distinct(Tail(s)) /\ Within(Tail(s), s)
         /\ \A x : In(x, Tail(s)) <=> In(x, s) /\ x # Head(s)
<1> DEFINE r == Tail(s)
<1>1. /\ Head(s) \in S /\ Head(s) = s[1] /\ r \in Seq(S) /\ Len(r) = Len(s) - 1
      /\ \A i \in 1 .. Len(r) : r[i] = s[i + 1]
      /\ Len(s) \in Nat \ {0}
  BY HeadTailProperties, EmptySeq
<1> HIDE DEF r
<1>2. 1 \in 1 .. Len(s)
  BY <1>1
<1>3. \A i \in 1 .. Len(r) : i + 1 \in 1 .. Len(s) /\ i + 1 # 1
  BY <1>1
<1>4. \A i, j \in 1 .. Len(r) : (i + 1 = j + 1 => i = j) /\ (i < j => i + 1 < j + 1)
  BY <1>1
<1>5. Distinct(r)
  <2> SUFFICES ASSUME NEW i \in 1 .. Len(r), NEW j \in 1 .. Len(r), r[i] = r[j] PROVE i = j
    BY DEF Distinct
  <2>1. s[i + 1] = s[j + 1]
    BY <1>1
  <2>2. i + 1 = j + 1
    BY <1>3, <2>1 DEF Distinct
  <2> QED
    BY <1>4, <2>2
<1>6. Within(r, s)
  BY <1>1, <1>3, <1>4 DEF Within
<1>7. ASSUME NEW x PROVE In(x, r) <=> In(x, s) /\ x # Head(s)
  <2>1. ASSUME In(x, r) PROVE In(x, s) /\ x # Head(s)
    <3>1. PICK i \in 1 .. Len(r) : r[i] = x
      BY <2>1 DEF In
    <3>2. i + 1 \in 1 .. Len(s) /\ i + 1 # 1 /\ s[i + 1] = x
      BY <1>1, <1>3, <3>1
    <3>3. s[i + 1] # s[1]
      BY <1>2, <3>2 DEF Distinct
    <3> QED
      BY <1>1, <3>2, <3>3 DEF In
  <2>2. ASSUME In(x, s), x # Head(s) PROVE In(x, r)
    <3>1. PICK i \in 1 .. Len(s) : s[i] = x
      BY <2>2 DEF In
    <3>2. i # 1
      BY <1>1, <2>2, <3>1
    <3>3. i - 1 \in 1 .. Len(r) /\ (i - 1) + 1 = i
      BY <1>1, <3>2
    <3>4. r[i - 1] = x
      BY <1>1, <3>1, <3>3
    <3> QED
      BY <3>3, <3>4 DEF In
  <2> QED
    BY <2>1, <2>2
<1>8. In(Head(s), s)
  BY <1>1, <1>2 DEF In
<1> QED
  BY <1>1, <1>5, <1>6, <1>7, <1>8 DEF r

\* The elements of a sequence.
LEMMA ToSetIs ==
  ASSUME NEW S, NEW s \in Seq(S), NEW x
  PROVE  x \in ToSet(s) <=> In(x, s)
<1>1. DOMAIN s = 1 .. Len(s)
  BY LenProperties
<1> QED
  BY <1>1 DEF ToSet, In

\* Nothing is in the empty sequence.
LEMMA NotInEmpty == \A x : ~In(x, <<>>)
BY EmptySeq DEF In
-----------------------------------------------------------------------------
(***************************************************************************)
(* The ready queue.                                                        *)
(***************************************************************************)
Stat == {"INIT", "READY", "SUSPEND"}

\* The queue q has the threads that are READY in st, each once and at its
\* priority in cp, and the bits of the priorities that have threads.
Exact(q, st, cp) ==
  /\ q.table \in [Level -> Seq(Thread)]
  /\ \A p \in Level : Distinct(q.table[p])
  /\ \A p \in Level, t \in Thread : In(t, q.table[p]) <=> st[t] = "READY" /\ cp[t] = p
  /\ q.group = {p \in Level : q.table[p] # <<>>}

\* A thread that is made READY is put into it.
LEMMA InsertExact ==
  ASSUME NEW q, NEW st \in [Thread -> Stat], NEW cp \in [Thread -> Level], Exact(q, st, cp),
         NEW u \in Thread, st[u] # "READY"
  PROVE  Exact(Insert(q, u, cp[u]), [st EXCEPT ![u] = "READY"], cp)
<1> DEFINE p == cp[u]
           s == q.table[p]
           a == Append(s, u)
           r == Insert(q, u, p)
<1>1. p \in Level /\ s \in Seq(Thread) /\ Distinct(s) /\ ~In(u, s)
  BY DEF Exact
<1>2. a \in Seq(Thread) /\ Distinct(a) /\ a # <<>> /\ \A x : In(x, a) <=> In(x, s) \/ x = u
  BY <1>1, Appended
<1>3. r.table = [q.table EXCEPT ![p] = a] /\ r.group = q.group \cup {p}
  BY DEF Insert
<1>4. /\ r.table \in [Level -> Seq(Thread)] /\ r.table[p] = a
      /\ \A x \in Level : x # p => r.table[x] = q.table[x]
  BY <1>1, <1>2, <1>3 DEF Exact
<1> HIDE DEF a, r, p, s
<1>5. \A x \in Level : Distinct(r.table[x])
  BY <1>2, <1>4 DEF Exact
<1>6. r.group = {x \in Level : r.table[x] # <<>>}
  BY <1>1, <1>2, <1>3, <1>4 DEF Exact
<1>7. ASSUME NEW x \in Level, NEW t \in Thread
      PROVE  In(t, r.table[x]) <=> [st EXCEPT ![u] = "READY"][t] = "READY" /\ cp[t] = x
  <2>1. In(t, q.table[x]) <=> st[t] = "READY" /\ cp[t] = x
    BY DEF Exact
  <2>2. CASE x = p
    BY <1>2, <1>4, <2>1, <2>2 DEF p, s
  <2>3. CASE x # p
    BY <1>4, <2>1, <2>3 DEF p
  <2> QED
    BY <2>2, <2>3
<1>8. Exact(r, [st EXCEPT ![u] = "READY"], cp)
  BY <1>4, <1>5, <1>6, <1>7 DEF Exact
<1> QED
  BY <1>8 DEF r, p

\* A thread that is suspended is taken out of it.
LEMMA RemoveExact ==
  ASSUME NEW q, NEW st \in [Thread -> Stat], NEW cp \in [Thread -> Level], Exact(q, st, cp),
         NEW u \in Thread
  PROVE  Exact(RemoveFrom(q, u, cp[u]), [st EXCEPT ![u] = "SUSPEND"], cp)
<1> DEFINE p == cp[u]
           s == q.table[p]
           a == RemoveFirst(s, u)
           r == RemoveFrom(q, u, p)
<1>1. p \in Level /\ s \in Seq(Thread) /\ Distinct(s)
  BY DEF Exact
<1>2. a \in Seq(Thread) /\ Distinct(a) /\ \A x : In(x, a) <=> In(x, s) /\ x # u
  BY <1>1, Unlinked
<1>3. /\ r.table = [q.table EXCEPT ![p] = a]
      /\ r.group = IF a = <<>> THEN q.group \ {p} ELSE q.group
  BY DEF RemoveFrom
<1>4. /\ r.table \in [Level -> Seq(Thread)] /\ r.table[p] = a
      /\ \A x \in Level : x # p => r.table[x] = q.table[x]
  BY <1>1, <1>2, <1>3 DEF Exact
<1>5. a # <<>> => s # <<>>
  <2> SUFFICES ASSUME s = <<>> PROVE a = <<>>
    OBVIOUS
  <2>1. ~In(u, s)
    BY NotInEmpty
  <2> HIDE DEF s, a
  <2>2. RemoveFirst(s, u) = s
    BY <1>1, <2>1, Unlinked
  <2> QED
    BY <2>2 DEF a
<1> HIDE DEF a, r, p, s
<1>6. \A x \in Level : Distinct(r.table[x])
  BY <1>2, <1>4 DEF Exact
<1>7. r.group = {x \in Level : r.table[x] # <<>>}
  <2>1. q.group = {x \in Level : q.table[x] # <<>>} /\ s = q.table[p]
    BY DEF Exact, s
  <2>2. CASE a = <<>>
    BY <1>1, <1>3, <1>4, <2>1, <2>2
  <2>3. CASE a # <<>>
    BY <1>1, <1>3, <1>4, <1>5, <2>1, <2>3
  <2> QED
    BY <2>2, <2>3
<1>8. ASSUME NEW x \in Level, NEW t \in Thread
      PROVE  In(t, r.table[x]) <=> [st EXCEPT ![u] = "SUSPEND"][t] = "READY" /\ cp[t] = x
  <2>1. In(t, q.table[x]) <=> st[t] = "READY" /\ cp[t] = x
    BY DEF Exact
  <2>2. CASE x = p
    BY <1>2, <1>4, <2>1, <2>2 DEF p, s
  <2>3. CASE x # p
    BY <1>4, <2>1, <2>3 DEF p
  <2> QED
    BY <2>2, <2>3
<1>9. Exact(r, [st EXCEPT ![u] = "SUSPEND"], cp)
  BY <1>4, <1>6, <1>7, <1>8 DEF Exact
<1> QED
  BY <1>9 DEF r, p

\* A thread that changes its priority is moved, if it is in it.
LEMMA ChangeExact ==
  ASSUME NEW q, stat \in [Thread -> Stat], current_priority \in [Thread -> Level],
         Exact(q, stat, current_priority), NEW u \in Thread, NEW p \in Level
  PROVE  Exact(ChangePriority(q, u, p), stat, [current_priority EXCEPT ![u] = p])
<1> DEFINE cp == [current_priority EXCEPT ![u] = p]
<1>1. cp \in [Thread -> Level] /\ cp[u] = p /\ \A t \in Thread : t # u => cp[t] = current_priority[t]
  OBVIOUS
<1> HIDE DEF cp
<1>2. CASE stat[u] = "READY"
  <2> DEFINE st == [stat EXCEPT ![u] = "SUSPEND"]
             r == RemoveFrom(q, u, current_priority[u])
  <2>1. Exact(r, st, current_priority)
    BY RemoveExact
  <2>2. st \in [Thread -> Stat] /\ st[u] # "READY" /\ [st EXCEPT ![u] = "READY"] = stat
    BY <1>2 DEF Stat
  <2>3. ChangePriority(q, u, p) = Insert(r, u, p)
    BY <1>2 DEF ChangePriority
  <2> HIDE DEF st, r
  <2>4. Exact(r, st, cp)
    BY <1>1, <2>1, <2>2 DEF Exact
  <2>5. Exact(Insert(r, u, cp[u]), [st EXCEPT ![u] = "READY"], cp)
    BY <1>1, <2>2, <2>4, InsertExact
  <2> QED
    BY <1>1, <2>2, <2>3, <2>5 DEF cp
<1>3. CASE stat[u] # "READY"
  <2>1. ChangePriority(q, u, p) = q
    BY <1>3 DEF ChangePriority
  <2>2. Exact(q, stat, cp)
    BY <1>1, <1>3 DEF Exact
  <2> QED
    BY <2>1, <2>2 DEF cp
<1> QED
  BY <1>2, <1>3

\* rt_schedule finds a thread that is READY, and none that is more urgent.
LEMMA HighestIs ==
  ASSUME NEW q, NEW st \in [Thread -> Stat], NEW cp \in [Thread -> Level], Exact(q, st, cp),
         st[Idle] = "READY"
  PROVE  /\ Highest(q) \in Thread /\ st[Highest(q)] = "READY"
         /\ \A t \in Thread : st[t] = "READY" => cp[Highest(q)] <= cp[t]
<1>1. Level \subseteq Nat /\ Idle \in Thread
  BY DEF Level, Thread
<1>2. ASSUME NEW t \in Thread, st[t] = "READY" PROVE cp[t] \in q.group
  <2>1. cp[t] \in Level /\ In(t, q.table[cp[t]])
    BY <1>2 DEF Exact
  <2>2. q.table[cp[t]] # <<>>
    BY <2>1, NotInEmpty
  <2> QED
    BY <2>1, <2>2 DEF Exact
<1> DEFINE p == Min(q.group)
           s == q.table[p]
<1>3. p \in q.group /\ \A x \in q.group : p <= x
  <2>1. q.group \in SUBSET Nat /\ q.group # {}
    BY <1>1, <1>2 DEF Exact
  <2> QED
    BY <2>1, MinIs
<1>4. p \in Level /\ s # <<>> /\ s \in Seq(Thread) /\ Distinct(s)
  BY <1>3 DEF Exact
<1>5. Head(s) \in Thread /\ In(Head(s), s)
  BY <1>4, Headed
<1>6. Highest(q) = Head(s)
  BY DEF Highest
<1>7. st[Head(s)] = "READY" /\ cp[Head(s)] = p
  BY <1>4, <1>5 DEF Exact
<1> HIDE DEF p, s
<1> QED
  BY <1>2, <1>3, <1>5, <1>6, <1>7
-----------------------------------------------------------------------------
(***************************************************************************)
(* The inductive invariant.                                                *)
(***************************************************************************)

ThreadTypes ==
  /\ stat \in [Thread -> Stat] /\ current_priority \in [Thread -> Level]
  /\ timer \in [Thread -> BOOLEAN] /\ error \in [Thread -> {"EOK", "ETIMEOUT"}]
  /\ rt_current_thread \in Thread /\ call \in [Thread -> Call]

\* The processor is with a suspended thread only until it calls rt_schedule.
Running == call[rt_current_thread] \notin {"take", "sleep"} => stat[rt_current_thread] = "READY"

ThreadInv ==
  /\ ThreadTypes /\ Exact(Queue, stat, current_priority)
  /\ stat[Idle] = "READY" /\ TimerOfSuspended /\ Running

MutexTypes ==
  /\ value \in {0, 1} /\ owner \in Users \cup {None} /\ hold \in 0 .. HoldMax
  /\ original_priority \in Level \cup {255} /\ suspend_thread \in Seq(Users)

\* The mutex is free, or it is not and keeps what its owner will go back to.
Owned ==
  /\ owner = None => value = 1 /\ hold = 0 /\ suspend_thread = <<>>
  /\ owner # None => value = 0 /\ hold # 0 /\ original_priority = Prio[owner] /\ stat[owner] # "INIT"
  /\ \A t \in Thread : t # owner => current_priority[t] = Prio[t]

\* Who waits is suspended, in rt_mutex_take, and not more urgent than the owner.
Waits(t) ==
  /\ owner # t /\ stat[t] = "SUSPEND" /\ call[t] \in {"take", "taken"}
  /\ current_priority[owner] <= Prio[t]

Ordered(s) == \A i, j \in 1 .. Len(s) : i < j => Prio[s[i]] <= Prio[s[j]]

\* Who is in rt_mutex_take without an error has the mutex or waits for it.
Promised ==
  \A t \in Users : call[t] \in {"take", "taken"} /\ error[t] = "EOK" =>
    owner = t \/ In(t, suspend_thread)

LockInv ==
  /\ MutexTypes /\ Owned /\ Promised
  /\ Distinct(suspend_thread) /\ Ordered(suspend_thread)
  /\ \A t \in Users : In(t, suspend_thread) => Waits(t)

IInv == ThreadInv /\ LockInv
-----------------------------------------------------------------------------
\* What the constants are.
LEMMA Constants ==
  /\ Users \subseteq Thread /\ Peers \subseteq Thread /\ Idle \in Thread /\ Idle \notin Users
  /\ None \notin Thread /\ Users \cap Peers = {} /\ Level \subseteq Nat
  /\ Prio \in [Thread -> Level] /\ HoldMax \in Nat \ {0}
BY KernelAssumption DEF Thread, Level

\* The queue is what the action makes it.
LEMMA QueueBecomes ==
  ASSUME NEW q, ReadyQueue(q), NEW st, NEW cp, Exact(q, st, cp),
         stat' = st, current_priority' = cp
  PROVE  Exact(Queue, stat, current_priority)'
BY DEF ReadyQueue, Queue, Exact

\* The queue is what it was.
LEMMA QueueStays ==
  ASSUME UNCHANGED <<ready, stat, current_priority>>, Exact(Queue, stat, current_priority)
  PROVE  Exact(Queue, stat, current_priority)'
BY DEF ready, Queue, Exact

\* What a step that leaves the mutex alone has to keep.
LEMMA LockSame ==
  ASSUME IInv, UNCHANGED <<mutex, current_priority>>,
         \A t \in Users : In(t, suspend_thread) => stat'[t] = "SUSPEND" /\ call'[t] \in {"take", "taken"},
         \A t \in Users : call'[t] \in {"take", "taken"} /\ error'[t] = "EOK" =>
                            call[t] \in {"take", "taken"} /\ error[t] = "EOK",
         \A t \in Users : stat[t] # "INIT" => stat'[t] # "INIT"
  PROVE  LockInv'
<1>1. /\ value' = value /\ owner' = owner /\ hold' = hold /\ suspend_thread' = suspend_thread
      /\ original_priority' = original_priority /\ current_priority' = current_priority
  BY DEF mutex
<1>2. MutexTypes' /\ Distinct(suspend_thread)' /\ Ordered(suspend_thread)'
  BY <1>1 DEF IInv, LockInv, MutexTypes, Distinct, Ordered
<1>3. Owned'
  BY <1>1 DEF IInv, LockInv, MutexTypes, Owned
<1>4. Promised'
  BY <1>1 DEF IInv, LockInv, Promised, In
<1>5. \A t \in Users : In(t, suspend_thread)' => Waits(t)'
  BY <1>1 DEF IInv, LockInv, Waits, In
<1> QED
  BY <1>2, <1>3, <1>4, <1>5 DEF LockInv

\* Nobody that runs waits for the mutex.
LEMMA RunnerWaitsNot ==
  ASSUME IInv, call[rt_current_thread] \notin {"take", "sleep"}
  PROVE  /\ rt_current_thread \in Thread /\ stat[rt_current_thread] = "READY"
         /\ ~In(rt_current_thread, suspend_thread)
<1>1. rt_current_thread \in Thread /\ stat[rt_current_thread] = "READY"
  BY DEF IInv, ThreadInv, ThreadTypes, Running
<1>2. ASSUME In(rt_current_thread, suspend_thread) PROVE FALSE
  <2>1. rt_current_thread \in Users
    BY <1>2, ElementOfSeq DEF IInv, LockInv, MutexTypes, In
  <2> QED
    BY <1>1, <1>2, <2>1 DEF IInv, LockInv, Waits
<1> QED
  BY <1>1, <1>2
-----------------------------------------------------------------------------
(***************************************************************************)
(* Scheduling.                                                             *)
(***************************************************************************)

\* At first only Idle is READY, and the mutex is free.
LEMMA InitInv == Init => IInv
<1> SUFFICES ASSUME Init PROVE IInv
  OBVIOUS
<1>1. Lowest \in Level /\ Lowest \in Nat
  BY KernelAssumption DEF Thread, Level
<1>2. ThreadTypes
  BY Constants DEF Init, ThreadTypes, Stat, Call
<1>3. Exact(Queue, stat, current_priority)
  <2>1. <<Idle>> \in Seq(Thread) /\ <<>> \in Seq(Thread) /\ Len(<<Idle>>) = 1 /\ <<Idle>>[1] = Idle
        /\ <<Idle>> # <<>>
    BY Constants
  <2>2. Distinct(<<>>) /\ \A x : ~In(x, <<>>)
    BY NotInEmpty, EmptySeq DEF Distinct
  <2>3. Distinct(<<Idle>>) /\ \A x : In(x, <<Idle>>) <=> x = Idle
    BY <2>1 DEF Distinct, In
  <2>4. /\ Queue.table = [p \in Level |-> IF p = Lowest THEN <<Idle>> ELSE <<>>]
        /\ Queue.group = {Lowest}
        /\ \A t \in Thread : stat[t] = "READY" <=> t = Idle
        /\ current_priority[Idle] = Lowest
    BY KernelAssumption, Constants DEF Init, Queue
  <2> DEFINE one == <<Idle>>
  <2> HIDE DEF one
  <2>5. /\ Queue.table = [p \in Level |-> IF p = Lowest THEN one ELSE <<>>]
        /\ one \in Seq(Thread) /\ <<>> \in Seq(Thread) /\ one # <<>>
        /\ Distinct(one) /\ \A x : In(x, one) <=> x = Idle
    BY <2>1, <2>3, <2>4 DEF one
  <2>6. Queue.table \in [Level -> Seq(Thread)]
    BY <2>5
  <2>7. \A p \in Level : Distinct(Queue.table[p])
    BY <2>2, <2>5
  <2>8. \A p \in Level, t \in Thread :
          In(t, Queue.table[p]) <=> stat[t] = "READY" /\ current_priority[t] = p
    BY <2>2, <2>4, <2>5
  <2>9. Queue.group = {p \in Level : Queue.table[p] # <<>>}
    BY <1>1, <2>4, <2>5
  <2> QED
    BY <2>6, <2>7, <2>8, <2>9 DEF Exact
<1>4. stat[Idle] = "READY" /\ TimerOfSuspended /\ Running
  BY Constants DEF Init, TimerOfSuspended, Running
<1>5. MutexTypes /\ Owned /\ Promised
  <2>1. <<>> \in Seq(Users) /\ 0 \in 0 .. HoldMax
    BY Constants
  <2> QED
    BY <2>1, Constants DEF Init, MutexTypes, Owned, Promised
<1>6. /\ Distinct(suspend_thread) /\ Ordered(suspend_thread)
      /\ \A t \in Users : ~In(t, suspend_thread)
  BY EmptySeq, NotInEmpty DEF Init, Distinct, Ordered
<1> QED
  BY <1>2, <1>3, <1>4, <1>5, <1>6 DEF IInv, ThreadInv, LockInv

\* rt_schedule switches to a thread that is READY.
LEMMA ScheduleInv ==
  ASSUME IInv, NEW t \in Thread, Schedule(t)
  PROVE  IInv'
<1>1. Highest(Queue) \in Thread /\ stat[Highest(Queue)] = "READY"
  BY HighestIs DEF IInv, ThreadInv, ThreadTypes
<1>2. /\ ready' = ready /\ stat' = stat /\ current_priority' = current_priority /\ timer' = timer
      /\ error' = error /\ mutex' = mutex
  BY DEF Schedule, threads
<1>3. call' \in [Thread -> Call] /\ \A u \in Thread : u # t => call'[u] = call[u]
  BY DEF Schedule, Call, IInv, ThreadInv, ThreadTypes
<1>4. call'[t] \in {"take", "taken"} <=> call[t] \in {"take", "taken"}
  BY DEF Schedule, Call, IInv, ThreadInv, ThreadTypes
<1>5. rt_current_thread' = Highest(Queue)
  BY DEF Schedule
<1>6. ThreadTypes' /\ Running'
  BY <1>1, <1>2, <1>3, <1>5 DEF IInv, ThreadInv, ThreadTypes, Running
<1>7. Exact(Queue, stat, current_priority)'
  BY <1>2, QueueStays DEF IInv, ThreadInv
<1>8. stat'[Idle] = "READY" /\ TimerOfSuspended'
  BY <1>2 DEF IInv, ThreadInv, TimerOfSuspended
<1>9. LockInv'
  BY <1>2, <1>3, <1>4, LockSame, Constants DEF IInv, LockInv, Waits
<1> QED
  BY <1>6, <1>7, <1>8, <1>9 DEF IInv, ThreadInv

\* A thread u that does not wait for the mutex is made READY by the one that
\* runs.
LEMMA WokenInv ==
  ASSUME IInv, NEW t \in Thread, NEW u \in Thread, Runs(t), stat[u] # "READY",
         ~In(u, suspend_thread),
         stat' = [stat EXCEPT ![u] = "READY"],
         ReadyQueue(Insert(Queue, u, current_priority[u])),
         timer' = [timer EXCEPT ![u] = FALSE] \/ (timer' = timer /\ stat[u] = "INIT"),
         call' = [call EXCEPT ![t] = "wake"] \/ call' = call,
         UNCHANGED <<current_priority, error, rt_current_thread, mutex>>
  PROVE  IInv'
<1>1. ThreadTypes
  BY DEF IInv, ThreadInv
<1>2. stat[t] = "READY" /\ ~In(t, suspend_thread) /\ t = rt_current_thread
  BY RunnerWaitsNot DEF Runs
<1>3. ThreadTypes'
  BY <1>1 DEF ThreadTypes, Stat, Call
<1>4. Exact(Queue, stat, current_priority)'
  <2> DEFINE q == Insert(Queue, u, current_priority[u])
             st == [stat EXCEPT ![u] = "READY"]
             cp == current_priority
  <2>1. Exact(q, st, cp)
    BY <1>1, InsertExact DEF IInv, ThreadInv, ThreadTypes
  <2>2. ReadyQueue(q) /\ stat' = st /\ current_priority' = cp
    OBVIOUS
  <2> HIDE DEF q, st, cp
  <2> QED
    BY <2>1, <2>2, QueueBecomes
<1>5. stat'[Idle] = "READY" /\ Running'
  BY <1>1, <1>2, Constants DEF IInv, ThreadInv, ThreadTypes, Running
<1>6. TimerOfSuspended'
  BY <1>1 DEF IInv, ThreadInv, ThreadTypes, TimerOfSuspended
<1>7. LockInv'
  <2>1. \A x \in Users : In(x, suspend_thread) => x # u /\ x # t /\ x \in Thread
    BY <1>2, Constants
  <2>2. \A x \in Users : In(x, suspend_thread) =>
          stat'[x] = "SUSPEND" /\ call'[x] \in {"take", "taken"}
    BY <1>1, <2>1 DEF IInv, LockInv, Waits, ThreadTypes
  <2>3. \A x \in Users : call'[x] \in {"take", "taken"} => call[x] \in {"take", "taken"}
    BY <1>1, Constants DEF ThreadTypes
  <2>4. \A x \in Users : stat[x] # "INIT" => stat'[x] # "INIT"
    BY <1>1, Constants DEF ThreadTypes
  <2> QED
    BY <2>2, <2>3, <2>4, LockSame
<1> QED
  BY <1>3, <1>4, <1>5, <1>6, <1>7 DEF IInv, ThreadInv

\* rt_thread_startup; a thread that was never started has its own priority.
LEMMA StartupInv ==
  ASSUME IInv, NEW t \in Thread, NEW u \in Thread, Startup(t, u)
  PROVE  IInv'
<1>1. stat[u] = "INIT" /\ stat[u] # "READY"
  BY DEF Startup
<1>2. u # owner
  BY <1>1, Constants DEF IInv, LockInv, Owned
<1>3. current_priority[u] = Prio[u]
  BY <1>2 DEF IInv, LockInv, Owned
<1>4. ~In(u, suspend_thread)
  <2> SUFFICES ASSUME In(u, suspend_thread) PROVE FALSE
    OBVIOUS
  <2>1. u \in Users
    BY ElementOfSeq DEF IInv, LockInv, MutexTypes, In
  <2> QED
    BY <1>1, <2>1 DEF IInv, LockInv, Waits
<1>5. /\ Runs(t) /\ stat' = [stat EXCEPT ![u] = "READY"]
      /\ ReadyQueue(Insert(Queue, u, current_priority[u])) /\ timer' = timer
      /\ call' = [call EXCEPT ![t] = "wake"]
      /\ UNCHANGED <<current_priority, error, rt_current_thread, mutex>>
  BY <1>3 DEF Startup
<1> QED
  BY <1>1, <1>4, <1>5, WokenInv

\* A thread that is woken does not wait for the mutex.
LEMMA WakeInv ==
  ASSUME IInv, NEW t \in Thread, NEW u \in Thread, Wake(t, u)
  PROVE  IInv'
<1>1. ~In(u, suspend_thread)
  <2> SUFFICES ASSUME In(u, suspend_thread) PROVE FALSE
    OBVIOUS
  <2>1. u \in Users
    BY ElementOfSeq DEF IInv, LockInv, MutexTypes, In
  <2> QED
    BY <2>1, Constants DEF Wake
<1>2. /\ Runs(t) /\ stat[u] # "READY" /\ stat' = [stat EXCEPT ![u] = "READY"]
      /\ ReadyQueue(Insert(Queue, u, current_priority[u])) /\ timer' = [timer EXCEPT ![u] = FALSE]
      /\ call' = [call EXCEPT ![t] = "wake"]
      /\ UNCHANGED <<current_priority, error, rt_current_thread, mutex>>
  BY DEF Wake
<1>3. timer' = [timer EXCEPT ![u] = FALSE] \/ (timer' = timer /\ stat[u] = "INIT")
  BY <1>2
<1> QED
  BY <1>1, <1>2, <1>3, WokenInv

\* Nor does one that is resumed without a call of rt_schedule.
LEMMA ResumeInv ==
  ASSUME IInv, NEW t \in Thread, NEW u \in Thread, Resume(t, u)
  PROVE  IInv'
<1>1. ~In(u, suspend_thread)
  BY ToSetIs DEF Resume, IInv, LockInv, MutexTypes
<1>2. /\ Runs(t) /\ stat[u] # "READY" /\ stat' = [stat EXCEPT ![u] = "READY"]
      /\ ReadyQueue(Insert(Queue, u, current_priority[u])) /\ timer' = [timer EXCEPT ![u] = FALSE]
      /\ call' = call
      /\ UNCHANGED <<current_priority, error, rt_current_thread, mutex>>
  BY DEF Resume
<1> QED
  BY <1>1, <1>2, WokenInv

\* Nor does a thread that goes to sleep.
LEMMA SleepInv ==
  ASSUME IInv, NEW t \in Thread, NEW timed \in BOOLEAN, Sleep(t, timed)
  PROVE  IInv'
<1>1. ThreadTypes
  BY DEF IInv, ThreadInv
<1>2. stat[t] = "READY" /\ ~In(t, suspend_thread) /\ t = rt_current_thread /\ t # Idle
  BY RunnerWaitsNot DEF Sleep, Runs
<1>3. /\ stat' = [stat EXCEPT ![t] = "SUSPEND"] /\ timer' = [timer EXCEPT ![t] = timed]
      /\ call' = [call EXCEPT ![t] = "sleep"]
      /\ ReadyQueue(RemoveFrom(Queue, t, current_priority[t]))
      /\ current_priority' = current_priority /\ error' = error
      /\ rt_current_thread' = rt_current_thread /\ mutex' = mutex
  BY DEF Sleep
<1>4. ThreadTypes'
  BY <1>1, <1>3 DEF ThreadTypes, Stat, Call
<1>5. Exact(Queue, stat, current_priority)'
  <2> DEFINE q == RemoveFrom(Queue, t, current_priority[t])
             st == [stat EXCEPT ![t] = "SUSPEND"]
             cp == current_priority
  <2>1. Exact(q, st, cp)
    BY <1>1, RemoveExact DEF IInv, ThreadInv, ThreadTypes
  <2>2. ReadyQueue(q) /\ stat' = st /\ current_priority' = cp
    BY <1>3
  <2> HIDE DEF q, st, cp
  <2> QED
    BY <2>1, <2>2, QueueBecomes
<1>6. stat'[Idle] = "READY" /\ Running'
  BY <1>1, <1>2, <1>3, Constants DEF IInv, ThreadInv, ThreadTypes, Running
<1>7. TimerOfSuspended'
  BY <1>1, <1>3 DEF IInv, ThreadInv, ThreadTypes, TimerOfSuspended
<1>8. LockInv'
  <2>1. \A x \in Users : In(x, suspend_thread) =>
          stat'[x] = "SUSPEND" /\ call'[x] \in {"take", "taken"}
    BY <1>1, <1>2, <1>3, Constants DEF IInv, LockInv, Waits, ThreadTypes
  <2>2. \A x \in Users : call'[x] \in {"take", "taken"} => call[x] \in {"take", "taken"}
    BY <1>1, <1>3, Constants DEF ThreadTypes
  <2>3. \A x \in Users : stat[x] # "INIT" => stat'[x] # "INIT"
    BY <1>1, <1>3, Constants DEF ThreadTypes
  <2> QED
    BY <1>3, <2>1, <2>2, <2>3, LockSame
<1> QED
  BY <1>4, <1>5, <1>6, <1>7, <1>8 DEF IInv, ThreadInv

\* rt_thread_sleep and rt_mutex_take return alike.
LEMMA ReturnsInv ==
  ASSUME IInv, NEW t \in Thread, SleepReturns(t) \/ TakeReturns(t)
  PROVE  IInv'
<1>1. ThreadTypes
  BY DEF IInv, ThreadInv
<1>2. t = rt_current_thread /\ call[t] \in {"slept", "taken"}
  BY DEF SleepReturns, TakeReturns
<1>3. stat[t] = "READY" /\ ~In(t, suspend_thread)
  BY <1>2, RunnerWaitsNot
<1>4. /\ call' = [call EXCEPT ![t] = "run"] /\ error' = [error EXCEPT ![t] = "EOK"]
      /\ ready' = ready /\ stat' = stat /\ current_priority' = current_priority /\ timer' = timer
      /\ rt_current_thread' = rt_current_thread /\ mutex' = mutex
  BY DEF SleepReturns, TakeReturns
<1>5. ThreadTypes' /\ Running'
  BY <1>1, <1>2, <1>3, <1>4 DEF ThreadTypes, Call, Running
<1>6. Exact(Queue, stat, current_priority)'
  BY <1>4, QueueStays DEF IInv, ThreadInv
<1>7. stat'[Idle] = "READY" /\ TimerOfSuspended'
  BY <1>4 DEF IInv, ThreadInv, TimerOfSuspended
<1>8. LockInv'
  <2>1. \A x \in Users : In(x, suspend_thread) =>
          stat'[x] = "SUSPEND" /\ call'[x] \in {"take", "taken"}
    BY <1>1, <1>3, <1>4, Constants DEF IInv, LockInv, Waits, ThreadTypes
  <2>2. \A x \in Users : call'[x] \in {"take", "taken"} /\ error'[x] = "EOK" =>
          call[x] \in {"take", "taken"} /\ error[x] = "EOK"
    BY <1>1, <1>4, Constants DEF ThreadTypes
  <2> QED
    BY <1>4, <2>1, <2>2, LockSame
<1> QED
  BY <1>5, <1>6, <1>7, <1>8 DEF IInv, ThreadInv
-----------------------------------------------------------------------------
(***************************************************************************)
(* The timer interrupt.                                                    *)
(***************************************************************************)

\* The other threads have had the processor.
LEMMA OthersInv ==
  ASSUME IInv, Others
  PROVE  IInv'
<1>1. Highest(Queue) \in Thread /\ stat[Highest(Queue)] = "READY"
  BY HighestIs DEF IInv, ThreadInv, ThreadTypes
<1>2. /\ ready' = ready /\ stat' = stat /\ current_priority' = current_priority /\ timer' = timer
      /\ error' = error /\ mutex' = mutex /\ call' = call /\ rt_current_thread' = Highest(Queue)
  BY DEF Others, threads
<1>3. ThreadTypes' /\ Running'
  BY <1>1, <1>2 DEF IInv, ThreadInv, ThreadTypes, Running
<1>4. Exact(Queue, stat, current_priority)'
  BY <1>2, QueueStays DEF IInv, ThreadInv
<1>5. stat'[Idle] = "READY" /\ TimerOfSuspended'
  BY <1>2 DEF IInv, ThreadInv, TimerOfSuspended
<1>6. LockInv'
  BY <1>2, LockSame DEF IInv, LockInv, Waits
<1> QED
  BY <1>3, <1>4, <1>5, <1>6 DEF IInv, ThreadInv

\* A thread that is READY goes behind the others of its priority.
LEMMA RotateExact ==
  ASSUME NEW q, NEW st \in [Thread -> Stat], NEW cp \in [Thread -> Level], Exact(q, st, cp),
         NEW u \in Thread, st[u] = "READY"
  PROVE  Exact([table |-> [q.table EXCEPT ![cp[u]] = Append(RemoveFirst(q.table[cp[u]], u), u)],
                group |-> q.group], st, cp)
<1> DEFINE p == cp[u]
           s == q.table[p]
           a == RemoveFirst(s, u)
           b == Append(a, u)
           r == [table |-> [q.table EXCEPT ![p] = b], group |-> q.group]
<1>1. p \in Level /\ s \in Seq(Thread) /\ Distinct(s) /\ In(u, s)
  BY DEF Exact
<1>2. a \in Seq(Thread) /\ Distinct(a) /\ \A x : In(x, a) <=> In(x, s) /\ x # u
  BY <1>1, Unlinked
<1> HIDE DEF a
<1>3. b \in Seq(Thread) /\ Distinct(b) /\ b # <<>> /\ \A x : In(x, b) <=> In(x, a) \/ x = u
  BY <1>2, Appended
<1>4. s # <<>>
  BY <1>1, NotInEmpty
<1>5. /\ r.table \in [Level -> Seq(Thread)] /\ r.table[p] = b /\ r.group = q.group
      /\ \A x \in Level : x # p => r.table[x] = q.table[x]
  BY <1>1, <1>3 DEF Exact
<1> HIDE DEF b, r, p, s
<1>6. \A x \in Level : Distinct(r.table[x])
  BY <1>3, <1>5 DEF Exact
<1>7. r.group = {x \in Level : r.table[x] # <<>>}
  <2>1. q.group = {x \in Level : q.table[x] # <<>>} /\ s = q.table[p]
    BY DEF Exact, s
  <2> QED
    BY <1>1, <1>3, <1>4, <1>5, <2>1
<1>8. ASSUME NEW x \in Level, NEW t \in Thread
      PROVE  In(t, r.table[x]) <=> st[t] = "READY" /\ cp[t] = x
  <2>1. In(t, q.table[x]) <=> st[t] = "READY" /\ cp[t] = x
    BY DEF Exact
  <2>2. CASE x = p
    BY <1>2, <1>3, <1>5, <2>1, <2>2 DEF p, s
  <2>3. CASE x # p
    BY <1>5, <2>1, <2>3
  <2> QED
    BY <2>2, <2>3
<1>9. Exact(r, st, cp)
  BY <1>5, <1>6, <1>7, <1>8 DEF Exact
<1> QED
  BY <1>9 DEF r, b, a, s, p

\* rt_thread_yield.
LEMMA TimeSliceInv ==
  ASSUME IInv, NEW t \in Thread, TimeSlice(t)
  PROVE  IInv'
<1> DEFINE last == Append(RemoveFirst(table[current_priority[t]], t), t)
           q == [table |-> [table EXCEPT ![current_priority[t]] = last], group |-> group]
<1>1. ThreadTypes /\ Queue.table = table /\ Queue.group = group
  BY DEF IInv, ThreadInv, Queue
<1>2. /\ stat[t] = "READY" /\ table' = q.table /\ group' = q.group
      /\ rt_current_thread' = Highest([table |-> table', group |-> group])
      /\ stat' = stat /\ current_priority' = current_priority /\ timer' = timer
      /\ error' = error /\ call' = call /\ mutex' = mutex
  BY DEF TimeSlice, threads
<1>3. Exact(q, stat, current_priority)
  BY <1>1, <1>2, RotateExact DEF IInv, ThreadInv, ThreadTypes
<1>4. rt_current_thread' = Highest(q)
  BY <1>2
<1> HIDE DEF last, q
<1>5. Highest(q) \in Thread /\ stat[Highest(q)] = "READY"
  BY <1>1, <1>3, HighestIs DEF IInv, ThreadInv, ThreadTypes
<1>6. ThreadTypes' /\ Running'
  BY <1>1, <1>2, <1>4, <1>5 DEF ThreadTypes, Running
<1>7. Exact(Queue, stat, current_priority)'
  BY <1>2, <1>3, QueueBecomes DEF ReadyQueue
<1>8. stat'[Idle] = "READY" /\ TimerOfSuspended'
  BY <1>2 DEF IInv, ThreadInv, TimerOfSuspended
<1>9. LockInv'
  BY <1>2, LockSame DEF IInv, LockInv, Waits
<1> QED
  BY <1>6, <1>7, <1>8, <1>9 DEF IInv, ThreadInv

\* What is unlinked from a list in order leaves it so.
LEMMA WithinOrdered ==
  ASSUME NEW r, NEW s, Within(r, s), Ordered(s)
  PROVE  Ordered(r)
BY DEF Within, Ordered

\* rt_thread_timeout: the thread is in no list afterwards.
LEMMA TimeoutInv ==
  ASSUME IInv, NEW t \in Thread, Timeout(t)
  PROVE  IInv'
<1> DEFINE q == Insert(Queue, t, current_priority[t])
           st == [stat EXCEPT ![t] = "READY"]
           cp == current_priority
           W == RemoveFirst(suspend_thread, t)
<1>1. ThreadTypes
  BY DEF IInv, ThreadInv
<1>2. /\ timer[t] /\ stat' = st /\ timer' = [timer EXCEPT ![t] = FALSE]
      /\ error' = [error EXCEPT ![t] = "ETIMEOUT"] /\ suspend_thread' = W
      /\ ReadyQueue(q) /\ rt_current_thread' = Highest(q) /\ current_priority' = cp
      /\ call' = call /\ value' = value /\ owner' = owner /\ hold' = hold
      /\ original_priority' = original_priority
  BY DEF Timeout
<1>3. stat[t] = "SUSPEND"
  BY <1>2 DEF IInv, ThreadInv, TimerOfSuspended
<1>4. /\ W \in Seq(Users) /\ Distinct(W) /\ Within(W, suspend_thread)
      /\ \A x : In(x, W) <=> In(x, suspend_thread) /\ x # t
  BY Unlinked DEF IInv, LockInv, MutexTypes
<1>5. st \in [Thread -> Stat] /\ cp \in [Thread -> Level] /\ Exact(q, st, cp) /\ st[Idle] = "READY"
  BY <1>1, <1>3, InsertExact, Constants DEF IInv, ThreadInv, ThreadTypes, Stat
<1>6. /\ \A x \in Thread : x # t => st[x] = stat[x]
      /\ \A x \in Thread : stat[x] # "INIT" => st[x] # "INIT"
  BY <1>1 DEF ThreadTypes
<1> HIDE DEF q, st, cp, W
<1>7. Highest(q) \in Thread /\ st[Highest(q)] = "READY"
  BY <1>5, HighestIs
<1>8. ThreadTypes' /\ Running' /\ stat'[Idle] = "READY"
  BY <1>1, <1>2, <1>5, <1>7 DEF ThreadTypes, Running
<1>9. Exact(Queue, stat, current_priority)'
  BY <1>2, <1>5, QueueBecomes
<1>10. TimerOfSuspended'
  BY <1>1, <1>2, <1>6 DEF IInv, ThreadInv, ThreadTypes, TimerOfSuspended
<1>11. MutexTypes' /\ Distinct(suspend_thread)' /\ Ordered(suspend_thread)'
  <2>1. Ordered(W) /\ W \in Seq(Users) /\ Distinct(W)
    BY <1>4, WithinOrdered DEF IInv, LockInv
  <2> QED
    BY <1>2, <2>1 DEF IInv, LockInv, MutexTypes, Ordered, Distinct
<1>12. Owned'
  <2>1. suspend_thread = <<>> => W = <<>>
    <3> SUFFICES ASSUME suspend_thread = <<>> PROVE W = <<>>
      OBVIOUS
    <3>1. ~In(t, suspend_thread)
      BY NotInEmpty
    <3> QED
      BY <3>1, Unlinked DEF W, IInv, LockInv, MutexTypes
  <2>2. owner # None => owner \in Thread
    BY Constants DEF IInv, LockInv, MutexTypes
  <2> QED
    BY <1>2, <1>6, <2>1, <2>2 DEF IInv, LockInv, Owned, cp
<1>13. Promised'
  <2>1. \A x \in Users : In(x, suspend_thread)' <=> In(x, W)
    BY <1>2 DEF In
  <2>2. \A x \in Users : error'[x] = "EOK" => x # t /\ error[x] = "EOK"
    BY <1>1, <1>2, Constants DEF ThreadTypes
  <2> QED
    BY <1>2, <1>4, <2>1, <2>2 DEF IInv, LockInv, Promised
<1>14. \A x \in Users : In(x, suspend_thread)' => Waits(x)'
  <2>1. \A x \in Users : In(x, suspend_thread)' <=> In(x, W)
    BY <1>2 DEF In
  <2>2. \A x \in Users : In(x, W) => Waits(x) /\ st[x] = stat[x]
    BY <1>4, <1>6, Constants DEF IInv, LockInv
  <2> QED
    BY <1>2, <2>1, <2>2 DEF Waits, cp
<1> QED
  BY <1>8, <1>9, <1>10, <1>11, <1>12, <1>13, <1>14 DEF IInv, ThreadInv, LockInv
-----------------------------------------------------------------------------
(***************************************************************************)
(* rt_mutex_take.                                                          *)
(***************************************************************************)

\* A thread that takes the mutex without having to wait is the owner.
LEMMA TakesInv ==
  ASSUME IInv, NEW t \in Thread, TakeAgain(t) \/ TakeFree(t)
  PROVE  IInv'
<1>1. ThreadTypes /\ MutexTypes
  BY DEF IInv, ThreadInv, LockInv
<1>2. /\ t \in Users /\ t = rt_current_thread /\ call[t] = "run"
      /\ ready' = ready /\ stat' = stat /\ current_priority' = current_priority /\ timer' = timer
      /\ rt_current_thread' = rt_current_thread /\ call' = call
      /\ suspend_thread' = suspend_thread /\ error' = [error EXCEPT ![t] = "EOK"]
  BY DEF TakeAgain, TakeFree, Take, Runs
<1>3. stat[t] = "READY" /\ t \in Thread /\ t # None
  BY <1>2, RunnerWaitsNot, Constants
<1>4. /\ ThreadTypes' /\ stat'[Idle] = "READY" /\ TimerOfSuspended' /\ Running'
  BY <1>1, <1>2 DEF IInv, ThreadInv, ThreadTypes, TimerOfSuspended, Running
<1>5. Exact(Queue, stat, current_priority)'
  BY <1>2, QueueStays DEF IInv, ThreadInv
<1>6. MutexTypes' /\ Owned'
  <2>1. CASE TakeAgain(t)
    <3>1. owner = t /\ value' = value /\ owner' = owner /\ original_priority' = original_priority
          /\ hold' = IF hold < HoldMax THEN hold + 1 ELSE hold
      BY <2>1 DEF TakeAgain
    <3>2. hold' \in 0 .. HoldMax /\ (hold # 0 => hold' # 0)
      BY <1>1, <3>1, Constants DEF MutexTypes
    <3>3. MutexTypes'
      BY <1>1, <1>2, <3>1, <3>2 DEF MutexTypes
    <3>4. owner # None /\ hold # 0 /\ Owned
      BY <1>3, <3>1 DEF IInv, LockInv, Owned
    <3>5. Owned'
      BY <1>2, <3>1, <3>2, <3>4 DEF Owned
    <3> QED
      BY <3>3, <3>5
  <2>2. CASE TakeFree(t)
    <3>1. owner # t /\ value > 0 /\ value' = value - 1 /\ owner' = t
          /\ original_priority' = current_priority[t] /\ hold' = hold + 1
      BY <2>2 DEF TakeFree
    <3>2. value = 1 /\ owner = None /\ hold = 0
      BY <1>1, <3>1 DEF IInv, LockInv, MutexTypes, Owned
    <3>3. value' = 0 /\ hold' = 1 /\ 1 \in 0 .. HoldMax
      BY <3>1, <3>2, Constants
    <3>4. \A x \in Thread : current_priority[x] = Prio[x]
      BY <3>2, Constants DEF IInv, LockInv, Owned
    <3>5. current_priority[t] \in Level /\ current_priority[t] = Prio[t]
      BY <1>1, <3>4 DEF ThreadTypes
    <3>6. MutexTypes'
      BY <1>1, <1>2, <3>1, <3>3, <3>5 DEF MutexTypes
    <3>7. owner' # None
      BY <1>3, <3>1
    <3>8. stat'[owner'] # "INIT"
      BY <1>2, <1>3, <3>1
    <3>9. original_priority' = Prio[owner']
      BY <3>1, <3>5
    <3>10. \A x \in Thread : current_priority'[x] = Prio[x]
      BY <1>2, <3>4
    <3>11. Owned'
      BY <3>3, <3>7, <3>8, <3>9, <3>10 DEF Owned
    <3> QED
      BY <3>6, <3>11
  <2> QED
    BY <2>1, <2>2
<1>7. owner' = owner \/ (owner = None /\ owner' = t)
  BY <1>1 DEF TakeAgain, TakeFree, IInv, LockInv, MutexTypes, Owned
<1>8. \A x \in Users : In(x, suspend_thread) => owner # None
  BY NotInEmpty DEF IInv, LockInv, Owned
<1>9. Promised'
  <2>1. \A x \in Users : call'[x] \in {"take", "taken"} => x # t /\ error'[x] = error[x]
    BY <1>1, <1>2, Constants DEF ThreadTypes
  <2> QED
    BY <1>2, <1>7, <2>1, Constants DEF IInv, LockInv, Promised, In
<1>10. \A x \in Users : In(x, suspend_thread)' => Waits(x)'
  BY <1>2, <1>7, <1>8 DEF IInv, LockInv, Waits, In
<1>11. Distinct(suspend_thread)' /\ Ordered(suspend_thread)'
  BY <1>2 DEF IInv, LockInv, Distinct, Ordered
<1> QED
  BY <1>4, <1>5, <1>6, <1>9, <1>10, <1>11 DEF IInv, ThreadInv, LockInv

\* rt_ipc_list_suspend keeps the list in order.
LEMMA ByPriorityOrdered ==
  ASSUME ThreadTypes, NEW s \in Seq(Users), Distinct(s), Ordered(s),
         NEW t \in Users, ~In(t, s), current_priority[t] = Prio[t],
         \A x \in Users : In(x, s) => current_priority[x] = Prio[x]
  PROVE  /\ ByPriority(s, t) \in Seq(Users) /\ Distinct(ByPriority(s, t)) /\ Ordered(ByPriority(s, t))
         /\ \A x : In(x, ByPriority(s, t)) <=> In(x, s) \/ x = t
<1> DEFINE after == {i \in DOMAIN s : current_priority[t] < current_priority[s[i]]}
           r == ByPriority(s, t)
<1>1. Len(s) \in Nat /\ DOMAIN s = 1 .. Len(s)
  BY LenProperties
<1>2. \A i \in 1 .. Len(s) : s[i] \in Users /\ In(s[i], s)
  BY ElementOfSeq DEF In
<1>3. /\ \A x \in Users : Prio[x] \in Nat
      /\ \A i \in 1 .. Len(s) : s[i] \in Users /\ current_priority[s[i]] = Prio[s[i]]
  BY <1>2, Constants
<1>4. r = IF after = {} THEN Append(s, t) ELSE InsertAt(s, Min(after), t)
  BY DEF ByPriority
<1>5. /\ after \in SUBSET Nat
      /\ \A i \in 1 .. Len(s) : i \in after <=> Prio[t] < Prio[s[i]]
      /\ \A i \in after : i \in 1 .. Len(s)
  BY <1>1, <1>3
<1> HIDE DEF after, r
<1>6. CASE after = {}
  <2>1. /\ r \in Seq(Users) /\ Distinct(r) /\ Len(r) = Len(s) + 1
        /\ \A i \in 1 .. Len(s) : r[i] = s[i]
        /\ r[Len(s) + 1] = t
        /\ \A x : In(x, r) <=> In(x, s) \/ x = t
    BY <1>4, <1>6, Appended
  <2>2. ASSUME NEW i \in 1 .. Len(r), NEW j \in 1 .. Len(r), i < j PROVE Prio[r[i]] <= Prio[r[j]]
    <3>1. i \in 1 .. Len(s) /\ r[i] = s[i]
      BY <1>1, <2>1, <2>2
    <3>2. CASE j = Len(s) + 1
      <4>1. ~(Prio[t] < Prio[s[i]]) /\ s[i] \in Users
        BY <1>3, <1>5, <1>6, <3>1
      <4>2. Prio[s[i]] <= Prio[t]
        BY <1>3, <4>1
      <4> QED
        BY <2>1, <3>1, <3>2, <4>2
    <3>3. CASE j # Len(s) + 1
      <4>1. j \in 1 .. Len(s)
        BY <1>1, <2>1, <3>3
      <4> QED
        BY <2>1, <2>2, <3>1, <4>1 DEF Ordered
    <3> QED
      BY <3>2, <3>3
  <2> QED
    BY <2>1, <2>2 DEF Ordered, r
<1>7. CASE after # {}
  <2> DEFINE k == Min(after)
  <2>1. k \in after /\ \A i \in after : k <= i
    BY <1>5, <1>7, MinIs
  <2>2. k \in 1 .. Len(s) /\ Prio[t] < Prio[s[k]]
    BY <1>5, <2>1
  <2>3. r = InsertAt(s, k, t)
    BY <1>4, <1>7
  <2> HIDE DEF k
  <2>4. /\ r \in Seq(Users) /\ Distinct(r) /\ Len(r) = Len(s) + 1
        /\ \A i \in 1 .. Len(s) + 1 : i < k => r[i] = s[i]
        /\ r[k] = t
        /\ \A i \in 1 .. Len(s) + 1 : i > k => r[i] = s[i - 1]
        /\ \A x : In(x, r) <=> In(x, s) \/ x = t
    BY <2>2, <2>3, Inserted
  <2>5. \A i \in 1 .. Len(s) : i < k => Prio[s[i]] <= Prio[t]
    <3> SUFFICES ASSUME NEW i \in 1 .. Len(s), i < k PROVE Prio[s[i]] <= Prio[t]
      OBVIOUS
    <3>1. i \notin after
      BY <1>1, <2>1, <2>2
    <3>2. ~(Prio[t] < Prio[s[i]]) /\ s[i] \in Users
      BY <1>3, <1>5, <3>1
    <3> QED
      BY <1>3, <3>2
  <2>6. \A i \in 1 .. Len(s) : i >= k => Prio[t] <= Prio[s[i]]
    <3> SUFFICES ASSUME NEW i \in 1 .. Len(s), i >= k PROVE Prio[t] <= Prio[s[i]]
      OBVIOUS
    <3>1. i = k \/ k < i
      BY <1>1, <2>2
    <3>2. Prio[s[k]] <= Prio[s[i]]
      BY <1>3, <2>2, <3>1 DEF Ordered
    <3>3. Prio[t] \in Nat /\ Prio[s[k]] \in Nat /\ Prio[s[i]] \in Nat
      BY <1>3, <2>2
    <3> QED
      BY <2>2, <3>2, <3>3
  <2>7. ASSUME NEW i \in 1 .. Len(r), NEW j \in 1 .. Len(r), i < j PROVE Prio[r[i]] <= Prio[r[j]]
    <3>1. CASE j < k
      <4>1. i \in 1 .. Len(s) /\ j \in 1 .. Len(s) /\ r[i] = s[i] /\ r[j] = s[j]
        BY <1>1, <2>2, <2>4, <2>7, <3>1
      <4> QED
        BY <2>7, <4>1 DEF Ordered
    <3>2. CASE j = k
      <4>1. i \in 1 .. Len(s) /\ r[i] = s[i] /\ r[j] = t
        BY <1>1, <2>2, <2>4, <2>7, <3>2
      <4> QED
        BY <2>5, <2>7, <3>2, <4>1
    <3>3. CASE j > k /\ i = k
      <4>1. j - 1 \in 1 .. Len(s) /\ j - 1 >= k /\ r[j] = s[j - 1] /\ r[i] = t
        BY <1>1, <2>2, <2>4, <3>3
      <4> QED
        BY <2>6, <4>1
    <3>4. CASE j > k /\ i < k
      <4>1. i \in 1 .. Len(s) /\ j - 1 \in 1 .. Len(s) /\ i < j - 1 /\ r[j] = s[j - 1] /\ r[i] = s[i]
        BY <1>1, <2>2, <2>4, <3>4
      <4> QED
        BY <4>1 DEF Ordered
    <3>5. CASE i > k
      <4>1. i \in 1 .. Len(s) + 1 /\ j \in 1 .. Len(s) + 1 /\ j > k
        BY <1>1, <2>2, <2>4, <2>7, <3>5
      <4>2. i - 1 \in 1 .. Len(s) /\ j - 1 \in 1 .. Len(s) /\ i - 1 < j - 1
        BY <1>1, <2>2, <2>7, <3>5, <4>1
      <4>3. r[j] = s[j - 1] /\ r[i] = s[i - 1]
        BY <2>4, <3>5, <4>1
      <4> QED
        BY <4>2, <4>3 DEF Ordered
    <3>6. j < k \/ j = k \/ (j > k /\ i = k) \/ (j > k /\ i < k) \/ i > k
      BY <1>1, <2>2, <2>7
    <3> QED
      BY <3>1, <3>2, <3>3, <3>4, <3>5, <3>6
  <2> QED
    BY <2>4, <2>7 DEF Ordered, r
<1> QED
  BY <1>6, <1>7

\* The owner inherits the priority before the thread is suspended.
LEMMA TakeWaitInv ==
  ASSUME IInv, NEW t \in Thread, NEW timed \in BOOLEAN, TakeWait(t, timed)
  PROVE  IInv'
<1> DEFINE p == current_priority[t]
           q == IF p < current_priority[owner] THEN ChangePriority(Queue, owner, p) ELSE Queue
           st == [stat EXCEPT ![t] = "SUSPEND"]
           cp == IF p < current_priority[owner] THEN [current_priority EXCEPT ![owner] = p]
                 ELSE current_priority
           W == ByPriority(suspend_thread, t)
<1>1. ThreadTypes /\ MutexTypes
  BY DEF IInv, ThreadInv, LockInv
<1>2. /\ t \in Users /\ t = rt_current_thread /\ call[t] = "run" /\ owner # t /\ value = 0
      /\ current_priority' = cp /\ ReadyQueue(RemoveFrom(q, t, p)) /\ stat' = st
      /\ suspend_thread' = W /\ timer' = [timer EXCEPT ![t] = timed]
      /\ error' = [error EXCEPT ![t] = "EOK"] /\ call' = [call EXCEPT ![t] = "take"]
      /\ rt_current_thread' = rt_current_thread /\ value' = value /\ owner' = owner
      /\ hold' = hold /\ original_priority' = original_priority
  BY DEF TakeWait, Take, Runs
<1>3. stat[t] = "READY" /\ ~In(t, suspend_thread) /\ t # Idle
  BY <1>2, RunnerWaitsNot, Constants
<1>4. owner # None /\ owner \in Users /\ owner \in Thread
  BY <1>1, <1>2, Constants DEF IInv, LockInv, MutexTypes, Owned
<1>5. /\ p = Prio[t] /\ p \in Level /\ p \in Nat
      /\ \A x \in Users : In(x, suspend_thread) => current_priority[x] = Prio[x]
  <2>1. p = Prio[t]
    BY <1>2 DEF IInv, LockInv, Owned
  <2>2. p \in Level /\ p \in Nat
    BY <1>1, Constants DEF ThreadTypes
  <2>3. \A x \in Users : In(x, suspend_thread) => current_priority[x] = Prio[x]
    BY Constants DEF IInv, LockInv, Owned, Waits
  <2> QED
    BY <2>1, <2>2, <2>3
<1>6. Exact(q, stat, cp)
  <2>1. CASE p < current_priority[owner]
    <3>1. Exact(ChangePriority(Queue, owner, p), stat, [current_priority EXCEPT ![owner] = p])
      BY <1>1, <1>4, <1>5, ChangeExact DEF IInv, ThreadInv, ThreadTypes
    <3> QED
      BY <2>1, <3>1
  <2>2. CASE ~(p < current_priority[owner])
    BY <2>2 DEF IInv, ThreadInv
  <2> QED
    BY <2>1, <2>2
<1>7. /\ cp \in [Thread -> Level] /\ cp[t] = p
      /\ \A x \in Thread : x # owner => cp[x] = current_priority[x]
      /\ cp[owner] <= p /\ cp[owner] <= current_priority[owner]
  <2>1. current_priority[owner] \in Nat /\ p \in Nat
    BY <1>1, <1>4, <1>5, Constants DEF ThreadTypes
  <2>2. CASE p < current_priority[owner]
    <3>1. /\ cp = [current_priority EXCEPT ![owner] = p] /\ cp \in [Thread -> Level]
          /\ cp[owner] = p
          /\ \A x \in Thread : x # owner => cp[x] = current_priority[x]
      BY <1>1, <1>4, <1>5, <2>2 DEF ThreadTypes
    <3>2. p <= p /\ p <= current_priority[owner]
      BY <2>1, <2>2
    <3> QED
      BY <1>2, <3>1, <3>2
  <2>3. CASE ~(p < current_priority[owner])
    <3>1. cp = current_priority /\ current_priority[owner] <= p
          /\ current_priority[owner] <= current_priority[owner]
      BY <2>1, <2>3
    <3> QED
      BY <1>1, <3>1 DEF ThreadTypes
  <2> QED
    BY <2>2, <2>3
<1>8. /\ st \in [Thread -> Stat] /\ st[t] = "SUSPEND" /\ \A x \in Thread : x # t => st[x] = stat[x]
  BY <1>1 DEF ThreadTypes, Stat
<1>9. /\ W \in Seq(Users) /\ Distinct(W) /\ Ordered(W)
      /\ \A x : In(x, W) <=> In(x, suspend_thread) \/ x = t
  BY <1>1, <1>2, <1>3, <1>5, ByPriorityOrdered DEF IInv, LockInv, MutexTypes
<1> HIDE DEF q, cp, W
<1>10. Exact(RemoveFrom(q, t, p), st, cp)
  <2>1. Exact(RemoveFrom(q, t, cp[t]), st, cp)
    BY <1>1, <1>6, <1>7, RemoveExact DEF ThreadTypes
  <2> QED
    BY <1>7, <2>1
<1> HIDE DEF p, st
<1>11. Exact(Queue, stat, current_priority)'
  BY <1>2, <1>10, QueueBecomes
<1>12. ThreadTypes'
  BY <1>1, <1>2, <1>7, <1>8 DEF ThreadTypes, Call
<1>13. stat'[Idle] = "READY" /\ Running'
  <2>1. call'[t] = "take"
    BY <1>1, <1>2 DEF ThreadTypes
  <2> QED
    BY <1>2, <1>3, <1>8, <2>1, Constants DEF IInv, ThreadInv, Running
<1>14. TimerOfSuspended'
  BY <1>1, <1>2, <1>8 DEF IInv, ThreadInv, ThreadTypes, TimerOfSuspended
<1>15. MutexTypes' /\ Distinct(suspend_thread)' /\ Ordered(suspend_thread)'
  BY <1>1, <1>2, <1>9 DEF MutexTypes, Distinct, Ordered
<1>16. Owned'
  <2>1. stat'[owner] # "INIT"
    BY <1>2, <1>4, <1>8 DEF IInv, LockInv, Owned
  <2>2. \A x \in Thread : x # owner => current_priority'[x] = Prio[x]
    BY <1>2, <1>7 DEF IInv, LockInv, Owned
  <2> QED
    BY <1>2, <1>4, <2>1, <2>2 DEF IInv, LockInv, Owned
<1>17. \A x \in Users : In(x, suspend_thread)' <=> In(x, W)
  BY <1>2 DEF In
<1>18. Promised'
  <2> SUFFICES ASSUME NEW x \in Users, call'[x] \in {"take", "taken"}, error'[x] = "EOK"
               PROVE  owner = x \/ In(x, W)
    BY <1>2, <1>17 DEF Promised
  <2>1. CASE x = t
    BY <1>9, <2>1
  <2>2. CASE x # t
    <3>1. call[x] \in {"take", "taken"} /\ error[x] = "EOK"
      BY <1>1, <1>2, <2>2, Constants DEF ThreadTypes
    <3> QED
      BY <1>9, <3>1 DEF IInv, LockInv, Promised
  <2> QED
    BY <2>1, <2>2
<1>19. ASSUME NEW x \in Users, In(x, W) PROVE Waits(x)'
  <2>1. x \in Thread /\ Prio[x] \in Nat /\ cp[owner] \in Nat /\ current_priority[owner] \in Nat
    BY <1>1, <1>4, <1>7, Constants DEF ThreadTypes
  <2>2. CASE x = t
    <3>1. call'[x] = "take" /\ stat'[x] = "SUSPEND" /\ owner' # x
      BY <1>1, <1>2, <1>8, <2>1, <2>2 DEF ThreadTypes
    <3>2. current_priority'[owner'] <= Prio[x]
      BY <1>2, <1>5, <1>7, <2>2
    <3> QED
      BY <3>1, <3>2 DEF Waits
  <2>3. CASE x # t
    <3>1. Waits(x)
      BY <1>9, <1>19, <2>3 DEF IInv, LockInv
    <3>2. call'[x] \in {"take", "taken"} /\ stat'[x] = "SUSPEND" /\ owner' # x
      BY <1>1, <1>2, <1>8, <2>1, <2>3, <3>1 DEF ThreadTypes, Waits
    <3>3. current_priority[owner] <= Prio[x]
      BY <3>1 DEF Waits
    <3>4. cp[owner] <= Prio[x]
      BY <1>7, <2>1, <3>3
    <3> QED
      BY <1>2, <3>2, <3>4 DEF Waits
  <2> QED
    BY <2>2, <2>3
<1>20. LockInv'
  BY <1>15, <1>16, <1>17, <1>18, <1>19 DEF LockInv
<1> QED
  BY <1>11, <1>12, <1>13, <1>14, <1>20 DEF IInv, ThreadInv
-----------------------------------------------------------------------------
(***************************************************************************)
(* rt_mutex_release.                                                       *)
(***************************************************************************)

\* The owner goes back to its own priority.
LEMMA RestoredExact ==
  ASSUME ThreadTypes, Exact(Queue, stat, current_priority), NEW t \in Thread,
         original_priority \in Level
  PROVE  Exact(Restored(t), stat, [current_priority EXCEPT ![t] = original_priority])
<1>1. CASE original_priority # current_priority[t]
  BY <1>1, ChangeExact DEF Restored, ThreadTypes
<1>2. CASE original_priority = current_priority[t]
  <2>1. [current_priority EXCEPT ![t] = original_priority] = current_priority
    BY <1>2 DEF ThreadTypes
  <2> QED
    BY <1>2, <2>1 DEF Restored
<1> QED
  BY <1>1, <1>2

\* The mutex was taken more than once.
LEMMA ReleaseOneInv ==
  ASSUME IInv, NEW t \in Thread, ReleaseOne(t)
  PROVE  IInv'
<1>1. /\ hold > 1 /\ hold' = hold - 1 /\ t = owner /\ t \in Users
      /\ ready' = ready /\ stat' = stat /\ current_priority' = current_priority /\ timer' = timer
      /\ error' = error /\ rt_current_thread' = rt_current_thread /\ call' = call
      /\ value' = value /\ owner' = owner /\ original_priority' = original_priority
      /\ suspend_thread' = suspend_thread
  BY DEF ReleaseOne, Take, threads
<1>2. MutexTypes /\ hold \in 0 .. HoldMax /\ t # None
  BY <1>1, Constants DEF IInv, LockInv, MutexTypes
<1>3. hold' \in 0 .. HoldMax /\ hold' # 0
  BY <1>1, <1>2, Constants
<1>4. ThreadTypes' /\ stat'[Idle] = "READY" /\ TimerOfSuspended' /\ Running'
  BY <1>1 DEF IInv, ThreadInv, ThreadTypes, TimerOfSuspended, Running
<1>5. Exact(Queue, stat, current_priority)'
  BY <1>1, QueueStays DEF IInv, ThreadInv
<1>6. MutexTypes' /\ Distinct(suspend_thread)' /\ Ordered(suspend_thread)'
  BY <1>1, <1>2, <1>3 DEF IInv, LockInv, MutexTypes, Distinct, Ordered
<1>7. Owned'
  BY <1>1, <1>2, <1>3 DEF IInv, LockInv, Owned
<1>8. Promised' /\ \A x \in Users : In(x, suspend_thread)' => Waits(x)'
  BY <1>1 DEF IInv, LockInv, Promised, Waits, In
<1> QED
  BY <1>4, <1>5, <1>6, <1>7, <1>8 DEF IInv, ThreadInv, LockInv

\* Nobody waits: the mutex is free.
LEMMA ReleaseFreeInv ==
  ASSUME IInv, NEW t \in Thread, ReleaseFree(t)
  PROVE  IInv'
<1> DEFINE q == Restored(t)
           cp == [current_priority EXCEPT ![t] = original_priority]
<1>1. ThreadTypes /\ MutexTypes
  BY DEF IInv, ThreadInv, LockInv
<1>2. /\ t \in Users /\ owner = t /\ suspend_thread = <<>> /\ ReadyQueue(q)
      /\ t = rt_current_thread /\ call[t] = "run"
      /\ current_priority' = cp /\ value' = value + 1 /\ hold' = 0 /\ owner' = None
      /\ original_priority' = 255 /\ stat' = stat /\ timer' = timer /\ error' = error
      /\ rt_current_thread' = rt_current_thread /\ call' = call /\ suspend_thread' = suspend_thread
  BY DEF ReleaseFree, Take, Runs
<1>3. owner # None /\ value = 0 /\ original_priority = Prio[t]
  <2>1. owner # None
    BY <1>2, Constants
  <2> QED
    BY <1>2, <2>1 DEF IInv, LockInv, Owned
<1>4. original_priority \in Level
  BY <1>3, Constants
<1>5. cp \in [Thread -> Level] /\ cp[t] = Prio[t] /\ \A x \in Thread : x # t => cp[x] = current_priority[x]
  BY <1>1, <1>3, <1>4 DEF ThreadTypes
<1>6. Exact(q, stat, cp)
  BY <1>1, <1>4, RestoredExact DEF IInv, ThreadInv
<1> HIDE DEF q, cp
<1>7. Exact(Queue, stat, current_priority)'
  BY <1>2, <1>6, QueueBecomes
<1>8. ThreadTypes' /\ stat'[Idle] = "READY" /\ TimerOfSuspended' /\ Running'
  BY <1>1, <1>2, <1>5 DEF IInv, ThreadInv, ThreadTypes, TimerOfSuspended, Running
<1>9. MutexTypes' /\ Distinct(suspend_thread)' /\ Ordered(suspend_thread)'
  <2>1. value' = 1 /\ hold' \in 0 .. HoldMax
    BY <1>2, <1>3, Constants
  <2> QED
    BY <1>1, <1>2, <2>1 DEF IInv, LockInv, MutexTypes, Distinct, Ordered
<1>10. Owned'
  <2>1. \A x \in Thread : current_priority'[x] = Prio[x]
    BY <1>2, <1>5 DEF IInv, LockInv, Owned
  <2>2. value' = 1
    BY <1>2, <1>3
  <2> QED
    BY <1>2, <2>1, <2>2 DEF Owned
<1>11. \A x \in Users : ~In(x, suspend_thread)'
  BY <1>2, NotInEmpty DEF In
<1>12. Promised'
  <2>1. \A x \in Users : ~In(x, suspend_thread)
    BY <1>2, NotInEmpty
  <2>2. \A x \in Users : ~(call[x] \in {"take", "taken"} /\ error[x] = "EOK")
    BY <1>2, <2>1 DEF IInv, LockInv, Promised
  <2> QED
    BY <1>2, <2>2 DEF Promised
<1> QED
  BY <1>7, <1>8, <1>9, <1>10, <1>11, <1>12 DEF IInv, ThreadInv, LockInv

\* The first that waits is the owner; the others are not more urgent.
LEMMA ReleaseHandOverInv ==
  ASSUME IInv, NEW t \in Thread, ReleaseHandOver(t)
  PROVE  IInv'
<1> DEFINE w == Head(suspend_thread)
           W == Tail(suspend_thread)
           q == Restored(t)
           cp == [current_priority EXCEPT ![t] = original_priority]
           st == [stat EXCEPT ![w] = "READY"]
<1>1. ThreadTypes /\ MutexTypes
  BY DEF IInv, ThreadInv, LockInv
<1>2. /\ t \in Users /\ owner = t /\ suspend_thread # <<>>
      /\ t = rt_current_thread /\ call[t] = "run"
      /\ ReadyQueue(Insert(q, w, current_priority[w]))
      /\ current_priority' = cp /\ value' = value /\ hold' = 1 /\ owner' = w
      /\ original_priority' = current_priority[w] /\ stat' = st
      /\ timer' = [timer EXCEPT ![w] = FALSE] /\ error' = error
      /\ rt_current_thread' = rt_current_thread /\ call' = [call EXCEPT ![t] = "wake"]
      /\ suspend_thread' = W
  BY DEF ReleaseHandOver, Take, Runs
<1>3. owner # None /\ value = 0 /\ original_priority = Prio[t]
  <2>1. owner # None
    BY <1>2, Constants
  <2> QED
    BY <1>2, <2>1 DEF IInv, LockInv, Owned
<1>4. original_priority \in Level
  BY <1>3, Constants
<1>5. /\ w \in Users /\ In(w, suspend_thread) /\ w = suspend_thread[1] /\ Len(suspend_thread) \in Nat \ {0}
      /\ W \in Seq(Users) /\ Distinct(W) /\ Within(W, suspend_thread)
      /\ \A x : In(x, W) <=> In(x, suspend_thread) /\ x # w
  BY <1>1, <1>2, Headed DEF IInv, LockInv, MutexTypes
<1>6. stat[t] = "READY" /\ ~In(t, suspend_thread)
  BY <1>2, RunnerWaitsNot
<1>7. w \in Thread /\ w # t /\ stat[w] = "SUSPEND" /\ current_priority[w] = Prio[w]
  <2>1. w \in Thread /\ w # t
    BY <1>5, <1>6, Constants
  <2>2. Waits(w)
    BY <1>5 DEF IInv, LockInv
  <2> QED
    BY <1>2, <2>1, <2>2 DEF IInv, LockInv, Owned, Waits
<1>8. /\ cp \in [Thread -> Level] /\ cp[t] = Prio[t] /\ cp[w] = current_priority[w]
      /\ \A x \in Thread : x # t => cp[x] = current_priority[x]
  BY <1>1, <1>3, <1>4, <1>7 DEF ThreadTypes
<1>9. /\ st \in [Thread -> Stat] /\ st[w] = "READY" /\ \A x \in Thread : x # w => st[x] = stat[x]
  BY <1>1, <1>7 DEF ThreadTypes, Stat
<1>10. Exact(q, stat, cp)
  BY <1>1, <1>4, RestoredExact DEF IInv, ThreadInv
<1> HIDE DEF q, cp, w, W
<1>11. Exact(Insert(q, w, cp[w]), st, cp)
  BY <1>1, <1>7, <1>8, <1>10, InsertExact DEF ThreadTypes
<1>12. Exact(Insert(q, w, current_priority[w]), st, cp)
  BY <1>8, <1>11
<1> HIDE DEF st
<1>13. Exact(Queue, stat, current_priority)'
  BY <1>2, <1>12, QueueBecomes
<1>14. ThreadTypes'
  BY <1>1, <1>2, <1>8, <1>9 DEF ThreadTypes, Call
<1>15. stat'[Idle] = "READY" /\ Running'
  <2>1. Idle # w
    BY <1>5, Constants
  <2>2. stat'[t] = "READY"
    BY <1>2, <1>6, <1>7, <1>9
  <2> QED
    BY <1>2, <1>9, <2>1, <2>2, Constants DEF IInv, ThreadInv, Running
<1>16. TimerOfSuspended'
  BY <1>1, <1>2, <1>7, <1>9 DEF IInv, ThreadInv, ThreadTypes, TimerOfSuspended
<1>17. MutexTypes' /\ Distinct(suspend_thread)' /\ Ordered(suspend_thread)'
  <2>1. Ordered(W)
    BY <1>5, WithinOrdered DEF IInv, LockInv
  <2>2. current_priority[w] \in Level /\ 1 \in 0 .. HoldMax
    BY <1>1, <1>7, Constants DEF ThreadTypes
  <2> QED
    BY <1>1, <1>2, <1>5, <2>1, <2>2 DEF MutexTypes, Distinct, Ordered
<1>18. Owned'
  <2>1. w # None
    BY <1>5, Constants
  <2>2. stat'[w] # "INIT"
    BY <1>2, <1>9
  <2>3. \A x \in Thread : current_priority'[x] = Prio[x]
    BY <1>2, <1>8 DEF IInv, LockInv, Owned
  <2> QED
    BY <1>2, <1>3, <1>7, <2>1, <2>2, <2>3 DEF Owned
<1>19. \A x \in Users : In(x, suspend_thread)' <=> In(x, W)
  BY <1>2 DEF In
<1>20. Promised'
  <2> SUFFICES ASSUME NEW x \in Users, call'[x] \in {"take", "taken"}, error'[x] = "EOK"
               PROVE  w = x \/ In(x, W)
    BY <1>2, <1>19 DEF Promised
  <2>1. x # t /\ call[x] \in {"take", "taken"} /\ error[x] = "EOK"
    BY <1>1, <1>2, Constants DEF ThreadTypes
  <2>2. In(x, suspend_thread)
    BY <1>2, <2>1 DEF IInv, LockInv, Promised
  <2> QED
    BY <1>5, <2>2
<1>21. ASSUME NEW x \in Users, In(x, W) PROVE Waits(x)'
  <2>1. In(x, suspend_thread) /\ x # w /\ x # t /\ x \in Thread
    BY <1>5, <1>6, <1>21, Constants
  <2>2. Waits(x)
    BY <2>1 DEF IInv, LockInv
  <2>3. call'[x] \in {"take", "taken"} /\ stat'[x] = "SUSPEND" /\ owner' # x
    BY <1>1, <1>2, <1>9, <2>1, <2>2 DEF ThreadTypes, Waits
  <2>4. Prio[w] <= Prio[x]
    <3>1. PICK i \in 1 .. Len(suspend_thread) : suspend_thread[i] = x
      BY <2>1 DEF In
    <3>2. 1 \in 1 .. Len(suspend_thread) /\ 1 < i
      BY <1>5, <2>1, <3>1
    <3> QED
      BY <1>5, <3>1, <3>2 DEF IInv, LockInv, Ordered
  <2>5. current_priority'[owner'] = Prio[w]
    BY <1>2, <1>7, <1>8
  <2> QED
    BY <2>3, <2>4, <2>5 DEF Waits
<1>22. LockInv'
  BY <1>17, <1>18, <1>19, <1>20, <1>21 DEF LockInv
<1> QED
  BY <1>13, <1>14, <1>15, <1>16, <1>22 DEF IInv, ThreadInv

\* Every step keeps the invariant.
LEMMA NextInv == IInv /\ [Next]_vars => IInv'
<1> SUFFICES ASSUME IInv, [Next]_vars PROVE IInv'
  OBVIOUS
<1>1. CASE UNCHANGED vars
  <2>1. /\ UNCHANGED <<ready, stat, current_priority, timer, error, rt_current_thread, call, mutex>>
    BY <1>1 DEF vars, threads
  <2>2. ThreadTypes' /\ stat'[Idle] = "READY" /\ TimerOfSuspended' /\ Running'
    BY <2>1 DEF IInv, ThreadInv, ThreadTypes, TimerOfSuspended, Running
  <2>3. Exact(Queue, stat, current_priority)'
    BY <2>1, QueueStays DEF IInv, ThreadInv
  <2>4. LockInv'
    BY <2>1, LockSame DEF IInv, LockInv, Waits
  <2> QED
    BY <2>2, <2>3, <2>4 DEF IInv, ThreadInv
<1>2. ASSUME NEW t \in Thread, Proceed(t) PROVE IInv'
  BY <1>2, ScheduleInv, ReturnsInv DEF Proceed
<1>3. ASSUME NEW t \in Thread, Interrupt(t) PROVE IInv'
  BY <1>3, TimeSliceInv, TimeoutInv DEF Interrupt
<1>4. ASSUME NEW t \in Thread, NEW u \in Thread, Startup(t, u) \/ Wake(t, u) \/ Resume(t, u)
      PROVE  IInv'
  BY <1>4, StartupInv, WakeInv, ResumeInv
<1>5. ASSUME NEW t \in Thread, NEW timed \in BOOLEAN, Sleep(t, timed) PROVE IInv'
  BY <1>5, SleepInv
<1>6. ASSUME NEW t \in Thread, TakeAgain(t) \/ TakeFree(t) PROVE IInv'
  BY <1>6, TakesInv
<1>7. ASSUME NEW t \in Thread, NEW timed \in {FALSE, TimedTake}, TakeWait(t, timed) PROVE IInv'
  <2>1. timed \in BOOLEAN
    BY KernelAssumption
  <2> QED
    BY <1>7, <2>1, TakeWaitInv
<1>8. ASSUME NEW t \in Thread, ReleaseOne(t) \/ ReleaseFree(t) \/ ReleaseHandOver(t) PROVE IInv'
  BY <1>8, ReleaseOneInv, ReleaseFreeInv, ReleaseHandOverInv
<1>9. CASE Others
  BY <1>9, OthersInv
<1> QED
  BY <1>1, <1>2, <1>3, <1>4, <1>5, <1>6, <1>7, <1>8, <1>9 DEF Next

\* The invariant holds with any threads, priorities and times to wait.
THEOREM Invariance == Spec => []IInv
<1>1. IInv /\ [Next]_vars => IInv'
  BY NextInv
<1> QED
  BY <1>1, InitInv, PTL DEF Spec
-----------------------------------------------------------------------------
(***************************************************************************)
(* What follows from it.                                                   *)
(***************************************************************************)

\* How often a thread is in the queue of a priority.
LEMMA CountedOnce ==
  ASSUME NEW s \in Seq(Thread), Distinct(s), NEW t \in Thread
  PROVE  Cardinality({i \in DOMAIN s : s[i] = t}) = IF In(t, s) THEN 1 ELSE 0
<1>1. DOMAIN s = 1 .. Len(s)
  BY LenProperties
<1>2. CASE In(t, s)
  <2>1. PICK i \in 1 .. Len(s) : s[i] = t
    BY <1>2 DEF In
  <2>2. {j \in DOMAIN s : s[j] = t} = {i}
    BY <1>1, <2>1 DEF Distinct
  <2> QED
    BY <1>2, <2>2, FS_Singleton
<1>3. CASE ~In(t, s)
  <2>1. {j \in DOMAIN s : s[j] = t} = {}
    BY <1>1, <1>3 DEF In
  <2> QED
    BY <1>3, <2>1, FS_EmptySet
<1> QED
  BY <1>2, <1>3

\* Who is resumed takes the mutex at other times.
Resumable == resumed \subseteq Users

\* Only Resume adds to who was resumed.
LEMMA ResumableAlways == Spec => []Resumable
<1>1. Init => Resumable
  BY DEF Init, Resumable
<1>2. Resumable /\ [Next]_vars => Resumable'
  <2> SUFFICES ASSUME Resumable, [Next]_vars PROVE resumed' \subseteq Users
    BY DEF Resumable
  <2>1. CASE UNCHANGED vars \/ Others
    BY <2>1 DEF vars, Others, Resumable
  <2>2. ASSUME NEW t \in Thread, Proceed(t) \/ Interrupt(t) PROVE resumed' \subseteq Users
    BY <2>2 DEF Proceed, Interrupt, Schedule, SleepReturns, TakeReturns, Timeout, TimeSlice, Resumable
  <2>3. ASSUME NEW t \in Thread, NEW u \in Thread, Startup(t, u) \/ Wake(t, u) \/ Resume(t, u)
        PROVE  resumed' \subseteq Users
    BY <2>3 DEF Startup, Wake, Resume, Resumable
  <2>4. ASSUME NEW t \in Thread, NEW timed \in BOOLEAN, Sleep(t, timed) PROVE resumed' \subseteq Users
    BY <2>4 DEF Sleep, Resumable
  <2>5. ASSUME NEW t \in Thread, NEW timed \in {FALSE, TimedTake}, TakeWait(t, timed)
        PROVE  resumed' \subseteq Users
    BY <2>5 DEF TakeWait, Resumable
  <2>6. ASSUME NEW t \in Thread, \/ TakeAgain(t) \/ TakeFree(t) \/ ReleaseOne(t) \/ ReleaseFree(t)
                                \/ ReleaseHandOver(t)
        PROVE  resumed' \subseteq Users
    BY <2>6 DEF TakeAgain, TakeFree, ReleaseOne, ReleaseFree, ReleaseHandOver, Resumable
  <2> QED
    BY <2>1, <2>2, <2>3, <2>4, <2>5, <2>6 DEF Next
<1> QED
  BY <1>1, <1>2, PTL DEF Spec

(***************************************************************************)
(* The queues, the timers and the results of rt_mutex_take agree with the  *)
(* states of the threads, with any number of threads and priorities, also  *)
(* when rt_mutex_take is given a time.                                     *)
(***************************************************************************)
THEOREM KeepsThreads == Spec => []Consistent
<1>1. IInv /\ Resumable => Consistent
  <2> SUFFICES ASSUME IInv, Resumable PROVE Consistent
    OBVIOUS
  <2>1. TypeOK
    BY DEF IInv, ThreadInv, LockInv, ThreadTypes, MutexTypes, TypeOK, Exact, Queue, Stat, Resumable
  <2>2. QueuesExact
    <3>1. /\ table \in [Level -> Seq(Thread)] /\ \A p \in Level : Distinct(table[p])
          /\ \A p \in Level, t \in Thread :
               In(t, table[p]) <=> stat[t] = "READY" /\ current_priority[t] = p
          /\ group = {p \in Level : table[p] # <<>>}
      BY DEF IInv, ThreadInv, Exact, Queue
    <3>2. ASSUME NEW t \in Thread, NEW p \in Level
          PROVE  Cardinality({i \in DOMAIN table[p] : table[p][i] = t})
                   = IF stat[t] = "READY" /\ current_priority[t] = p THEN 1 ELSE 0
      <4> DEFINE s == table[p]
      <4>1. s \in Seq(Thread) /\ Distinct(s)
        BY <3>1
      <4>2. In(t, s) <=> stat[t] = "READY" /\ current_priority[t] = p
        BY <3>1
      <4> HIDE DEF s
      <4>3. Cardinality({i \in DOMAIN s : s[i] = t}) = IF In(t, s) THEN 1 ELSE 0
        BY <4>1, CountedOnce
      <4> QED
        BY <4>2, <4>3 DEF s
    <3> QED
      BY <3>1, <3>2 DEF QueuesExact
  <2>3. TakenIsOwned
    <3> SUFFICES ASSUME NEW t \in Users, rt_current_thread = t, call[t] = "taken", error[t] = "EOK"
                 PROVE  owner = t
      BY DEF TakenIsOwned
    <3>1. ~In(t, suspend_thread)
      BY RunnerWaitsNot
    <3> QED
      BY <3>1 DEF IInv, LockInv, Promised
  <2> QED
    BY <2>1, <2>2, <2>3 DEF Consistent, IInv, ThreadInv
<1> QED
  BY <1>1, Invariance, ResumableAlways, PTL

\* Who waits is in the list.
LEMMA WaitingIs ==
  ASSUME IInv
  PROVE  /\ ToSet(suspend_thread) \subseteq Users
         /\ \A x : x \in ToSet(suspend_thread) <=> In(x, suspend_thread)
<1>1. suspend_thread \in Seq(Users)
  BY DEF IInv, LockInv, MutexTypes
<1>2. \A x : x \in ToSet(suspend_thread) <=> In(x, suspend_thread)
  BY <1>1, ToSetIs
<1>3. \A x : In(x, suspend_thread) => x \in Users
  BY <1>1, ElementOfSeq DEF In
<1> QED
  BY <1>2, <1>3

(***************************************************************************)
(* The owner is never less urgent than who waits for it, and everybody     *)
(* else has the priority it was made with.                                 *)
(***************************************************************************)
THEOREM OwnerInherits == Spec => []Inherits
<1>1. IInv => Inherits
  <2> SUFFICES ASSUME IInv PROVE Inherits
    OBVIOUS
  <2>1. ASSUME NEW t \in ToSet(suspend_thread) PROVE current_priority[owner] <= current_priority[t]
    <3>1. t \in Users /\ t \in Thread /\ Waits(t)
      BY WaitingIs, Constants DEF IInv, LockInv
    <3>2. current_priority[t] = Prio[t]
      BY <3>1 DEF IInv, LockInv, Owned, Waits
    <3> QED
      BY <3>1, <3>2 DEF Waits
  <2> QED
    BY <2>1 DEF Inherits, IInv, LockInv, Owned
<1> QED
  BY <1>1, Invariance, PTL
-----------------------------------------------------------------------------
(***************************************************************************)
(* The mutex implements the lock.                                          *)
(***************************************************************************)

\* A step that leaves the owner and the list alone is none of the lock's.
LEMMA LockStutters ==
  ASSUME owner' = owner, hold' = hold, suspend_thread' = suspend_thread
  PROVE  UNCHANGED <<owner, hold, ToSet(suspend_thread)>>
OBVIOUS

\* Every other step is one of the lock's, or a stutter.
LEMMA LockStep ==
  ASSUME IInv, IInv', [Next]_vars
  PROVE  [L!Next]_<<owner, hold, ToSet(suspend_thread)>>
<1> DEFINE Stutter == UNCHANGED <<owner, hold, ToSet(suspend_thread)>>
           W == ToSet(suspend_thread)
<1>1. /\ W \subseteq Users /\ W' \subseteq Users
      /\ \A x : x \in W <=> In(x, suspend_thread)
      /\ \A x : x \in W' <=> In(x, suspend_thread)'
  <2>1. W \subseteq Users /\ \A x : x \in W <=> In(x, suspend_thread)
    BY WaitingIs
  <2>2. suspend_thread' \in Seq(Users)
    BY DEF IInv, LockInv, MutexTypes
  <2>3. \A x : x \in W' <=> In(x, suspend_thread')
    BY <2>2, ToSetIs
  <2>4. \A x : In(x, suspend_thread') => x \in Users
    BY <2>2, ElementOfSeq DEF In
  <2> QED
    BY <2>1, <2>3, <2>4 DEF In
<1>2. MutexTypes /\ Owned /\ Distinct(suspend_thread) /\ Ordered(suspend_thread)
  BY DEF IInv, LockInv
<1> HIDE DEF W
<1>3. CASE UNCHANGED vars
  BY <1>3, LockStutters DEF vars, mutex
<1>4. ASSUME NEW t \in Thread, Proceed(t) PROVE Stutter
  BY <1>4, LockStutters DEF Proceed, Schedule, SleepReturns, TakeReturns, mutex
<1>5. ASSUME NEW t \in Thread, Interrupt(t) PROVE Stutter \/ L!Next
  <2>1. CASE TimeSlice(t)
    BY <2>1, LockStutters DEF TimeSlice, mutex
  <2>2. CASE Timeout(t) /\ ~In(t, suspend_thread)
    <3>1. RemoveFirst(suspend_thread, t) = suspend_thread
      BY <1>2, <2>2, Unlinked DEF MutexTypes
    <3> QED
      BY <2>2, <3>1, LockStutters DEF Timeout
  <2>3. CASE Timeout(t) /\ In(t, suspend_thread)
    <3>1. \A x : In(x, RemoveFirst(suspend_thread, t)) <=> In(x, suspend_thread) /\ x # t
      BY <1>2, Unlinked DEF MutexTypes
    <3>2. suspend_thread' = RemoveFirst(suspend_thread, t) /\ owner' = owner /\ hold' = hold
      BY <2>3 DEF Timeout
    <3>3. \A x : In(x, suspend_thread)' <=> In(x, RemoveFirst(suspend_thread, t))
      BY <3>2 DEF In
    <3>4. t \in W /\ W' = W \ {t} /\ t \in Users
      BY <1>1, <2>3, <3>1, <3>3
    <3>5. L!GiveUp(t)
      BY <3>2, <3>4 DEF L!GiveUp, W
    <3> QED
      BY <3>4, <3>5 DEF L!Next
  <2> QED
    BY <1>5, <2>1, <2>2, <2>3 DEF Interrupt
<1>6. ASSUME NEW t \in Thread, NEW u \in Thread, Startup(t, u) \/ Wake(t, u) \/ Resume(t, u)
      PROVE  Stutter
  BY <1>6, LockStutters DEF Startup, Wake, Resume, mutex
<1>7. ASSUME NEW t \in Thread, NEW timed \in BOOLEAN, Sleep(t, timed) PROVE Stutter
  BY <1>7, LockStutters DEF Sleep, mutex
<1>8. ASSUME NEW t \in Thread, TakeAgain(t) PROVE Stutter \/ L!Next
  <2>1. /\ t \in Users /\ owner = t /\ owner' = owner /\ suspend_thread' = suspend_thread
        /\ hold' = IF hold < HoldMax THEN hold + 1 ELSE hold
    BY <1>8 DEF TakeAgain, Take
  <2>2. CASE hold < HoldMax
    <3>1. L!Again(t)
      BY <2>1, <2>2 DEF L!Again
    <3> QED
      BY <2>1, <3>1 DEF L!Next
  <2>3. CASE ~(hold < HoldMax)
    BY <2>1, <2>3, LockStutters
  <2> QED
    BY <2>2, <2>3
<1>9. ASSUME NEW t \in Thread, TakeFree(t) PROVE L!Next
  <2>1. t \in Users /\ value > 0 /\ owner' = t /\ hold' = hold + 1 /\ suspend_thread' = suspend_thread
    BY <1>9 DEF TakeFree, Take
  <2>2. owner = None /\ hold = 0
    BY <1>2, <2>1 DEF MutexTypes, Owned
  <2>3. hold' = 1
    BY <2>1, <2>2
  <2>4. L!Acquire(t)
    BY <2>1, <2>2, <2>3 DEF L!Acquire
  <2> QED
    BY <2>1, <2>4 DEF L!Next
<1>10. ASSUME NEW t \in Thread, NEW timed \in {FALSE, TimedTake}, TakeWait(t, timed) PROVE L!Next
  <2> DEFINE r == ByPriority(suspend_thread, t)
  <2>1. /\ t \in Users /\ t = rt_current_thread /\ call[t] = "run" /\ owner # t /\ value = 0
        /\ suspend_thread' = r /\ owner' = owner /\ hold' = hold
    BY <1>10 DEF TakeWait, Take, Runs
  <2>2. ~In(t, suspend_thread)
    BY <2>1, RunnerWaitsNot
  <2>3. current_priority[t] = Prio[t] /\ owner # None
    BY <1>2, <2>1, Constants DEF MutexTypes, Owned
  <2>4. \A x \in Users : In(x, suspend_thread) => current_priority[x] = Prio[x]
    BY Constants DEF IInv, LockInv, Owned, Waits
  <2>5. \A x : In(x, r) <=> In(x, suspend_thread) \/ x = t
    BY <1>2, <2>1, <2>2, <2>3, <2>4, ByPriorityOrdered DEF IInv, ThreadInv, MutexTypes
  <2> HIDE DEF r
  <2>6. \A x : In(x, suspend_thread)' <=> In(x, r)
    BY <2>1 DEF In
  <2>7. t \notin W /\ W' = W \cup {t}
    BY <1>1, <2>2, <2>5, <2>6
  <2>8. L!Wait(t)
    BY <2>1, <2>3, <2>7 DEF L!Wait, W
  <2> QED
    BY <2>1, <2>8 DEF L!Next
<1>11. ASSUME NEW t \in Thread, ReleaseOne(t) PROVE L!Next
  <2>1. t \in Users /\ L!Back(t)
    BY <1>11 DEF ReleaseOne, Take, L!Back
  <2> QED
    BY <2>1 DEF L!Next
<1>12. ASSUME NEW t \in Thread, ReleaseFree(t) PROVE L!Next
  <2>1. /\ t \in Users /\ owner = t /\ hold = 1 /\ suspend_thread = <<>>
        /\ owner' = None /\ hold' = 0 /\ suspend_thread' = suspend_thread
    BY <1>12 DEF ReleaseFree, Take
  <2>2. W = {} /\ W' = W
    BY <1>1, <2>1, NotInEmpty DEF W
  <2>3. L!Free(t)
    BY <2>1, <2>2 DEF L!Free, W
  <2> QED
    BY <2>1, <2>3 DEF L!Next
<1>13. ASSUME NEW t \in Thread, ReleaseHandOver(t) PROVE L!Next
  <2> DEFINE w == Head(suspend_thread)
             r == Tail(suspend_thread)
  <2>1. /\ t \in Users /\ owner = t /\ hold = 1 /\ suspend_thread # <<>>
        /\ owner' = w /\ hold' = 1 /\ suspend_thread' = r
    BY <1>13 DEF ReleaseHandOver, Take
  <2>2. /\ w \in Users /\ In(w, suspend_thread) /\ w = suspend_thread[1] /\ Len(suspend_thread) \in Nat \ {0}
        /\ \A x : In(x, r) <=> In(x, suspend_thread) /\ x # w
    BY <1>2, <2>1, Headed DEF MutexTypes
  <2> HIDE DEF w, r
  <2>3. \A x : In(x, suspend_thread)' <=> In(x, r)
    BY <2>1 DEF In
  <2>4. w \in W /\ W' = W \ {w}
    BY <1>1, <2>2, <2>3
  <2>5. ASSUME NEW u \in W PROVE Prio[w] <= Prio[u]
    <3>1. PICK i \in 1 .. Len(suspend_thread) : suspend_thread[i] = u
      BY <1>1 DEF In
    <3>2. 1 \in 1 .. Len(suspend_thread) /\ (i = 1 \/ 1 < i)
      BY <2>2, <3>1
    <3>3. CASE i = 1
      <4>1. u = w /\ Prio[w] \in Nat
        BY <2>2, <3>1, <3>3, Constants
      <4> QED
        BY <4>1
    <3>4. CASE 1 < i
      BY <1>2, <2>2, <3>1, <3>2, <3>4 DEF Ordered
    <3> QED
      BY <3>2, <3>3, <3>4
  <2>6. L!HandOver(t)
    BY <2>1, <2>4, <2>5 DEF L!HandOver, W
  <2> QED
    BY <2>1, <2>6 DEF L!Next
<1>14. CASE Others
  BY <1>14, LockStutters DEF Others, mutex
<1>15. Stutter \/ L!Next
  BY <1>3, <1>4, <1>5, <1>6, <1>7, <1>8, <1>9, <1>10, <1>11, <1>12, <1>13, <1>14 DEF Next
<1> QED
  BY <1>15

(***************************************************************************)
(* rt_mutex_take and rt_mutex_release are a lock that is handed to the     *)
(* most urgent thread that waits for it, and is never free while it is     *)
(* wanted.                                                                 *)
(***************************************************************************)
THEOREM MutexIsLock == Spec => LockSpec
<1>1. Init => L!Init
  <2> SUFFICES ASSUME Init PROVE L!Init
    OBVIOUS
  <2>1. \A x : x \notin ToSet(suspend_thread)
    BY InitInv, WaitingIs, NotInEmpty DEF Init
  <2>2. ToSet(suspend_thread) = {}
    BY <2>1
  <2> QED
    BY <2>2 DEF Init, L!Init
<1>2. IInv /\ IInv' /\ [Next]_vars => [L!Next]_<<owner, hold, ToSet(suspend_thread)>>
  BY LockStep
<1> QED
  BY <1>1, <1>2, Invariance, PTL DEF Spec, LockSpec, L!Spec
-----------------------------------------------------------------------------
(***************************************************************************)
(* The most urgent thread runs, if nobody gives up waiting for the mutex.  *)
(***************************************************************************)

\* What runs, and is not about to call rt_schedule, is the most urgent but for
\* who was resumed.
Foremost ==
  call[rt_current_thread] \notin {"take", "sleep", "wake"} =>
    \A t \in Thread \ resumed : stat[t] = "READY" => current_priority[rt_current_thread] <= current_priority[t]

\* The owner has its own priority, or that of a thread that waits.
Boosted ==
  owner # None =>
    \/ current_priority[owner] = Prio[owner]
    \/ \E t \in Users : In(t, suspend_thread) /\ Prio[t] = current_priority[owner]

\* Who waits for the mutex waits without a time.
Patient == \A t \in Users : In(t, suspend_thread) => ~timer[t]

HInv == Foremost /\ Boosted /\ Patient

\* rt_schedule has switched to the most urgent thread.
LEMMA SwitchedForemost ==
  ASSUME IInv', rt_current_thread' = Highest([table |-> table', group |-> group'])
  PROVE  Foremost'
<1> DEFINE q == [table |-> table', group |-> group']
           st == stat'
           cp == current_priority'
<1>1. /\ st \in [Thread -> Stat] /\ cp \in [Thread -> Level] /\ st[Idle] = "READY"
      /\ Exact(q, st, cp)
  BY DEF IInv, ThreadInv, ThreadTypes, Exact, Queue
<1>2. rt_current_thread' = Highest(q)
  OBVIOUS
<1> HIDE DEF q, st, cp
<1>3. \A t \in Thread : st[t] = "READY" => cp[Highest(q)] <= cp[t]
  BY <1>1, HighestIs
<1> QED
  BY <1>2, <1>3 DEF Foremost, st, cp

\* A step that leaves the mutex and the priorities alone, and starts no timer
\* of a thread that waits.
LEMMA WaitersSame ==
  ASSUME HInv, UNCHANGED <<owner, suspend_thread, current_priority>>,
         \A t \in Users : In(t, suspend_thread) => timer'[t] = timer[t] \/ timer'[t] = FALSE
  PROVE  Boosted' /\ Patient'
<1>1. owner' = owner /\ suspend_thread' = suspend_thread /\ current_priority' = current_priority
  OBVIOUS
<1>2. Boosted'
  BY <1>1 DEF HInv, Boosted, In
<1>3. Patient'
  BY <1>1 DEF HInv, Patient, In
<1> QED
  BY <1>2, <1>3

\* Every step keeps the most urgent thread running.
LEMMA ForemostStep ==
  ASSUME TimedTake = FALSE, IInv, IInv', HInv, [Next]_vars
  PROVE  HInv'
<1>1. ThreadTypes /\ MutexTypes /\ Owned
  BY DEF IInv, ThreadInv, LockInv
<1>2. CASE UNCHANGED vars
  <2>1. Foremost'
    BY <1>2 DEF vars, threads, HInv, Foremost
  <2>2. Boosted' /\ Patient'
    BY <1>2, WaitersSame DEF vars, threads, mutex
  <2> QED
    BY <2>1, <2>2 DEF HInv
<1>3. ASSUME NEW t \in Thread, Schedule(t) PROVE HInv'
  <2>1. Foremost'
    BY <1>3, SwitchedForemost DEF Schedule, ready, Queue
  <2>2. Boosted' /\ Patient'
    BY <1>3, WaitersSame DEF Schedule, threads, mutex
  <2> QED
    BY <2>1, <2>2 DEF HInv
<1>4. ASSUME NEW t \in Thread, SleepReturns(t) \/ TakeReturns(t) PROVE HInv'
  <2>1. /\ rt_current_thread' = rt_current_thread /\ rt_current_thread = t
        /\ call[t] \in {"slept", "taken"}
        /\ stat' = stat /\ current_priority' = current_priority /\ timer' = timer /\ mutex' = mutex
        /\ resumed' = resumed
    BY <1>4 DEF SleepReturns, TakeReturns
  <2>2. Foremost'
    BY <2>1 DEF HInv, Foremost
  <2>3. Boosted' /\ Patient'
    BY <2>1, WaitersSame DEF mutex
  <2> QED
    BY <2>2, <2>3 DEF HInv
<1>5. ASSUME NEW t \in Thread, TimeSlice(t) PROVE HInv'
  <2>1. Foremost'
    BY <1>5, SwitchedForemost DEF TimeSlice
  <2>2. Boosted' /\ Patient'
    BY <1>5, WaitersSame DEF TimeSlice, threads, mutex
  <2> QED
    BY <2>1, <2>2 DEF HInv
<1>6. ASSUME NEW t \in Thread, Timeout(t) PROVE HInv'
  <2>1. Foremost'
    <3>1. rt_current_thread' = Highest([table |-> table', group |-> group'])
      BY <1>6 DEF Timeout, ReadyQueue, Insert, Highest
    <3> QED
      BY <3>1, SwitchedForemost
  <2>2. timer[t] /\ timer' = [timer EXCEPT ![t] = FALSE]
    BY <1>6 DEF Timeout
  <2>3. ~In(t, suspend_thread)
    <3> SUFFICES ASSUME In(t, suspend_thread) PROVE FALSE
      OBVIOUS
    <3>1. t \in Users
      BY <1>1, ElementOfSeq DEF MutexTypes, In
    <3> QED
      BY <2>2, <3>1 DEF HInv, Patient
  <2>4. RemoveFirst(suspend_thread, t) = suspend_thread
    BY <1>1, <2>3, Unlinked DEF MutexTypes, IInv, LockInv
  <2>5. owner' = owner /\ suspend_thread' = suspend_thread /\ current_priority' = current_priority
    BY <1>6, <2>4 DEF Timeout
  <2>6. \A x \in Users : In(x, suspend_thread) => timer'[x] = timer[x]
    BY <1>1, <2>2, <2>3, Constants DEF ThreadTypes
  <2>7. Boosted' /\ Patient'
    BY <2>5, <2>6, WaitersSame
  <2> QED
    BY <2>1, <2>7 DEF HInv
<1>7. ASSUME NEW t \in Thread, NEW u \in Thread, Startup(t, u) \/ Wake(t, u) PROVE HInv'
  <2>1. /\ rt_current_thread' = rt_current_thread /\ rt_current_thread = t
        /\ call' = [call EXCEPT ![t] = "wake"]
        /\ current_priority' = current_priority /\ mutex' = mutex
        /\ timer' = timer \/ timer' = [timer EXCEPT ![u] = FALSE]
    BY <1>7 DEF Startup, Wake, Runs
  <2>2. Foremost'
    BY <1>1, <2>1 DEF Foremost, ThreadTypes
  <2>3. \A x \in Users : timer'[x] = timer[x] \/ timer'[x] = FALSE
    BY <1>1, <2>1, Constants DEF ThreadTypes
  <2>4. Boosted' /\ Patient'
    BY <2>1, <2>3, WaitersSame DEF mutex
  <2> QED
    BY <2>2, <2>4 DEF HInv
<1>8. ASSUME NEW t \in Thread, NEW timed \in BOOLEAN, Sleep(t, timed) PROVE HInv'
  <2>1. /\ rt_current_thread' = rt_current_thread /\ rt_current_thread = t /\ call[t] = "run"
        /\ call' = [call EXCEPT ![t] = "sleep"] /\ timer' = [timer EXCEPT ![t] = timed]
        /\ current_priority' = current_priority /\ mutex' = mutex
    BY <1>8 DEF Sleep, Runs
  <2>2. Foremost'
    BY <1>1, <2>1 DEF Foremost, ThreadTypes
  <2>3. ~In(t, suspend_thread)
    BY <2>1, RunnerWaitsNot
  <2>4. \A x \in Users : In(x, suspend_thread) => timer'[x] = timer[x]
    BY <1>1, <2>1, <2>3, Constants DEF ThreadTypes
  <2>5. Boosted' /\ Patient'
    BY <2>1, <2>4, WaitersSame DEF mutex
  <2> QED
    BY <2>2, <2>5 DEF HInv
<1>9. ASSUME NEW t \in Thread, TakeAgain(t) \/ TakeFree(t) PROVE HInv'
  <2>1. /\ rt_current_thread' = rt_current_thread /\ call' = call /\ stat' = stat /\ timer' = timer
        /\ current_priority' = current_priority /\ suspend_thread' = suspend_thread /\ t \in Users
        /\ resumed' = resumed
    BY <1>9 DEF TakeAgain, TakeFree, Take
  <2>2. Foremost' /\ Patient'
    BY <2>1 DEF HInv, Foremost, Patient, In
  <2>3. CASE TakeAgain(t)
    <3>1. owner' = owner
      BY <2>3 DEF TakeAgain
    <3> QED
      BY <2>1, <2>2, <3>1, WaitersSame DEF HInv
  <2>4. CASE TakeFree(t)
    <3>1. value > 0 /\ owner' = t
      BY <2>4 DEF TakeFree
    <3>2. owner = None
      BY <1>1, <3>1 DEF MutexTypes, Owned
    <3>3. current_priority[t] = Prio[t]
      BY <1>1, <2>1, <3>2, Constants DEF Owned
    <3>4. Boosted'
      BY <2>1, <3>1, <3>3 DEF Boosted
    <3> QED
      BY <2>2, <3>4 DEF HInv
  <2> QED
    BY <1>9, <2>3, <2>4
<1>10. ASSUME NEW t \in Thread, NEW timed \in {FALSE, TimedTake}, TakeWait(t, timed) PROVE HInv'
  <2> DEFINE p == current_priority[t]
             r == ByPriority(suspend_thread, t)
  <2>1. /\ t \in Users /\ t = rt_current_thread /\ call[t] = "run" /\ owner # t /\ value = 0
        /\ rt_current_thread' = rt_current_thread /\ call' = [call EXCEPT ![t] = "take"]
        /\ suspend_thread' = r /\ owner' = owner /\ timer' = [timer EXCEPT ![t] = FALSE]
        /\ current_priority' = IF p < current_priority[owner]
                               THEN [current_priority EXCEPT ![owner] = p] ELSE current_priority
    BY <1>10 DEF TakeWait, Take, Runs
  <2>2. ~In(t, suspend_thread)
    BY <2>1, RunnerWaitsNot
  <2>3. p = Prio[t] /\ owner # None /\ owner \in Thread
    BY <1>1, <2>1, Constants DEF MutexTypes, Owned
  <2>4. \A x \in Users : In(x, suspend_thread) => current_priority[x] = Prio[x]
    BY Constants DEF IInv, LockInv, Owned, Waits
  <2>5. \A x : In(x, r) <=> In(x, suspend_thread) \/ x = t
    BY <1>1, <2>1, <2>2, <2>3, <2>4, ByPriorityOrdered DEF IInv, LockInv, MutexTypes
  <2> HIDE DEF r, p
  <2>6. \A x : In(x, suspend_thread)' <=> In(x, suspend_thread) \/ x = t
    BY <2>1, <2>5 DEF In
  <2>7. Foremost'
    BY <1>1, <2>1 DEF Foremost, ThreadTypes
  <2>8. Patient'
    <3> SUFFICES ASSUME NEW x \in Users, In(x, suspend_thread)' PROVE ~timer'[x]
      BY DEF Patient
    <3>1. CASE x = t
      BY <1>1, <2>1, <3>1 DEF ThreadTypes
    <3>2. CASE x # t
      <4>1. timer'[x] = timer[x] /\ ~timer[x]
        BY <1>1, <2>1, <2>6, <3>2, Constants DEF ThreadTypes, HInv, Patient
      <4> QED
        BY <4>1
    <3> QED
      BY <3>1, <3>2
  <2>9. Boosted'
    <3>1. CASE p < current_priority[owner]
      <4>1. current_priority'[owner] = Prio[t]
        BY <1>1, <2>1, <2>3, <3>1 DEF ThreadTypes
      <4>2. In(t, suspend_thread)'
        BY <2>6
      <4> QED
        BY <2>1, <4>1, <4>2 DEF Boosted
    <3>2. CASE ~(p < current_priority[owner])
      BY <2>1, <2>3, <2>6, <3>2 DEF HInv, Boosted
    <3> QED
      BY <3>1, <3>2
  <2> QED
    BY <2>7, <2>8, <2>9 DEF HInv
<1>11. ASSUME NEW t \in Thread, ReleaseOne(t) PROVE HInv'
  <2>1. /\ rt_current_thread' = rt_current_thread /\ call' = call /\ stat' = stat /\ timer' = timer
        /\ current_priority' = current_priority /\ suspend_thread' = suspend_thread /\ owner' = owner
        /\ resumed' = resumed
    BY <1>11 DEF ReleaseOne, threads
  <2>2. Foremost'
    BY <2>1 DEF HInv, Foremost
  <2> QED
    BY <2>1, <2>2, WaitersSame DEF HInv
<1>12. ASSUME NEW t \in Thread, ReleaseFree(t) PROVE HInv'
  <2>1. /\ t \in Users /\ owner = t /\ suspend_thread = <<>> /\ owner' = None
        /\ rt_current_thread' = rt_current_thread /\ call' = call /\ stat' = stat
        /\ current_priority' = [current_priority EXCEPT ![t] = original_priority]
        /\ suspend_thread' = suspend_thread /\ resumed' = resumed
    BY <1>12 DEF ReleaseFree, Take
  <2>2. owner # None
    BY <2>1, Constants
  <2>3. original_priority = current_priority[t]
    BY <1>1, <2>1, <2>2, NotInEmpty DEF Owned, HInv, Boosted
  <2>4. current_priority' = current_priority
    BY <1>1, <2>1, <2>3 DEF ThreadTypes
  <2>5. Foremost'
    BY <2>1, <2>4 DEF HInv, Foremost
  <2>6. Boosted' /\ Patient'
    BY <2>1, NotInEmpty DEF Boosted, Patient, In
  <2> QED
    BY <2>5, <2>6 DEF HInv
<1>13. ASSUME NEW t \in Thread, ReleaseHandOver(t) PROVE HInv'
  <2> DEFINE w == Head(suspend_thread)
             r == Tail(suspend_thread)
  <2>1. /\ t \in Users /\ owner = t /\ suspend_thread # <<>> /\ owner' = w /\ suspend_thread' = r
        /\ rt_current_thread' = rt_current_thread /\ rt_current_thread = t
        /\ call' = [call EXCEPT ![t] = "wake"] /\ timer' = [timer EXCEPT ![w] = FALSE]
        /\ current_priority' = [current_priority EXCEPT ![t] = original_priority]
    BY <1>13 DEF ReleaseHandOver, Take, Runs
  <2>2. w \in Users /\ In(w, suspend_thread) /\ \A x : In(x, r) <=> In(x, suspend_thread) /\ x # w
    BY <1>1, <2>1, Headed DEF IInv, LockInv, MutexTypes
  <2> HIDE DEF w, r
  <2>3. Foremost'
    BY <1>1, <2>1 DEF Foremost, ThreadTypes
  <2>4. w # t /\ current_priority[w] = Prio[w] /\ w \in Thread
    BY <1>1, <2>1, <2>2, Constants DEF IInv, LockInv, Waits, Owned
  <2>5. Boosted'
    BY <1>1, <2>1, <2>4 DEF Boosted, ThreadTypes
  <2>6. \A x \in Users : In(x, suspend_thread)' => In(x, suspend_thread) /\ x # w /\ x \in Thread
    BY <2>1, <2>2, Constants DEF In
  <2>7. \A x \in Users : In(x, suspend_thread)' => timer'[x] = timer[x]
    BY <1>1, <2>1, <2>6 DEF ThreadTypes
  <2>8. Patient'
    BY <2>6, <2>7 DEF HInv, Patient
  <2> QED
    BY <2>3, <2>5, <2>8 DEF HInv
<1>14. CASE Others
  <2>1. Foremost'
    BY <1>14, SwitchedForemost DEF Others, ready, Queue
  <2>2. Boosted' /\ Patient'
    BY <1>14, WaitersSame DEF Others, threads, mutex
  <2> QED
    BY <2>1, <2>2 DEF HInv
<1>15. ASSUME NEW t \in Thread, NEW u \in Thread, Resume(t, u) PROVE HInv'
  <2>1. /\ rt_current_thread' = rt_current_thread /\ call' = call
        /\ stat' = [stat EXCEPT ![u] = "READY"] /\ timer' = [timer EXCEPT ![u] = FALSE]
        /\ current_priority' = current_priority /\ mutex' = mutex /\ resumed' = resumed \cup {u}
    BY <1>15 DEF Resume
  <2>2. \A x \in Thread \ resumed' : x \in Thread \ resumed /\ stat'[x] = stat[x]
    BY <1>1, <2>1 DEF ThreadTypes
  <2>3. Foremost'
    BY <2>1, <2>2 DEF HInv, Foremost
  <2>4. \A x \in Users : timer'[x] = timer[x] \/ timer'[x] = FALSE
    BY <1>1, <2>1, Constants DEF ThreadTypes
  <2>5. Boosted' /\ Patient'
    BY <2>1, <2>4, WaitersSame DEF mutex
  <2> QED
    BY <2>3, <2>5 DEF HInv
<1> QED
  BY <1>2, <1>3, <1>4, <1>5, <1>6, <1>7, <1>8, <1>9, <1>10, <1>11, <1>12, <1>13, <1>14, <1>15
     DEF Next, Proceed, Interrupt

(***************************************************************************)
(* The processor is with a thread of the highest priority that is READY,   *)
(* but for the moment before a call of rt_schedule and for a thread that   *)
(* was resumed without one, which waits for the next, if rt_mutex_take is  *)
(* called to wait forever, as the application does.  With a time it need   *)
(* not be: a thread that gives up leaves its priority with the owner,      *)
(* which loses it in rt_mutex_release without a call of rt_schedule.       *)
(***************************************************************************)
THEOREM ForemostRuns == ASSUME TimedTake = FALSE PROVE Spec => []HighestRuns
<1>1. Init => HInv
  <2> SUFFICES ASSUME Init PROVE HInv
    OBVIOUS
  <2>1. Foremost
    <3>1. \A t \in Thread : stat[t] = "READY" => t = Idle
      BY DEF Init
    <3>2. Prio[Idle] \in Nat /\ current_priority[Idle] = Prio[Idle]
      BY Constants DEF Init
    <3> QED
      BY <3>1, <3>2 DEF Init, Foremost
  <2>2. Boosted /\ Patient
    BY NotInEmpty DEF Init, Boosted, Patient
  <2> QED
    BY <2>1, <2>2 DEF HInv
<1>2. IInv /\ IInv' /\ HInv /\ [Next]_vars => HInv'
  BY ForemostStep
<1>3. IInv /\ HInv => HighestRuns
  BY DEF IInv, ThreadInv, Running, HInv, Foremost, HighestRuns
<1> QED
  BY <1>1, <1>2, <1>3, Invariance, PTL DEF Spec
=============================================================================
