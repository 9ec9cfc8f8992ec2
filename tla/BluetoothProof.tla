--------------------------- MODULE BluetoothProof ---------------------------
(***************************************************************************)
(* Nothing is written beyond a buffer; every message that is queued has an *)
(* end if no byte ran into the handler; a frame that began apart from the  *)
(* others is queued as it was sent; and an answer that was begun when      *)
(* nothing was being sent is sent whole, with a check value that shows any *)
(* change of one byte: for all frames, buffers and queues, whatever runs   *)
(* into what.                                                              *)
(***************************************************************************)
EXTENDS Bluetooth, SequenceTheorems, WellFoundedInduction, TLAPS

\* A short int, as the number of its bits.
Short == {c \in Nat : c <= 65535}

\* A text of n characters at the front of a buffer.
End(s, n) == (\A i \in 1 .. n : s[i] # 0) /\ s[n + 1] = 0
\* A text as sprintf writes it.
Ended(t) == t \o <<0>>
Texts == {t \in Seq(1 .. 255) : Len(t) \in Fitting}
-----------------------------------------------------------------------------
(***************************************************************************)
(* The invariant.                                                          *)
(***************************************************************************)

ReceiveTypes ==
  /\ line \in Seq(Byte) /\ frame \in Seq(Byte) /\ dr \in Seq(Byte)
  /\ recBuf \in [1 .. RecLen -> Byte] /\ left \in 0 .. RecLen
  /\ idle \in BOOLEAN /\ isr \in {"off", "queue", "print", "clear", "arm"} /\ ran \in BOOLEAN
  /\ apart \in BOOLEAN /\ early \in 0 .. MaxEarly

ThreadTypes ==
  /\ pc \in {"recv", "text", "length", "crc", "start", "lost"}
  /\ cmd \in [1 .. RecLen -> Byte] /\ answer \in Seq(Byte) /\ clean \in BOOLEAN /\ right \in BOOLEAN
  /\ senBuf \in [1 .. SenLen -> Byte]
  /\ chan \in BOOLEAN /\ sent \in 0 .. SenLen /\ tc \in BOOLEAN

\* The data register holds one byte.
OneByte == Len(dr) \in {0, 1}

Empty == \A i \in 1 .. RecLen : recBuf[i] = 0

\* If no byte ran into the handler, what has not been received yet is 0, and a
\* buffer that is to be queued is not full.
Unfilled == \A i \in 1 .. RecLen : i > RecLen - left => recBuf[i] = 0
EndInv ==
  ~ran => /\ isr \in {"off", "queue"} => Unfilled
          /\ isr = "queue" => left # 0
          /\ isr = "arm" => Empty

\* Between two frames nothing has been received.
Between ==
  line = <<>> /\ ~idle =>
    /\ dr = <<>>
    /\ isr = "off" => left = RecLen
    /\ isr \in {"off", "arm"} => Empty

\* A frame that began apart from the others is in the buffer as far as it has
\* come and has room, and nothing else is, until it is queued.
Come == Len(frame) - Len(line)
Arriving ==
  /\ apart => isr # "arm"
  /\ apart /\ isr \in {"off", "queue"} =>
       /\ idle \/ isr = "queue" => line = <<>>
       /\ Come \in Nat
       /\ \A i \in 1 .. Len(line) : line[i] = frame[Come + i]
       /\ left = IF Come <= RecLen THEN RecLen - Come ELSE 0
       /\ \A i \in 1 .. RecLen : recBuf[i] = IF i <= Come THEN frame[i] ELSE 0

ReceiveInv == ReceiveTypes /\ OneByte /\ EndInv /\ Between /\ Arriving

\* The queue holds buffers.
ListInv == list \in Seq([1 .. RecLen -> Byte]) /\ Len(list) <= MqSize

\* While it is made the answer has an end that leaves room for what is added.
TextInv ==
  /\ pc # "lost" => HasEnd(cmd)
  /\ pc = "text" => StrLen(cmd) # 0
  /\ pc = "length" => \E n \in Fitting : End(senBuf, n)
  /\ pc = "crc" => \E n \in 0 .. SenLen - 2 : End(senBuf, n)

\* An answer that is called clean has the buffer to itself, from its text to
\* the end of its transmission.
Building == pc \in {"length", "crc", "start"}
CleanInv ==
  /\ tc => chan
  /\ Building /\ clean => ~chan
  /\ pc = "length" /\ clean => \E t \in Texts : senBuf = Padded(t, SenLen) /\ answer = Answer(t)
  /\ pc = "crc" /\ clean => \E t \in Texts : senBuf = Padded(WithLength(t), SenLen) /\ answer = Answer(t)
  /\ pc = "start" /\ clean => senBuf = Padded(answer, SenLen)
  /\ ~Building /\ ~chan => senBuf = Zeros(SenLen)
  /\ ~Building /\ chan /\ clean => right /\ senBuf = Padded(answer, SenLen)

SendInv == ThreadTypes /\ TextInv /\ CleanInv
Inv == ReceiveInv /\ ListInv /\ SendInv
-----------------------------------------------------------------------------
(***************************************************************************)
(* Induction, and loops.                                                   *)
(***************************************************************************)

\* A set of natural numbers that is not empty has a smallest one.
LEMMA Smallest ==
  ASSUME NEW T, T \subseteq Nat, T # {}
  PROVE  \E x \in T : \A y \in T : x <= y
<1> DEFINE R == OpToRel(<, Nat)
<1>1. IsWellFoundedOn(R, Nat)
  BY NatLessThanWellFounded
<1>2. \A x, y \in Nat : x < y => <<x, y>> \in R
  BY DEF OpToRel
<1> HIDE DEF R
<1>3. PICK x \in T : \A y \in T : ~(<<y, x>> \in R)
  BY <1>1, WFMin
<1>4. \A y \in T : ~(y < x)
  BY <1>2, <1>3
<1> QED
  BY <1>3, <1>4

\* Induction, over a set instead of a predicate.
LEMMA Induct ==
  ASSUME NEW S, 0 \in S, \A n \in Nat : n \in S => n + 1 \in S
  PROVE  Nat \subseteq S
<1> DEFINE T == Nat \ S
<1>1. SUFFICES ASSUME T # {} PROVE FALSE
  OBVIOUS
<1>2. PICK x \in T : \A y \in T : x <= y
  BY <1>1, Smallest
<1>3. x # 0 /\ x - 1 \in Nat
  OBVIOUS
<1>4. x - 1 \in S
  BY <1>2, <1>3
<1>5. x \in S
  BY <1>3, <1>4
<1> QED
  BY <1>5

\* The values that a loop of n rounds carries along, of which a is the first.
Rounds(f, V, n, a, step) ==
  f \in [0 .. n -> V] /\ f[0] = a /\ \A i \in 1 .. n : f[i] = step[i][f[i - 1]]

\* There are such values.
LEMMA LoopExists ==
  ASSUME NEW V, NEW n \in Nat, NEW a \in V, NEW step \in [1 .. n -> [V -> V]]
  PROVE  \E f : Rounds(f, V, n, a, step)
<1> DEFINE Done(m, f) == f[0] = a /\ \A i \in 1 .. m : f[i] = step[i][f[i - 1]]
           S == {m \in Nat : m <= n => \E f \in [0 .. m -> V] : Done(m, f)}
<1>1. 0 \in S
  <2> DEFINE f == [i \in 0 .. 0 |-> a]
  <2>1. f \in [0 .. 0 -> V] /\ Done(0, f)
    OBVIOUS
  <2> QED
    BY <2>1
<1>2. ASSUME NEW m \in Nat, m \in S PROVE m + 1 \in S
  <2>1. SUFFICES ASSUME m + 1 <= n PROVE \E f \in [0 .. (m + 1) -> V] : Done(m + 1, f)
    OBVIOUS
  <2>2. PICK f \in [0 .. m -> V] : Done(m, f)
    BY <1>2, <2>1
  <2>3. m + 1 \in 1 .. n /\ m \in 0 .. m /\ f[m] \in V
    BY <2>1
  <2>4. step[m + 1][f[m]] \in V
    BY <2>3
  <2> DEFINE g == [i \in 0 .. (m + 1) |-> IF i = m + 1 THEN step[m + 1][f[m]] ELSE f[i]]
  <2>5. g \in [0 .. (m + 1) -> V]
    BY <2>4
  <2>6. g[0] = a
    BY <2>2
  <2>7. ASSUME NEW i \in 1 .. (m + 1) PROVE g[i] = step[i][g[i - 1]]
    <3>1. CASE i = m + 1
      BY <3>1
    <3>2. CASE i \in 1 .. m
      BY <3>2, <2>2
    <3> QED
      BY <3>1, <3>2
  <2> QED
    BY <2>5, <2>6, <2>7
<1> HIDE DEF S
<1>3. n \in S
  BY <1>1, <1>2, Induct
<1> QED
  BY <1>3 DEF S, Rounds

-----------------------------------------------------------------------------
(***************************************************************************)
(* A short int and its digits.                                             *)
(***************************************************************************)

\* Each digit is worth half of the one before.
LEMMA Weights ==
  /\ Weight[1] = 32768 /\ Weight[2] = 16384 /\ Weight[16] = 1
  /\ \A k \in 1 .. 16 : Weight[k] \in Nat \ {0}
BY DEF Weight

\* What the first digits make, and one digit less.
LEMMA Halved ==
  ASSUME NEW x \in Nat, NEW k \in 2 .. 16
  PROVE  x \div Weight[k - 1] = (x \div Weight[k]) \div 2
BY SMTT(60) DEF Weight

\* The first digits of the greatest short int.
LEMMA Greatest ==
  /\ \A k \in 1 .. 16 : 65535 \div Weight[k] \in Nat
  /\ \A k \in 2 .. 16 : 65535 \div Weight[k] = 2 * (65535 \div Weight[k - 1]) + 1
BY DEF Weight

\* The digits of x.
Digit(x, k) == (x \div Weight[k]) % 2

\* Any part of a number is a number.
LEMMA PartType ==
  ASSUME NEW x \in Nat, NEW k \in 1 .. 16
  PROVE  x \div Weight[k] \in Nat /\ Digit(x, k) \in 0 .. 1
<1>1. Weight[k] \in Nat \ {0}
  BY Weights
<1>2. x \div Weight[k] \in Nat
  BY <1>1
<1> QED
  BY <1>2 DEF Digit

\* Short ints with the same digits are the same.
LEMMA SameDigits ==
  ASSUME NEW x \in Short, NEW y \in Short, \A k \in 1 .. 16 : Digit(x, k) = Digit(y, k)
  PROVE  x = y
<1> DEFINE part(z, k) == z \div Weight[k]
           S == {k \in Nat : k + 1 \in 1 .. 16 => part(x, k + 1) = part(y, k + 1)}
<1>1. x \in Nat /\ y \in Nat
  BY DEF Short
<1>2. part(x, 1) = part(y, 1)
  <2>1. part(x, 1) \in 0 .. 1 /\ part(y, 1) \in 0 .. 1
    BY Weights DEF Short
  <2>2. part(x, 1) % 2 = part(y, 1) % 2
    BY DEF Digit
  <2> HIDE DEF part
  <2> QED
    BY <2>1, <2>2
<1>3. 0 \in S
  BY <1>2
<1>4. ASSUME NEW k \in Nat, k \in S PROVE k + 1 \in S
  <2>1. SUFFICES ASSUME k + 2 \in 1 .. 16 PROVE part(x, k + 2) = part(y, k + 2)
    OBVIOUS
  <2>2. part(x, k + 1) = part(y, k + 1)
    BY <1>4, <2>1
  <2>3. /\ part(x, k + 1) = part(x, k + 2) \div 2
        /\ part(y, k + 1) = part(y, k + 2) \div 2
    <3>1. k + 2 \in 2 .. 16 /\ (k + 2) - 1 = k + 1
      BY <2>1
    <3> QED
      BY <1>1, <3>1, Halved
  <2>4. part(x, k + 2) % 2 = part(y, k + 2) % 2
    BY <2>1 DEF Digit
  <2>5. part(x, k + 2) \in Nat /\ part(y, k + 2) \in Nat
    BY <1>1, <2>1, PartType
  <2> HIDE DEF part
  <2> QED
    BY <2>2, <2>3, <2>4, <2>5
<1> HIDE DEF S
<1>5. 15 \in S
  BY <1>3, <1>4, Induct
<1>6. part(x, 16) = part(y, 16)
  BY <1>5 DEF S
<1>7. part(x, 16) = x /\ part(y, 16) = y
  BY Weights DEF Short
<1> QED
  BY <1>6, <1>7

\* The exclusive or of two short ints, and its digits.
LEMMA XorDigits ==
  ASSUME NEW x \in Short, NEW y \in Short
  PROVE  /\ Xor(x, y) \in Short
         /\ \A k \in 1 .. 16 : Digit(Xor(x, y), k) = (Digit(x, k) + Digit(y, k)) % 2
<1> DEFINE d(k) == (x \div Weight[k] + y \div Weight[k]) % 2
           step == [k \in 1 .. 16 |-> [v \in Nat |-> d(k) + 2 * v]]
           loop(f) == f = [k \in 0 .. 16 |-> IF k = 0 THEN 0 ELSE d(k) + 2 * f[k - 1]]
<1>1. ASSUME NEW k \in 1 .. 16
      PROVE  d(k) \in 0 .. 1 /\ d(k) = (Digit(x, k) + Digit(y, k)) % 2
  <2>1. x \div Weight[k] \in Nat /\ y \div Weight[k] \in Nat
    <3>1. x \in Nat /\ y \in Nat
      BY DEF Short
    <3> QED
      BY <3>1, PartType
  <2>2. \A p, q \in Nat : (p + q) % 2 \in 0 .. 1 /\ (p + q) % 2 = ((p % 2) + (q % 2)) % 2
    OBVIOUS
  <2> QED
    BY <2>1, <2>2, ZenonT(30) DEF Digit
<1>2. \E f : loop(f)
  <2> HIDE DEF d
  <2>1. step \in [1 .. 16 -> [Nat -> Nat]]
    BY <1>1
  <2>2. PICK f \in [0 .. 16 -> Nat] : f[0] = 0 /\ \A i \in 1 .. 16 : f[i] = step[i][f[i - 1]]
    <3> HIDE DEF step
    <3> DEFINE n == 16
    <3>1. n \in Nat /\ 0 \in Nat /\ step \in [1 .. n -> [Nat -> Nat]]
      BY <2>1
    <3> HIDE DEF n
    <3>2. PICK f : Rounds(f, Nat, n, 0, step)
      BY <3>1, LoopExists
    <3> QED
      BY <3>2 DEF n, Rounds
  <2>3. ASSUME NEW k \in 0 .. 16 PROVE f[k] = IF k = 0 THEN 0 ELSE d(k) + 2 * f[k - 1]
    <3>1. CASE k = 0
      BY <2>2, <3>1
    <3>2. CASE k # 0
      <4>1. k \in 1 .. 16 /\ f[k - 1] \in Nat
        BY <2>2, <3>2
      <4>2. f[k] = step[k][f[k - 1]]
        BY <2>2, <4>1
      <4> QED
        BY <3>2, <4>1, <4>2
    <3> QED
      BY <3>1, <3>2
  <2> QED
    BY <2>2, <2>3
<1>3. PICK f : loop(f) /\ Xor(x, y) = f[16]
  BY <1>2 DEF Xor
<1>4. f[0] = 0 /\ \A k \in 1 .. 16 : f[k] = d(k) + 2 * f[k - 1]
  BY <1>3
<1> HIDE DEF d, loop
<1> DEFINE full(k) == 65535 \div Weight[k]
           T == {k \in Nat : k + 1 \in 1 .. 16 => f[k + 1] \in Nat /\ f[k + 1] <= full(k + 1)}
<1>5. \A k \in 1 .. 16 : f[k] \in Nat /\ f[k] <= full(k)
  <2>1. 0 \in T
    <3>1. full(1) = 1
      BY Weights
    <3>2. f[1] = d(1) + 2 * f[0]
      BY <1>4
    <3> HIDE DEF full
    <3>3. f[1] \in Nat /\ f[1] <= full(1)
      BY <1>1, <1>4, <3>1, <3>2
    <3> QED
      BY <3>3
  <2>2. ASSUME NEW k \in Nat, k \in T PROVE k + 1 \in T
    <3>1. SUFFICES ASSUME k + 2 \in 1 .. 16 PROVE f[k + 2] \in Nat /\ f[k + 2] <= full(k + 2)
      OBVIOUS
    <3>2. k + 1 \in 1 .. 16 /\ k + 2 \in 2 .. 16 /\ (k + 2) - 1 = k + 1
      BY <3>1
    <3>3. full(k + 2) = 2 * full(k + 1) + 1 /\ full(k + 1) \in Nat
      BY <3>2, Greatest
    <3>4. f[k + 2] = d(k + 2) + 2 * f[k + 1] /\ d(k + 2) \in 0 .. 1
      BY <1>1, <1>4, <3>1, <3>2
    <3> HIDE DEF full
    <3>5. f[k + 1] \in Nat /\ f[k + 1] <= full(k + 1)
      BY <2>2, <3>2
    <3> QED
      BY <3>3, <3>4, <3>5
  <2> HIDE DEF T
  <2>3. Nat \subseteq T
    BY <2>1, <2>2, Induct
  <2> HIDE DEF full
  <2>4. ASSUME NEW k \in 1 .. 16 PROVE f[k] \in Nat /\ f[k] <= full(k)
    <3>1. k - 1 \in T /\ (k - 1) + 1 = k
      BY <2>3
    <3> QED
      BY <3>1 DEF T
  <2> QED
    BY <2>4
<1>6. Xor(x, y) \in Short
  <2>1. full(16) = 65535
    BY Weights
  <2> HIDE DEF full
  <2> QED
    BY <1>3, <1>5, <2>1 DEF Short
<1> DEFINE r == Xor(x, y)
           U == {j \in Nat : j <= 15 => r \div Weight[16 - j] = f[16 - j]}
<1>7. \A k \in 1 .. 16 : r \div Weight[k] = f[k]
  <2>1. r \in Nat
    BY <1>6 DEF Short
  <2>2. 0 \in U
    <3>1. r \div Weight[16] = r
      BY <2>1, Weights
    <3> QED
      BY <3>1, <1>3
  <2> HIDE DEF r
  <2>3. ASSUME NEW j \in Nat, j \in U PROVE j + 1 \in U
    <3>1. SUFFICES ASSUME j + 1 <= 15 PROVE r \div Weight[16 - (j + 1)] = f[16 - (j + 1)]
      OBVIOUS
    <3> DEFINE k == 16 - j
    <3>2. k \in 2 .. 16 /\ 16 - (j + 1) = k - 1 /\ k - 1 \in 1 .. 16
      BY <3>1
    <3>3. r \div Weight[k] = f[k]
      BY <2>3, <3>1
    <3> HIDE DEF k
    <3>4. r \div Weight[k - 1] = f[k] \div 2
      BY <2>1, <3>2, <3>3, Halved
    <3>5. f[k] = d(k) + 2 * f[k - 1] /\ d(k) \in 0 .. 1 /\ f[k - 1] \in Nat
      BY <1>1, <1>4, <1>5, <3>2
    <3>6. f[k] \div 2 = f[k - 1]
      BY <3>5
    <3> QED
      BY <3>2, <3>4, <3>6
  <2> HIDE DEF U
  <2>4. Nat \subseteq U
    BY <2>2, <2>3, Induct
  <2>5. ASSUME NEW k \in 1 .. 16 PROVE r \div Weight[k] = f[k]
    <3>1. 16 - k \in U /\ 16 - k <= 15 /\ 16 - (16 - k) = k
      BY <2>4
    <3> QED
      BY <3>1 DEF U
  <2> QED
    BY <2>5
<1>8. ASSUME NEW k \in 1 .. 16 PROVE Digit(r, k) = d(k)
  <2>1. Digit(r, k) = f[k] % 2
    BY <1>7 DEF Digit
  <2>2. f[k] = d(k) + 2 * f[k - 1] /\ d(k) \in 0 .. 1 /\ f[k - 1] \in Nat
    <3>1. k = 1 => f[k - 1] \in Nat
      BY <1>4
    <3>2. k # 1 => f[k - 1] \in Nat
      BY <1>5
    <3> QED
      BY <1>1, <1>4, <3>1, <3>2
  <2>3. f[k] % 2 = d(k)
    BY <2>2
  <2> QED
    BY <2>1, <2>3
<1> QED
  BY <1>1, <1>6, <1>8

\* Exclusive or with one number tells any two others apart.
LEMMA XorInjective ==
  ASSUME NEW x \in Short, NEW y \in Short, NEW z \in Short,
         Xor(x, z) = Xor(y, z) \/ Xor(z, x) = Xor(z, y)
  PROVE  x = y
<1>1. ASSUME NEW k \in 1 .. 16 PROVE Digit(x, k) = Digit(y, k)
  <2>1. Digit(x, k) \in 0 .. 1 /\ Digit(y, k) \in 0 .. 1 /\ Digit(z, k) \in 0 .. 1
    <3>1. x \in Nat /\ y \in Nat /\ z \in Nat
      BY DEF Short
    <3> QED
      BY <3>1, PartType
  <2>2. \/ (Digit(x, k) + Digit(z, k)) % 2 = (Digit(y, k) + Digit(z, k)) % 2
        \/ (Digit(z, k) + Digit(x, k)) % 2 = (Digit(z, k) + Digit(y, k)) % 2
    <3>1. /\ Digit(Xor(x, z), k) = (Digit(x, k) + Digit(z, k)) % 2
          /\ Digit(Xor(y, z), k) = (Digit(y, k) + Digit(z, k)) % 2
          /\ Digit(Xor(z, x), k) = (Digit(z, k) + Digit(x, k)) % 2
          /\ Digit(Xor(z, y), k) = (Digit(z, k) + Digit(y, k)) % 2
      BY XorDigits
    <3>2. CASE Xor(x, z) = Xor(y, z)
      BY <3>1, <3>2
    <3>3. CASE Xor(z, x) = Xor(z, y)
      BY <3>1, <3>3
    <3> QED
      BY <3>2, <3>3
  <2>3. \A p, q, s \in 0 .. 1 :
          ((p + s) % 2 = (q + s) % 2 \/ (s + p) % 2 = (s + q) % 2) => p = q
    OBVIOUS
  <2> QED
    BY <2>1, <2>2, <2>3, ZenonT(30)
<1> QED
  BY <1>1, SameDigits

\* To change one digit makes another number.
LEMMA BitChanged ==
  ASSUME NEW x \in Short, NEW k \in 1 .. 16
  PROVE  Xor(x, Weight[k]) \in Short /\ Xor(x, Weight[k]) # x
<1> DEFINE w == Weight[k]
<1>1. w \in Nat \ {0} /\ w <= 65535
  BY DEF Weight
<1> HIDE DEF w
<1>2. w \in Short /\ w \div w = 1
  BY <1>1 DEF Short
<1>3. Digit(w, k) = 1
  BY <1>2 DEF Digit, w
<1>4. Xor(x, w) \in Short /\ Digit(Xor(x, w), k) = (Digit(x, k) + Digit(w, k)) % 2
  BY <1>2, XorDigits
<1>5. x \in Nat
  BY DEF Short
<1>6. Digit(x, k) \in 0 .. 1
  BY <1>5, PartType
<1>7. Digit(Xor(x, w), k) # Digit(x, k)
  BY <1>3, <1>4, <1>6
<1> QED
  BY <1>4, <1>7 DEF w
-----------------------------------------------------------------------------
(***************************************************************************)
(* One bit, one byte and all bytes of CRC16_CalcuValue.                    *)
(***************************************************************************)

\* The sign stays: the first two digits of a shifted short int are the same.
LEMMA ShiftRightType ==
  ASSUME NEW c \in Short
  PROVE  /\ ShiftRight(c) \in Short
         /\ Digit(ShiftRight(c), 1) = Digit(ShiftRight(c), 2)
<1>1. c \in Nat /\ c <= 65535
  BY DEF Short
<1>2. CASE c >= 32768
  <2> DEFINE s == c \div 2 + 32768
  <2>1. s \in Nat /\ s <= 65535 /\ s >= 49152 /\ ShiftRight(c) = s
    BY <1>1, <1>2 DEF ShiftRight
  <2> HIDE DEF s
  <2>2. s \div 32768 = 1 /\ s \div 16384 = 3
    BY <2>1
  <2> QED
    BY <2>1, <2>2, Weights DEF Short, Digit
<1>3. CASE c < 32768
  <2> DEFINE s == c \div 2
  <2>1. s \in Nat /\ s < 16384 /\ ShiftRight(c) = s
    BY <1>1, <1>3 DEF ShiftRight
  <2> HIDE DEF s
  <2>2. s \div 32768 = 0 /\ s \div 16384 = 0
    BY <2>1
  <2> QED
    BY <2>1, <2>2, Weights DEF Short, Digit
<1> QED
  BY <1>1, <1>2, <1>3

\* The shift loses the last digit alone.
LEMMA ShiftRightInjective ==
  ASSUME NEW c \in Short, NEW d \in Short, ShiftRight(c) = ShiftRight(d), c % 2 = d % 2
  PROVE  c = d
<1>1. c \in Nat /\ c <= 65535 /\ d \in Nat /\ d <= 65535
  BY DEF Short
<1>2. c \div 2 = d \div 2
  BY <1>1 DEF ShiftRight
<1> QED
  BY <1>1, <1>2

\* The polynomial's first two digits differ.
LEMMA Polynomial == 40961 \in Short /\ Digit(40961, 1) = 1 /\ Digit(40961, 2) = 0
<1>1. 40961 \div 32768 = 1 /\ 40961 \div 16384 = 2
  OBVIOUS
<1> QED
  BY <1>1, Weights DEF Short, Digit

\* One round makes a short int of a short int, and of two that differ two
\* that differ: its first two digits say whether the polynomial was added.
LEMMA CrcBitInjective ==
  ASSUME NEW c \in Short
  PROVE  CrcBit(c) \in Short /\ \A d \in Short : CrcBit(c) = CrcBit(d) => c = d
<1>1. ASSUME NEW x \in Short
      PROVE  /\ CrcBit(x) \in Short
             /\ x % 2 \in 0 .. 1
             /\ x % 2 = 0 => CrcBit(x) = ShiftRight(x) /\ Digit(CrcBit(x), 1) = Digit(CrcBit(x), 2)
             /\ x % 2 = 1 => /\ CrcBit(x) = Xor(ShiftRight(x), 40961)
                             /\ Digit(CrcBit(x), 1) # Digit(CrcBit(x), 2)
  <2>1. x \in Nat /\ x % 2 \in 0 .. 1
    BY DEF Short
  <2> DEFINE s == ShiftRight(x)
             p == 40961
  <2>2. s \in Short /\ Digit(s, 1) = Digit(s, 2) /\ s \in Nat
    BY ShiftRightType DEF Short
  <2>3. p \in Short /\ Digit(p, 1) = 1 /\ Digit(p, 2) = 0
    BY Polynomial
  <2>4. CrcBit(x) = IF x % 2 = 1 THEN Xor(s, p) ELSE s
    BY DEF CrcBit
  <2> HIDE DEF s, p
  <2>5. CASE x % 2 = 0
    BY <2>1, <2>2, <2>4, <2>5 DEF s
  <2>6. CASE x % 2 = 1
    <3>1. /\ Xor(s, p) \in Short
          /\ Digit(Xor(s, p), 1) = (Digit(s, 1) + Digit(p, 1)) % 2
          /\ Digit(Xor(s, p), 2) = (Digit(s, 2) + Digit(p, 2)) % 2
      BY <2>2, <2>3, XorDigits
    <3>2. Digit(s, 1) \in 0 .. 1 /\ Digit(s, 2) \in 0 .. 1
      BY <2>2, PartType
    <3>3. Digit(Xor(s, p), 1) # Digit(Xor(s, p), 2)
      BY <2>2, <2>3, <3>1, <3>2
    <3> QED
      BY <2>1, <2>4, <2>6, <3>1, <3>3 DEF s, p
  <2> QED
    BY <2>1, <2>5, <2>6
<1>2. ASSUME NEW d \in Short, CrcBit(c) = CrcBit(d) PROVE c = d
  <2>1. c % 2 = d % 2
    BY <1>1, <1>2
  <2>2. CASE c % 2 = 0
    BY <1>1, <1>2, <2>1, <2>2, ShiftRightInjective
  <2>3. CASE c % 2 = 1
    <3>1. Xor(ShiftRight(c), 40961) = Xor(ShiftRight(d), 40961)
      BY <1>1, <1>2, <2>1, <2>3
    <3>2. ShiftRight(c) \in Short /\ ShiftRight(d) \in Short /\ 40961 \in Short
      BY ShiftRightType, Polynomial
    <3>3. ShiftRight(c) = ShiftRight(d)
      BY <3>1, <3>2, XorInjective
    <3> QED
      BY <2>1, <3>3, ShiftRightInjective
  <2> QED
    BY <1>1, <2>2, <2>3
<1> QED
  BY <1>1, <1>2

\* The rounds for one byte, which may as well be a short int.
LEMMA CrcByteRounds ==
  ASSUME NEW value \in Short, NEW b \in Short
  PROVE  \E f \in [0 .. 8 -> Short] :
           f[0] = Xor(value, b) /\ (\A j \in 1 .. 8 : f[j] = CrcBit(f[j - 1])) /\ CrcByte(value, b) = f[8]
<1> DEFINE loop(f) == f = [j \in 0 .. 8 |-> IF j = 0 THEN Xor(value, b) ELSE CrcBit(f[j - 1])]
           step == [j \in 1 .. 8 |-> [v \in Short |-> CrcBit(v)]]
<1>1. Xor(value, b) \in Short
  BY XorDigits
<1>2. step \in [1 .. 8 -> [Short -> Short]]
  BY CrcBitInjective
<1>3. PICK f \in [0 .. 8 -> Short] : f[0] = Xor(value, b) /\ \A j \in 1 .. 8 : f[j] = step[j][f[j - 1]]
  <2> HIDE DEF step
  <2> DEFINE n == 8
             a == Xor(value, b)
  <2>1. n \in Nat /\ a \in Short /\ step \in [1 .. n -> [Short -> Short]]
    BY <1>1, <1>2
  <2> HIDE DEF n, a
  <2>2. PICK f : Rounds(f, Short, n, a, step)
    BY <2>1, LoopExists
  <2> QED
    BY <2>2 DEF n, a, Rounds
<1>4. ASSUME NEW j \in 1 .. 8 PROVE f[j] = CrcBit(f[j - 1])
  BY <1>3
<1>5. loop(f)
  <2>1. ASSUME NEW j \in 0 .. 8 PROVE f[j] = IF j = 0 THEN Xor(value, b) ELSE CrcBit(f[j - 1])
    <3>1. j # 0 => j \in 1 .. 8
      OBVIOUS
    <3> QED
      BY <1>3, <1>4, <3>1
  <2> QED
    BY <1>3, <2>1
<1>6. \E g : loop(g)
  BY <1>5
<1>7. PICK g : loop(g) /\ CrcByte(value, b) = g[8]
  BY <1>6 DEF CrcByte
<1>8. g[0] = Xor(value, b) /\ \A j \in 1 .. 8 : g[j] = CrcBit(g[j - 1])
  BY <1>7
<1>9. g \in [0 .. 8 -> Short]
  <2> DEFINE S == {j \in Nat : j <= 8 => g[j] \in Short}
  <2>1. 0 \in S
    BY <1>1, <1>8
  <2>2. ASSUME NEW j \in Nat, j \in S PROVE j + 1 \in S
    <3>1. SUFFICES ASSUME j + 1 <= 8 PROVE g[j + 1] \in Short
      OBVIOUS
    <3>2. g[j] \in Short /\ g[j + 1] = CrcBit(g[j])
      BY <1>8, <2>2, <3>1
    <3> QED
      BY <3>2, CrcBitInjective
  <2> HIDE DEF S
  <2>3. Nat \subseteq S
    BY <2>1, <2>2, Induct
  <2>4. \A j \in 0 .. 8 : g[j] \in Short
    BY <2>3 DEF S
  <2> QED
    BY <1>7, <2>4
<1> QED
  BY <1>7, <1>8, <1>9

\* The rounds for one byte make different short ints of different ones.
LEMMA CrcByteInjective ==
  ASSUME NEW value \in Short, NEW b \in Short
  PROVE  /\ CrcByte(value, b) \in Short
         /\ \A other \in Short, c \in Short :
              CrcByte(value, b) = CrcByte(other, c) => Xor(value, b) = Xor(other, c)
<1>1. PICK f \in [0 .. 8 -> Short] :
        f[0] = Xor(value, b) /\ (\A j \in 1 .. 8 : f[j] = CrcBit(f[j - 1])) /\ CrcByte(value, b) = f[8]
  BY CrcByteRounds
<1>2. ASSUME NEW other \in Short, NEW c \in Short, CrcByte(value, b) = CrcByte(other, c)
      PROVE  Xor(value, b) = Xor(other, c)
  <2>1. PICK g \in [0 .. 8 -> Short] :
          g[0] = Xor(other, c) /\ (\A j \in 1 .. 8 : g[j] = CrcBit(g[j - 1])) /\ CrcByte(other, c) = g[8]
    BY CrcByteRounds
  <2> DEFINE S == {j \in Nat : j <= 8 => f[8 - j] = g[8 - j]}
  <2>2. 0 \in S
    <3>1. f[8] = g[8] /\ 8 - 0 = 8
      BY <1>1, <1>2, <2>1
    <3> QED
      BY <3>1
  <2>3. ASSUME NEW j \in Nat, j \in S PROVE j + 1 \in S
    <3>1. SUFFICES ASSUME j + 1 <= 8 PROVE f[8 - (j + 1)] = g[8 - (j + 1)]
      OBVIOUS
    <3> DEFINE k == 8 - j
    <3>2. k \in 1 .. 8 /\ 8 - (j + 1) = k - 1 /\ k - 1 \in 0 .. 8 /\ f[k] = g[k]
      BY <2>3, <3>1
    <3> HIDE DEF k
    <3>3. CrcBit(f[k - 1]) = CrcBit(g[k - 1]) /\ f[k - 1] \in Short /\ g[k - 1] \in Short
      BY <1>1, <2>1, <3>2
    <3> QED
      BY <3>2, <3>3, CrcBitInjective
  <2> HIDE DEF S
  <2>4. 8 \in S
    BY <2>2, <2>3, Induct
  <2> QED
    BY <1>1, <2>1, <2>4 DEF S
<1> QED
  BY <1>1, <1>2

\* The rounds for all bytes.
AllRounds(f, data) ==
  /\ f \in [0 .. Len(data) -> Short] /\ f[0] = 65535
  /\ \A i \in 1 .. Len(data) : f[i] = CrcByte(f[i - 1], data[i])

\* CRC16_CalcuValue is their end.
LEMMA CrcRounds ==
  ASSUME NEW data \in Seq(Short)
  PROVE  \E f : AllRounds(f, data) /\ CRC16_CalcuValue(data) = f[Len(data)]
<1> DEFINE n == Len(data)
           loop(f) == f = [i \in 0 .. n |-> IF i = 0 THEN 65535 ELSE CrcByte(f[i - 1], data[i])]
           step == [i \in 1 .. n |-> [v \in Short |-> CrcByte(v, data[i])]]
<1>1. n \in Nat /\ 65535 \in Short /\ \A i \in 1 .. n : data[i] \in Short
  BY LenProperties, ElementOfSeq DEF Short
<1>2. CRC16_CalcuValue(data) = (CHOOSE f : loop(f))[n]
  BY DEF CRC16_CalcuValue
<1> HIDE DEF n
<1>3. step \in [1 .. n -> [Short -> Short]]
  BY <1>1, CrcByteInjective
<1>4. \E f : loop(f)
  <2> HIDE DEF step
  <2> DEFINE a == 65535
  <2>1. a \in Short
    BY <1>1
  <2> HIDE DEF a
  <2>2. PICK f : Rounds(f, Short, n, a, step)
    BY <1>1, <1>3, <2>1, LoopExists
  <2>3. f \in [0 .. n -> Short] /\ f[0] = 65535 /\ \A i \in 1 .. n : f[i] = step[i][f[i - 1]]
    BY <2>2 DEF Rounds, a
  <2>4. ASSUME NEW i \in 0 .. n PROVE f[i] = IF i = 0 THEN 65535 ELSE CrcByte(f[i - 1], data[i])
    <3>1. CASE i = 0
      BY <2>3, <3>1
    <3>2. CASE i # 0
      <4>1. i \in 1 .. n /\ f[i - 1] \in Short
        BY <1>1, <2>3, <3>2
      <4>2. f[i] = step[i][f[i - 1]]
        BY <2>3, <4>1
      <4> QED
        BY <3>2, <4>1, <4>2 DEF step
    <3> QED
      BY <3>1, <3>2
  <2>5. loop(f)
    <3> DEFINE h == [i \in 0 .. n |-> IF i = 0 THEN 65535 ELSE CrcByte(f[i - 1], data[i])]
    <3>1. f \in [0 .. n -> Short] /\ \A i \in 0 .. n : f[i] = h[i]
      BY <2>3, <2>4
    <3> QED
      BY <3>1
  <2> HIDE DEF loop
  <2> QED
    BY <2>5
<1>5. PICK g : loop(g) /\ CRC16_CalcuValue(data) = g[n]
  <2> HIDE DEF loop
  <2> QED
    BY <1>2, <1>4
<1>6. g[0] = 65535 /\ \A i \in 1 .. n : g[i] = CrcByte(g[i - 1], data[i])
  BY <1>1, <1>5
<1>7. g \in [0 .. n -> Short]
  <2> DEFINE S == {i \in Nat : i <= n => g[i] \in Short}
  <2>1. 0 \in S
    BY <1>1, <1>6
  <2>2. ASSUME NEW i \in Nat, i \in S PROVE i + 1 \in S
    <3>1. SUFFICES ASSUME i + 1 <= n PROVE g[i + 1] \in Short
      OBVIOUS
    <3>2. g[i] \in Short /\ i + 1 \in 1 .. n /\ data[i + 1] \in Short
      BY <1>1, <2>2, <3>1
    <3>3. g[i + 1] = CrcByte(g[i], data[i + 1])
      BY <1>6, <3>2
    <3> QED
      BY <3>2, <3>3, CrcByteInjective
  <2> HIDE DEF S
  <2>3. Nat \subseteq S
    BY <2>1, <2>2, Induct
  <2>4. \A i \in 0 .. n : g[i] \in Short
    BY <1>1, <2>3 DEF S
  <2> QED
    BY <1>5, <2>4
<1> HIDE DEF loop, step
<1>8. CRC16_CalcuValue(data) = g[n]
  BY <1>5
<1> QED
  BY <1>6, <1>7, <1>8 DEF n, AllRounds

\* CRC16_CalcuValue computes a short int.
LEMMA CrcType ==
  ASSUME NEW data \in Seq(Short)
  PROVE  CRC16_CalcuValue(data) \in Short
<1>1. PICK f : AllRounds(f, data) /\ CRC16_CalcuValue(data) = f[Len(data)]
  BY CrcRounds
<1>2. Len(data) \in 0 .. Len(data)
  BY LenProperties
<1> QED
  BY <1>1, <1>2 DEF AllRounds

\* The check value tells two texts apart that differ in one byte, however
\* long they are.
LEMMA OneByteSeen ==
  ASSUME NEW data \in Seq(Short), NEW other \in Seq(Short), Len(data) = Len(other),
         NEW k \in 1 .. Len(data), data[k] # other[k],
         \A i \in 1 .. Len(data) : i # k => data[i] = other[i]
  PROVE  CRC16_CalcuValue(data) # CRC16_CalcuValue(other)
<1> DEFINE n == Len(data)
<1>1. PICK f :
        /\ f \in [0 .. n -> Short] /\ f[0] = 65535
        /\ \A i \in 1 .. n : f[i] = CrcByte(f[i - 1], data[i])
        /\ CRC16_CalcuValue(data) = f[n]
  <2>1. PICK f : AllRounds(f, data) /\ CRC16_CalcuValue(data) = f[n]
    BY CrcRounds
  <2> QED
    BY <2>1 DEF AllRounds
<1>2. PICK g :
        /\ g \in [0 .. n -> Short] /\ g[0] = 65535
        /\ \A i \in 1 .. n : g[i] = CrcByte(g[i - 1], other[i])
        /\ CRC16_CalcuValue(other) = g[n]
  <2>1. PICK g : AllRounds(g, other) /\ CRC16_CalcuValue(other) = g[Len(other)]
    BY CrcRounds
  <2> QED
    BY <2>1 DEF AllRounds
<1>3. n \in Nat /\ k \in 1 .. n /\ \A i \in 1 .. n : data[i] \in Short /\ other[i] \in Short
  BY LenProperties, ElementOfSeq
<1>4. \A i \in 1 .. n : i # k => data[i] = other[i]
  OBVIOUS
<1> HIDE DEF n
<1> DEFINE S == {i \in Nat : i < k => f[i] = g[i]}
           T == {i \in Nat : k + i <= n => f[k + i] # g[k + i]}
<1>5. k - 1 \in S
  <2>1. 0 \in S
    BY <1>1, <1>2
  <2>2. ASSUME NEW i \in Nat, i \in S PROVE i + 1 \in S
    <3>1. SUFFICES ASSUME i + 1 < k PROVE f[i + 1] = g[i + 1]
      OBVIOUS
    <3>2. f[i] = g[i] /\ i + 1 \in 1 .. n /\ (i + 1) - 1 = i
      BY <1>3, <2>2, <3>1
    <3>3. data[i + 1] = other[i + 1]
      BY <1>4, <3>1, <3>2
    <3> QED
      BY <1>1, <1>2, <3>2, <3>3
  <2> HIDE DEF S
  <2>3. Nat \subseteq S
    BY <2>1, <2>2, Induct
  <2> QED
    BY <1>3, <2>3
<1>6. 0 \in T
  <2>1. f[k - 1] = g[k - 1] /\ f[k - 1] \in Short
    BY <1>1, <1>3, <1>5
  <2>2. f[k] = CrcByte(f[k - 1], data[k]) /\ g[k] = CrcByte(f[k - 1], other[k])
    BY <1>1, <1>2, <1>3, <2>1
  <2>3. data[k] \in Short /\ other[k] \in Short
    BY <1>3
  <2>4. f[k] # g[k]
    <3>1. SUFFICES ASSUME f[k] = g[k] PROVE FALSE
      OBVIOUS
    <3>2. CrcByte(f[k - 1], data[k]) = CrcByte(f[k - 1], other[k])
      BY <2>2, <3>1
    <3>3. Xor(f[k - 1], data[k]) = Xor(f[k - 1], other[k])
      BY <2>1, <2>3, <3>2, CrcByteInjective
    <3> QED
      BY <1>3, <2>1, <2>3, <3>3, XorInjective
  <2> QED
    BY <1>3, <2>4
<1>7. ASSUME NEW i \in Nat, i \in T PROVE i + 1 \in T
  <2>1. SUFFICES ASSUME k + (i + 1) <= n PROVE f[k + (i + 1)] # g[k + (i + 1)]
    OBVIOUS
  <2> DEFINE j == k + (i + 1)
  <2>2. j \in 1 .. n /\ j - 1 = k + i /\ j - 1 \in 0 .. n /\ j # k /\ f[j - 1] # g[j - 1]
    BY <1>3, <1>7, <2>1
  <2> HIDE DEF j
  <2>3. f[j] = CrcByte(f[j - 1], data[j]) /\ g[j] = CrcByte(g[j - 1], data[j])
    BY <1>1, <1>2, <1>4, <2>2
  <2>4. f[j - 1] \in Short /\ g[j - 1] \in Short /\ data[j] \in Short
    BY <1>1, <1>2, <1>3, <2>2
  <2>5. f[j] # g[j]
    <3>1. SUFFICES ASSUME f[j] = g[j] PROVE FALSE
      OBVIOUS
    <3>2. CrcByte(f[j - 1], data[j]) = CrcByte(g[j - 1], data[j])
      BY <2>3, <3>1
    <3>3. Xor(f[j - 1], data[j]) = Xor(g[j - 1], data[j])
      BY <2>4, <3>2, CrcByteInjective
    <3> QED
      BY <2>2, <2>4, <3>3, XorInjective
  <2> QED
    BY <2>5 DEF j
<1>8. n - k \in T
  <2> HIDE DEF T
  <2>1. Nat \subseteq T
    BY <1>6, <1>7, Induct
  <2> QED
    BY <1>3, <2>1
<1>9. f[n] # g[n]
  BY <1>3, <1>8
<1> QED
  BY <1>1, <1>2, <1>9
-----------------------------------------------------------------------------
(***************************************************************************)
(* Buffers and texts.                                                      *)
(***************************************************************************)

\* A buffer is as long as it was made.
LEMMA BufferLen ==
  ASSUME NEW N \in Nat, NEW s \in [1 .. N -> Byte]
  PROVE  s \in Seq(Byte) /\ Len(s) = N /\ DOMAIN s = 1 .. N
BY IsASeq, LenProperties

\* strlen finds the one end of a text.
LEMMA StrLenEnd ==
  ASSUME NEW N \in Nat, NEW s \in [1 .. N -> Byte], NEW n \in 0 .. N - 1, End(s, n)
  PROVE  StrLen(s) = n
<1> DEFINE P(m) == (\A i \in 1 .. m : s[i] # 0) /\ (m < N => s[m + 1] = 0)
<1>1. StrLen(s) = CHOOSE m \in 0 .. N : P(m)
  BY BufferLen DEF StrLen
<1>2. n \in 0 .. N /\ P(n)
  BY DEF End
<1>3. \A m \in 0 .. N : P(m) => m = n
  <2> SUFFICES ASSUME NEW m \in 0 .. N, P(m), m # n PROVE FALSE
    OBVIOUS
  <2>1. CASE m < n
    <3>1. m + 1 \in 1 .. n
      BY <2>1
    <3> QED
      BY <3>1, <2>1 DEF End
  <2>2. CASE n < m
    <3>1. n + 1 \in 1 .. m
      BY <2>2
    <3> QED
      BY <3>1, <2>2 DEF End
  <2> QED
    BY <2>1, <2>2
<1> HIDE DEF P
<1> QED
  BY <1>1, <1>2, <1>3

\* A buffer with a 0 in it has a first one.
LEMMA FirstZero ==
  ASSUME NEW N \in Nat, NEW s \in [1 .. N -> Byte], NEW k \in 1 .. N, s[k] = 0
  PROVE  StrLen(s) \in 0 .. N - 1 /\ End(s, StrLen(s))
<1> DEFINE T == {i \in 1 .. N : s[i] = 0}
<1>1. T \subseteq Nat /\ T # {}
  OBVIOUS
<1>2. PICK x \in T : \A y \in T : x <= y
  <2> HIDE DEF T
  <2> QED
    BY <1>1, Smallest
<1>3. x - 1 \in 0 .. N - 1 /\ End(s, x - 1)
  BY <1>2 DEF End
<1> QED
  BY <1>3, StrLenEnd

\* Everything is 0 in an empty buffer.
LEMMA ZerosType ==
  ASSUME NEW N \in Nat
  PROVE  Zeros(N) \in [1 .. N -> Byte] /\ \A i \in 1 .. N : Zeros(N)[i] = 0
BY DEF Zeros, Byte

\* A padded sequence is itself, then 0.
LEMMA PaddedType ==
  ASSUME NEW N \in Nat, NEW s \in Seq(Byte)
  PROVE  /\ Padded(s, N) \in [1 .. N -> Byte]
         /\ \A i \in 1 .. N : i <= Len(s) => Padded(s, N)[i] = s[i]
         /\ \A i \in 1 .. N : i > Len(s) => Padded(s, N)[i] = 0
<1>1. Len(s) \in Nat /\ \A i \in 1 .. N : i <= Len(s) => s[i] \in Byte
  BY LenProperties, ElementOfSeq
<1> QED
  BY <1>1 DEF Padded, Byte

\* What is written within a buffer changes that place only.
LEMMA PutWithin ==
  ASSUME NEW N \in Nat, NEW s \in [1 .. N -> Byte], NEW k \in Nat, NEW t \in Seq(Byte),
         k + Len(t) <= N
  PROVE  /\ Put(s, k, t) \in [1 .. N -> Byte]
         /\ \A i \in 1 .. Len(t) : Put(s, k, t)[k + i] = t[i]
         /\ \A i \in 1 .. N : i <= k \/ k + Len(t) < i => Put(s, k, t)[i] = s[i]
<1>1. DOMAIN s \cup (k + 1) .. (k + Len(t)) = 1 .. N /\ Len(t) \in Nat
  BY LenProperties
<1>2. \A i \in (k + 1) .. (k + Len(t)) : t[i - k] \in Byte
  <2> SUFFICES ASSUME NEW i \in (k + 1) .. (k + Len(t)) PROVE t[i - k] \in Byte
    OBVIOUS
  <2>1. i - k \in 1 .. Len(t)
    BY <1>1
  <2> QED
    BY <2>1, ElementOfSeq
<1>3. /\ Put(s, k, t) \in [1 .. N -> Byte]
      /\ \A i \in 1 .. N :
           Put(s, k, t)[i] = IF i \in (k + 1) .. (k + Len(t)) THEN t[i - k] ELSE s[i]
  BY <1>1, <1>2 DEF Put
<1>4. ASSUME NEW i \in 1 .. Len(t) PROVE Put(s, k, t)[k + i] = t[i]
  <2>1. k + i \in 1 .. N /\ k + i \in (k + 1) .. (k + Len(t)) /\ (k + i) - k = i
    BY <1>1
  <2> QED
    BY <1>3, <2>1
<1>5. ASSUME NEW i \in 1 .. N, i <= k \/ k + Len(t) < i PROVE Put(s, k, t)[i] = s[i]
  <2>1. i \notin (k + 1) .. (k + Len(t))
    BY <1>1, <1>5
  <2> QED
    BY <1>3, <2>1
<1> QED
  BY <1>3, <1>4, <1>5

\* Sequences of characters are sequences of bytes; one may be followed by a 0.
LEMMA Terminate ==
  ASSUME NEW t \in Seq(1 .. 255)
  PROVE  /\ t \in Seq(Byte) /\ t \o <<0>> \in Seq(Byte)
         /\ Len(t \o <<0>>) = Len(t) + 1 /\ Len(t) \in Nat
         /\ \A i \in 1 .. Len(t) : (t \o <<0>>)[i] = t[i]
         /\ \A i \in 1 .. Len(t) : t[i] # 0
         /\ (t \o <<0>>)[Len(t) + 1] = 0
<1>1. t \in Seq(Byte) /\ <<0>> \in Seq(Byte) /\ Len(<<0>>) = 1 /\ <<0>>[1] = 0
  BY SeqMonotonic DEF Byte
<1>2. Len(t) \in Nat /\ \A i \in 1 .. Len(t) : t[i] \in 1 .. 255
  BY ElementOfSeq, LenProperties
<1>3. /\ t \o <<0>> \in Seq(Byte) /\ Len(t \o <<0>>) = Len(t) + 1
      /\ \A i \in 1 .. Len(t) + 1 :
           (t \o <<0>>)[i] = IF i <= Len(t) THEN t[i] ELSE <<0>>[i - Len(t)]
  BY <1>1, <1>2, ConcatProperties
<1>4. Len(t) + 1 \in 1 .. Len(t) + 1 /\ (Len(t) + 1) - Len(t) = 1
  BY <1>2
<1>5. (t \o <<0>>)[Len(t) + 1] = 0
  BY <1>1, <1>2, <1>3, <1>4
<1>6. ASSUME NEW i \in 1 .. Len(t) PROVE (t \o <<0>>)[i] = t[i]
  <2>1. i \in 1 .. Len(t) + 1 /\ i <= Len(t)
    BY <1>2
  <2> QED
    BY <1>3, <2>1
<1>7. \A i \in 1 .. Len(t) : t[i] # 0
  <2>1. \A x \in 1 .. 255 : x # 0
    OBVIOUS
  <2> QED
    BY <1>2, <2>1
<1> QED
  BY <1>1, <1>2, <1>3, <1>5, <1>6, <1>7

\* Characters and a 0 written where a text ends make a longer text.
LEMMA AppendText ==
  ASSUME NEW N \in Nat, NEW s \in [1 .. N -> Byte], NEW n \in Nat, \A i \in 1 .. n : s[i] # 0,
         NEW t \in Seq(1 .. 255), n + Len(t) + 1 <= N
  PROVE  /\ Put(s, n, t \o <<0>>) \in [1 .. N -> Byte]
         /\ End(Put(s, n, t \o <<0>>), n + Len(t))
<1> DEFINE u == t \o <<0>>
           p == Put(s, n, u)
<1>1. /\ u \in Seq(Byte) /\ Len(u) = Len(t) + 1 /\ Len(t) \in Nat
      /\ \A i \in 1 .. Len(t) : u[i] # 0
      /\ u[Len(t) + 1] = 0
  BY Terminate
<1> HIDE DEF u
<1>2. /\ p \in [1 .. N -> Byte]
      /\ \A i \in 1 .. Len(u) : p[n + i] = u[i]
      /\ \A i \in 1 .. N : i <= n \/ n + Len(u) < i => p[i] = s[i]
  BY <1>1, PutWithin
<1> HIDE DEF p
<1>3. \A i \in 1 .. (n + Len(t)) : p[i] # 0
  <2> SUFFICES ASSUME NEW i \in 1 .. (n + Len(t)) PROVE p[i] # 0
    OBVIOUS
  <2>1. CASE i <= n
    BY <2>1, <1>1, <1>2
  <2>2. CASE i > n
    <3>1. i - n \in 1 .. Len(t) /\ i - n \in 1 .. Len(u) /\ n + (i - n) = i
      BY <2>2, <1>1
    <3>2. p[n + (i - n)] = u[i - n] /\ u[i - n] # 0
      BY <3>1, <1>1, <1>2
    <3> QED
      BY <3>1, <3>2
  <2> QED
    BY <2>1, <2>2, <1>1
<1>4. p[n + Len(t) + 1] = 0
  <2>1. Len(t) + 1 \in 1 .. Len(u) /\ n + (Len(t) + 1) = n + Len(t) + 1
    BY <1>1
  <2>2. p[n + (Len(t) + 1)] = u[Len(t) + 1]
    BY <2>1, <1>2
  <2> QED
    BY <2>1, <2>2, <1>1
<1> QED
  BY <1>2, <1>3, <1>4 DEF End, p, u

\* What is written behind a sequence in an otherwise empty buffer is behind it.
LEMMA AppendPadded ==
  ASSUME NEW N \in Nat, NEW s \in Seq(Byte), NEW t \in Seq(Byte), NEW u \in Seq(Byte),
         u \in {t, Ended(t)}, Len(s) + Len(u) <= N
  PROVE  Put(Padded(s, N), Len(s), u) = Padded(s \o t, N)
<1> DEFINE d == Padded(s, N)
           p == Put(d, Len(s), u)
           q == Padded(s \o t, N)
<1>1. /\ Len(s) \in Nat /\ Len(t) \in Nat /\ Len(u) \in Nat /\ s \o t \in Seq(Byte)
      /\ Len(s \o t) = Len(s) + Len(t)
      /\ \A i \in 1 .. Len(s) + Len(t) : (s \o t)[i] = IF i <= Len(s) THEN s[i] ELSE t[i - Len(s)]
  BY ConcatProperties, LenProperties
<1>2. /\ d \in [1 .. N -> Byte]
      /\ \A i \in 1 .. N : i <= Len(s) => d[i] = s[i]
      /\ \A i \in 1 .. N : i > Len(s) => d[i] = 0
  BY PaddedType
<1> HIDE DEF d
<1>3. /\ p \in [1 .. N -> Byte]
      /\ \A i \in 1 .. Len(u) : p[Len(s) + i] = u[i]
      /\ \A i \in 1 .. N : i <= Len(s) \/ Len(s) + Len(u) < i => p[i] = d[i]
  <2>1. Len(s) \in Nat /\ d \in [1 .. N -> Byte]
    BY <1>1, <1>2
  <2> QED
    BY <2>1, PutWithin
<1>4. /\ q \in [1 .. N -> Byte]
      /\ \A i \in 1 .. N : i <= Len(s) + Len(t) => q[i] = (s \o t)[i]
      /\ \A i \in 1 .. N : i > Len(s) + Len(t) => q[i] = 0
  <2> DEFINE w == s \o t
  <2>1. w \in Seq(Byte) /\ Len(w) = Len(s) + Len(t)
    BY <1>1
  <2> HIDE DEF w
  <2>2. /\ Padded(w, N) \in [1 .. N -> Byte]
        /\ \A i \in 1 .. N : i <= Len(w) => Padded(w, N)[i] = w[i]
        /\ \A i \in 1 .. N : i > Len(w) => Padded(w, N)[i] = 0
    BY <2>1, PaddedType
  <2> QED
    BY <2>1, <2>2 DEF w
<1>5. /\ Len(u) \in {Len(t), Len(t) + 1}
      /\ \A i \in 1 .. Len(u) : u[i] = IF i <= Len(t) THEN t[i] ELSE 0
  <2>1. CASE u = t
    BY <2>1, <1>1
  <2>2. CASE u = Ended(t)
    <3>1. <<0>> \in Seq(Byte) /\ Len(<<0>>) = 1 /\ <<0>>[1] = 0
      BY DEF Byte
    <3> QED
      BY <3>1, <2>2, <1>1, ConcatProperties DEF Ended
  <2> QED
    BY <2>1, <2>2
<1> HIDE DEF p, q
<1>6. \A i \in 1 .. N : p[i] = q[i]
  <2> SUFFICES ASSUME NEW i \in 1 .. N PROVE p[i] = q[i]
    OBVIOUS
  <2>1. CASE i <= Len(s)
    <3>1. i \in 1 .. Len(s) + Len(t) /\ i <= Len(s) + Len(t)
      BY <2>1, <1>1
    <3>2. p[i] = s[i]
      BY <2>1, <1>2, <1>3
    <3>3. q[i] = s[i]
      BY <3>1, <2>1, <1>1, <1>4
    <3> QED
      BY <3>2, <3>3
  <2>2. CASE i > Len(s) /\ i <= Len(s) + Len(u)
    <3> DEFINE j == i - Len(s)
    <3>1. j \in 1 .. Len(u) /\ Len(s) + j = i
      BY <2>2, <1>1
    <3>2. p[Len(s) + j] = u[j]
      BY <3>1, <1>3
    <3>3. p[i] = IF j <= Len(t) THEN t[j] ELSE 0
      BY <3>1, <3>2, <1>5
    <3>4. CASE j <= Len(t)
      <4>1. i \in 1 .. Len(s) + Len(t) /\ i <= Len(s) + Len(t) /\ ~(i <= Len(s))
        BY <3>4, <2>2, <1>1
      <4>2. q[i] = (s \o t)[i] /\ (s \o t)[i] = t[i - Len(s)]
        BY <4>1, <1>1, <1>4
      <4> QED
        BY <4>2, <3>3, <3>4
    <3>5. CASE ~(j <= Len(t))
      <4>1. i > Len(s) + Len(t)
        BY <3>5, <2>2, <1>1
      <4> QED
        BY <4>1, <3>3, <3>5, <1>4
    <3> QED
      BY <3>4, <3>5
  <2>3. CASE i > Len(s) + Len(u)
    <3>1. Len(s) + Len(u) < i /\ i > Len(s) /\ i > Len(s) + Len(t)
      BY <2>3, <1>1, <1>5
    <3> QED
      BY <3>1, <1>2, <1>3, <1>4
  <2> QED
    BY <2>1, <2>2, <2>3, <1>1
<1> QED
  BY <1>3, <1>4, <1>6 DEF p, q, d

\* A buffer with nothing in it is one with nothing padded.
LEMMA PaddedEmpty == \A N \in Nat : Zeros(N) = Padded(<<>>, N)
BY DEF Zeros, Padded

\* The text of a buffer that holds one is its front.
LEMMA FrontOfPadded ==
  ASSUME NEW N \in Nat, NEW t \in Seq(1 .. 255), Len(t) < N
  PROVE  /\ End(Padded(t, N), Len(t)) /\ StrLen(Padded(t, N)) = Len(t)
         /\ SubSeq(Padded(t, N), 1, Len(t)) = t
<1> DEFINE p == Padded(t, N)
<1>1. t \in Seq(Byte) /\ Len(t) \in Nat /\ \A i \in 1 .. Len(t) : t[i] # 0
  BY Terminate
<1>2. /\ p \in [1 .. N -> Byte]
      /\ \A i \in 1 .. N : i <= Len(t) => p[i] = t[i]
      /\ \A i \in 1 .. N : i > Len(t) => p[i] = 0
  BY <1>1, PaddedType
<1> HIDE DEF p
<1>3. End(p, Len(t))
  BY <1>1, <1>2 DEF End
<1>4. StrLen(p) = Len(t)
  BY <1>1, <1>2, <1>3, StrLenEnd
<1>5. p \in Seq(Byte) /\ Len(p) = N
  BY <1>2, BufferLen
<1>6. SubSeq(p, 1, Len(t)) \in Seq(Byte) /\ Len(SubSeq(p, 1, Len(t))) = Len(t)
      /\ \A i \in 1 .. Len(t) : SubSeq(p, 1, Len(t))[i] = p[i]
  BY <1>1, <1>5, SubSeqProperties
<1>7. SubSeq(p, 1, Len(t)) = t
  BY <1>1, <1>2, <1>6, SeqEqual
<1> QED
  BY <1>3, <1>4, <1>7 DEF p

\* The length, written as text, and the check value of a text that fits.
LEMMA WithLengthType ==
  ASSUME NEW n \in Fitting
  PROVE  /\ n \in Nat /\ n <= SenLen
         /\ Comma \o Digits(n) \o Comma \in Seq(1 .. 255)
         /\ Len(Comma \o Digits(n) \o Comma) \in 2 .. SenLen - 2 - n
<1> DEFINE C == 1 .. 255
           d == Digits(n)
<1>1. n \in 0 .. SenLen /\ n + Len(d) + 4 <= SenLen /\ d \in Seq(C) /\ SenLen \in Nat
  BY TextAssumption, LengthAssumption DEF Fitting
<1>2. Comma \in Seq(C) /\ Len(Comma) = 1
  BY DEF Comma
<1> HIDE DEF C, d
<1>3. Len(d) \in Nat
  BY <1>1, LenProperties
<1>4. Comma \o d \in Seq(C) /\ Len(Comma \o d) = Len(Comma) + Len(d)
  BY <1>1, <1>2, ConcatProperties
<1>5. Comma \o d \o Comma \in Seq(C) /\ Len(Comma \o d \o Comma) = Len(Comma \o d) + Len(Comma)
  BY <1>2, <1>4, ConcatProperties
<1>6. Len(Comma \o d \o Comma) = 2 + Len(d)
  BY <1>2, <1>3, <1>4, <1>5
<1>7. n \in Nat /\ n <= SenLen /\ 2 + Len(d) \in 2 .. SenLen - 2 - n
  BY <1>1, <1>3
<1> QED
  BY <1>5, <1>6, <1>7 DEF C, d

\* A text with its length fits with its check value.
LEMMA WithLengthOf ==
  ASSUME NEW t \in Texts
  PROVE  /\ WithLength(t) = t \o (Comma \o Digits(Len(t)) \o Comma)
         /\ WithLength(t) \in Seq(1 .. 255) /\ Len(WithLength(t)) \in 0 .. SenLen - 2
<1> DEFINE C == 1 .. 255
           d == Digits(Len(t))
           w == Comma \o d \o Comma
<1>1. t \in Seq(C) /\ Len(t) \in Fitting /\ Len(t) \in Nat
  BY LenProperties DEF Texts
<1>2. d \in Seq(C) /\ Comma \in Seq(C)
  BY <1>1, TextAssumption DEF Fitting, Comma
<1>3. WithLength(t) = t \o Comma \o d \o Comma
  BY DEF WithLength
<1>4. w \in Seq(C) /\ Len(w) \in 2 .. SenLen - 2 - Len(t) /\ SenLen \in Nat
  BY <1>1, WithLengthType, LengthAssumption
<1> HIDE DEF C, d
<1>5. t \o Comma \o d \o Comma = t \o w
  <2> DEFINE c == Comma \o d
  <2>1. (t \o Comma) \o d = t \o c
    BY <1>1, <1>2, ConcatAssociative
  <2>2. c \in Seq(C)
    BY <1>2, ConcatProperties
  <2>3. w = c \o Comma
    OBVIOUS
  <2> HIDE DEF c, w
  <2>4. (t \o c) \o Comma = t \o (c \o Comma)
    BY <1>1, <1>2, <2>2, ConcatAssociative
  <2> QED
    BY <2>1, <2>3, <2>4
<1> HIDE DEF w
<1>6. t \o w \in Seq(C) /\ Len(t \o w) = Len(t) + Len(w)
  BY <1>1, <1>4, ConcatProperties
<1>7. Len(t) + Len(w) \in 0 .. SenLen - 2
  BY <1>1, <1>4
<1> QED
  BY <1>3, <1>5, <1>6, <1>7 DEF C, d, w

\* The two bytes of a word.
LEMMA WordBytes ==
  ASSUME NEW n \in Nat, n < 256 * 256
  PROVE  n \div 256 \in Byte /\ n % 256 \in Byte
<1>1. n \div 256 \in Nat /\ n \div 256 < 256
  OBVIOUS
<1>2. n % 256 \in Nat /\ n % 256 < 256
  OBVIOUS
<1> QED
  BY <1>1, <1>2 DEF Byte

\* The check value is two bytes.
LEMMA CrcBytesType ==
  ASSUME NEW s \in Seq(Byte)
  PROVE  CrcBytes(s) \in Seq(Byte) /\ Len(CrcBytes(s)) = 2
<1> DEFINE v == CRC16_CalcuValue(s)
<1>1. v \in Nat /\ v < 256 * 256
  <2>1. \A b \in Byte : b \in Short
    BY DEF Byte, Short
  <2>2. s \in Seq(Short)
    BY <2>1, SeqMonotonic
  <2> QED
    BY <2>2, CrcType DEF Short
<1>2. CrcBytes(s) = <<v \div 256, v % 256>>
  BY DEF CrcBytes
<1> HIDE DEF v
<1>3. v \div 256 \in Byte /\ v % 256 \in Byte
  BY <1>1, WordBytes
<1> QED
  BY <1>2, <1>3

\* A text with its check value behind it is taken, and is taken no more when
\* one byte of the text or of the check value is another.
LEMMA ChangeSeen ==
  ASSUME NEW s \in Seq(Byte), Len(s) > 0
  PROVE  LET a == s \o CrcBytes(s) IN
         /\ CRC16_CheckValue(a)
         /\ \A i \in 1 .. Len(a) : \A b \in Short \ {a[i]} :
              ~CRC16_CheckValue([a EXCEPT ![i] = b])
<1> DEFINE v == CRC16_CalcuValue(s)
           c == CrcBytes(s)
           m == Len(s)
           a == s \o c
<1>1. /\ s \in Seq(Short) /\ v \in Short /\ v \in Nat /\ v < 256 * 256 /\ m \in Nat /\ m > 0
      /\ \A b \in Byte : b \in Short
  <2>1. \A b \in Byte : b \in Short
    BY DEF Byte, Short
  <2>2. s \in Seq(Short) /\ m \in Nat
    BY <2>1, SeqMonotonic, LenProperties
  <2> QED
    BY <2>1, <2>2, CrcType DEF Short
<1>2. c = <<v \div 256, v % 256>> /\ c \in Seq(Short) /\ Len(c) = 2 /\ c[1] = v \div 256 /\ c[2] = v % 256
  <2>1. c = <<v \div 256, v % 256>>
    BY DEF CrcBytes
  <2>2. v \div 256 \in Short /\ v % 256 \in Short
    BY <1>1, WordBytes
  <2> HIDE DEF c, v
  <2> QED
    BY <2>1, <2>2
<1>3. v = (v \div 256) * 256 + (v % 256)
  <2> HIDE DEF v
  <2> QED
    BY <1>1
<1> HIDE DEF c, v, m
<1>4. /\ a \in Seq(Short) /\ Len(a) = m + 2
      /\ \A i \in 1 .. m : a[i] = s[i]
      /\ a[m + 1] = c[1] /\ a[m + 2] = c[2]
  <2>1. /\ a \in Seq(Short) /\ Len(a) = Len(s) + Len(c)
        /\ \A i \in 1 .. Len(s) + Len(c) : a[i] = IF i <= Len(s) THEN s[i] ELSE c[i - Len(s)]
    BY <1>1, <1>2, ConcatProperties
  <2> HIDE DEF a
  <2>2. Len(a) = m + 2 /\ \A i \in 1 .. m + 2 : a[i] = IF i <= m THEN s[i] ELSE c[i - m]
    BY <2>1, <1>2 DEF m
  <2>3. (m + 1) - m = 1 /\ (m + 2) - m = 2 /\ m + 1 \in 1 .. m + 2 /\ m + 2 \in 1 .. m + 2
    BY <1>1
  <2> QED
    BY <1>1, <2>1, <2>2, <2>3
<1> HIDE DEF a
<1>5. ASSUME NEW e \in Seq(Short), Len(e) = m + 2
      PROVE  LET t == SubSeq(e, 1, m) IN
             /\ t \in Seq(Short) /\ Len(t) = m /\ \A i \in 1 .. m : t[i] = e[i]
             /\ CRC16_CheckValue(e) <=> e[m + 1] * 256 + e[m + 2] = CRC16_CalcuValue(t)
  <2>1. m \in 1 - 1 .. m + 2 /\ m > 2 - 2 /\ (m + 2) - 2 = m /\ (m + 2) - 1 = m + 1 /\ m + 2 > 2
    BY <1>1
  <2>2. SubSeq(e, 1, m) \in Seq(Short) /\ Len(SubSeq(e, 1, m)) = m
        /\ \A i \in 1 .. m : SubSeq(e, 1, m)[i] = e[i]
    BY <1>1, <1>5, <2>1, SubSeqProperties
  <2>3. CRC16_CheckValue(e) <=> e[m + 1] * 256 + e[m + 2] = CRC16_CalcuValue(SubSeq(e, 1, m))
    BY <1>5, <2>1 DEF CRC16_CheckValue
  <2> QED
    BY <2>2, <2>3
<1>6. CRC16_CheckValue(a)
  <2> DEFINE t == SubSeq(a, 1, m)
  <2>1. /\ t \in Seq(Short) /\ Len(t) = m /\ \A i \in 1 .. m : t[i] = a[i]
        /\ CRC16_CheckValue(a) <=> a[m + 1] * 256 + a[m + 2] = CRC16_CalcuValue(t)
    BY <1>4, <1>5
  <2> HIDE DEF t
  <2>2. t = s
    BY <1>1, <1>4, <2>1, SeqEqual DEF m
  <2> QED
    BY <1>2, <1>3, <1>4, <2>1, <2>2 DEF v
<1>7. ASSUME NEW i \in 1 .. Len(a), NEW b \in Short \ {a[i]}
      PROVE  ~CRC16_CheckValue([a EXCEPT ![i] = b])
  <2> DEFINE e == [a EXCEPT ![i] = b]
             t == SubSeq(e, 1, m)
  <2>1. e \in Seq(Short) /\ Len(e) = m + 2 /\ i \in 1 .. m + 2 /\ e[i] = b
        /\ \A j \in 1 .. m + 2 : j # i => e[j] = a[j]
    BY <1>1, <1>4, <1>7
  <2> HIDE DEF e
  <2>2. /\ t \in Seq(Short) /\ Len(t) = m /\ \A j \in 1 .. m : t[j] = e[j]
        /\ CRC16_CheckValue(e) <=> e[m + 1] * 256 + e[m + 2] = CRC16_CalcuValue(t)
    BY <2>1, <1>5
  <2> HIDE DEF t
  <2>3. m + 1 \in 1 .. m + 2 /\ m + 2 \in 1 .. m + 2 /\ m + 1 # m + 2
        /\ \A j \in 1 .. m : j \in 1 .. m + 2 /\ j # m + 1 /\ j # m + 2
    BY <1>1
  <2>4. CASE i \in 1 .. m
    <3>1. e[m + 1] = v \div 256 /\ e[m + 2] = v % 256
      BY <1>2, <1>4, <2>1, <2>3, <2>4
    <3>2. t[i] # s[i] /\ \A j \in 1 .. m : j # i => t[j] = s[j]
      BY <1>4, <1>7, <2>1, <2>2, <2>3, <2>4
    <3>3. CRC16_CalcuValue(t) # v
      BY <1>1, <2>2, <2>4, <3>2, OneByteSeen DEF v, m
    <3> QED
      BY <1>3, <2>2, <3>1, <3>3 DEF e
  <2>5. CASE i \notin 1 .. m
    <3>1. t = s
      <4>1. \A j \in 1 .. m : t[j] = s[j]
        BY <1>4, <2>1, <2>2, <2>3, <2>5
      <4> QED
        BY <1>1, <2>2, <4>1, SeqEqual DEF m
    <3>2. i = m + 1 \/ i = m + 2
      BY <1>1, <2>1, <2>5
    <3>3. e[m + 1] * 256 + e[m + 2] # v
      <4>1. b \in Nat
        BY DEF Short
      <4>2. v \div 256 \in Nat /\ v % 256 \in Nat
        <5> HIDE DEF v
        <5> QED
          BY <1>1
      <4>3. CASE i = m + 1
        <5>1. e[m + 1] = b /\ e[m + 2] = v % 256 /\ b # v \div 256
          BY <1>2, <1>4, <1>7, <2>1, <2>3, <4>3
        <5> DEFINE p == v \div 256
                   q == v % 256
        <5>2. p \in Nat /\ q \in Nat /\ b # p /\ v = p * 256 + q /\ e[m + 1] = b /\ e[m + 2] = q
          BY <1>3, <4>2, <5>1
        <5> HIDE DEF p, q
        <5>3. b * 256 + q # p * 256 + q
          BY <4>1, <5>2
        <5> QED
          BY <5>2, <5>3
      <4>4. CASE i = m + 2
        <5>1. e[m + 2] = b /\ e[m + 1] = v \div 256 /\ b # v % 256
          BY <1>2, <1>4, <1>7, <2>1, <2>3, <4>4
        <5> QED
          BY <1>3, <4>1, <4>2, <5>1
      <4> QED
        BY <3>2, <4>3, <4>4
    <3> QED
      BY <2>2, <3>1, <3>3 DEF e, v
  <2> QED
    BY <2>4, <2>5
<1> QED
  BY <1>6, <1>7 DEF a, c

\* An answer is bytes.
LEMMA AnswerType ==
  ASSUME NEW t \in Texts
  PROVE  /\ Answer(t) = WithLength(t) \o CrcBytes(WithLength(t))
         /\ Answer(t) \in Seq(Byte)
<1>1. WithLength(t) \in Seq(Byte)
  BY WithLengthOf, Terminate
<1>2. CrcBytes(WithLength(t)) \in Seq(Byte)
  BY <1>1, CrcBytesType
<1> QED
  BY <1>1, <1>2, ConcatProperties DEF Answer
-----------------------------------------------------------------------------
(***************************************************************************)
(* Reception.                                                              *)
(***************************************************************************)

\* The buffers are empty at first.
LEMMA InitReceive == Init => ReceiveInv /\ ListInv
<1> SUFFICES ASSUME Init PROVE ReceiveInv /\ ListInv
  OBVIOUS
<1>1. RecLen \in Nat /\ MaxEarly \in Nat /\ MqSize \in Nat
  BY LengthAssumption
<1>2. recBuf \in [1 .. RecLen -> Byte] /\ \A i \in 1 .. RecLen : recBuf[i] = 0
  BY <1>1, ZerosType DEF Init
<1>3. ReceiveTypes
  <2>1. <<>> \in Seq(Byte) /\ Len(<<>>) = 0
    BY EmptySeq
  <2>2. line = <<>> /\ frame = <<>> /\ dr = <<>> /\ left = RecLen /\ early = 0
        /\ idle = FALSE /\ isr = "off" /\ ran = FALSE /\ apart = TRUE
    BY DEF Init
  <2>3. left \in 0 .. RecLen /\ early \in 0 .. MaxEarly
    BY <1>1, <2>2
  <2> QED
    BY <1>2, <2>1, <2>2, <2>3 DEF ReceiveTypes
<1>4. OneByte /\ EndInv /\ Between
  BY <1>1, <1>2, EmptySeq DEF Init, OneByte, EndInv, Unfilled, Between, Empty
<1>6. Arriving
  <2>1. Come = 0 /\ Len(line) = 0 /\ line = <<>> /\ left = RecLen /\ isr = "off"
    BY EmptySeq DEF Init, Come
  <2> QED
    BY <1>1, <1>2, <2>1 DEF Arriving
<1>5. ListInv
  BY <1>1 DEF Init, ListInv
<1> QED
  BY <1>3, <1>4, <1>5, <1>6 DEF ReceiveInv

\* A buffer may be queued.
LEMMA MqSendInv ==
  ASSUME ListInv, NEW m \in [1 .. RecLen -> Byte], list' = MqSend(m)
  PROVE  ListInv'
<1> DEFINE M == [1 .. RecLen -> Byte]
<1>1. list \in Seq(M) /\ Len(list) \in Nat /\ Len(list) <= MqSize /\ MqSize \in Nat /\ m \in M
  BY LengthAssumption, LenProperties DEF ListInv
<1> HIDE DEF M
<1>2. CASE Len(list) < MqSize
  <2>1. list' = Append(list, m)
    BY <1>2 DEF MqSend
  <2>2. list' \in Seq(M) /\ Len(list') = Len(list) + 1
    BY <1>1, <2>1, AppendProperties
  <2> QED
    BY <1>1, <1>2, <2>2 DEF ListInv, M
<1>3. CASE ~(Len(list) < MqSize)
  BY <1>1, <1>3 DEF ListInv, M, MqSend
<1> QED
  BY <1>2, <1>3

\* A frame begins.
LEMMA PeerBeginInv == ReceiveInv /\ PeerBegin => ReceiveInv'
<1> SUFFICES ASSUME ReceiveInv, PeerBegin PROVE ReceiveInv'
  OBVIOUS
<1>1. PICK f \in Frames : line' = f /\ frame' = IF apart' THEN f ELSE <<>>
  BY DEF PeerBegin
<1>2. f \in Seq(Byte) /\ f # <<>> /\ Len(f) \in Nat
  <2>1. f \in Seq(1 .. 255) /\ f # <<>>
    BY FrameAssumption
  <2> QED
    BY <2>1, Terminate
<1>3. UNCHANGED <<recBuf, left, dr, idle, isr, ran>> /\ line = <<>> /\ apart' = (~idle /\ isr = "off")
  BY DEF PeerBegin
<1>4. RecLen \in Nat /\ left \in 0 .. RecLen
  BY LengthAssumption DEF ReceiveInv, ReceiveTypes
<1>5. ReceiveTypes'
  <2>1. early' \in 0 .. MaxEarly
    <3>1. early \in 0 .. MaxEarly /\ MaxEarly \in Nat
      BY LengthAssumption DEF ReceiveInv, ReceiveTypes
    <3>2. early' = 0 \/ (early < MaxEarly /\ early' = early + 1)
      BY DEF PeerBegin
    <3> QED
      BY <3>1, <3>2
  <2>2. frame' \in Seq(Byte)
    BY <1>1, <1>2
  <2>3. apart' \in BOOLEAN
    BY <1>3
  <2> QED
    BY <1>1, <1>2, <1>3, <2>1, <2>2, <2>3 DEF ReceiveInv, ReceiveTypes
<1>6. EndInv' /\ OneByte'
  BY <1>3 DEF ReceiveInv, EndInv, Unfilled, Empty, OneByte
<1>7. Between'
  BY <1>1, <1>2 DEF Between
<1>8. ASSUME apart' PROVE Arriving'
  <2>1. frame' = f /\ ~idle /\ isr = "off" /\ ~idle' /\ isr' = "off"
    BY <1>1, <1>3, <1>8
  <2>2. Come' = 0
    BY <1>1, <1>2, <2>1 DEF Come
  <2>3. left' = RecLen /\ \A i \in 1 .. RecLen : recBuf'[i] = 0
    BY <1>3, <2>1 DEF ReceiveInv, Between, Empty
  <2>4. \A i \in 1 .. Len(line') : line'[i] = frame'[0 + i]
    BY <1>1, <1>2, <2>1
  <2> QED
    BY <1>4, <2>1, <2>2, <2>3, <2>4 DEF Arriving
<1> QED
  BY <1>5, <1>6, <1>7, <1>8 DEF ReceiveInv, Arriving

\* A byte arrives.
LEMMA PeerByteInv == ReceiveInv /\ PeerByte => ReceiveInv'
<1> SUFFICES ASSUME ReceiveInv, PeerByte PROVE ReceiveInv'
  OBVIOUS
<1> DEFINE b == Head(line)
<1>1. /\ line # <<>> /\ line \in Seq(Byte) /\ b \in Byte /\ line' = Tail(line) /\ line' \in Seq(Byte)
      /\ Len(line) \in Nat \ {0} /\ Len(line') = Len(line) - 1
      /\ \A i \in 1 .. Len(line') : line'[i] = line[i + 1]
      /\ b = line[1]
  <2>1. line \in Seq(Byte) /\ line # <<>> /\ line' = Tail(line)
    BY DEF PeerByte, ReceiveInv, ReceiveTypes
  <2> QED
    BY <2>1, HeadTailProperties, LenProperties, EmptySeq
<1>2. line' = <<>> <=> Len(line) = 1
  <2>1. Len(line') = 0 <=> Len(line) = 1
    BY <1>1
  <2> QED
    BY <1>1, <2>1, EmptySeq
<1>3. /\ UNCHANGED <<isr, early, frame, apart>> /\ ran' = (ran \/ isr # "off")
      /\ idle' = (idle \/ Len(line) = 1) /\ Received(b)
  BY DEF PeerByte
<1>4. /\ RecLen \in Nat /\ left \in 0 .. RecLen /\ recBuf \in [1 .. RecLen -> Byte]
      /\ dr \in Seq(Byte) /\ frame \in Seq(Byte) /\ Len(frame) \in Nat
      /\ idle \in BOOLEAN /\ isr \in {"off", "queue", "print", "clear", "arm"}
      /\ ran \in BOOLEAN /\ apart \in BOOLEAN /\ early \in 0 .. MaxEarly
  BY LengthAssumption, LenProperties DEF ReceiveInv, ReceiveTypes
<1>5. idle' \in BOOLEAN /\ ran' \in BOOLEAN
  BY <1>3
<1> HIDE DEF b
<1>6. CASE left > 0
  <2>1. recBuf' = Put(recBuf, RecLen - left, <<b>>) /\ left' = left - 1 /\ dr' = dr
    BY <1>3, <1>6 DEF Received
  <2>2. /\ recBuf' \in [1 .. RecLen -> Byte]
        /\ recBuf'[RecLen - left + 1] = b
        /\ \A i \in 1 .. RecLen : i # RecLen - left + 1 => recBuf'[i] = recBuf[i]
    <3>1. <<b>> \in Seq(Byte) /\ Len(<<b>>) = 1 /\ <<b>>[1] = b
      BY <1>1
    <3>2. RecLen - left \in Nat /\ (RecLen - left) + Len(<<b>>) <= RecLen
      BY <1>4, <1>6, <3>1
    <3>3. /\ recBuf' \in [1 .. RecLen -> Byte]
          /\ \A i \in 1 .. Len(<<b>>) : recBuf'[RecLen - left + i] = <<b>>[i]
          /\ \A i \in 1 .. RecLen : i <= RecLen - left \/ RecLen - left + Len(<<b>>) < i => recBuf'[i] = recBuf[i]
      <4> DEFINE k == RecLen - left
                 t == <<b>>
      <4>1. k \in Nat /\ t \in Seq(Byte) /\ k + Len(t) <= RecLen /\ RecLen \in Nat
            /\ recBuf \in [1 .. RecLen -> Byte] /\ recBuf' = Put(recBuf, k, t)
        BY <1>4, <2>1, <3>1, <3>2
      <4> HIDE DEF k, t
      <4>2. /\ recBuf' \in [1 .. RecLen -> Byte]
            /\ \A i \in 1 .. Len(t) : recBuf'[k + i] = t[i]
            /\ \A i \in 1 .. RecLen : i <= k \/ k + Len(t) < i => recBuf'[i] = recBuf[i]
        BY <4>1, PutWithin
      <4> QED
        BY <4>2 DEF k, t
    <3>4. \A i \in 1 .. RecLen : i # RecLen - left + 1 => i <= RecLen - left \/ RecLen - left + 1 < i
      BY <1>4
    <3>5. recBuf'[RecLen - left + 1] = b
      BY <3>1, <3>3
    <3> QED
      BY <3>1, <3>3, <3>4, <3>5
  <2>3. left' \in 0 .. RecLen
    BY <1>4, <1>6, <2>1
  <2>4. ReceiveTypes' /\ OneByte'
    BY <1>1, <1>3, <1>4, <1>5, <2>1, <2>2, <2>3 DEF ReceiveInv, ReceiveTypes, OneByte
  <2>5. EndInv'
    <3> SUFFICES ASSUME ~ran' PROVE isr' = "off" /\ Unfilled'
      BY DEF EndInv
    <3>1. isr = "off" /\ ~ran /\ isr' = "off"
      BY <1>3
    <3> SUFFICES ASSUME NEW i \in 1 .. RecLen, i > RecLen - left' PROVE recBuf'[i] = 0
      BY <3>1 DEF Unfilled
    <3>2. i # RecLen - left + 1 /\ i > RecLen - left
      BY <1>4, <1>6, <2>1
    <3>3. recBuf[i] = 0
      BY <3>1, <3>2 DEF ReceiveInv, EndInv, Unfilled
    <3> QED
      BY <3>2, <3>3, <2>2
  <2>6. ASSUME apart, isr \in {"off", "queue"} PROVE Arriving'
    <3>1. /\ isr = "off" /\ ~idle /\ Come \in Nat
          /\ \A i \in 1 .. Len(line) : line[i] = frame[Come + i]
          /\ left = IF Come <= RecLen THEN RecLen - Come ELSE 0
          /\ \A i \in 1 .. RecLen : recBuf[i] = IF i <= Come THEN frame[i] ELSE 0
      BY <1>1, <2>6 DEF ReceiveInv, Arriving
    <3>2. Come' = Come + 1 /\ Come < RecLen /\ RecLen - left = Come
      BY <1>1, <1>3, <1>4, <1>6, <3>1 DEF Come
    <3>3. left' = IF Come' <= RecLen THEN RecLen - Come' ELSE 0
      BY <1>4, <2>1, <3>1, <3>2
    <3>4. ASSUME NEW i \in 1 .. Len(line') PROVE line'[i] = frame'[Come' + i]
      <4>1. i + 1 \in 1 .. Len(line) /\ Come + (i + 1) = Come' + i
        BY <1>1, <3>1, <3>2
      <4> QED
        BY <4>1, <1>1, <1>3, <3>1
    <3>5. ASSUME NEW i \in 1 .. RecLen
          PROVE  recBuf'[i] = IF i <= Come' THEN frame'[i] ELSE 0
      <4>1. CASE i = Come + 1
        <5>1. 1 \in 1 .. Len(line)
          BY <1>1
        <5>2. b = frame[Come + 1]
          BY <5>1, <1>1, <3>1
        <5> QED
          BY <4>1, <5>2, <1>3, <2>2, <3>2
      <4>2. CASE i # Come + 1
        <5>1. (i <= Come <=> i <= Come') /\ i # RecLen - left + 1
          BY <4>2, <3>1, <3>2
        <5> QED
          BY <5>1, <1>3, <2>2, <3>1
      <4> QED
        BY <4>1, <4>2
    <3>6. idle' => line' = <<>>
      BY <1>2, <1>3, <3>1
    <3>7. Come' \in Nat /\ isr' = "off"
      BY <1>3, <3>1, <3>2
    <3> QED
      BY <3>3, <3>4, <3>5, <3>6, <3>7 DEF Arriving
  <2>7. Between'
    BY <1>2, <1>3 DEF Between
  <2>8. Arriving'
    <3>1. CASE apart /\ isr \in {"off", "queue"}
      BY <2>6, <3>1
    <3>2. CASE ~(apart /\ isr \in {"off", "queue"})
      BY <1>3, <3>2 DEF ReceiveInv, Arriving
    <3> QED
      BY <3>1, <3>2
  <2> QED
    BY <2>4, <2>5, <2>7, <2>8 DEF ReceiveInv
<1>7. CASE ~(left > 0)
  <2>1. /\ left = 0 /\ UNCHANGED <<recBuf, left>>
        /\ dr' = IF dr = <<>> THEN <<b>> ELSE dr
    BY <1>3, <1>4, <1>7 DEF Received
  <2>2. dr' \in Seq(Byte) /\ OneByte'
    <3>1. <<b>> \in Seq(Byte) /\ Len(<<b>>) = 1
      BY <1>1
    <3> QED
      BY <1>4, <2>1, <3>1 DEF ReceiveInv, OneByte
  <2>3. ReceiveTypes' /\ OneByte'
    BY <1>1, <1>3, <1>4, <1>5, <2>1, <2>2 DEF ReceiveTypes
  <2>4. EndInv'
    BY <1>3, <2>1 DEF ReceiveInv, EndInv, Unfilled
  <2>5. Between'
    BY <1>2, <1>3 DEF Between
  <2>6. ASSUME apart, isr \in {"off", "queue"} PROVE Arriving'
    <3>1. /\ isr = "off" /\ ~idle /\ Come \in Nat
          /\ \A i \in 1 .. Len(line) : line[i] = frame[Come + i]
          /\ left = IF Come <= RecLen THEN RecLen - Come ELSE 0
          /\ \A i \in 1 .. RecLen : recBuf[i] = IF i <= Come THEN frame[i] ELSE 0
      BY <1>1, <2>6 DEF ReceiveInv, Arriving
    <3>2. Come' = Come + 1 /\ Come >= RecLen
      BY <1>1, <1>3, <1>4, <2>1, <3>1 DEF Come
    <3>3. left' = IF Come' <= RecLen THEN RecLen - Come' ELSE 0
      BY <1>4, <2>1, <3>1, <3>2
    <3>4. ASSUME NEW i \in 1 .. Len(line') PROVE line'[i] = frame'[Come' + i]
      <4>1. i + 1 \in 1 .. Len(line) /\ Come + (i + 1) = Come' + i
        BY <1>1, <3>1, <3>2
      <4> QED
        BY <4>1, <1>1, <1>3, <3>1
    <3>5. ASSUME NEW i \in 1 .. RecLen
          PROVE  recBuf'[i] = IF i <= Come' THEN frame'[i] ELSE 0
      <4>1. i <= Come /\ i <= Come'
        BY <1>4, <3>1, <3>2
      <4> QED
        BY <4>1, <1>3, <2>1, <3>1
    <3>6. idle' => line' = <<>>
      BY <1>2, <1>3, <3>1
    <3>7. Come' \in Nat /\ isr' = "off"
      BY <1>3, <3>1, <3>2
    <3> QED
      BY <3>3, <3>4, <3>5, <3>6, <3>7 DEF Arriving
  <2>7. Arriving'
    <3>1. CASE apart /\ isr \in {"off", "queue"}
      BY <2>6, <3>1
    <3>2. CASE ~(apart /\ isr \in {"off", "queue"})
      BY <1>3, <3>2 DEF ReceiveInv, Arriving
    <3> QED
      BY <3>1, <3>2
  <2> QED
    BY <2>3, <2>4, <2>5, <2>7 DEF ReceiveInv
<1> QED
  BY <1>6, <1>7

\* The handler reads the data register and looks at the counter.
LEMMA UART4_IRQHandlerInv == ReceiveInv /\ UART4_IRQHandler => ReceiveInv'
<1> SUFFICES ASSUME ReceiveInv, UART4_IRQHandler PROVE ReceiveInv'
  OBVIOUS
<1>1. /\ UNCHANGED <<line, recBuf, left, ran, early, frame, apart>> /\ isr = "off"
      /\ idle /\ idle' = FALSE /\ isr' = (IF left # 0 THEN "queue" ELSE "print") /\ dr' = <<>>
      /\ dr' \in Seq(Byte) /\ Len(dr') = 0
  BY EmptySeq DEF UART4_IRQHandler
<1>2. ReceiveTypes'
  BY <1>1 DEF ReceiveInv, ReceiveTypes
<1>3. OneByte'
  BY <1>1 DEF OneByte
<1>4. EndInv' /\ Between'
  BY <1>1 DEF ReceiveInv, EndInv, Unfilled, Between
<1>5. Arriving'
  <2>1. Come' = Come
    BY <1>1 DEF Come
  <2> QED
    BY <1>1, <2>1 DEF ReceiveInv, Arriving
<1> QED
  BY <1>2, <1>3, <1>4, <1>5 DEF ReceiveInv

\* It queues what has come.
LEMMA UART4_QueueInv == ReceiveInv /\ ListInv /\ UART4_Queue => ReceiveInv' /\ ListInv'
<1> SUFFICES ASSUME ReceiveInv, ListInv, UART4_Queue PROVE ReceiveInv' /\ ListInv'
  OBVIOUS
<1>1. /\ UNCHANGED <<line, recBuf, left, dr, idle, ran, early, frame, apart>>
      /\ isr' = "clear" /\ list' = MqSend(recBuf)
  BY DEF UART4_Queue
<1>2. recBuf \in [1 .. RecLen -> Byte]
  BY DEF ReceiveInv, ReceiveTypes
<1>3. ListInv'
  BY <1>1, <1>2, MqSendInv
<1>4. ReceiveTypes' /\ OneByte'
  BY <1>1 DEF ReceiveInv, ReceiveTypes, OneByte
<1>5. EndInv' /\ Between' /\ Arriving'
  BY <1>1 DEF ReceiveInv, EndInv, Between, Arriving
<1> QED
  BY <1>3, <1>4, <1>5 DEF ReceiveInv

\* It prints, while bytes may go on to be lost.
LEMMA UART4_PrintInv == ReceiveInv /\ UART4_Print => ReceiveInv'
<1> SUFFICES ASSUME ReceiveInv, UART4_Print PROVE ReceiveInv'
  OBVIOUS
<1>1. UNCHANGED <<line, recBuf, left, dr, idle, ran, early, frame, apart>> /\ isr' = "clear"
  BY DEF UART4_Print
<1>2. ReceiveTypes' /\ OneByte'
  BY <1>1 DEF ReceiveInv, ReceiveTypes, OneByte
<1>3. EndInv' /\ Between' /\ Arriving'
  BY <1>1 DEF ReceiveInv, EndInv, Between, Arriving
<1> QED
  BY <1>2, <1>3 DEF ReceiveInv

\* It clears the buffer ...
LEMMA UART4_ClearInv == ReceiveInv /\ UART4_Clear => ReceiveInv'
<1> SUFFICES ASSUME ReceiveInv, UART4_Clear PROVE ReceiveInv'
  OBVIOUS
<1>1. /\ UNCHANGED <<line, left, dr, idle, early>> /\ isr' = "arm" /\ ran' = FALSE
      /\ apart' = FALSE /\ frame' = <<>> /\ frame' \in Seq(Byte)
  BY EmptySeq DEF UART4_Clear
<1>2. recBuf' \in [1 .. RecLen -> Byte] /\ \A i \in 1 .. RecLen : recBuf'[i] = 0
  BY LengthAssumption, ZerosType DEF UART4_Clear
<1>3. ReceiveTypes' /\ OneByte'
  BY <1>1, <1>2 DEF ReceiveInv, ReceiveTypes, OneByte
<1>4. EndInv' /\ Between' /\ Arriving'
  BY <1>1, <1>2 DEF ReceiveInv, EndInv, Between, Arriving, Empty
<1> QED
  BY <1>3, <1>4 DEF ReceiveInv

\* ... and starts the channel, which takes one byte that waits, of a frame that
\* did not begin apart.
LEMMA UART4_ArmInv == ReceiveInv /\ UART4_Arm => ReceiveInv'
<1> SUFFICES ASSUME ReceiveInv, UART4_Arm PROVE ReceiveInv'
  OBVIOUS
<1>1. /\ UNCHANGED <<line, idle, ran, early, frame, apart>> /\ isr = "arm" /\ isr' = "off"
      /\ recBuf' = Put(recBuf, 0, dr) /\ left' = RecLen - Len(dr) /\ dr' = <<>>
      /\ dr' \in Seq(Byte) /\ Len(dr') = 0
  BY EmptySeq DEF UART4_Arm
<1>2. /\ RecLen \in Nat \ {0} /\ dr \in Seq(Byte) /\ Len(dr) \in 0 .. 1
      /\ recBuf \in [1 .. RecLen -> Byte]
  <2>1. dr \in Seq(Byte) /\ Len(dr) \in {0, 1} /\ recBuf \in [1 .. RecLen -> Byte]
    BY DEF ReceiveInv, ReceiveTypes, OneByte
  <2> QED
    BY <2>1, LengthAssumption
<1>3. /\ recBuf' \in [1 .. RecLen -> Byte]
      /\ \A i \in 1 .. RecLen : i > Len(dr) => recBuf'[i] = recBuf[i]
  <2>1. 0 \in Nat /\ 0 + Len(dr) <= RecLen /\ RecLen \in Nat
    BY <1>2
  <2>2. /\ Put(recBuf, 0, dr) \in [1 .. RecLen -> Byte]
        /\ \A i \in 1 .. RecLen : i <= 0 \/ 0 + Len(dr) < i => Put(recBuf, 0, dr)[i] = recBuf[i]
    BY <1>2, <2>1, PutWithin
  <2>3. \A i \in 1 .. RecLen : i > Len(dr) => 0 + Len(dr) < i
    BY <1>2
  <2> QED
    BY <1>1, <2>2, <2>3
<1>4. left' \in 0 .. RecLen /\ RecLen - left' = Len(dr)
  <2>1. left' = RecLen - Len(dr)
    BY <1>1
  <2> QED
    BY <1>2, <2>1
<1>5. ReceiveTypes'
  BY <1>1, <1>3, <1>4 DEF ReceiveInv, ReceiveTypes
<1>6. OneByte'
  BY <1>1 DEF OneByte
<1>7. EndInv'
  <2> SUFFICES ASSUME ~ran', NEW i \in 1 .. RecLen, i > RecLen - left' PROVE recBuf'[i] = 0
    BY <1>1 DEF EndInv, Unfilled
  <2>1. recBuf[i] = 0
    BY <1>1 DEF ReceiveInv, EndInv, Empty
  <2> QED
    BY <1>3, <1>4, <2>1
<1>8. Between'
  <2> SUFFICES ASSUME line' = <<>>, ~idle'
               PROVE  left' = RecLen /\ \A i \in 1 .. RecLen : recBuf'[i] = 0
    BY <1>1 DEF Between, Empty
  <2>1. dr = <<>> /\ \A i \in 1 .. RecLen : recBuf[i] = 0
    BY <1>1 DEF ReceiveInv, Between, Empty
  <2>2. Len(dr) = 0
    BY <2>1
  <2> QED
    BY <1>1, <1>2, <1>3, <2>1, <2>2
<1>9. Arriving'
  BY <1>1 DEF ReceiveInv, Arriving
<1> QED
  BY <1>5, <1>6, <1>7, <1>8, <1>9 DEF ReceiveInv

\* The other steps leave the reception and the queue alone.
LEMMA ReceiveSame == ReceiveInv /\ UNCHANGED receiving => ReceiveInv'
BY DEF ReceiveInv, receiving, ReceiveTypes, OneByte, EndInv, Unfilled, Empty, Between, Arriving, Come

\* The same for the queue.
LEMMA ListSame == ListInv /\ UNCHANGED list => ListInv'
BY DEF ListInv
-----------------------------------------------------------------------------
(***************************************************************************)
(* The answer.                                                             *)
(***************************************************************************)

\* An empty buffer has its end at its start; one for reception has one.
LEMMA EmptyBuffers ==
  /\ Zeros(RecLen) \in [1 .. RecLen -> Byte] /\ HasEnd(Zeros(RecLen))
  /\ Zeros(SenLen) \in [1 .. SenLen -> Byte] /\ End(Zeros(SenLen), 0)
  /\ 0 \in Fitting /\ 0 \in 0 .. SenLen - 2
<1>1. RecLen \in Nat \ {0} /\ SenLen \in Nat \ {0}
  BY LengthAssumption
<1>2. /\ Zeros(RecLen) \in [1 .. RecLen -> Byte] /\ \A i \in 1 .. RecLen : Zeros(RecLen)[i] = 0
      /\ Zeros(SenLen) \in [1 .. SenLen -> Byte] /\ \A i \in 1 .. SenLen : Zeros(SenLen)[i] = 0
  BY <1>1, ZerosType
<1>3. HasEnd(Zeros(RecLen))
  <2>1. RecLen \in 1 .. RecLen
    BY <1>1
  <2> QED
    BY <1>2, <2>1 DEF HasEnd
<1>4. End(Zeros(SenLen), 0)
  <2>1. 0 + 1 \in 1 .. SenLen /\ 1 .. 0 = {}
    BY <1>1
  <2> QED
    BY <1>2, <2>1 DEF End
<1>5. 0 \in Fitting
  <2>1. 0 \in 0 .. RecLen - 1
    BY <1>1
  <2> QED
    BY <2>1, TextAssumption
<1>6. 0 \in 0 .. SenLen - 2
  <2> DEFINE d == Len(Comma \o Digits(0) \o Comma)
  <2>1. d \in 2 .. SenLen - 2 - 0
    BY <1>5, WithLengthType
  <2> HIDE DEF d
  <2> QED
    BY <1>1, <2>1
<1> QED
  BY <1>2, <1>3, <1>4, <1>5, <1>6

\* Nothing is being sent at first.
LEMMA InitSend == Init => SendInv
<1> SUFFICES ASSUME Init PROVE SendInv
  OBVIOUS
<1>1. /\ pc = "recv" /\ cmd = Zeros(RecLen) /\ answer = <<>> /\ clean = TRUE /\ right = TRUE
      /\ senBuf = Zeros(SenLen) /\ chan = FALSE /\ sent = 0 /\ tc = FALSE
  BY DEF Init
<1>2. sent \in 0 .. SenLen
  BY <1>1, LengthAssumption
<1>3. ThreadTypes
  BY <1>1, <1>2, EmptyBuffers, EmptySeq DEF ThreadTypes
<1>4. TextInv
  BY <1>1, EmptyBuffers DEF TextInv
<1>5. CleanInv
  BY <1>1 DEF CleanInv, Building
<1> QED
  BY <1>3, <1>4, <1>5 DEF SendInv

\* The reset starts all of it anew.
LEMMA UpgradeInv == Upgrade => Inv'
<1> SUFFICES ASSUME Upgrade PROVE Inv'
  OBVIOUS
<1>1. /\ pc' = "recv" /\ cmd' = Zeros(RecLen) /\ answer' = <<>> /\ clean' = TRUE /\ right' = TRUE
      /\ senBuf' = Zeros(SenLen) /\ chan' = FALSE /\ sent' = 0 /\ tc' = FALSE
      /\ line' = <<>> /\ recBuf' = Zeros(RecLen) /\ left' = RecLen /\ dr' = <<>> /\ idle' = FALSE
      /\ isr' = "off" /\ ran' = FALSE /\ list' = <<>> /\ frame' = <<>> /\ apart' = TRUE /\ early' = 0
  BY DEF Upgrade
<1>2. /\ sent' \in 0 .. SenLen /\ left' \in 0 .. RecLen /\ early' \in 0 .. MaxEarly
      /\ MqSize \in Nat /\ RecLen \in Nat
  BY <1>1, LengthAssumption
<1>3. ReceiveTypes'
  BY <1>1, <1>2, EmptyBuffers, EmptySeq DEF ReceiveTypes
<1>4. OneByte' /\ EndInv' /\ Between'
  BY <1>1, <1>2, ZerosType, EmptySeq DEF OneByte, EndInv, Unfilled, Between, Empty
<1>9. Arriving'
  <2>1. Come' = 0 /\ Len(line') = 0 /\ \A i \in 1 .. RecLen : recBuf'[i] = 0
    BY <1>1, <1>2, ZerosType, EmptySeq DEF Come
  <2> QED
    BY <1>1, <1>2, <2>1 DEF Arriving
<1>5. ListInv'
  BY <1>1, <1>2 DEF ListInv
<1>6. ThreadTypes'
  BY <1>1, <1>2, EmptyBuffers, EmptySeq DEF ThreadTypes
<1>7. TextInv'
  BY <1>1, EmptyBuffers DEF TextInv, HasEnd
<1>8. CleanInv'
  BY <1>1 DEF CleanInv, Building
<1> QED
  BY <1>3, <1>4, <1>5, <1>6, <1>7, <1>8, <1>9 DEF Inv, ReceiveInv, SendInv

\* Reception leaves the answer alone.
LEMMA SendSame == SendInv /\ UNCHANGED <<thread, senBuf, sending>> => SendInv'
BY DEF SendInv, thread, sending, ThreadTypes, TextInv, CleanInv, Building, HasEnd, StrLen, End

\* UsartRece takes a message.
LEMMA RecvInv == ListInv /\ SendInv /\ Recv => ListInv' /\ SendInv'
<1> SUFFICES ASSUME ListInv, SendInv, Recv PROVE ListInv' /\ SendInv'
  OBVIOUS
<1> DEFINE M == [1 .. RecLen -> Byte]
<1>1. /\ pc = "recv" /\ list # <<>> /\ cmd' = Head(list) /\ list' = Tail(list)
      /\ pc' = IF ~HasEnd(cmd') THEN "lost" ELSE IF StrLen(cmd') = 0 THEN "recv" ELSE "text"
      /\ UNCHANGED <<answer, clean, senBuf, chan, sent, tc, right>>
  BY DEF Recv, sending
<1>2. list \in Seq(M) /\ Len(list) \in Nat /\ Len(list) <= MqSize /\ MqSize \in Nat
  BY LengthAssumption, LenProperties DEF ListInv
<1> HIDE DEF M
<1>3. Head(list) \in M /\ Tail(list) \in Seq(M) /\ Len(Tail(list)) = Len(list) - 1
  BY <1>1, <1>2, HeadTailProperties, EmptySeq
<1>4. ListInv'
  BY <1>1, <1>2, <1>3 DEF ListInv, M
<1>5. cmd' \in M
  BY <1>1, <1>3
<1>6. ThreadTypes'
  BY <1>1, <1>5 DEF SendInv, ThreadTypes, M
<1>7. TextInv'
  BY <1>1 DEF TextInv, HasEnd, StrLen
<1>8. CleanInv'
  BY <1>1 DEF SendInv, CleanInv, Building
<1> QED
  BY <1>4, <1>6, <1>7, <1>8 DEF SendInv

\* A text is begun.
LEMMA TextStep ==
  ASSUME SendInv, ThreadRuns, pc = "text", NEW t \in Texts, Text(t)
  PROVE  SendInv'
<1>1. /\ senBuf' = Put(senBuf, 0, t \o <<0>>) /\ pc' = "length"
      /\ clean' = ~chan /\ answer' = (IF chan THEN <<>> ELSE Answer(t))
      /\ UNCHANGED <<cmd, chan, sent, tc, right>> /\ ~tc
  BY DEF Text, ThreadRuns, sending
<1>2. /\ t \in Seq(1 .. 255) /\ t \in Seq(Byte) /\ Len(t) \in Nat /\ Len(t) \in Fitting
      /\ t \o <<0>> \in Seq(Byte) /\ Len(t \o <<0>>) = Len(t) + 1
  BY Terminate DEF Texts
<1>3. SenLen \in Nat /\ 0 + Len(t) + 1 <= SenLen
  <2> DEFINE d == Len(Comma \o Digits(Len(t)) \o Comma)
  <2>1. d \in 2 .. SenLen - 2 - Len(t)
    BY <1>2, WithLengthType
  <2> HIDE DEF d
  <2> QED
    BY <1>2, <2>1, LengthAssumption
<1>4. senBuf' \in [1 .. SenLen -> Byte] /\ End(senBuf', Len(t))
  <2>1. senBuf \in [1 .. SenLen -> Byte] /\ \A i \in 1 .. 0 : senBuf[i] # 0
    BY DEF SendInv, ThreadTypes
  <2>2. /\ Put(senBuf, 0, t \o <<0>>) \in [1 .. SenLen -> Byte]
        /\ End(Put(senBuf, 0, t \o <<0>>), 0 + Len(t))
    BY <1>2, <1>3, <2>1, AppendText
  <2>3. 0 + Len(t) = Len(t)
    BY <1>2
  <2> QED
    BY <1>1, <2>2, <2>3
<1>5. answer' \in Seq(Byte) /\ clean' \in BOOLEAN
  BY <1>1, AnswerType, EmptySeq
<1>6. ThreadTypes'
  BY <1>1, <1>4, <1>5 DEF SendInv, ThreadTypes
<1>7. TextInv'
  BY <1>1, <1>2, <1>4 DEF SendInv, TextInv, HasEnd
<1>8. ASSUME ~chan PROVE senBuf' = Padded(t, SenLen) /\ answer' = Answer(t)
  <2>1. senBuf = Padded(<<>>, SenLen)
    BY <1>3, <1>8, PaddedEmpty DEF SendInv, CleanInv, Building
  <2> DEFINE e == <<>>
             u == t \o <<0>>
  <2>2. /\ e \in Seq(Byte) /\ Len(e) = 0 /\ u \in Seq(Byte) /\ Len(u) = Len(t) + 1
        /\ u = Ended(t) /\ e \o t = t /\ senBuf = Padded(e, SenLen)
    BY <1>2, <2>1, EmptySeq, ConcatEmptySeq DEF Ended
  <2> HIDE DEF e, u
  <2>3. Len(e) + Len(u) <= SenLen
    BY <1>2, <1>3, <2>2
  <2>4. Put(Padded(e, SenLen), Len(e), u) = Padded(e \o t, SenLen)
    BY <1>2, <1>3, <2>2, <2>3, AppendPadded
  <2>5. senBuf' = Put(senBuf, 0, u)
    BY <1>1, <2>2 DEF Ended
  <2>6. senBuf' = Padded(t, SenLen)
    BY <2>2, <2>4, <2>5
  <2> QED
    BY <2>6, <1>1, <1>8
<1>9. CleanInv'
  BY <1>1, <1>8 DEF SendInv, CleanInv, Building
<1> QED
  BY <1>6, <1>7, <1>9 DEF SendInv

\* A command ends within its buffer and is a text.
LEMMA Command ==
  ASSUME SendInv, pc = "text"
  PROVE  /\ StrLen(cmd) \in 1 .. RecLen - 1
         /\ End(cmd, StrLen(cmd))
         /\ SubSeq(cmd, 1, StrLen(cmd)) \in Texts
<1> DEFINE n == StrLen(cmd)
           t == SubSeq(cmd, 1, n)
<1>1. /\ RecLen \in Nat /\ cmd \in [1 .. RecLen -> Byte] /\ n # 0
      /\ \E k \in 1 .. RecLen : cmd[k] = 0
  BY LengthAssumption DEF SendInv, ThreadTypes, TextInv, HasEnd
<1>2. n \in 0 .. RecLen - 1 /\ End(cmd, n)
  BY <1>1, FirstZero
<1> HIDE DEF n
<1>3. \A i \in 1 .. n : cmd[i] \in 1 .. 255
  <2> SUFFICES ASSUME NEW i \in 1 .. n PROVE cmd[i] \in 1 .. 255
    OBVIOUS
  <2>1. i \in 1 .. RecLen
    BY <1>1, <1>2
  <2>2. cmd[i] \in Byte /\ cmd[i] # 0
    BY <1>1, <1>2, <2>1 DEF End
  <2> QED
    BY <2>2 DEF Byte
<1>4. t \in Seq(1 .. 255) /\ Len(t) = n
  BY <1>2, <1>3, SubSeqProperties
<1>5. n \in Fitting
  BY <1>2, TextAssumption
<1> HIDE DEF t
<1>6. t \in Texts
  BY <1>4, <1>5 DEF Texts
<1>7. n \in 1 .. RecLen - 1
  BY <1>1, <1>2
<1> QED
  BY <1>2, <1>6, <1>7 DEF n, t

\* A char is a byte.
LEMMA CharType == \A x \in Int : x % 256 \in Byte
BY DEF Byte

\* The number is a byte.
LEMMA NumberType ==
  ASSUME NEW N \in Nat, NEW s \in [1 .. N -> Byte], NEW n \in 1 .. 2, n <= N
  PROVE  Number(s, n) \in Byte
<1>1. \A i \in 1 .. N : s[i] \in Int
  <2>1. \A i \in 1 .. N : s[i] \in Byte
    OBVIOUS
  <2>2. Byte \subseteq Int
    BY DEF Byte
  <2> QED
    BY <2>1, <2>2
<1>2. Zero \in Int
  BY DEF Zero
<1>3. s[1] - Zero \in Int
  <2>1. 1 \in 1 .. N
    OBVIOUS
  <2> QED
    BY <1>1, <1>2, <2>1
<1>4. CASE n = 1
  <2>1. Number(s, n) = (s[1] - Zero) % 256
    BY <1>4 DEF Number
  <2> QED
    BY <1>3, <2>1, CharType
<1>5. CASE n = 2
  <2>1. Number(s, n) = ((s[1] - Zero) * 10 + (s[2] - Zero)) % 256
    BY <1>5 DEF Number
  <2>2. 2 \in 1 .. N
    BY <1>5
  <2>3. s[2] - Zero \in Int
    BY <1>1, <1>2, <2>2
  <2>4. (s[1] - Zero) * 10 + (s[2] - Zero) \in Int
    BY <1>3, <2>3
  <2> QED
    BY <2>1, <2>4, CharType
<1> QED
  BY <1>4, <1>5

\* The text for a movement is one that fits.
LEMMA MovedText ==
  ASSUME NEW h \in Heights, NEW n \in Byte
  PROVE  Height \o Digits(h) \o Comma \o Digits(n) \in Texts
<1> DEFINE C == 1 .. 255
           a == Digits(h)
           b == Digits(n)
<1>1. a \in Seq(C) /\ b \in Seq(C) /\ 2 + Len(a) + Len(b) \in Fitting
  BY TextAssumption
<1>2. Height \in Seq(C) /\ Len(Height) = 1 /\ Comma \in Seq(C) /\ Len(Comma) = 1
  BY DEF Height, Comma
<1> HIDE DEF C, a, b
<1>3. Len(a) \in Nat /\ Len(b) \in Nat
  BY <1>1, LenProperties
<1>4. Height \o a \in Seq(C) /\ Len(Height \o a) = 1 + Len(a)
  <2>1. Height \o a \in Seq(C) /\ Len(Height \o a) = Len(Height) + Len(a)
    BY <1>1, <1>2, ConcatProperties
  <2> QED
    BY <1>2, <2>1
<1>5. Height \o a \o Comma \in Seq(C) /\ Len(Height \o a \o Comma) = 2 + Len(a)
  <2>1. Height \o a \o Comma \in Seq(C) /\ Len(Height \o a \o Comma) = (1 + Len(a)) + 1
    BY <1>2, <1>4, ConcatProperties
  <2> QED
    BY <1>3, <2>1
<1>6. Height \o a \o Comma \o b \in Seq(C) /\ Len(Height \o a \o Comma \o b) = 2 + Len(a) + Len(b)
  BY <1>1, <1>5, ConcatProperties
<1>7. Height \o a \o Comma \o b \in Texts
  BY <1>1, <1>6 DEF Texts, C
<1> QED
  BY <1>7 DEF a, b

\* The text after a movement.
LEMMA MovedInv == SendInv /\ Moved => SendInv'
<1> SUFFICES ASSUME SendInv, Moved PROVE SendInv'
  OBVIOUS
<1>1. ThreadRuns /\ pc = "text" /\ StrLen(cmd) < 3
  BY DEF Moved
<1> DEFINE n == StrLen(cmd)
<1>2. PICK h \in Heights : Text(Height \o Digits(h) \o Comma \o Digits(Number(cmd, n)))
  BY DEF Moved
<1>3. RecLen \in Nat /\ n \in 1 .. RecLen - 1 /\ cmd \in [1 .. RecLen -> Byte]
  BY <1>1, Command, LengthAssumption DEF SendInv, ThreadTypes
<1> HIDE DEF n
<1>4. n \in 1 .. 2 /\ n <= RecLen
  BY <1>1, <1>3 DEF n
<1>5. Number(cmd, n) \in Byte
  BY <1>3, <1>4, NumberType
<1>6. Height \o Digits(h) \o Comma \o Digits(Number(cmd, n)) \in Texts
  BY <1>5, MovedText
<1> QED
  BY <1>1, <1>2, <1>6, TextStep

\* The other text is the command itself.
LEMMA EchoInv == SendInv /\ Echo => SendInv'
BY Command, TextStep DEF Echo

\* The length is added.
LEMMA LengthInv == SendInv /\ Length => SendInv'
<1> SUFFICES ASSUME SendInv, Length PROVE SendInv'
  OBVIOUS
<1>1. /\ pc = "length" /\ pc' = "crc" /\ UNCHANGED <<cmd, answer, clean, chan, sent, tc, right>>
      /\ senBuf' = Put(senBuf, StrLen(senBuf),
                       Comma \o Digits(StrLen(senBuf)) \o Comma \o <<0>>)
  BY DEF Length, sending
<1>2. PICK n \in Fitting : End(senBuf, n)
  BY <1>1 DEF SendInv, TextInv
<1> DEFINE w == Comma \o Digits(n) \o Comma
<1>3. /\ n \in Nat /\ w \in Seq(1 .. 255) /\ Len(w) \in 2 .. SenLen - 2 - n
      /\ SenLen \in Nat /\ senBuf \in [1 .. SenLen -> Byte]
  BY WithLengthType, LengthAssumption DEF SendInv, ThreadTypes
<1>4. w \o <<0>> \in Seq(Byte) /\ Len(w \o <<0>>) = Len(w) + 1 /\ w \in Seq(Byte)
  BY <1>3, Terminate
<1> HIDE DEF w
<1>5. StrLen(senBuf) = n
  <2>1. n \in 0 .. SenLen - 1
    BY <1>3
  <2> QED
    BY <1>2, <1>3, <2>1, StrLenEnd
<1>6. senBuf' = Put(senBuf, n, w \o <<0>>)
  BY <1>1, <1>5 DEF w
<1>7. senBuf' \in [1 .. SenLen -> Byte] /\ End(senBuf', n + Len(w)) /\ n + Len(w) \in 0 .. SenLen - 2
  <2>1. n + Len(w) + 1 <= SenLen /\ n + Len(w) \in 0 .. SenLen - 2
    BY <1>3
  <2>2. \A i \in 1 .. n : senBuf[i] # 0
    BY <1>2 DEF End
  <2> QED
    BY <1>3, <1>6, <2>1, <2>2, AppendText
<1>8. ThreadTypes'
  BY <1>1, <1>7 DEF SendInv, ThreadTypes
<1>9. TextInv'
  BY <1>1, <1>7 DEF SendInv, TextInv, HasEnd
<1>10. ASSUME clean
       PROVE  \E t \in Texts : senBuf' = Padded(WithLength(t), SenLen) /\ answer = Answer(t)
  <2>1. PICK t \in Texts : senBuf = Padded(t, SenLen) /\ answer = Answer(t)
    BY <1>1, <1>10 DEF SendInv, CleanInv
  <2>2. t \in Seq(1 .. 255) /\ t \in Seq(Byte) /\ Len(t) \in Fitting
    BY Terminate DEF Texts
  <2>3. Len(t) = n
    <3> DEFINE d == Len(Comma \o Digits(Len(t)) \o Comma)
    <3>1. Len(t) \in Nat /\ d \in 2 .. SenLen - 2 - Len(t)
      BY <2>2, WithLengthType
    <3> HIDE DEF d
    <3>2. Len(t) < SenLen
      BY <1>3, <3>1
    <3> QED
      BY <1>3, <1>5, <2>1, <2>2, <3>2, FrontOfPadded
  <2>4. Put(Padded(t, SenLen), Len(t), w \o <<0>>) = Padded(t \o w, SenLen)
    <3> DEFINE u == w \o <<0>>
    <3>1. u = Ended(w) /\ u = w \o <<0>> /\ u \in Seq(Byte) /\ Len(u) = Len(w) + 1
      BY <1>4 DEF Ended
    <3> HIDE DEF u
    <3>2. Len(t) + Len(u) <= SenLen
      BY <1>3, <2>3, <3>1
    <3>3. Put(Padded(t, SenLen), Len(t), u) = Padded(t \o w, SenLen)
      BY <1>3, <1>4, <2>2, <3>1, <3>2, AppendPadded
    <3> QED
      BY <3>1, <3>3
  <2>5. t \o w = WithLength(t)
    BY <2>3, WithLengthOf DEF w
  <2> QED
    BY <1>6, <2>1, <2>3, <2>4, <2>5
<1>11. CleanInv'
  BY <1>1, <1>10 DEF SendInv, CleanInv, Building
<1> QED
  BY <1>8, <1>9, <1>11 DEF SendInv

\* The check value is added.
LEMMA ModifyInv == SendInv /\ Modify => SendInv'
<1> SUFFICES ASSUME SendInv, Modify PROVE SendInv'
  OBVIOUS
<1>1. /\ pc = "crc" /\ pc' = "start" /\ UNCHANGED <<cmd, answer, clean, chan, sent, tc, right>>
      /\ senBuf' = Put(senBuf, StrLen(senBuf), CrcBytes(SubSeq(senBuf, 1, StrLen(senBuf))))
  BY DEF Modify, sending
<1>2. PICK n \in 0 .. SenLen - 2 : End(senBuf, n)
  BY <1>1 DEF SendInv, TextInv
<1>3. n \in Nat /\ SenLen \in Nat /\ senBuf \in [1 .. SenLen -> Byte]
      /\ n \in 0 .. SenLen - 1 /\ n + 2 <= SenLen
  BY LengthAssumption DEF SendInv, ThreadTypes
<1>4. StrLen(senBuf) = n
  BY <1>2, <1>3, StrLenEnd
<1> DEFINE c == CrcBytes(SubSeq(senBuf, 1, n))
<1>5. c \in Seq(Byte) /\ Len(c) = 2
  <2>1. senBuf \in Seq(Byte) /\ Len(senBuf) = SenLen
    BY <1>3, BufferLen
  <2>2. SubSeq(senBuf, 1, n) \in Seq(Byte)
    BY <1>3, <2>1, SubSeqProperties
  <2> QED
    BY <2>2, CrcBytesType
<1>6. senBuf' = Put(senBuf, n, c)
  BY <1>1, <1>4
<1> HIDE DEF c
<1>7. senBuf' \in [1 .. SenLen -> Byte]
  BY <1>3, <1>5, <1>6, PutWithin
<1>8. ThreadTypes'
  BY <1>1, <1>7 DEF SendInv, ThreadTypes
<1>9. TextInv'
  BY <1>1 DEF SendInv, TextInv, HasEnd
<1>10. ASSUME clean PROVE senBuf' = Padded(answer, SenLen)
  <2>1. PICK t \in Texts : senBuf = Padded(WithLength(t), SenLen) /\ answer = Answer(t)
    BY <1>1, <1>10 DEF SendInv, CleanInv
  <2> DEFINE s == WithLength(t)
  <2>2. s \in Seq(1 .. 255) /\ s \in Seq(Byte) /\ Len(s) \in 0 .. SenLen - 2
    BY WithLengthOf, Terminate
  <2>3. answer = s \o CrcBytes(s) /\ senBuf = Padded(s, SenLen)
    BY <2>1 DEF Answer
  <2> HIDE DEF s
  <2>4. Len(s) < SenLen /\ Len(s) + 2 <= SenLen
    BY <1>3, <2>2
  <2>5. Len(s) = n /\ SubSeq(senBuf, 1, n) = s
    BY <1>3, <1>4, <2>2, <2>3, <2>4, FrontOfPadded
  <2>6. c = CrcBytes(s)
    BY <2>5 DEF c
  <2>7. Put(Padded(s, SenLen), Len(s), c) = Padded(s \o c, SenLen)
    BY <1>3, <1>5, <2>2, <2>4, AppendPadded
  <2> QED
    BY <1>6, <2>3, <2>5, <2>6, <2>7
<1>11. CleanInv'
  BY <1>1, <1>10 DEF SendInv, CleanInv, Building
<1> QED
  BY <1>8, <1>9, <1>11 DEF SendInv

\* The channel is started.
LEMMA StartInv == SendInv /\ Start => SendInv'
<1> SUFFICES ASSUME SendInv, Start PROVE SendInv'
  OBVIOUS
<1>1. /\ pc = "start" /\ pc' = "recv" /\ cmd' = Zeros(RecLen) /\ chan' = TRUE /\ sent' = 0
      /\ right' = TRUE /\ UNCHANGED <<answer, clean, senBuf, tc>>
  BY DEF Start
<1>2. sent' \in 0 .. SenLen
  BY <1>1, LengthAssumption
<1>3. ThreadTypes'
  BY <1>1, <1>2, EmptyBuffers DEF SendInv, ThreadTypes
<1>4. TextInv'
  BY <1>1, EmptyBuffers DEF TextInv, HasEnd
<1>5. CleanInv'
  BY <1>1 DEF SendInv, CleanInv, Building
<1> QED
  BY <1>3, <1>4, <1>5 DEF SendInv

\* A byte is sent.
LEMMA SendByteInv == SendInv /\ SendByte => SendInv'
<1> SUFFICES ASSUME SendInv, SendByte PROVE SendInv'
  OBVIOUS
<1>1. /\ chan /\ sent < SenLen /\ sent' = sent + 1 /\ tc' = (sent + 1 = SenLen)
      /\ right' = (clean => right /\ senBuf[sent + 1] = Padded(answer, SenLen)[sent + 1])
      /\ UNCHANGED <<pc, cmd, answer, clean, senBuf, chan>>
  BY DEF SendByte, thread
<1>2. sent' \in 0 .. SenLen
  <2>1. sent \in 0 .. SenLen /\ SenLen \in Nat
    BY LengthAssumption DEF SendInv, ThreadTypes
  <2> QED
    BY <1>1, <2>1
<1>3. tc' \in BOOLEAN /\ right' \in BOOLEAN
  BY <1>1
<1>4. ThreadTypes'
  BY <1>1, <1>2, <1>3 DEF SendInv, ThreadTypes
<1>5. TextInv'
  BY <1>1 DEF SendInv, TextInv, HasEnd, StrLen, End
<1>6. CleanInv'
  BY <1>1 DEF SendInv, CleanInv, Building
<1> QED
  BY <1>4, <1>5, <1>6 DEF SendInv

\* The handler at the end of a transmission clears the buffer, which may
\* have a new text in it: it then has an end at its start.
LEMMA DMA2_Channel4_5Inv == SendInv /\ DMA2_Channel4_5_IRQHandler => SendInv'
<1> SUFFICES ASSUME SendInv, DMA2_Channel4_5_IRQHandler PROVE SendInv'
  OBVIOUS
<1>1. /\ tc /\ tc' = FALSE /\ chan' = FALSE /\ senBuf' = Zeros(SenLen)
      /\ UNCHANGED <<pc, cmd, answer, clean, sent, right>>
  BY DEF DMA2_Channel4_5_IRQHandler, thread
<1>2. ThreadTypes'
  BY <1>1, EmptyBuffers DEF SendInv, ThreadTypes
<1>3. TextInv'
  BY <1>1, EmptyBuffers DEF SendInv, TextInv, HasEnd, StrLen
<1>4. CleanInv'
  BY <1>1 DEF SendInv, CleanInv, Building
<1> QED
  BY <1>2, <1>3, <1>4 DEF SendInv
-----------------------------------------------------------------------------
(***************************************************************************)
(* The theorems.                                                           *)
(***************************************************************************)

\* Every step keeps the invariant.
LEMMA NextInv == Inv /\ [Next]_vars => Inv'
<1> SUFFICES ASSUME Inv, [Next]_vars PROVE Inv'
  OBVIOUS
<1>1. ReceiveInv /\ ListInv /\ SendInv
  BY DEF Inv
<1>2. CASE PeerBegin
  BY <1>1, <1>2, PeerBeginInv, ListSame, SendSame DEF Inv, PeerBegin
<1>3. CASE PeerByte
  BY <1>1, <1>3, PeerByteInv, ListSame, SendSame DEF Inv, PeerByte
<1>4. CASE UART4_IRQHandler
  BY <1>1, <1>4, UART4_IRQHandlerInv, ListSame, SendSame DEF Inv, UART4_IRQHandler
<1>5. CASE UART4_Queue
  BY <1>1, <1>5, UART4_QueueInv, SendSame DEF Inv, UART4_Queue
<1>6. CASE UART4_Print
  BY <1>1, <1>6, UART4_PrintInv, ListSame, SendSame DEF Inv, UART4_Print
<1>17. CASE UART4_Clear
  BY <1>1, <1>17, UART4_ClearInv, ListSame, SendSame DEF Inv, UART4_Clear
<1>18. CASE UART4_Arm
  BY <1>1, <1>18, UART4_ArmInv, ListSame, SendSame DEF Inv, UART4_Arm
<1>7. CASE Recv
  BY <1>1, <1>7, RecvInv, ReceiveSame DEF Inv, Recv
<1>8. CASE Moved
  <2>1. UNCHANGED receiving /\ UNCHANGED list
    BY <1>8 DEF Moved, Text
  <2> QED
    BY <1>1, <1>8, <2>1, MovedInv, ReceiveSame, ListSame DEF Inv
<1>9. CASE Echo
  <2>1. UNCHANGED receiving /\ UNCHANGED list
    BY <1>9 DEF Echo, Text
  <2> QED
    BY <1>1, <1>9, <2>1, EchoInv, ReceiveSame, ListSame DEF Inv
<1>10. CASE Upgrade
  BY <1>10, UpgradeInv
<1>11. CASE Length
  BY <1>1, <1>11, LengthInv, ReceiveSame, ListSame DEF Inv, Length
<1>12. CASE Modify
  BY <1>1, <1>12, ModifyInv, ReceiveSame, ListSame DEF Inv, Modify
<1>13. CASE Start
  BY <1>1, <1>13, StartInv, ReceiveSame, ListSame DEF Inv, Start
<1>14. CASE SendByte
  BY <1>1, <1>14, SendByteInv, ReceiveSame, ListSame DEF Inv, SendByte
<1>15. CASE DMA2_Channel4_5_IRQHandler
  BY <1>1, <1>15, DMA2_Channel4_5Inv, ReceiveSame, ListSame DEF Inv, DMA2_Channel4_5_IRQHandler
<1>16. CASE UNCHANGED vars
  BY <1>1, <1>16, ReceiveSame, ListSame, SendSame DEF Inv, vars
<1> QED
  BY <1>2, <1>3, <1>4, <1>5, <1>6, <1>7, <1>8, <1>9, <1>10, <1>11, <1>12, <1>13, <1>14, <1>15, <1>16,
     <1>17, <1>18
  DEF Next, Hardware, Handlers, UsartRece

\* The invariant holds in every state that is reached.
THEOREM Invariance ==
  Spec => []Inv
<1>1. Init => Inv
  BY InitReceive, InitSend DEF Inv
<1>2. Inv /\ [Next]_vars => Inv'
  BY NextInv
<1> QED
  BY <1>1, <1>2, PTL DEF Spec

\* Nothing is written beyond the end of a buffer.
THEOREM BuffersKept ==
  Spec => []TypeOK
<1>1. Inv => TypeOK
  <2> SUFFICES ASSUME Inv PROVE TypeOK
    OBVIOUS
  <2>1. Len(dr) <= 1
    <3>1. Len(dr) \in {0, 1}
      BY DEF Inv, ReceiveInv, OneByte
    <3>2. \A n \in {0, 1} : n <= 1
      OBVIOUS
    <3> QED
      BY <3>1, <3>2
  <2> QED
    BY <2>1 DEF Inv, ReceiveInv, ReceiveTypes, ListInv, SendInv, ThreadTypes, TypeOK
<1> QED
  BY <1>1, Invariance, PTL

\* Every message that is queued has an end, if no byte ran into the handler.
THEOREM Terminates ==
  Spec => Terminated
<1>1. ASSUME Inv, isr = "queue", ~ran PROVE HasEnd(recBuf)
  <2>1. Unfilled /\ left # 0 /\ left \in 0 .. RecLen /\ RecLen \in Nat \ {0}
    BY <1>1, LengthAssumption DEF Inv, ReceiveInv, ReceiveTypes, EndInv
  <2>2. RecLen \in 1 .. RecLen /\ RecLen > RecLen - left
    BY <2>1
  <2> QED
    BY <2>1, <2>2 DEF Unfilled, HasEnd
<1>2. Inv => [isr = "queue" /\ isr' = "clear" /\ ~ran => HasEnd(recBuf)]_vars
  BY <1>1
<1> QED
  BY <1>2, Invariance, PTL DEF Terminated

\* A frame that began apart from the others is queued as it was sent, and not
\* at all when it is too long.
THEOREM WholeFrames ==
  Spec => FrameWhole
<1>1. ASSUME Inv, [Next]_vars, isr = "off", isr' # "off", apart
      PROVE  isr' = "queue" <=> Len(frame) < RecLen
  <2>1. UART4_IRQHandler
    BY <1>1 DEF Next, Hardware, Handlers, UsartRece, vars, receiving, PeerBegin, PeerByte,
      UART4_Queue, UART4_Print, UART4_Clear, UART4_Arm, Recv, Moved, Echo, Text, Upgrade,
      Length, Modify, Start, SendByte, DMA2_Channel4_5_IRQHandler
  <2>2. /\ line = <<>> /\ Come \in Nat
        /\ left = IF Come <= RecLen THEN RecLen - Come ELSE 0
    BY <1>1, <2>1 DEF Inv, ReceiveInv, Arriving, UART4_IRQHandler
  <2>3. RecLen \in Nat /\ frame \in Seq(Byte) /\ Len(frame) \in Nat
    BY <1>1, LengthAssumption, LenProperties DEF Inv, ReceiveInv, ReceiveTypes
  <2>4. Come = Len(frame)
    BY <2>2, <2>3 DEF Come
  <2>5. left # 0 <=> Len(frame) < RecLen
    BY <2>2, <2>3, <2>4
  <2> QED
    BY <2>1, <2>5 DEF UART4_IRQHandler
<1>2. ASSUME Inv, [Next]_vars, isr = "queue", isr' # "queue", apart
      PROVE  list' = MqSend(Padded(frame, RecLen))
  <2>1. UART4_Queue
    BY <1>1, <1>2 DEF Next, Hardware, Handlers, UsartRece, vars, receiving, PeerBegin, PeerByte,
      UART4_IRQHandler, UART4_Print, UART4_Clear, UART4_Arm, Recv, Moved, Echo, Text, Upgrade,
      ThreadRuns, Length, Modify, Start, SendByte, DMA2_Channel4_5_IRQHandler
  <2>2. line = <<>> /\ \A i \in 1 .. RecLen : recBuf[i] = IF i <= Come THEN frame[i] ELSE 0
    BY <1>2 DEF Inv, ReceiveInv, Arriving
  <2>3. /\ RecLen \in Nat /\ recBuf \in [1 .. RecLen -> Byte]
        /\ frame \in Seq(Byte) /\ Len(frame) \in Nat
    BY <1>2, LengthAssumption, LenProperties DEF Inv, ReceiveInv, ReceiveTypes
  <2>4. Come = Len(frame)
    BY <2>2, <2>3 DEF Come
  <2>5. /\ Padded(frame, RecLen) \in [1 .. RecLen -> Byte]
        /\ \A i \in 1 .. RecLen : i <= Len(frame) => Padded(frame, RecLen)[i] = frame[i]
        /\ \A i \in 1 .. RecLen : i > Len(frame) => Padded(frame, RecLen)[i] = 0
    BY <2>3, PaddedType
  <2>6. ASSUME NEW i \in 1 .. RecLen PROVE recBuf[i] = Padded(frame, RecLen)[i]
    BY <2>2, <2>3, <2>4, <2>5
  <2>7. recBuf = Padded(frame, RecLen)
    BY <2>3, <2>5, <2>6
  <2> QED
    BY <2>1, <2>7 DEF UART4_Queue
<1>3. Inv /\ [Next]_vars =>
        [/\ isr = "off" /\ isr' # "off" /\ apart => (isr' = "queue" <=> Len(frame) < RecLen)
         /\ isr = "queue" /\ isr' # "queue" /\ apart => list' = MqSend(Padded(frame, RecLen))]_vars
  BY <1>1, <1>2
<1> QED
  BY <1>3, Invariance, PTL DEF Spec, FrameWhole

\* An answer that was begun when nothing was being sent is sent whole.
THEOREM WholeAnswers ==
  Spec => []AnswerWhole
<1>1. Inv => AnswerWhole
  BY DEF Inv, SendInv, CleanInv, AnswerWhole
<1> QED
  BY <1>1, Invariance, PTL

\* What is started, and what is being sent, is an answer.
AnswerOf == clean /\ (chan \/ pc = "start") => \E t \in Texts : answer = Answer(t)

\* It becomes one with its check value, if it is clean, and stays one.
LEMMA AnswerStays == Inv /\ AnswerOf /\ [Next]_vars => AnswerOf'
<1> SUFFICES ASSUME Inv, AnswerOf, [Next]_vars PROVE AnswerOf'
  OBVIOUS
<1>1. CASE UNCHANGED <<pc, answer, clean, chan>>
  BY <1>1 DEF AnswerOf
<1>2. CASE UNCHANGED vars
  BY <1>1, <1>2 DEF vars, thread, sending
<1>3. CASE \/ PeerBegin \/ PeerByte \/ SendByte
           \/ UART4_IRQHandler \/ UART4_Queue \/ UART4_Print \/ UART4_Clear \/ UART4_Arm
  <2>1. UNCHANGED <<pc, answer, clean, chan>>
    BY <1>3 DEF PeerBegin, PeerByte, SendByte, UART4_IRQHandler, UART4_Queue, UART4_Print,
      UART4_Clear, UART4_Arm, thread, sending
  <2> QED
    BY <2>1, <1>1
<1>4. CASE Recv
  <2>1. pc' # "start" /\ UNCHANGED <<answer, clean, chan>>
    BY <1>4 DEF Recv, sending
  <2> QED
    BY <2>1 DEF AnswerOf
<1>5. CASE Moved \/ Echo
  <2>1. pc' = "length" /\ clean' = ~chan /\ chan' = chan
    BY <1>5 DEF Moved, Echo, Text, sending
  <2> QED
    BY <2>1 DEF AnswerOf
<1>6. CASE Upgrade
  <2>1. pc' = "recv" /\ chan' = FALSE
    BY <1>6 DEF Upgrade
  <2> QED
    BY <2>1 DEF AnswerOf
<1>7. CASE Length
  <2>1. pc' = "crc" /\ UNCHANGED <<answer, clean, chan>>
    BY <1>7 DEF Length, sending
  <2> QED
    BY <2>1 DEF AnswerOf
<1>8. CASE Modify
  <2>1. pc = "crc" /\ UNCHANGED <<answer, clean, chan>>
    BY <1>8 DEF Modify, sending
  <2> QED
    BY <2>1 DEF AnswerOf, Inv, SendInv, CleanInv
<1>9. CASE Start
  <2>1. pc = "start" /\ UNCHANGED <<answer, clean>>
    BY <1>9 DEF Start
  <2> QED
    BY <2>1 DEF AnswerOf
<1>10. CASE DMA2_Channel4_5_IRQHandler
  <2>1. chan' = FALSE /\ UNCHANGED <<pc, answer, clean>>
    BY <1>10 DEF DMA2_Channel4_5_IRQHandler, thread
  <2> QED
    BY <2>1 DEF AnswerOf
<1> QED
  BY <1>2, <1>3, <1>4, <1>5, <1>6, <1>7, <1>8, <1>9, <1>10 DEF Next, Hardware, Handlers, UsartRece

\* The peer takes a whole answer, and no answer one byte of which is another.
AnswerSeen ==
  (pc = "start" \/ tc) /\ clean =>
    LET received == SubSeq(senBuf, 1, Len(answer)) IN
    /\ received \in Seq(Byte)
    /\ CRC16_CheckValue(received)
    /\ \A i \in 1 .. Len(received) : \A b \in Short \ {received[i]} :
         ~CRC16_CheckValue([received EXCEPT ![i] = b])

\* What has been sent when nothing else was is the answer with its check value.
LEMMA SentAnswer == Inv /\ AnswerOf => AnswerSeen
<1> SUFFICES ASSUME Inv, AnswerOf, pc = "start" \/ tc, clean
             PROVE  LET received == SubSeq(senBuf, 1, Len(answer)) IN
                    /\ received \in Seq(Byte)
                    /\ CRC16_CheckValue(received)
                    /\ \A i \in 1 .. Len(received) : \A b \in Short \ {received[i]} :
                         ~CRC16_CheckValue([received EXCEPT ![i] = b])
  BY DEF AnswerSeen
<1>1. /\ chan \/ pc = "start"
      /\ senBuf = Padded(answer, SenLen) /\ senBuf \in [1 .. SenLen -> Byte]
  BY DEF Inv, SendInv, CleanInv, ThreadTypes, Building
<1>2. PICK t \in Texts : answer = Answer(t)
  BY <1>1 DEF AnswerOf
<1> DEFINE s == WithLength(t)
           c == CrcBytes(s)
<1>3. s \in Seq(Byte) /\ Len(s) \in 0 .. SenLen - 2 /\ Len(s) > 0 /\ SenLen \in Nat
  <2> DEFINE w == Comma \o Digits(Len(t)) \o Comma
  <2>1. s = t \o w /\ s \in Seq(1 .. 255) /\ Len(s) \in 0 .. SenLen - 2
    BY WithLengthOf
  <2>2. t \in Seq(1 .. 255) /\ Len(t) \in Fitting /\ Len(t) \in Nat
    BY LenProperties DEF Texts
  <2>3. w \in Seq(1 .. 255) /\ Len(w) \in 2 .. SenLen - 2 - Len(t) /\ SenLen \in Nat
    BY <2>2, WithLengthType, LengthAssumption
  <2> HIDE DEF w, s
  <2>4. Len(s) = Len(t) + Len(w)
    BY <2>1, <2>2, <2>3, ConcatProperties
  <2>5. s \in Seq(Byte)
    BY <2>1, Terminate
  <2> QED
    BY <2>1, <2>2, <2>3, <2>4, <2>5
<1>4. answer = s \o c
  BY <1>2 DEF Answer
<1>5. c \in Seq(Byte) /\ Len(c) = 2
  BY <1>3, CrcBytesType
<1>6. /\ CRC16_CheckValue(answer)
      /\ \A i \in 1 .. Len(answer) : \A b \in Short \ {answer[i]} :
           ~CRC16_CheckValue([answer EXCEPT ![i] = b])
  BY <1>3, <1>4, ChangeSeen
<1> HIDE DEF s, c
<1>7. answer \in Seq(Byte) /\ Len(answer) = Len(s) + 2
  <2>1. s \o c \in Seq(Byte) /\ Len(s \o c) = Len(s) + Len(c)
    BY <1>3, <1>5, ConcatProperties
  <2> QED
    BY <1>4, <1>5, <2>1
<1>8. SubSeq(senBuf, 1, Len(answer)) = answer
  <2> DEFINE n == Len(answer)
             r == SubSeq(senBuf, 1, n)
  <2>1. n \in Nat /\ n \in 1 .. SenLen
    BY <1>3, <1>7
  <2>2. senBuf \in Seq(Byte) /\ Len(senBuf) = SenLen
    BY <1>1, <1>3, BufferLen
  <2>3. r \in Seq(Byte) /\ Len(r) = n /\ \A i \in 1 .. n : r[i] = senBuf[i]
    BY <2>1, <2>2, SubSeqProperties
  <2>4. \A i \in 1 .. SenLen : i <= n => Padded(answer, SenLen)[i] = answer[i]
    BY <1>3, <1>7, PaddedType
  <2> HIDE DEF r
  <2>5. \A i \in 1 .. n : r[i] = answer[i]
    BY <1>1, <1>3, <2>1, <2>3, <2>4
  <2> QED
    BY <1>7, <2>3, <2>5, SeqEqual DEF r
<1> QED
  BY <1>6, <1>7, <1>8

\* An answer that was begun when nothing was being sent is taken by the peer,
\* and is taken no more when one byte of it has become another.
THEOREM AnswersSeen == Spec => []AnswerSeen
<1>1. Init => AnswerOf
  BY DEF Init, AnswerOf
<1> QED
  BY <1>1, AnswerStays, SentAnswer, Invariance, PTL DEF Spec

\* So is one with one bit changed.
THEOREM AnswersChecked == Spec => AnswerChecks
<1> DEFINE received == SubSeq(senBuf, 1, Len(answer))
           Checks ==
             /\ CRC16_CheckValue(received)
             /\ \A i \in 1 .. Len(received), k \in 9 .. 16 :
                  ~CRC16_CheckValue([received EXCEPT ![i] = Xor(received[i], Weight[k])])
<1>1. ASSUME AnswerSeen, pc = "start", clean PROVE Checks
  <2>1. /\ received \in Seq(Byte)
        /\ CRC16_CheckValue(received)
        /\ \A i \in 1 .. Len(received) : \A b \in Short \ {received[i]} :
             ~CRC16_CheckValue([received EXCEPT ![i] = b])
    BY <1>1 DEF AnswerSeen
  <2> HIDE DEF received
  <2>2. ASSUME NEW i \in 1 .. Len(received), NEW k \in 9 .. 16
        PROVE  ~CRC16_CheckValue([received EXCEPT ![i] = Xor(received[i], Weight[k])])
    <3> DEFINE x == received[i]
    <3>1. x \in Short
      <4>1. x \in Byte
        BY <2>1, ElementOfSeq
      <4>2. \A b \in Byte : b \in Short
        BY DEF Byte, Short
      <4> QED
        BY <4>1, <4>2
    <3> HIDE DEF x
    <3>2. Xor(x, Weight[k]) \in Short /\ Xor(x, Weight[k]) # x
      BY <3>1, BitChanged
    <3> QED
      BY <2>1, <3>2 DEF x
  <2> QED
    BY <2>1, <2>2
<1> HIDE DEF Checks
<1>2. AnswerSeen => [pc = "start" /\ chan' /\ clean => Checks]_vars
  BY <1>1
<1> USE DEF Checks
<1>3. [][pc = "start" /\ chan' /\ clean => Checks]_vars => AnswerChecks
  BY DEF AnswerChecks
<1> HIDE DEF Checks
<1> QED
  BY <1>2, <1>3, AnswersSeen, PTL
=============================================================================
