---------------------------------- MODULE Crc ----------------------------------
(***************************************************************************)
(* Middlewares/CRC/CRC.c.  A short int is kept as the number of its bits,  *)
(* 0 .. 2^16 - 1; chars are unsigned, as the compiler's are.               *)
(***************************************************************************)
EXTENDS Naturals, Sequences

\* ^, digit by digit: what the first k digits make.
Weight == <<32768, 16384, 8192, 4096, 2048, 1024, 512, 256, 128, 64, 32, 16, 8, 4, 2, 1>>
Xor(x, y) ==
  LET xor[k \in 0 .. 16] ==
        IF k = 0 THEN 0 ELSE ((x \div Weight[k] + y \div Weight[k]) % 2) + 2 * xor[k - 1]
  IN  xor[16]

\* The shift of a negative short int keeps the sign.
ShiftRight(c) == c \div 2 + (IF c >= 32768 THEN 32768 ELSE 0)

\* Mutant: the polynomial is left out.
CrcBit_Shift(c) == ShiftRight(c)
CrcBit(c) == IF c % 2 = 1 THEN Xor(ShiftRight(c), 40961) ELSE ShiftRight(c)

\* The two loops: what crc is after j of them.
CrcByte(value, b) ==
  LET crc[j \in 0 .. 8] == IF j = 0 THEN Xor(value, b) ELSE CrcBit(crc[j - 1])
  IN  crc[8]

CRC16_CalcuValue(data) ==
  LET crc[i \in 0 .. Len(data)] == IF i = 0 THEN 65535 ELSE CrcByte(crc[i - 1], data[i])
  IN  crc[Len(data)]

CRC16_CheckValue(data) ==
  LET n == Len(data) IN
  n > 2 /\ data[n - 1] * 256 + data[n] = CRC16_CalcuValue(SubSeq(data, 1, n - 2))
=============================================================================
