----------------------------- MODULE Checksums -----------------------------
(***************************************************************************)
(* crc7 and crc16 (sdcard/mod.rs) on sequences of bits, the highest first; *)
(* and the remainder of a division of polynomials, which they are meant to *)
(* be, and which a card sends.                                             *)
(***************************************************************************)
EXTENDS Integers, Sequences

Bit == {0, 1}
Zeros(n) == [i \in 1 .. n |-> 0]
Xor(a, b) == [i \in DOMAIN a |-> (a[i] + b[i]) % 2]
Left(a, n) == SubSeq(a, n + 1, Len(a)) \o Zeros(n)
Right(a, n) == Zeros(n) \o SubSeq(a, 1, Len(a) - n)

\* Bytes of a message.
Byte(bits, i) == SubSeq(bits, 8 * i - 7, 8 * i)

\* One bit of crc7, in a u8: the polynomial is 0x09.
Crc7Bit(crc, d) ==
  LET shifted == Left(crc, 1)
  IN  IF shifted[1] # d THEN Xor(shifted, <<0, 0, 0, 0, 1, 0, 0, 1>>) ELSE shifted

Crc7(bits) ==
  LET crc[i \in 0 .. Len(bits)] == IF i = 0 THEN Zeros(8) ELSE Crc7Bit(crc[i - 1], bits[i])
  IN  Tail(crc[Len(bits)])

\* One byte of crc16: the halves of crc change places, then four assignments.
LowByte(a) == Zeros(8) \o Byte(a, 2)
Crc16Byte(crc, byte) ==
  LET turned == Byte(crc, 2) \o Byte(crc, 1)
      added  == Xor(turned, Zeros(8) \o byte)
      third  == Xor(added, Right(LowByte(added), 4))
      fourth == Xor(third, Left(third, 12))
  IN  Xor(fourth, Left(LowByte(fourth), 5))

Crc16(bits) ==
  LET crc[i \in 0 .. Len(bits) \div 8] ==
        IF i = 0 THEN Zeros(16) ELSE Crc16Byte(crc[i - 1], Byte(bits, i))
  IN  crc[Len(bits) \div 8]

\* The remainder of bits, multiplied by x^n, by x^n + divisor.
Remainder(bits, divisor) ==
  LET message == bits \o Zeros(Len(divisor))
      rest[i \in 0 .. Len(message)] ==
        IF i = 0 THEN Zeros(Len(divisor))
        ELSE LET r == rest[i - 1]
                 next == Append(Tail(r), message[i])
             IN  IF r[1] = 1 THEN Xor(next, divisor) ELSE next
  IN  rest[Len(message)]

\* x^7 + x^3 + 1 and x^16 + x^12 + x^5 + 1
Divisor7 == <<0, 0, 0, 1, 0, 0, 1>>
Divisor16 == <<0, 0, 0, 1, 0, 0, 0, 0, 0, 0, 1, 0, 0, 0, 0, 1>>
=============================================================================
