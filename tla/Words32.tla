------------------------------ MODULE Words32 ------------------------------
(***************************************************************************)
(* uint32_t of the C code and bit<32> of the P4 code, for model checking:  *)
(* four bytes, most significant first, so that every intermediate result   *)
(* fits TLC's integers.                                                    *)
(***************************************************************************)
EXTENDS Integers

Word32 == [1..4 -> 0..255]

Zero32 == <<0, 0, 0, 0>>

\* Addition with carry from the last byte to the first, modulo 2^32.
Add32(x, y) ==
  LET s4 == x[4] + y[4]
      s3 == x[3] + y[3] + s4 \div 256
      s2 == x[2] + y[2] + s3 \div 256
      s1 == x[1] + y[1] + s2 \div 256
  IN <<s1 % 256, s2 % 256, s3 % 256, s4 % 256>>

\* Exclusive or of two numbers below 16, bit by bit.
XorNibble ==
  [a \in 0..15, b \in 0..15 |->
     LET bit(i) == 2^i * ((a \div 2^i + b \div 2^i) % 2)
     IN bit(0) + bit(1) + bit(2) + bit(3)]

XorByte(a, b) == 16 * XorNibble[a \div 16, b \div 16] + XorNibble[a % 16, b % 16]

Xor32(x, y) ==
  <<XorByte(x[1], y[1]), XorByte(x[2], y[2]), XorByte(x[3], y[3]), XorByte(x[4], y[4])>>

\* Rotation by n: n \div 8 bytes, then n % 8 bits.
Rotl32(x, n) ==
  LET byte(i) == x[((i - 1 + n \div 8) % 4) + 1]
      k == 2^(n % 8)
      r(i) == ((byte(i) * k) % 256) + ((byte(i + 1) * k) \div 256)
  IN <<r(1), r(2), r(3), r(4)>>

Inv32(x) == <<x[4], x[3], x[2], x[1]>>
=============================================================================
