------------------------------- MODULE Forro -------------------------------
(***************************************************************************)
(* The keyed permutation behind every proof: Forro14 as the trusted        *)
(* application computes it (optee_dra/dra/ta/forro.c) and the way          *)
(* reply_proof (optee_dra/dra/ta/dra_ta.c) feeds it.                       *)
(*                                                                         *)
(* The 32-bit word is a parameter: a set with the operations the C code    *)
(* and the P4 code use.  A hexstring is a function to words read most      *)
(* significant byte first; U8TO32_LITTLE, U32TO8_LITTLE, swapEndian and    *)
(* inverter_endianess all reverse the four bytes of a word: Inv.           *)
(***************************************************************************)
EXTENDS Integers

CONSTANTS
  Word,      \* the values of a uint32_t / bit<32>
  Zero,      \* the word 0x0
  Add(_,_),  \* addition modulo 2^32
  Xor(_,_),  \* bitwise exclusive or
  Rotl(_,_), \* rotation to the left
  Inv(_)     \* byte reversal

ASSUME WordAssumption ==
  /\ Zero \in Word
  /\ \A x, y \in Word : Add(x, y) \in Word /\ Xor(x, y) \in Word
  /\ \A x, y \in Word : Add(x, y) = Add(y, x)
  /\ \A x \in Word, n \in {8, 10, 27} : Rotl(x, n) \in Word
  /\ \A x \in Word : Inv(x) \in Word /\ Inv(Inv(x)) = x
  /\ \A x \in Word : Xor(x, Zero) = x /\ Xor(Zero, x) = x
  /\ \A x, y \in Word : Xor(x, y) = Zero <=> x = y

Estado == [0..15 -> Word]

\* Conversion between a hexstring and the words of a register or a packet.
Inverte(f) == [i \in DOMAIN f |-> Inv(f[i])]
-----------------------------------------------------------------------------
\* Q macro: the eight updates of (a, b, c, d, e), in order.
Q(s, a, b, c, d, e) ==
  LET d1 == Add(s[d], s[e])
      c1 == Xor(s[c], d1)
      b1 == Rotl(Add(s[b], c1), 10)
      a1 == Add(s[a], b1)
      e1 == Xor(s[e], a1)
      d2 == Rotl(Add(d1, e1), 27)
      c2 == Add(c1, d2)
      b2 == Xor(b1, c2)
      a2 == Rotl(Add(a1, b2), 8)
  IN [s EXCEPT ![a] = a2, ![b] = b2, ![c] = c2, ![d] = d2, ![e] = e1]

\* The operands of the eight Q calls of one iteration, QR 0 to QR 7.
Operandos ==
  << <<0, 4,  8, 12, 3>>, <<1, 5,  9, 13, 0>>,
     <<2, 6, 10, 14, 1>>, <<3, 7, 11, 15, 2>>,
     <<0, 5, 10, 15, 3>>, <<1, 6, 11, 12, 0>>,
     <<2, 7,  8, 13, 1>>, <<3, 4,  9, 14, 2>> >>

QR(q, s) ==
  LET o == Operandos[q + 1] IN Q(s, o[1], o[2], o[3], o[4], o[5])

\* The first m of the eight QRs of an iteration.
PrimeirosQRs(m, s) ==
  LET q(n, x) == IF n < m THEN QR(n, x) ELSE x
  IN q(7, q(6, q(5, q(4, q(3, q(2, q(1, q(0, s))))))))

Iteracao(s) == PrimeirosQRs(8, s)

\* k iterations of the loop of forro(); "#define rounds 7" bounds k.
Iteracoes(k, s) ==
  LET d(n, x) == IF n < k THEN Iteracao(x) ELSE x
  IN d(6, d(5, d(4, d(3, d(2, d(1, d(0, s)))))))

rounds == 7

\* forro() up to the words it writes out: the permuted state plus init.
forro(init) ==
  LET x == Iteracoes(rounds, init)
  IN [i \in 0..15 |-> Add(init[i], x[i])]
-----------------------------------------------------------------------------
\* forro_keysetup and forro_versetup: where key and configuration words go.
forro_setup(key, rodada, dispositivo) ==
  [i \in 0..15 |->
     Inv(CASE i \in 0..3   -> key[i]
           [] i \in 4..5   -> rodada[i - 4]
           [] i \in 6..7   -> dispositivo[i - 6]
           [] i \in 8..11  -> key[i - 4]
           [] i \in 12..13 -> rodada[i - 10]
           [] OTHER        -> dispositivo[i - 12])]

\* reply_proof past the storage read: all arguments and the proof are
\* hexstrings.  configuracao is zero-filled by TEE_Malloc; the first two words
\* of rid are the id_rodada parameter and the last two the nonce.
EstadoInicial(key, id, rid) ==
  forro_setup(key, [j \in 0..3 |-> Xor(rid[j], Zero)],
                   [j \in 0..3 |-> Xor(id[j], Zero)])

Prova(key, id, rid) == Inverte(forro(EstadoInicial(key, id, rid)))
=============================================================================
