------------------------------ MODULE MCSwitch ------------------------------
(***************************************************************************)
(* The switch on 4-bit words of two 2-bit "bytes": every assumption on the *)
(* word is evaluated, and packets of two devices interleave.               *)
(***************************************************************************)
EXTENDS SwitchPronto

Word4 == 0..15
Add4(x, y) == (x + y) % 16
Xor4(x, y) ==
  LET bit(i) == 2^i * ((x \div 2^i + y \div 2^i) % 2)
  IN bit(0) + bit(1) + bit(2) + bit(3)
Rotl4(x, n) == LET k == 2^(n % 4) IN ((x * k) % 16) + ((x * k) \div 16)
Inv4(x) == 4 * (x % 4) + x \div 4

\* Four words as a function from 0.
Quatro(a, b, c, d) == [i \in 0..3 |-> CASE i = 0 -> a [] i = 1 -> b [] i = 2 -> c [] i = 3 -> d]

\* Two registered devices whose ids differ in the last word, and a stranger.
Id1 == Quatro(1, 2, 3, 4)
Id2 == Quatro(1, 2, 3, 9)
Id3 == Quatro(1, 2, 7, 4)
DispositivosMC == {Id1, Id2}
ChaveMC == [d \in DispositivosMC |-> [i \in 0..7 |-> (i + d[3]) % 16]]

RidA == Quatro(5, 6, 7, 8)

\* The reply device d sends when it holds the key of device k.
Responde(d, k) ==
  [oper |-> 2, rid |-> Inverte(RidA), id |-> Inverte(d),
   payload |-> Inverte(Prova(ChaveMC[k], d, RidA))]

SemDispositivo(o) ==
  [oper |-> o, rid |-> Inverte(RidA), id |-> [i \in 0..3 |-> Zero], payload |-> Nulo]

\* A reply whose proof is wrong in word i only.
ErraPalavra(i) == [Responde(Id1, Id1) EXCEPT !.payload[i] = Add(@, 1)]

\* Two packets at a time: a start, a correct reply and one under a wrong key.
EntradasPar == {SemDispositivo(0), Responde(Id1, Id1), Responde(Id2, Id1)}

\* One packet at a time: start, request, setup, correct replies of both devices,
\* one of the stranger, and replies wrong in a single word, for every word.
EntradasPalavras ==
  {SemDispositivo(o) : o \in {0, 1, 5}} \union
  {Responde(Id1, Id1), Responde(Id2, Id2), Responde(Id3, Id1)} \union
  {ErraPalavra(i) : i \in 0..15}
=============================================================================
