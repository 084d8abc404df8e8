-------------------------------- MODULE Hexa --------------------------------
(***************************************************************************)
(* Hexstrings and packet fields by what they stand for: a value and        *)
(* whether its four-byte words are reversed.  hexstring_to_byte_array and  *)
(* byte_array_to_hexstring keep both; swapEndian, always in place, turns   *)
(* the words around.  A round id has two halves, param1 and param2.        *)
(***************************************************************************)
EXTENDS Integers, Sequences

Campo(v) == [v |-> v, inv |-> FALSE]

swapEndian(c) == [c EXCEPT !.inv = ~@]

swapRodada(r) == <<swapEndian(r[1]), swapEndian(r[2])>>

\* What follows a 16-digit argument in memory: the program reads 32 digits.
\* Its terminating NUL makes one of the bytes less than 16, which no digit pair
\* of a round in use is, so it is no half of any round.
Lixo == Campo(-1)

(***************************************************************************)
(* A proof as a term: key, id and the two halves of the round, each the    *)
(* way forro-args-dra2 or the trusted application received it.  Distinct   *)
(* inputs give distinct proofs.                                            *)
(***************************************************************************)
Prova(chave, nonce, id_rodada, id) ==
  Campo([chave |-> chave, rodada |-> <<id_rodada, nonce>>, id |-> id])
=============================================================================
