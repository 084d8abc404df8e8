----------------------------- MODULE ForroArgs -----------------------------
(***************************************************************************)
(* The command line program forro-args-dra2 the x86 verifier calls for     *)
(* each reply: forro_cipher/src/forro/forro-args-dra.c over the reference  *)
(* implementation of the cipher, whose permutation is the one of Forro and *)
(* whose setup and stream functions are not the trusted application's.     *)
(*                                                                         *)
(* Arguments and result are hexstrings, functions to words read most       *)
(* significant byte first.                                                 *)
(***************************************************************************)
EXTENDS Forro

\* forro_keysetup of the reference, on a context with contents x: it also writes
\* the constant SIGMA.
forro_keysetup(x, key, sigma) ==
  [i \in 0..15 |-> CASE i \in 0..3   -> Inv(key[i])
                     [] i \in 6..7   -> Inv(sigma[i - 6])
                     [] i \in 8..11  -> Inv(key[i - 4])
                     [] i \in 14..15 -> Inv(sigma[i - 12])
                     [] OTHER        -> x[i]]

forro_versetup(x, rodada, dispositivo) ==
  [i \in 0..15 |-> CASE i \in 4..5   -> Inv(rodada[i - 4])
                     [] i \in 6..7   -> Inv(dispositivo[i - 6])
                     [] i \in 12..13 -> Inv(rodada[i - 10])
                     [] i \in 14..15 -> Inv(dispositivo[i - 12])
                     [] OTHER        -> x[i]]

\* The one block of forro_encrypt_bytes for 64 bytes; the counter it increments
\* afterwards is not used again.
forro_encrypt_bytes(x, m) ==
  LET output == Inverte(forro(x)) IN [i \in 0..15 |-> Xor(m[i], output[i])]

\* main.  input is the context on the stack, mensagem and configuracao are read
\* without having been written: the last argument is "0", one digit of 64.
forro_args_dra(input, mensagem, configuracao, sigma, key, nonce, id_rodada, id) ==
  LET conf_rodada == [j \in 0..3 |-> IF j < 2 THEN Xor(id_rodada[j], configuracao[j])
                                     ELSE Xor(nonce[j - 2], configuracao[j + 2])]
      conf_dispositivo == [j \in 0..3 |-> IF j < 2 THEN Xor(id[j], configuracao[j + 2])
                                          ELSE Xor(id[j], configuracao[j + 4])]
  IN forro_encrypt_bytes(
       forro_versetup(forro_keysetup(input, key, sigma), conf_rodada, conf_dispositivo),
       mensagem)
=============================================================================
