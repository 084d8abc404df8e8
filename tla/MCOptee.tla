------------------------------ MODULE MCOptee ------------------------------
(***************************************************************************)
(* Two or three optee_dra processes, two devices' keys, one round.         *)
(***************************************************************************)
EXTENDS OpteeDra

CONSTANTS k1, k2, d1, d2

ArgumentosMC == {[chave |-> k1, id |-> d1], [chave |-> k2, id |-> d2]}
=============================================================================
