----------------------------- MODULE MCService -----------------------------
(***************************************************************************)
(* One device that is set up under two identities and asked for a round.   *)
(***************************************************************************)
EXTENDS DraService

CONSTANTS k1, k2, d1, d2, r1

ArgumentosMC == {[chave |-> Hex(k1), id |-> Hex(d1)], [chave |-> Hex(k2), id |-> Hex(d2)]}
RodadasMC == {Hex(r1)}
=============================================================================
