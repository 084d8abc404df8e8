----------------------------- MODULE MCCaptura -----------------------------
(***************************************************************************)
(* A ring of two frames that two processors fill and publish in any order, *)
(* four packets of which any may fail the filter, and one failure of the   *)
(* interface.  The second instance, with three frames and five packets,    *)
(* counts packets with pcap_loop's own argument, as le_provas_rede does,   *)
(* instead of breaking the loop from the handler.                          *)
(***************************************************************************)
EXTENDS Captura
=============================================================================
