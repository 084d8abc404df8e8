----------------------------- MODULE FilaCaptura -----------------------------
(***************************************************************************)
(* What the programs of this repository expect of pcap_loop: the packets   *)
(* of their protocol reach the handler one at a time and in the order in   *)
(* which they were queued, none twice; a packet is lost only when the      *)
(* queue is full; after pcap_breakloop no further one is handed over.      *)
(***************************************************************************)
EXTENDS Naturals, Sequences

CONSTANTS
  Pacote,       \* packets, as records with a field casa: the filter accepts it
  Capacidade,   \* packets the queue holds
  Quebra        \* calls of the handler after which it asks to stop; 0: never

VARIABLES
  fila,         \* packets queued
  entregue,     \* the first one has been handed to the handler
  tratados,     \* packets the handler was called with
  perdidos      \* number of packets lost

vars == <<fila, entregue, tratados, perdidos>>

Init == fila = <<>> /\ entregue = FALSE /\ tratados = <<>> /\ perdidos = 0

Guarda(p) ==
  /\ Len(fila) < Capacidade
  /\ fila' = Append(fila, p)
  /\ UNCHANGED <<entregue, tratados, perdidos>>

Perde ==
  /\ Len(fila) = Capacidade
  /\ perdidos' = perdidos + 1
  /\ UNCHANGED <<fila, entregue, tratados>>

Entrega ==
  /\ fila # <<>> /\ ~entregue /\ Head(fila).casa
  /\ Quebra = 0 \/ Len(tratados) < Quebra
  /\ entregue' = TRUE
  /\ tratados' = Append(tratados, Head(fila))
  /\ UNCHANGED <<fila, perdidos>>

Retira ==
  /\ fila # <<>>
  /\ entregue \/ ~Head(fila).casa
  /\ fila' = Tail(fila) /\ entregue' = FALSE
  /\ UNCHANGED <<tratados, perdidos>>

Next == (\E p \in Pacote : Guarda(p)) \/ Perde \/ Entrega \/ Retira

Spec == Init /\ [][Next]_vars
=============================================================================
