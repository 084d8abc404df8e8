--------------------------- MODULE MCExperimento ---------------------------
(***************************************************************************)
(* A file of four lines, a table of two, bytes of three values and two     *)
(* devices, so that the table is passed three times and the MAC addresses  *)
(* carry into the next byte.                                               *)
(***************************************************************************)
EXTENDS Experimento

Comando(prog, n, oper, rid) == [prog |-> prog, n |-> n, oper |-> oper, rid |-> rid]

Rodada(a, b) == <<Campo(a), Campo(b)>>

\* Five proofs of the file; four setups and two rounds of requests, one of them
\* through the switch; a request before the setup; one device set up again.
RoteirosMC ==
  {<<Comando("provas", 5, 2, RodadaArquivo)>>,
   <<Comando("setup", 4, 5, Rodada(3, 4)), Comando("pedidos", 2, 1, Rodada(3, 4)),
     Comando("pedidos", 1, 0, Rodada(5, 6))>>,
   <<Comando("pedidos", 1, 1, Rodada(3, 4)), Comando("setup", 1, 5, Rodada(3, 4)),
     Comando("pedidos", 1, 1, Rodada(5, 6))>>,
   <<Comando("setup", 1, 5, Rodada(3, 4)), Comando("pedidos", 1, 1, Rodada(3, 4)),
     Comando("setup", 1, 5, Rodada(3, 4)), Comando("pedidos", 1, 1, Rodada(5, 6))>>}

\* README-en.md, Experiment 1: one device is set up and asked again and again.
RoteirosExp1 ==
  {<<Comando("setup", 1, 5, Rodada(3, 4)), Comando("pedidos", 1, 1, Rodada(3, 4)),
     Comando("pedidos", 1, 1, Rodada(5, 6))>>}

\* README-en.md, Experiments 4 and 5: id_rodada="3132333435363738".
RoteirosExp4 == {<<Comando("provas", 2, 2, <<RodadaArquivo[1], Lixo>>)>>}
=============================================================================
