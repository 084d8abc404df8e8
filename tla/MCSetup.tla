------------------------------ MODULE MCSetup ------------------------------
(***************************************************************************)
(* One packet through a short Forro while setup.py is run twice more; the  *)
(* second file changes the key of device 1.  Tables are cleared in one     *)
(* order or in the opposite one.                                           *)
(***************************************************************************)
EXTENDS SwitchSetup

Posicao(t) ==
  LET base == CASE t[1] = "ig" -> 0 [] t[1] = "eg" -> 12 [] t[1] = "p4dra_ig" -> 24
                [] t[1] = "p4dra_ig_fin" -> 28 [] OTHER -> 37
  IN base + t[2] + 1

OrdensMC == {[t \in Tabelas |-> Posicao(t)],
             [t \in Tabelas |-> Cardinality(Tabelas) + 1 - Posicao(t)]}

ChaveMC == << <<1, 1>>, <<2, 1>>, <<2, 1>> >>

P(k, e) == [chave |-> k, erro |-> e]

EntradasMC ==
  {[oper |-> 0, disp |-> 0, prova |-> SemProva], [oper |-> 5, disp |-> 0, prova |-> SemProva],
   [oper |-> 2, disp |-> 3, prova |-> P(1, {})]}
    \union {[oper |-> 2, disp |-> 1, prova |-> q] : q \in {P(1, {}), P(2, {}), P(1, {"D"})}}
    \union {[oper |-> 2, disp |-> 2, prova |-> P(1, e)] : e \in {{}, {"A"}, {"C"}}}
=============================================================================
