---------------------------- MODULE SwitchSetup ----------------------------
(***************************************************************************)
(* setup.py run again on a switch in service: clear_all empties the tables *)
(* one after the other, then the rules come back one at a time, while      *)
(* packets keep traversing the pipelines and meet whatever is installed.   *)
(* The run may also stop half way (a malformed line or a missing file      *)
(* raises an exception), and the data file may hold new keys.              *)
(*                                                                         *)
(* A state under computation is abstracted to the key it was loaded with   *)
(* and whether it still is what the trusted application would hold at this *)
(* rodada; P4SwitchProofs shows that a traversal whose twelve stages find  *)
(* their rules keeps it so.  A proof is the key it was computed with and   *)
(* the groups of words, as the tables compare them, that were corrupted.   *)
(***************************************************************************)
EXTENDS Integers, FiniteSets

CONSTANTS
  versao_forro,    \* forro of setup.py, the version of Forro: 14
  LarguraRodada,   \* bits of hdr.forro_rodada.rodada: 8
  Pacotes,         \* identities of the packets
  Entradas,        \* what the hosts may send: [oper, disp, prova]
  Dispositivos,    \* devices of the data file, by their line: 1..n
  Chave,           \* Chave[e][d]: key of device d in the file of the e-th run
  Ordens,          \* orders in which p4.info may list the tables
  MaxSetups        \* bound on the runs of setup.py

VARIABLES
  pkt,             \* the packets
  setup            \* the control plane: progress of the running setup.py

vars == <<pkt, setup>>

\* One traversal per rule, and the special last one.
total_rodadas == versao_forro * 4 + 1

Estagios == 0..11
TabelasForro == {<<"ig", i>> : i \in Estagios} \union {<<"eg", i>> : i \in Estagios}
TabelasP4dra ==
  {<<"p4dra_ig", i>> : i \in 0..3} \union {<<"p4dra_ig_fin", i>> : i \in 0..8}
    \union {<<"p4dra_eg_fin", i>> : i \in 0..1}
Tabelas == TabelasForro \union TabelasP4dra

ASSUME SetupAssumption ==
  /\ versao_forro \in Nat \ {0}
  /\ LarguraRodada \in Nat
  /\ total_rodadas < 2^LarguraRodada
  /\ IsFiniteSet(Dispositivos) /\ Dispositivos = 1..Cardinality(Dispositivos)
  /\ MaxSetups \in Nat
  /\ \A o \in Ordens : o \in [Tabelas -> 1..Cardinality(Tabelas)]
  /\ 2^LarguraRodada \in Nat    \* of use to the provers, which do not know ^

\* The words a comparison table looks at together: 15-12, 11-8, 7-5, 4-0.
Grupos == {"A", "B", "C", "D"}

\* A host sends start, request, reply or setup; 3 and 4 exist inside the switch.
ASSUME EntradasAssumption ==
  \A m \in Entradas : m.oper \in {0, 1, 2, 5} /\ m.prova.erro \subseteq Grupos
-----------------------------------------------------------------------------
(***************************************************************************)
(* The rules in the order setup.py adds them.  A rule is identified by its *)
(* position; what is installed is then a function of the progress.         *)
(***************************************************************************)
PosForro(r, i) == 12 * (r - 1) + i + 1

\* The last rodada has eleven plain rules; e11_qr7_fin is the twelfth.
PosFin == 12 * (total_rodadas - 1)

\* Per device one rule of tbl_p4dra_ig0 and one of tbl_p4dra_ig0_fin.
PosCarrega(d) == PosFin + 2 * (d - 1) + 1
PosFinaliza(d) == PosFin + 2 * d

\* The default rules, in their order.
PosPadrao == PosFin + 2 * Cardinality(Dispositivos)
PosStart == PosPadrao + 1
PosSetup == PosPadrao + 2
PosIg(i) == PosPadrao + 2 + i         \* tbl_p4dra_ig1 to ig3
PosIgFin(i) == PosPadrao + 5 + i      \* tbl_p4dra_ig1_fin to ig8_fin
PosEgFin(i) == PosPadrao + 14 + i     \* tbl_p4dra_eg0_fin, eg1_fin

\* Mutant: the rule of the last comparison is left out.
TotalRegras_SemUltima == PosPadrao + 14

TotalRegras == PosPadrao + 15

\* Rule at position pos of table t is installed.  During clear_all the rules of
\* the previous run are there in the tables not reached yet.
Tem(t, pos) ==
  IF setup.modo = "limpa" THEN pos <= setup.antes /\ setup.ordem[t] > setup.n
  ELSE pos <= setup.n

\* The run whose data file the device rules come from.
Versao == IF setup.modo = "limpa" THEN setup.execucao - 1 ELSE setup.execucao

SetupPronto ==
  [modo |-> "pronto", n |-> TotalRegras, antes |-> 0, execucao |-> 1,
   ordem |-> CHOOSE o \in Ordens : TRUE]

\* Somebody runs setup.py again.  perturbado is auxiliary: the packet was in the
\* switch while the tables were not complete.
Comeca ==
  /\ setup.modo \in {"pronto", "parado"}
  /\ setup.execucao < MaxSetups
  /\ \E o \in Ordens :
       setup' = [modo |-> "limpa", n |-> 0, antes |-> setup.n, ordem |-> o,
                 execucao |-> setup.execucao + 1]
  /\ pkt' = [p \in Pacotes |-> [pkt[p] EXCEPT !.perturbado = TRUE]]

\* table['node'].clear() of the next table.
Limpa ==
  /\ setup.modo = "limpa"
  /\ setup' = IF setup.n < Cardinality(Tabelas) THEN [setup EXCEPT !.n = @ + 1]
              ELSE [setup EXCEPT !.modo = "insere", !.n = 0]
  /\ UNCHANGED pkt

\* The next add_with_...; after the last one complete_operations.
Insere ==
  /\ setup.modo = "insere"
  /\ setup' = [setup EXCEPT !.n = @ + 1,
                            !.modo = IF setup.n + 1 = TotalRegras THEN "pronto" ELSE @]
  /\ UNCHANGED pkt

\* An exception ends the script: the file cannot be opened, a line is malformed
\* or its device is there already.  The Forro rules and the lines before are in.
Aborta ==
  /\ setup.modo = "insere"
  /\ \E d \in Dispositivos : setup.n + 1 = PosCarrega(d)
  /\ setup' = [setup EXCEPT !.modo = "parado"]
  /\ UNCHANGED pkt
-----------------------------------------------------------------------------
drop(pk) == [pk EXCEPT !.lugar = "descarte"]

\* No action set a port: the traffic manager has nowhere to send the packet.
SemPorta(pk) == drop(pk)

\* tbl_p4dra_ig0 to ig3.  carregar_estado_1 and _2 add words of id_rodada: without
\* them the state is not the device's; without _3_iniciar nothing starts.
IngressInicial(pk) ==
  CASE pk.oper = 0 /\ Tem(<<"p4dra_ig", 0>>, PosStart) -> [pk EXCEPT !.oper = 1, !.lugar = "saida"]
    [] pk.oper = 5 /\ Tem(<<"p4dra_ig", 0>>, PosSetup) -> [pk EXCEPT !.lugar = "saida"]
    [] /\ pk.oper = 2
       /\ pk.disp \in Dispositivos /\ Tem(<<"p4dra_ig", 0>>, PosCarrega(pk.disp))
       -> IF Tem(<<"p4dra_ig", 3>>, PosIg(3))
            THEN [pk EXCEPT !.oper = 3, !.rodada = 1, !.chave = Chave[Versao][pk.disp],
                            !.exato = \A i \in 1..2 : Tem(<<"p4dra_ig", i>>, PosIg(i))]
            ELSE SemPorta(pk)
    [] OTHER -> drop(pk)

\* Mutant: the counter has no width.
Mais1_SemLargura(r) == r + 1

\* Mutant: a saturating addition.
Mais1_Satura(r) == IF r = 2^LarguraRodada - 1 THEN r ELSE r + 1

Mais1(r) == (r + 1) % 2^LarguraRodada

\* Stage i of pipeline gr finds its rule for rodada r: odd rodadas are rules of
\* the ingress, even ones of the egress.
Acerta(gr, i, r) ==
  /\ r \in 1..(total_rodadas - 1)
  /\ r % 2 = IF gr = "ig" THEN 1 ELSE 0
  /\ Tem(<<gr, i>>, PosForro(r, i))

\* A miss in stages 1 to 11 runs the action of qr0: the rodada is counted and the
\* packet goes on.  Its state is taken for lost, also at a rodada of qr0, where the
\* missed rule would have run the same action: a packet counted as exact is exact.
IngressForro(pk) ==
  [pk EXCEPT !.exato = pk.exato /\ \A i \in Estagios : Acerta("ig", i, pk.rodada),
             !.rodada = Mais1(@),
             !.lugar = "egress"]

\* A miss in the egress does nothing.  Stage 11 counts, or ends the computation.
EgressForro(pk) ==
  LET acerto == {i \in Estagios : Acerta("eg", i, pk.rodada)}
      fim == 11 \in acerto /\ pk.rodada = total_rodadas - 1
  IN [pk EXCEPT !.exato = pk.exato /\ acerto \in {{}, Estagios},
                !.oper = IF fim THEN 4 ELSE @,
                !.rodada = CASE fim -> 0
                             [] ~fim /\ 11 \in acerto -> Mais1(@)
                             [] OTHER -> @,
                !.lugar = "ingress"]

\* finalizar_forro_0 to _4 leave these groups different from the proof: all
\* without the device's rule; the words of the key under another key; and the
\* words 4, 5, 12, 13, which pass from one stage to the next, when one misses.
Difere(pk) ==
  LET falta(i) == ~Tem(<<"p4dra_ig_fin", i>>, PosIgFin(i))
      chaveFin == Chave[Versao][pk.disp]
  IN IF \/ ~pk.exato \/ pk.chave # pk.prova.chave
        \/ ~Tem(<<"p4dra_ig_fin", 0>>, PosFinaliza(pk.disp))
       THEN Grupos
       ELSE pk.prova.erro
              \union (IF chaveFin # pk.prova.chave THEN {"B", "D"} ELSE {})
              \union (IF falta(1) THEN {"D", "C"} ELSE {})
              \union (IF falta(2) THEN {"C", "A"} ELSE {})
              \union (IF falta(3) \/ falta(4) THEN {"A"} ELSE {})

\* tbl_p4dra_ig5_fin compares whether it has its rule or not; ig6_fin to ig8_fin
\* drop by default; the port is set by finalizar_forro_4.
IngressVerifica(pk) ==
  LET ruim == Difere(pk)
  IN CASE \/ "A" \in ruim \/ ~Tem(<<"p4dra_ig_fin", 6>>, PosIgFin(6))
          \/ "B" \in ruim \/ ~Tem(<<"p4dra_ig_fin", 7>>, PosIgFin(7))
          \/ "C" \in ruim \/ ~Tem(<<"p4dra_ig_fin", 8>>, PosIgFin(8)) -> drop(pk)
       [] ~Tem(<<"p4dra_ig_fin", 4>>, PosIgFin(4)) -> SemPorta(pk)
       [] OTHER -> [pk EXCEPT !.lugar = "egress", !.exato = "D" \notin ruim]

\* Mutant: tbl_p4dra_eg1_fin does nothing by default.
EgressVerifica_SemDrop(pk) ==
  IF Tem(<<"p4dra_eg_fin", 1>>, PosEgFin(1)) /\ ~pk.exato THEN drop(pk)
  ELSE [pk EXCEPT !.lugar = "saida"]

\* tbl_p4dra_eg0_fin and eg1_fin.  With oper 4, exato says that the words 0 to 4
\* of the finalised state, left to the egress, are the proof's.
EgressVerifica(pk) ==
  IF Tem(<<"p4dra_eg_fin", 1>>, PosEgFin(1)) /\ pk.exato THEN [pk EXCEPT !.lugar = "saida"]
  ELSE drop(pk)
-----------------------------------------------------------------------------
SemProva == [chave |-> 0, erro |-> {}]

Init ==
  /\ pkt = [p \in Pacotes |->
              [lugar |-> "rede", oper |-> 0, disp |-> 0, prova |-> SemProva, rodada |-> 0,
               chave |-> 0, exato |-> FALSE, perturbado |-> FALSE]]
  /\ setup = SetupPronto

Chega(p) ==
  /\ pkt[p].lugar = "rede"
  /\ \E m \in Entradas :
       pkt' = [pkt EXCEPT ![p] =
                 [lugar |-> "ingress", oper |-> m.oper, disp |-> m.disp, prova |-> m.prova,
                  rodada |-> 0, chave |-> 0, exato |-> FALSE,
                  perturbado |-> setup.modo # "pronto"]]
  /\ UNCHANGED setup

Ingress(p) ==
  /\ pkt[p].lugar = "ingress"
  /\ pkt' = [pkt EXCEPT ![p] = CASE @.oper = 3 -> IngressForro(@)
                                 [] @.oper = 4 -> IngressVerifica(@)
                                 [] OTHER      -> IngressInicial(@)]
  /\ UNCHANGED setup

Egress(p) ==
  /\ pkt[p].lugar = "egress"
  /\ pkt' = [pkt EXCEPT ![p] = IF @.oper = 3 THEN EgressForro(@) ELSE EgressVerifica(@)]
  /\ UNCHANGED setup

Next ==
  \/ Comeca \/ Limpa \/ Insere \/ Aborta
  \/ \E p \in Pacotes : Chega(p) \/ Ingress(p) \/ Egress(p)

\* The script runs on once started, and the pipelines serve every packet.
Fairness ==
  /\ WF_vars(Limpa) /\ WF_vars(Insere)
  /\ \A p \in Pacotes : WF_vars(Ingress(p)) /\ WF_vars(Egress(p))

Spec == Init /\ [][Next]_vars /\ Fairness
-----------------------------------------------------------------------------
TypeOK ==
  /\ setup.modo \in {"pronto", "limpa", "insere", "parado"}
  /\ setup.n \in 0..TotalRegras
  /\ \A p \in Pacotes :
       /\ pkt[p].lugar \in {"rede", "ingress", "egress", "saida", "descarte"}
       /\ pkt[p].oper \in 0..5
       /\ pkt[p].rodada \in 0..(2^LarguraRodada - 1)
       /\ {pkt[p].exato, pkt[p].perturbado} \subseteq BOOLEAN

Atestado(pk) == pk.lugar = "saida" /\ pk.oper = 4

(* However the tables change under a packet, only a reply of a listed device *)
(* whose proof is intact in all sixteen words and was computed with the key  *)
(* the packet was loaded with is attested: no gap in the rules, no mixture   *)
(* of two files and no wrapped counter opens the CPU port.                   *)
SetupNaoAtestaErrado ==
  \A p \in Pacotes : Atestado(pkt[p]) =>
    /\ pkt[p].disp \in Dispositivos
    /\ pkt[p].prova.erro = {}
    /\ pkt[p].prova.chave = pkt[p].chave

(* Once setup.py has ended, everything is as before it began: a correct      *)
(* reply under the file now in use that was not in the switch during the     *)
(* change is not dropped, and starts and setups are forwarded.               *)
SetupRestauraServico ==
  \A p \in Pacotes : pkt[p].lugar = "descarte" /\ ~pkt[p].perturbado =>
    \/ pkt[p].oper \notin {0, 2, 4, 5}
    \/ pkt[p].oper \in {2, 4} /\ \/ pkt[p].disp \notin Dispositivos
                                 \/ pkt[p].prova # [chave |-> Chave[setup.execucao][pkt[p].disp],
                                                    erro |-> {}]

(* A packet caught by the change, whatever rodada it missed, does not        *)
(* recirculate for good: when the tables stay complete its counter wraps     *)
(* around to the first rule, reaches the fin rule, and the packet is decided.*)
RecirculacaoTermina ==
  \A p \in Pacotes :
    <>[](setup.modo = "pronto") =>
      (pkt[p].lugar = "ingress" ~> pkt[p].lugar \in {"saida", "descarte"})

\* Counts up, around the width of the counter, from r to alvo.
Distancia(r, alvo) == IF r <= alvo THEN alvo - r ELSE alvo - r + 2^LarguraRodada

\* Traversals a packet may still make when the tables are complete: twice what
\* its counter lacks to the fin rule, and the two of the comparison.
Faltam(pk) ==
  CASE pk.lugar = "egress" /\ pk.oper = 4  -> 1
    [] pk.lugar = "ingress" /\ pk.oper = 4 -> 2
    [] pk.lugar = "egress" /\ pk.oper = 3  -> 3 + 2 * Distancia(pk.rodada, total_rodadas - 1)
    [] pk.lugar = "ingress" /\ pk.oper = 3 -> 4 + 2 * Distancia(pk.rodada, total_rodadas - 2)
    [] pk.lugar = "ingress" /\ pk.oper \notin {3, 4}
                                           -> 5 + 2 * Distancia(1, total_rodadas - 2)
    [] OTHER -> 0

(* Why RecirculacaoTermina holds: under complete tables every traversal of   *)
(* every packet, also of one whose counter missed the fin rule and has to    *)
(* wrap around, takes it nearer to its decision; no traversal of the egress  *)
(* that finds no rule, and no wrap, gives back what was gained.  No packet   *)
(* is ever further away than two turns per value of the counter.             *)
RecirculacaoAvanca ==
  [][\A p \in Pacotes :
       /\ pkt[p].lugar \in {"ingress", "egress"} /\ pkt'[p] # pkt[p]
       /\ setup.modo = "pronto" /\ setup'.modo = "pronto"
       => /\ Faltam(pkt[p]) \in 1..(2 * 2^LarguraRodada + 2)
          /\ Faltam(pkt'[p]) \in 0..(Faltam(pkt[p]) - 1)
          /\ Faltam(pkt'[p]) = 0 <=> pkt'[p].lugar \in {"saida", "descarte"}]_vars
=============================================================================
