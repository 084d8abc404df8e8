---------------------------- MODULE SwitchPronto ----------------------------
(***************************************************************************)
(* What SwitchSetup leaves of the packet program, justified: the switch on *)
(* words, P4Switch, implements SwitchSetup while the tables are complete.  *)
(* There a state under computation is only exact or not, and a proof is    *)
(* the groups of its words that are wrong; here both are computed from the *)
(* words a packet carries.                                                 *)
(***************************************************************************)
EXTENDS P4Switch, FiniteSets

\* The data file has finitely many lines; and a fact the provers do not know.
ASSUME ProntoAssumption == IsFiniteSet(Dispositivos) /\ 2^8 = 256

\* Number of devices, and the line of the data file each one has.
NDisp == Cardinality(Dispositivos)
Linhas == {f \in [Dispositivos -> 1..NDisp] : \A d, e \in Dispositivos : f[d] = f[e] => d = e}
Linha == CHOOSE f \in Linhas : TRUE

DispDe(id) == IF Registrado(id) THEN Linha[Inverte(id)] ELSE 0

\* The id and id_rodada a packet may carry, and what the trusted application of a
\* registered device computes for them: its state after each QR, and the proof.
Conversas == {<<m.id, m.rid>> : m \in Entradas}

Estados ==
  [c \in Conversas |->
     IF Registrado(c[1])
       THEN [n \in 0..56 |-> Parcial(n, Ini([id |-> c[1], rid |-> c[2]]))]
       ELSE [n \in 0..56 |-> Nulo]]

Provas ==
  [c \in Conversas |-> IF Registrado(c[1]) THEN ProvaEsperada(c[1], c[2]) ELSE Nulo]

\* The words the tables compare together, and the groups of a payload with a
\* word that is not the one expected.
Palavras(g) == CASE g = "A" -> 12..15 [] g = "B" -> 8..11 [] g = "C" -> 5..7 [] g = "D" -> 0..4

Errados(pk) ==
  {g \in {"A", "B", "C", "D"} :
     \E i \in Palavras(g) : pk.payload[i] # Provas[<<pk.id, pk.rid>>][i]}

\* The key of a device is represented by its line.
ProvaDe(pk) ==
  [chave |-> DispDe(pk.id), erro |-> IF Registrado(pk.id) THEN Errados(pk) ELSE {}]

\* The state is the trusted application's; after the finalisation, the words
\* left to the egress are the proof's.
Exato(pk) ==
  CASE pk.oper = 3 -> pk.v = Estados[<<pk.id, pk.rid>>][pk.rodada - 1]
    [] pk.oper = 4 /\ pk.lugar = "ingress" -> pk.v = Estados[<<pk.id, pk.rid>>][56]
    [] pk.oper = 4 /\ pk.lugar = "egress"  -> \A i \in 0..4 : pk.v[i] = pk.payload[i]
    [] pk.oper = 4 /\ pk.lugar \in {"saida", "descarte"} -> Errados(pk) # {"D"}
    [] OTHER -> FALSE

NaRede ==
  [lugar |-> "rede", oper |-> 0, disp |-> 0, prova |-> [chave |-> 0, erro |-> {}],
   rodada |-> 0, chave |-> 0, exato |-> FALSE, perturbado |-> FALSE]

PacoteAbstrato(pk) ==
  IF pk.lugar = "rede" THEN NaRede
  ELSE [lugar |-> pk.lugar, oper |-> pk.oper, disp |-> DispDe(pk.id),
        prova |-> ProvaDe(pk), rodada |-> pk.rodada,
        chave |-> IF pk.oper \in {3, 4} THEN DispDe(pk.id) ELSE 0,
        exato |-> Exato(pk), perturbado |-> FALSE]

EntradasAbstratas ==
  {[oper |-> m.oper, disp |-> DispDe(m.id), prova |-> ProvaDe(m)]
     : m \in Entradas}

\* setup.py has run once and is not run again; the order of the tables, which
\* only clear_all looks at, is any one.
Ordem ==
  [t \in ({"ig", "eg"} \X (0..11)) \union ({"p4dra_ig"} \X (0..3))
           \union ({"p4dra_ig_fin"} \X (0..8)) \union ({"p4dra_eg_fin"} \X (0..1)) |-> 1]

SetupTerminado ==
  [modo |-> "pronto", n |-> 12 * (total_rodadas - 1) + 2 * NDisp + 15, antes |-> 0,
   execucao |-> 1, ordem |-> Ordem]

PktAbstrato == [p \in Pacotes |-> PacoteAbstrato(pkt[p])]

Tab == INSTANCE SwitchSetup WITH
         versao_forro <- 14, LarguraRodada <- 8, Entradas <- EntradasAbstratas,
         Dispositivos <- 1..NDisp, Chave <- <<[n \in 1..NDisp |-> n]>>,
         Ordens <- {Ordem}, MaxSetups <- 1,
         pkt <- PktAbstrato, setup <- SetupTerminado

(* With the tables complete the packet program does, traversal by           *)
(* traversal, what SwitchSetup says of it: the same rodadas hit and miss,   *)
(* an exact state stays exact through the twelve stages of every QR, and    *)
(* the three comparisons of the ingress and the one of the egress reject    *)
(* exactly the groups of words that are wrong.                              *)
ImplementaSetup == Tab!Init /\ [][Tab!Next]_(Tab!vars)
=============================================================================
