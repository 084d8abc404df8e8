------------------------------ MODULE P4Switch ------------------------------
(***************************************************************************)
(* The Tofino verifier: the packet program under TNA/p4src with the tables *)
(* TNA/bfrt_python/setup.py installs.  A reply (oper 2) is loaded with the *)
(* device's Forro state, recirculated 28 times with one QR per traversal   *)
(* of an ingress or an egress (oper 3), then finalised and compared with   *)
(* the proof it carries (oper 4); only a match leaves by the CPU port.     *)
(*                                                                         *)
(* The program keeps no registers: all of a verification's state is in its *)
(* packet, and the switch interleaves traversals of all packets.  One      *)
(* action is one traversal of one pipeline by one packet.                  *)
(***************************************************************************)
EXTENDS Forro

CONSTANTS
  Pacotes,       \* identities of the packets that may reach the switch
  Entradas,      \* what the hosts may send: [oper, rid, id, payload]
  Dispositivos,  \* id_dispositivo column of the file setup.py reads
  Chave          \* its key column, by id_dispositivo

VARIABLE
  pkt            \* headers, metadata and whereabouts of every packet

vars == <<pkt>>

Rid == [0..3 -> Word]
Id  == [0..3 -> Word]

ASSUME SwitchAssumption ==
  /\ Dispositivos \subseteq Id
  /\ Chave \in [Dispositivos -> [0..7 -> Word]]
  /\ Entradas \subseteq [oper : {0, 1, 2, 5}, rid : Rid, id : Id, payload : Estado]

porta_cliente == 0
porta_CPU == 1

\* Recirculation ports of the two pipes of the ASIC.
Recirculacao == {68, 196}

\* No egress port chosen yet.
SemPorta == -1

Portas == {porta_cliente, porta_CPU, SemPorta} \union Recirculacao

\* A field of a header that is not valid reads as zero.
Nulo == [i \in 0..15 |-> Zero]

Pkt == [lugar : {"rede", "ingress", "egress", "saida", "descarte"},
        oper : 0..5, rid : Rid, id : Id, payload : Estado,
        rodada : 0..255, v : Estado, porta : Portas]
-----------------------------------------------------------------------------
(***************************************************************************)
(* The QR actions: one file per QR, twelve single-operation actions each,  *)
(* on the operands a, b, c, d, e of the file.                              *)
(***************************************************************************)
i_qr0 == [op |-> <<0, 4,  8, 12, 3>>, porta |-> 68]
e_qr1 == [op |-> <<1, 5,  9, 13, 0>>]
i_qr2 == [op |-> <<2, 6, 10, 14, 1>>, porta |-> 196]
e_qr3 == [op |-> <<3, 7, 11, 15, 2>>]
i_qr4 == [op |-> <<0, 5, 10, 15, 3>>, porta |-> 68]
e_qr5 == [op |-> <<1, 6, 11, 12, 0>>]
i_qr6 == [op |-> <<2, 7,  8, 13, 1>>, porta |-> 196]
e_qr7 == [op |-> <<3, 4,  9, 14, 2>>]

\* The three shapes of a stage's single assignment.
Soma(s, x, y) == [s EXCEPT ![x] = Add(s[x], s[y])]
OuExclusivo(s, x, y) == [s EXCEPT ![x] = Xor(s[x], s[y])]
Gira(s, x, n) == [s EXCEPT ![x] = Rotl(s[x], n)]

\* What the action of stage i (the number after the i or e of its name) does.
Estagio(i, o, s) ==
  LET a == o[1]  b == o[2]  c == o[3]  d == o[4]  e == o[5]
  IN CASE i \in {0, 6}  -> Soma(s, d, e)
       [] i = 1         -> OuExclusivo(s, c, d)
       [] i = 2         -> Soma(s, b, c)
       [] i = 3         -> Gira(s, b, 10)
       [] i \in {4, 10} -> Soma(s, a, b)
       [] i = 5         -> OuExclusivo(s, e, a)
       [] i = 7         -> Gira(s, d, 27)
       [] i = 8         -> Soma(s, c, d)
       [] i = 9         -> OuExclusivo(s, b, c)
       [] OTHER         -> Gira(s, a, 8)

total_rodadas == 57

\* The QR action files in the order setup.py numbers them.
AcoesQR == <<i_qr0, e_qr1, i_qr2, e_qr3, i_qr4, e_qr5, i_qr6, e_qr7>>

\* setup.py: rodadas 1..56; odd ones in the ingress, even ones in the egress;
\* every stage of a traversal has the rules of the same rodadas.
RegrasIngress == {r \in 1..(total_rodadas - 1) : r % 2 = 1}
RegrasEgress  == {r \in 1..(total_rodadas - 1) : r % 2 = 0}
\* Mutant: rodada incremented where it should be decremented.
QRdaRodada_Adiantado(r) == AcoesQR[((r + 1) % 8) + 1]
QRdaRodada(r) == AcoesQR[((r - 1) % 8) + 1]

\* Mutant: the fin rule installed one rodada late.
RegraFin_Tarde(r) == r = total_rodadas

\* The action of the rule that sends a packet to the final comparison.
RegraFin(r) == r = total_rodadas - 1

\* tbl_forro_ig<i>: on a miss stage 0 does nothing, the others act as qr0.
tbl_forro_ig(i, r, s) ==
  CASE r \in RegrasIngress            -> Estagio(i, QRdaRodada(r).op, s)
    [] r \notin RegrasIngress /\ i = 0 -> s
    [] OTHER                          -> Estagio(i, i_qr0.op, s)

\* tbl_forro_eg<i>: a miss does nothing.
tbl_forro_eg(i, r, s) ==
  IF r \in RegrasEgress THEN Estagio(i, QRdaRodada(r).op, s) ELSE s

\* tbl_forro_{ig,eg}0.apply(); ... tbl_forro_{ig,eg}11.apply()
Travessia(tbl(_,_,_), r, s) ==
  LET s1 == tbl(0, r, s)     s2  == tbl(1, r, s1)   s3  == tbl(2, r, s2)
      s4 == tbl(3, r, s3)    s5  == tbl(4, r, s4)   s6  == tbl(5, r, s5)
      s7 == tbl(6, r, s6)    s8  == tbl(7, r, s7)   s9  == tbl(8, r, s8)
      s10 == tbl(9, r, s9)   s11 == tbl(10, r, s10)
  IN tbl(11, r, s11)
-----------------------------------------------------------------------------
(***************************************************************************)
(* The device rules of setup.py: both tables of a device hold its key and  *)
(* conf_ini (0x0) XOR its id, the id in the words 2, 3, 6 and 7.           *)
(***************************************************************************)
conf_param(id) ==
  [j \in 0..7 |-> Xor(Zero, CASE j \in 2..3 -> id[j - 2]
                              [] j \in 6..7 -> id[j - 4]
                              [] OTHER      -> Zero)]

\* Mutant: the keys of the file are installed without inverter_endianess.
RegrasDispositivos_ChaveDireta ==
  {[id |-> Inverte(d), key |-> Chave[d], conf |-> conf_param(Inverte(d))]
     : d \in Dispositivos}

RegrasDispositivos ==
  {[id |-> Inverte(d), key |-> Inverte(Chave[d]), conf |-> conf_param(Inverte(d))]
     : d \in Dispositivos}

Casa(id) == \E t \in RegrasDispositivos : t.id = id
Regra(id) == CHOOSE t \in RegrasDispositivos : t.id = id

\* carregar_estado_0 to carregar_estado_3_iniciar: the state a reply starts with.
carregar_estado(t, rid) ==
  [i \in 0..15 |->
     CASE i \in 0..3   -> t.key[i]
       [] i \in 4..5   -> Xor(t.conf[i - 4], rid[i - 4])
       [] i \in 6..7   -> t.conf[i - 4]
       [] i \in 8..11  -> t.key[i - 4]
       [] i \in 12..13 -> Xor(t.conf[i - 8], rid[i - 10])
       [] OTHER        -> t.conf[i - 8]]

\* Mutant: the last two words of id_rodada are added in the opposite order.
finalizar_forro_Trocado(pk) ==
  LET t == Regra(pk.id)
  IN [i \in 0..15 |->
        Add(pk.v[i],
            CASE i \in 0..3   -> t.key[i]
              [] i \in 4..5   -> Xor(t.conf[i - 4], pk.rid[i - 4])
              [] i \in 6..7   -> t.conf[i - 4]
              [] i \in 8..11  -> t.key[i - 4]
              [] i = 12       -> Xor(t.conf[4], pk.rid[3])
              [] i = 13       -> Xor(t.conf[5], pk.rid[2])
              [] OTHER        -> t.conf[i - 8])]

\* finalizar_forro_0 to finalizar_forro_4: the words of the initial state are
\* computed again from the device's rule and added to the cipher.  Without a
\* rule, conf0 to conf3 keep the parser's zero and stages 1 to 4 still act.
finalizar_forro(pk) ==
  IF Casa(pk.id)
    THEN LET t == Regra(pk.id)
         IN [i \in 0..15 |->
               Add(pk.v[i],
                   CASE i \in 0..3   -> t.key[i]
                     [] i = 4        -> Xor(t.conf[0], pk.rid[0])
                     [] i = 5        -> Xor(t.conf[1], pk.rid[1])
                     [] i \in 6..7   -> t.conf[i - 4]
                     [] i \in 8..11  -> t.key[i - 4]
                     [] i = 12       -> Xor(t.conf[4], pk.rid[2])
                     [] i = 13       -> Xor(t.conf[5], pk.rid[3])
                     [] OTHER        -> t.conf[i - 8])]
    ELSE [pk.v EXCEPT ![5]  = Add(@, pk.rid[1]),
                      ![12] = Add(@, pk.rid[2]),
                      ![13] = Add(@, pk.rid[3])]

\* tbl_p4dra_ig5_fin to tbl_p4dra_ig8_fin: three groups of words, each XORed
\* and required to be zero before the next; together words 15 down to 5.
verifica_ingress(v, payload) ==
  /\ \A i \in 12..15 : Xor(v[i], payload[i]) = Zero
  /\ \A i \in 8..11  : Xor(v[i], payload[i]) = Zero
  /\ \A i \in 5..7   : Xor(v[i], payload[i]) = Zero

\* Mutant: the egress compares one word too few.
verifica_egress_Curto(v, payload) == \A i \in 0..3 : Xor(v[i], payload[i]) = Zero

\* tbl_p4dra_eg0_fin and eg1_fin: the 160 bits of words 0 to 4.
verifica_egress(v, payload) == \A i \in 0..4 : Xor(v[i], payload[i]) = Zero
-----------------------------------------------------------------------------
(***************************************************************************)
(* Actions.  A packet is parsed again at every traversal, by its oper:     *)
(* after oper becomes 4 and forro_rodada is gone, the state words are read *)
(* as forro_cipher and the proof behind them as forro_payload; the egress  *)
(* reads the first five words of each.                                     *)
(***************************************************************************)
Init ==
  pkt = [p \in Pacotes |->
           [lugar |-> "rede", oper |-> 0, rid |-> [i \in 0..3 |-> Zero],
            id |-> [i \in 0..3 |-> Zero], payload |-> Nulo,
            rodada |-> 0, v |-> Nulo, porta |-> SemPorta]]

\* A packet of a host reaches a front-panel port.
Chega(p) ==
  /\ pkt[p].lugar = "rede"
  /\ \E m \in Entradas :
       pkt' = [pkt EXCEPT ![p] =
                 [lugar |-> "ingress", oper |-> m.oper, rid |-> m.rid, id |-> m.id,
                  payload |-> m.payload, rodada |-> 0, v |-> Nulo, porta |-> SemPorta]]

drop(pk) == [pk EXCEPT !.lugar = "descarte"]

\* ucast_egress_port = port; bypass_egress = 1; exit
SaiSemEgress(pk, port) ==
  [pk EXCEPT !.porta = port,
             !.lugar = IF port \in Recirculacao THEN "ingress" ELSE "saida"]

forward_request(pk) == SaiSemEgress([pk EXCEPT !.oper = 1], porta_cliente)

forward(pk) == SaiSemEgress(pk, porta_cliente)

\* Mutant: the start of a computation leaves by a port that is no port.
iniciar_PortaErrada(pk) ==
  SaiSemEgress([pk EXCEPT !.v = carregar_estado(Regra(pk.id), pk.rid),
                          !.rodada = 1, !.oper = 3], 68 + 127)

iniciar(pk) ==
  SaiSemEgress([pk EXCEPT !.v = carregar_estado(Regra(pk.id), pk.rid),
                          !.rodada = 1, !.oper = 3], 68 + 128)

\* tbl_p4dra_ig0 and, for a reply, ig1 to ig3.
IngressInicial(pk) ==
  CASE pk.oper = 0 -> forward_request(pk)
    [] pk.oper = 5 -> forward(pk)
    [] pk.oper = 2 /\ Casa(pk.id) -> iniciar(pk)
    [] OTHER -> drop(pk)

\* One QR in the ingress; its last stage counts the rodada and recirculates.
IngressForro(pk) ==
  [pk EXCEPT !.v = Travessia(tbl_forro_ig, pk.rodada, pk.v),
             !.rodada = (pk.rodada + 1) % 256,
             !.porta = IF pk.rodada \in RegrasIngress THEN QRdaRodada(pk.rodada).porta
                       ELSE i_qr0.porta,
             !.lugar = "egress"]

\* Mutant: a reply that fails the comparison is forwarded instead of dropped.
IngressVerifica_SemDrop(pk) ==
  LET x == finalizar_forro(pk)
  IN IF verifica_ingress(x, pk.payload)
       THEN [pk EXCEPT !.v = x, !.porta = porta_CPU, !.lugar = "egress"]
       ELSE forward(pk)

IngressVerifica(pk) ==
  LET x == finalizar_forro(pk)
  IN IF verifica_ingress(x, pk.payload)
       THEN [pk EXCEPT !.v = x, !.porta = porta_CPU, !.lugar = "egress"]
       ELSE drop(pk)

Ingress(p) ==
  /\ pkt[p].lugar = "ingress"
  /\ pkt' = [pkt EXCEPT ![p] = CASE @.oper = 3 -> IngressForro(@)
                                 [] @.oper = 4 -> IngressVerifica(@)
                                 [] OTHER      -> IngressInicial(@)]

\* Mutant: the fin action turns the packet into a reply again.
EgressForro_FinComoResposta(pk) ==
  LET x == [pk EXCEPT !.v = Travessia(tbl_forro_eg, pk.rodada, pk.v),
                      !.lugar = "ingress"]
  IN IF RegraFin(pk.rodada) THEN [x EXCEPT !.oper = 2, !.rodada = 0]
     ELSE [x EXCEPT !.rodada = (pk.rodada + 1) % 256]

\* One QR in the egress; e11_qr7_fin in place of e11_qr7 ends the permutation.
EgressForro(pk) ==
  LET x == [pk EXCEPT !.v = Travessia(tbl_forro_eg, pk.rodada, pk.v),
                      !.lugar = "ingress"]
  IN CASE RegraFin(pk.rodada) -> [x EXCEPT !.oper = 4, !.rodada = 0]
       [] pk.rodada \in RegrasEgress /\ ~RegraFin(pk.rodada)
            -> [x EXCEPT !.rodada = (pk.rodada + 1) % 256]
       [] OTHER -> x

EgressVerifica(pk) ==
  IF verifica_egress(pk.v, pk.payload) THEN [pk EXCEPT !.lugar = "saida"] ELSE drop(pk)

Egress(p) ==
  /\ pkt[p].lugar = "egress"
  /\ pkt' = [pkt EXCEPT ![p] = IF @.oper = 3 THEN EgressForro(@) ELSE EgressVerifica(@)]

Next == \E p \in Pacotes : Chega(p) \/ Ingress(p) \/ Egress(p)

Spec == Init /\ [][Next]_vars

\* The pipelines serve every packet (recirculation is not overloaded): weak
\* fairness of Ingress(p) \/ Egress(p), which is enabled exactly while p is in a
\* pipeline and is all that changes p there.
Servido(p) == \/ []<>(pkt[p].lugar \notin {"ingress", "egress"})
              \/ []<><<pkt[p]' # pkt[p]>>_vars

FairSpec == Spec /\ \A p \in Pacotes : Servido(p)

-----------------------------------------------------------------------------
TypeOK == pkt \in [Pacotes -> Pkt]

\* The proof the trusted application of the registered device would have sent,
\* in the byte order of the packet.
ProvaEsperada(id, rid) ==
  LET d == Inverte(id) IN Inverte(Prova(Chave[d], d, Inverte(rid)))

Registrado(id) == Inverte(id) \in Dispositivos

(* A packet that leaves by the CPU port, the switch's statement that a      *)
(* device is attested, is a reply of a registered device and carries the    *)
(* proof the device's trusted application computes for its id_rodada: the   *)
(* traversals of table-driven stages add up to reply_proof.                 *)
SoAceitaProvaCorreta ==
  \A p \in Pacotes :
    pkt[p].lugar = "saida" /\ pkt[p].porta = porta_CPU =>
      /\ pkt[p].oper = 4
      /\ Registrado(pkt[p].id)
      /\ pkt[p].payload = ProvaEsperada(pkt[p].id, pkt[p].rid)

(* No correct reply is thrown away: a dropped packet was a request, or came *)
(* from an unknown device, or carried a wrong proof.                        *)
SoDescartaProvaErrada ==
  \A p \in Pacotes :
    pkt[p].lugar = "descarte" /\ pkt[p].oper # 1 =>
      \/ ~Registrado(pkt[p].id)
      \/ pkt[p].payload # ProvaEsperada(pkt[p].id, pkt[p].rid)

(* The Forro tables never miss: a packet under computation meets a rule in  *)
(* every traversal, so the default qr0 actions of tbl_forro_ig never run.   *)
NenhumMiss ==
  \A p \in Pacotes :
    pkt[p].oper = 3 =>
      /\ pkt[p].lugar = "ingress" => pkt[p].rodada \in RegrasIngress
      /\ pkt[p].lugar = "egress"  => pkt[p].rodada \in RegrasEgress

(* No packet recirculates for good: the counter reaches the fin rule, and    *)
(* whatever enters the switch leaves it or is dropped.                      *)
TodoPacoteDecidido ==
  \A p \in Pacotes : pkt[p].lugar = "ingress" ~> pkt[p].lugar \in {"saida", "descarte"}

\* Traversals before the verdict on a packet, if its first comparison succeeds.
Restantes(pk) ==
  IF pk.lugar \notin {"ingress", "egress"} THEN 0
  ELSE CASE pk.oper = 3 -> total_rodadas + 2 - pk.rodada
         [] pk.oper = 4 -> IF pk.lugar = "ingress" THEN 2 ELSE 1
         [] pk.oper = 2 /\ Registrado(pk.id) -> total_rodadas + 2
         [] OTHER -> 1

(* No packet takes a short cut or a detour: every traversal of a reply of a  *)
(* registered device is one of the 59 between its arrival and its verdict,   *)
(* and only the first comparison may end it earlier, by dropping it.  The    *)
(* other packets are forwarded or dropped by their first traversal.          *)
TravessiasContadas ==
  [][\A p \in Pacotes :
       pkt[p].lugar \in {"ingress", "egress"} /\ pkt'[p] # pkt[p] =>
         \/ Restantes(pkt'[p]) = Restantes(pkt[p]) - 1
         \/ pkt[p].oper = 4 /\ pkt'[p].lugar = "descarte"]_vars
-----------------------------------------------------------------------------
(***************************************************************************)
(* The switch implements Verificador: the traversals of a reply before its *)
(* last are stutters, and the oper a packet carries while it is being      *)
(* computed on, or after a start became a request, stands for the one it   *)
(* arrived with.                                                           *)
(***************************************************************************)
Valida(id, rid, payload) ==
  Registrado(id) /\ payload = ProvaEsperada(id, rid)

Fase(pk) ==
  CASE pk.lugar = "rede"               -> "rede"
    [] pk.lugar \in {"ingress", "egress"} -> "pendente"
    [] pk.lugar = "saida"              -> IF pk.porta = porta_CPU THEN "atestada"
                                          ELSE "encaminhada"
    [] OTHER                           -> "descartada"

OperDeChegada(pk) ==
  CASE pk.oper \in {3, 4} -> 2
    [] pk.oper = 1 /\ pk.lugar = "saida" -> 0
    [] OTHER -> pk.oper

CasoDe(pk) ==
  IF pk.lugar = "rede" THEN [fase |-> "rede"]
  ELSE [fase |-> Fase(pk), oper |-> OperDeChegada(pk), rid |-> pk.rid, id |-> pk.id,
        payload |-> pk.payload]

CasoAbstrato == [p \in Pacotes |-> CasoDe(pkt[p])]

Abs == INSTANCE Verificador WITH caso <- CasoAbstrato

(* Every behaviour of the switch is one of the abstract verifier: a reply   *)
(* is attested if and only if its proof is valid, the verdict is given once *)
(* and never revised, and no header a verdict depends on changes on the     *)
(* way through the pipelines.                                               *)
ImplementaVerificador == Abs!Spec
-----------------------------------------------------------------------------
(***************************************************************************)
(* The inductive invariant behind both properties: what a packet carries   *)
(* at each point of its way.                                               *)
(***************************************************************************)
\* The state the trusted application starts from for this device and round.
Ini(pk) ==
  LET d == Inverte(pk.id) IN EstadoInicial(Chave[d], d, Inverte(pk.rid))

\* Its state after n of the 56 QRs.
Parcial(n, s) == PrimeirosQRs(n % 8, Iteracoes(n \div 8, s))

EmCalculo(pk) ==
  Registrado(pk.id) /\ pk.oper = 3 /\ pk.v = Parcial(pk.rodada - 1, Ini(pk))

InvIngress(pk) ==
  \/ pk.oper \in {0, 1, 2, 5}
  \/ EmCalculo(pk) /\ pk.rodada \in RegrasIngress
  \/ Registrado(pk.id) /\ pk.oper = 4 /\ pk.v = Iteracoes(rounds, Ini(pk))

InvEgress(pk) ==
  \/ EmCalculo(pk) /\ pk.rodada \in RegrasEgress
  \/ /\ Registrado(pk.id) /\ pk.oper = 4 /\ pk.porta = porta_CPU
     /\ pk.v = forro(Ini(pk))
     /\ \A i \in 5..15 : pk.v[i] = pk.payload[i]

InvSaida(pk) ==
  \/ pk.porta = porta_cliente /\ pk.oper \in {1, 5}
  \/ /\ pk.porta = porta_CPU /\ pk.oper = 4
     /\ Registrado(pk.id) /\ pk.payload = forro(Ini(pk))

InvDescarte(pk) ==
  \/ pk.oper = 1
  \/ pk.oper \in {2, 4} /\ ~(Registrado(pk.id) /\ pk.payload = forro(Ini(pk)))

InvPkt(pk) ==
  /\ pk.lugar = "ingress"  => InvIngress(pk)
  /\ pk.lugar = "egress"   => InvEgress(pk)
  /\ pk.lugar = "saida"    => InvSaida(pk)
  /\ pk.lugar = "descarte" => InvDescarte(pk)

(* At every traversal boundary a packet under computation holds exactly the *)
(* state reply_proof holds after as many QRs, and at the end the words that *)
(* were already compared are equal.                                         *)
EstadoSegueProva == \A p \in Pacotes : InvPkt(pkt[p])
=============================================================================
