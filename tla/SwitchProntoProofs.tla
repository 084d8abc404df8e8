------------------------- MODULE SwitchProntoProofs -------------------------
(***************************************************************************)
(* The switch on words implements SwitchSetup with complete tables, for    *)
(* every word algebra, every set of packets, devices and keys: what        *)
(* SwitchSetupProofs says of packets that are only exact or not holds of   *)
(* the packet program.                                                     *)
(***************************************************************************)
EXTENDS SwitchPronto, P4SwitchProofs, FunctionTheorems, FiniteSetTheorems

\* Every device has its line of the data file, and only a device has one.
LEMMA LinhaDoDispositivo ==
  /\ NDisp \in Nat
  /\ \A id : Registrado(id) => DispDe(id) \in 1..NDisp
  /\ \A id : ~Registrado(id) => DispDe(id) = 0 /\ DispDe(id) \notin 1..NDisp
<1>1. NDisp \in Nat /\ ExistsBijection(1..NDisp, Dispositivos)
  BY ProntoAssumption, FS_CardinalityType DEF NDisp
<1>2. ExistsBijection(Dispositivos, 1..NDisp)
  BY <1>1, Fun_ExistsBijSymmetric
<1>3. \E f : f \in Linhas
  BY <1>2 DEF ExistsBijection, Bijection, Injection, Surjection, IsInjective, Linhas
<1>4. Linha \in Linhas
  BY <1>3 DEF Linha
<1>5. Linha \in [Dispositivos -> 1..NDisp]
  BY <1>4 DEF Linhas
<1> QED
  BY <1>1, <1>5 DEF DispDe, Registrado

\* Where the rules of the devices end, and how many rules there are.
LEMMA TotalDasRegras ==
  /\ Tab!total_rodadas = 57 /\ Tab!PosFin = 672 /\ Tab!PosPadrao = 672 + 2 * NDisp
  /\ Tab!TotalRegras = 12 * (total_rodadas - 1) + 2 * NDisp + 15
<1>1. NDisp \in Nat
  BY LinhaDoDispositivo
<1>2. Tab!total_rodadas = 57
  BY DEF Tab!total_rodadas
<1>3. Cardinality(1..NDisp) = NDisp
  <2>1. Cardinality(1..NDisp) = IF 1 > NDisp THEN 0 ELSE NDisp - 1 + 1
    <3>1. 1 \in Int /\ NDisp \in Int
      BY <1>1
    <3> QED
      BY <3>1, FS_Interval, Zenon
  <2> QED
    BY <1>1, <2>1
<1>4. Tab!PosFin = 672 /\ Tab!PosPadrao = 672 + 2 * NDisp
  <2>1. Tab!Cardinality(1..NDisp) = Cardinality(1..NDisp)
    BY Zenon DEF Tab!Cardinality, Cardinality
  <2> QED
    BY <1>1, <1>2, <1>3, <2>1 DEF Tab!PosFin, Tab!PosPadrao
<1> QED
  BY <1>1, <1>2, <1>4 DEF Tab!TotalRegras, total_rodadas

\* The tables of the instance are complete: every lookup finds its rule.
LEMMA TabelasCompletas ==
  /\ Tab!total_rodadas = 57 /\ Tab!Versao = 1
  /\ \A t : Tab!Tem(t, Tab!PosStart) /\ Tab!Tem(t, Tab!PosSetup)
  /\ \A t : \A d \in 1..NDisp : Tab!Tem(t, Tab!PosCarrega(d)) /\ Tab!Tem(t, Tab!PosFinaliza(d))
  /\ \A t : \A i \in 1..3 : Tab!Tem(t, Tab!PosIg(i))
  /\ \A t : \A i \in 1..8 : Tab!Tem(t, Tab!PosIgFin(i))
  /\ \A t : \A i \in 0..1 : Tab!Tem(t, Tab!PosEgFin(i))
  /\ \A r \in 1..56, i \in Tab!Estagios :
       /\ r % 2 = 1 => Tab!Acerta("ig", i, r)
       /\ r % 2 = 0 => Tab!Acerta("eg", i, r)
  /\ \A r \in 0..255 : Tab!Mais1(r) = (r + 1) % 256
<1> DEFINE T == 12 * 56 + 2 * NDisp + 15
<1>1. NDisp \in Nat
  BY LinhaDoDispositivo
<1>2. Tab!total_rodadas = 57
  BY DEF Tab!total_rodadas
<1>3. SetupTerminado.modo = "pronto" /\ SetupTerminado.n = T /\ SetupTerminado.execucao = 1
  BY DEF SetupTerminado, total_rodadas
<1>4. \A t, pos : Tab!Tem(t, pos) <=> pos <= T
  BY <1>3 DEF Tab!Tem
<1>5. Tab!Versao = 1
  BY <1>3 DEF Tab!Versao
<1>7. Tab!PosFin = 672 /\ Tab!PosPadrao = 672 + 2 * NDisp
  BY TotalDasRegras
<1>8. /\ Tab!PosStart <= T /\ Tab!PosSetup <= T
      /\ \A i \in 1..3 : Tab!PosIg(i) <= T
      /\ \A i \in 1..8 : Tab!PosIgFin(i) <= T
      /\ \A i \in 0..1 : Tab!PosEgFin(i) <= T
  BY <1>1, <1>7 DEF Tab!PosStart, Tab!PosSetup, Tab!PosIg, Tab!PosIgFin, Tab!PosEgFin
<1>9. \A d \in 1..NDisp : Tab!PosCarrega(d) <= T /\ Tab!PosFinaliza(d) <= T
  BY <1>1, <1>7 DEF Tab!PosCarrega, Tab!PosFinaliza
<1>10. \A r \in 1..56, i \in Tab!Estagios :
         /\ r % 2 = 1 => Tab!Acerta("ig", i, r)
         /\ r % 2 = 0 => Tab!Acerta("eg", i, r)
  <2>1. \A r \in 1..56, i \in Tab!Estagios : Tab!PosForro(r, i) <= T
    BY <1>1 DEF Tab!PosForro, Tab!Estagios
  <2> QED
    BY <1>2, <1>4, <2>1 DEF Tab!Acerta
<1>11. \A r \in 0..255 : Tab!Mais1(r) = (r + 1) % 256
  BY ProntoAssumption DEF Tab!Mais1
<1> HIDE DEF T
<1> QED
  BY <1>2, <1>4, <1>5, <1>8, <1>9, <1>10, <1>11

\* What the tables of states and proofs of the mapping hold for a packet.
LEMMA TabelasDaConversa ==
  ASSUME NEW pk \in Pkt, Registrado(pk.id), <<pk.id, pk.rid>> \in Conversas
  PROVE  /\ \A n \in 0..56 : Estados[<<pk.id, pk.rid>>][n] = Parcial(n, Ini(pk))
         /\ Estados[<<pk.id, pk.rid>>][56] = Iteracoes(rounds, Ini(pk))
         /\ Provas[<<pk.id, pk.rid>>] = forro(Ini(pk))
<1> DEFINE c == <<pk.id, pk.rid>>
           k == [id |-> c[1], rid |-> c[2]]
<1>1. c[1] = pk.id /\ c[2] = pk.rid
  OBVIOUS
<1>2. Ini(k) = Ini(pk)
  BY DEF Ini
<1>3. Estados[c] = [n \in 0..56 |-> Parcial(n, Ini(k))]
  BY <1>1 DEF Estados
<1>4. \A n \in 0..56 : Estados[c][n] = Parcial(n, Ini(pk))
  <2> HIDE DEF k
  <2> QED
    BY <1>2, <1>3
<1>5. Parcial(56, Ini(pk)) = Iteracoes(rounds, Ini(pk))
  BY EstadoCarregado, ParcialPasso DEF rounds
<1>6. Provas[c] = forro(Ini(pk))
  BY <1>1, ProvaEsperadaEhForro DEF Provas
<1> QED
  BY <1>4, <1>5, <1>6

-----------------------------------------------------------------------------
(***************************************************************************)
(* The abstract packet of a packet that satisfies the invariant.           *)
(***************************************************************************)
\* A packet whose id and id_rodada came from a host.
Conversa(pk) == pk \in Pkt /\ <<pk.id, pk.rid>> \in Conversas

\* Which groups of words are wrong.
LEMMA GruposErrados ==
  ASSUME NEW pk, Conversa(pk), Registrado(pk.id)
  PROVE  /\ ProvaDe(pk).erro = Errados(pk) /\ ProvaDe(pk).chave = DispDe(pk.id)
         /\ Errados(pk) \subseteq {"A", "B", "C", "D"}
         /\ "A" \notin Errados(pk) /\ "B" \notin Errados(pk) /\ "C" \notin Errados(pk)
              <=> \A i \in 5..15 : pk.payload[i] = forro(Ini(pk))[i]
         /\ "D" \notin Errados(pk) <=> \A i \in 0..4 : pk.payload[i] = forro(Ini(pk))[i]
<1> DEFINE f == forro(Ini(pk))
<1>1. Provas[<<pk.id, pk.rid>>] = f
  BY TabelasDaConversa DEF Conversa
<1>2. /\ Palavras("A") = 12..15 /\ Palavras("B") = 8..11 /\ Palavras("C") = 5..7
      /\ Palavras("D") = 0..4
  BY DEF Palavras
<1> HIDE DEF f
<1>3. \A g \in {"A", "B", "C", "D"} :
        g \in Errados(pk) <=> \E i \in Palavras(g) : pk.payload[i] # f[i]
  BY <1>1 DEF Errados
<1>4. "D" \notin Errados(pk) <=> \A i \in 0..4 : pk.payload[i] = f[i]
  BY <1>2, <1>3
<1>5. /\ "A" \notin Errados(pk) <=> \A i \in 12..15 : pk.payload[i] = f[i]
      /\ "B" \notin Errados(pk) <=> \A i \in 8..11 : pk.payload[i] = f[i]
      /\ "C" \notin Errados(pk) <=> \A i \in 5..7 : pk.payload[i] = f[i]
  BY <1>2, <1>3
<1>6. "A" \notin Errados(pk) /\ "B" \notin Errados(pk) /\ "C" \notin Errados(pk)
        <=> \A i \in 5..15 : pk.payload[i] = f[i]
  BY <1>5
<1>7. ProvaDe(pk).erro = Errados(pk) /\ ProvaDe(pk).chave = DispDe(pk.id)
  BY DEF ProvaDe
<1>8. Errados(pk) \subseteq {"A", "B", "C", "D"}
  BY DEF Errados
<1> QED
  BY <1>4, <1>6, <1>7, <1>8 DEF f

\* The abstract packet, field by field, with x for exato.  The provers handle a
\* record better when a Boolean in it is a name.
Sim == TRUE
Nao == FALSE

Registro(l, o, d, f, r, k, x, z) ==
  [lugar |-> l, oper |-> o, disp |-> d, prova |-> f, rodada |-> r, chave |-> k, exato |-> x,
   perturbado |-> z]

Forma(pk, k, x) ==
  Registro(pk.lugar, pk.oper, DispDe(pk.id), ProvaDe(pk), pk.rodada, k, x, Nao)

LEMMA MudaLugar ==
  ASSUME NEW l, NEW o, NEW d, NEW f, NEW r, NEW k, NEW x, NEW z, NEW n
  PROVE  [Registro(l, o, d, f, r, k, x, z) EXCEPT !.lugar = n] = Registro(n, o, d, f, r, k, x, z)
BY DEF Registro

LEMMA MudaOper ==
  ASSUME NEW l, NEW o, NEW d, NEW f, NEW r, NEW k, NEW x, NEW z, NEW n
  PROVE  [Registro(l, o, d, f, r, k, x, z) EXCEPT !.oper = n] = Registro(l, n, d, f, r, k, x, z)
BY DEF Registro

LEMMA MudaRodada ==
  ASSUME NEW l, NEW o, NEW d, NEW f, NEW r, NEW k, NEW x, NEW z, NEW n
  PROVE  [Registro(l, o, d, f, r, k, x, z) EXCEPT !.rodada = n] = Registro(l, o, d, f, n, k, x, z)
BY DEF Registro

LEMMA MudaChave ==
  ASSUME NEW l, NEW o, NEW d, NEW f, NEW r, NEW k, NEW x, NEW z, NEW n
  PROVE  [Registro(l, o, d, f, r, k, x, z) EXCEPT !.chave = n] = Registro(l, o, d, f, r, n, x, z)
BY DEF Registro

LEMMA MudaExato ==
  ASSUME NEW l, NEW o, NEW d, NEW f, NEW r, NEW k, NEW x, NEW z, NEW n
  PROVE  [Registro(l, o, d, f, r, k, x, z) EXCEPT !.exato = n] = Registro(l, o, d, f, r, k, n, z)
BY DEF Registro

\* The updates of several fields the packet program makes.
ComOperLugar(a, o2, l2) ==
  [a EXCEPT !.oper = o2, !.lugar = l2]
ComLugarExato(a, l2, x2) ==
  [a EXCEPT !.lugar = l2, !.exato = x2]
ComQRIngress(a, x2, r2, l2) ==
  [a EXCEPT !.exato = x2, !.rodada = r2, !.lugar = l2]
ComQREgress(a, x2, o2, r2, l2) ==
  [a EXCEPT !.exato = x2, !.oper = o2, !.rodada = r2, !.lugar = l2]
ComInicio(a, o2, r2, k2, x2) ==
  [a EXCEPT !.oper = o2, !.rodada = r2, !.chave = k2, !.exato = x2]

\* They are made one field at a time.
LEMMA MudaOperLugar ==
  ASSUME NEW l, NEW o, NEW d, NEW f, NEW r, NEW k, NEW x, NEW z,
         NEW o2, NEW l2
  PROVE  ComOperLugar(Registro(l, o, d, f, r, k, x, z), o2, l2)
           = Registro(l2, o2, d, f, r, k, x, z)
<1> DEFINE a == Registro(l, o, d, f, r, k, x, z)
<1>1. [Registro(l, o, d, f, r, k, x, z) EXCEPT !.oper = o2]
        = Registro(l, o2, d, f, r, k, x, z)
  BY MudaOper
<1>2. [Registro(l, o2, d, f, r, k, x, z) EXCEPT !.lugar = l2]
        = Registro(l2, o2, d, f, r, k, x, z)
  BY MudaLugar
<1>3. ComOperLugar(a, o2, l2)
        = [[a EXCEPT !.oper = o2] EXCEPT !.lugar = l2]
  BY DEF ComOperLugar
<1> QED
  BY <1>1, <1>2, <1>3, Zenon

LEMMA MudaLugarExato ==
  ASSUME NEW l, NEW o, NEW d, NEW f, NEW r, NEW k, NEW x, NEW z,
         NEW l2, NEW x2
  PROVE  ComLugarExato(Registro(l, o, d, f, r, k, x, z), l2, x2)
           = Registro(l2, o, d, f, r, k, x2, z)
<1> DEFINE a == Registro(l, o, d, f, r, k, x, z)
<1>1. [Registro(l, o, d, f, r, k, x, z) EXCEPT !.lugar = l2]
        = Registro(l2, o, d, f, r, k, x, z)
  BY MudaLugar
<1>2. [Registro(l2, o, d, f, r, k, x, z) EXCEPT !.exato = x2]
        = Registro(l2, o, d, f, r, k, x2, z)
  BY MudaExato
<1>3. ComLugarExato(a, l2, x2)
        = [[a EXCEPT !.lugar = l2] EXCEPT !.exato = x2]
  BY DEF ComLugarExato
<1> QED
  BY <1>1, <1>2, <1>3, Zenon

LEMMA MudaQRIngress ==
  ASSUME NEW l, NEW o, NEW d, NEW f, NEW r, NEW k, NEW x, NEW z,
         NEW x2, NEW r2, NEW l2
  PROVE  ComQRIngress(Registro(l, o, d, f, r, k, x, z), x2, r2, l2)
           = Registro(l2, o, d, f, r2, k, x2, z)
<1> DEFINE a == Registro(l, o, d, f, r, k, x, z)
<1>1. [Registro(l, o, d, f, r, k, x, z) EXCEPT !.exato = x2]
        = Registro(l, o, d, f, r, k, x2, z)
  BY MudaExato
<1>2. [Registro(l, o, d, f, r, k, x2, z) EXCEPT !.rodada = r2]
        = Registro(l, o, d, f, r2, k, x2, z)
  BY MudaRodada
<1>3. [Registro(l, o, d, f, r2, k, x2, z) EXCEPT !.lugar = l2]
        = Registro(l2, o, d, f, r2, k, x2, z)
  BY MudaLugar
<1>4. ComQRIngress(a, x2, r2, l2)
        = [[[a EXCEPT !.exato = x2] EXCEPT !.rodada = r2] EXCEPT !.lugar = l2]
  BY DEF ComQRIngress
<1> QED
  BY <1>1, <1>2, <1>3, <1>4, Zenon

LEMMA MudaQREgress ==
  ASSUME NEW l, NEW o, NEW d, NEW f, NEW r, NEW k, NEW x, NEW z,
         NEW x2, NEW o2, NEW r2, NEW l2
  PROVE  ComQREgress(Registro(l, o, d, f, r, k, x, z), x2, o2, r2, l2)
           = Registro(l2, o2, d, f, r2, k, x2, z)
<1> DEFINE a == Registro(l, o, d, f, r, k, x, z)
<1>1. [Registro(l, o, d, f, r, k, x, z) EXCEPT !.exato = x2]
        = Registro(l, o, d, f, r, k, x2, z)
  BY MudaExato
<1>2. [Registro(l, o, d, f, r, k, x2, z) EXCEPT !.oper = o2]
        = Registro(l, o2, d, f, r, k, x2, z)
  BY MudaOper
<1>3. [Registro(l, o2, d, f, r, k, x2, z) EXCEPT !.rodada = r2]
        = Registro(l, o2, d, f, r2, k, x2, z)
  BY MudaRodada
<1>4. [Registro(l, o2, d, f, r2, k, x2, z) EXCEPT !.lugar = l2]
        = Registro(l2, o2, d, f, r2, k, x2, z)
  BY MudaLugar
<1>5. ComQREgress(a, x2, o2, r2, l2)
        = [[[[a EXCEPT !.exato = x2] EXCEPT !.oper = o2] EXCEPT !.rodada = r2] EXCEPT !.lugar = l2]
  BY DEF ComQREgress
<1> QED
  BY <1>1, <1>2, <1>3, <1>4, <1>5, Zenon

LEMMA MudaInicio ==
  ASSUME NEW l, NEW o, NEW d, NEW f, NEW r, NEW k, NEW x, NEW z,
         NEW o2, NEW r2, NEW k2, NEW x2
  PROVE  ComInicio(Registro(l, o, d, f, r, k, x, z), o2, r2, k2, x2)
           = Registro(l, o2, d, f, r2, k2, x2, z)
<1> DEFINE a == Registro(l, o, d, f, r, k, x, z)
<1>1. [Registro(l, o, d, f, r, k, x, z) EXCEPT !.oper = o2]
        = Registro(l, o2, d, f, r, k, x, z)
  BY MudaOper
<1>2. [Registro(l, o2, d, f, r, k, x, z) EXCEPT !.rodada = r2]
        = Registro(l, o2, d, f, r2, k, x, z)
  BY MudaRodada
<1>3. [Registro(l, o2, d, f, r2, k, x, z) EXCEPT !.chave = k2]
        = Registro(l, o2, d, f, r2, k2, x, z)
  BY MudaChave
<1>4. [Registro(l, o2, d, f, r2, k2, x, z) EXCEPT !.exato = x2]
        = Registro(l, o2, d, f, r2, k2, x2, z)
  BY MudaExato
<1>5. ComInicio(a, o2, r2, k2, x2)
        = [[[[a EXCEPT !.oper = o2] EXCEPT !.rodada = r2] EXCEPT !.chave = k2] EXCEPT !.exato = x2]
  BY DEF ComInicio
<1> QED
  BY <1>1, <1>2, <1>3, <1>4, <1>5, Zenon

LEMMA CamposDaForma ==
  ASSUME NEW pk, NEW k, NEW x
  PROVE  /\ Forma(pk, k, x).lugar = pk.lugar /\ Forma(pk, k, x).oper = pk.oper
         /\ Forma(pk, k, x).disp = DispDe(pk.id) /\ Forma(pk, k, x).prova = ProvaDe(pk)
         /\ Forma(pk, k, x).rodada = pk.rodada /\ Forma(pk, k, x).chave = k
         /\ Forma(pk, k, x).exato = x
BY DEF Forma, Registro

\* A state under computation is exact; after the finalisation the packet is
\* exact if the five words left are the proof's.
LEMMA AbstratoDe ==
  ASSUME NEW pk, Conversa(pk), InvPkt(pk), pk.lugar # "rede"
  PROVE  /\ pk.oper \notin {3, 4} => PacoteAbstrato(pk) = Forma(pk, 0, Nao)
         /\ pk.oper = 3 /\ pk.lugar \in {"ingress", "egress"}
              => PacoteAbstrato(pk) = Forma(pk, DispDe(pk.id), Sim)
         /\ pk.oper = 4 /\ pk.lugar = "ingress"
              => PacoteAbstrato(pk) = Forma(pk, DispDe(pk.id), Sim)
         /\ pk.oper = 4 /\ pk.lugar = "egress"
              => PacoteAbstrato(pk) = Forma(pk, DispDe(pk.id), "D" \notin Errados(pk))
         /\ pk.oper = 4 /\ pk.lugar \in {"saida", "descarte"}
              => PacoteAbstrato(pk) = Forma(pk, DispDe(pk.id), Errados(pk) # {"D"})
<1>1. PacoteAbstrato(pk) = Forma(pk, IF pk.oper \in {3, 4} THEN DispDe(pk.id) ELSE 0, Exato(pk))
  BY DEF PacoteAbstrato, Forma, Registro, Nao
<1>2. ASSUME pk.oper \notin {3, 4}
      PROVE  PacoteAbstrato(pk) = Forma(pk, 0, Nao)
  <2>1. Exato(pk) = Nao
    BY <1>2 DEF Exato, Nao
  <2> QED
    BY <1>1, <1>2, <2>1
<1>3. ASSUME pk.oper = 3, pk.lugar \in {"ingress", "egress"}
      PROVE  PacoteAbstrato(pk) = Forma(pk, DispDe(pk.id), Sim)
  <2>1. EmCalculo(pk) /\ (pk.rodada \in RegrasIngress \/ pk.rodada \in RegrasEgress)
    BY <1>3 DEF InvPkt, InvIngress, InvEgress
  <2>2. pk.rodada - 1 \in 0..56
    BY <2>1 DEF RegrasIngress, RegrasEgress, total_rodadas
  <2>3. Registrado(pk.id) /\ pk.v = Parcial(pk.rodada - 1, Ini(pk))
    BY <2>1 DEF EmCalculo
  <2>4. pk.v = Estados[<<pk.id, pk.rid>>][pk.rodada - 1]
    BY <2>2, <2>3, TabelasDaConversa DEF Conversa
  <2>5. Exato(pk) = Sim
    BY <1>3, <2>4 DEF Exato, Sim
  <2> QED
    BY <1>1, <1>3, <2>5
<1>4. ASSUME pk.oper = 4, pk.lugar = "ingress"
      PROVE  PacoteAbstrato(pk) = Forma(pk, DispDe(pk.id), Sim)
  <2>1. Registrado(pk.id) /\ pk.v = Iteracoes(rounds, Ini(pk))
    BY <1>4 DEF InvPkt, InvIngress, EmCalculo
  <2>2. pk.v = Estados[<<pk.id, pk.rid>>][56]
    BY <2>1, TabelasDaConversa DEF Conversa
  <2>3. Exato(pk) = Sim
    BY <1>4, <2>2 DEF Exato, Sim
  <2> QED
    BY <1>1, <1>4, <2>3
<1>5. ASSUME pk.oper = 4, pk.lugar = "egress"
      PROVE  PacoteAbstrato(pk) = Forma(pk, DispDe(pk.id), "D" \notin Errados(pk))
  <2>1. Registrado(pk.id) /\ pk.v = forro(Ini(pk))
    BY <1>5 DEF InvPkt, InvEgress, EmCalculo
  <2>2. Exato(pk) = (\A i \in 0..4 : pk.v[i] = pk.payload[i])
    BY <1>5 DEF Exato
  <2>3. (\A i \in 0..4 : pk.v[i] = pk.payload[i]) <=> "D" \notin Errados(pk)
    BY <2>1, GruposErrados
  <2>4. Exato(pk) = ("D" \notin Errados(pk))
    BY <2>2, <2>3
  <2> QED
    BY <1>1, <1>5, <2>4
<1>6. ASSUME pk.oper = 4, pk.lugar \in {"saida", "descarte"}
      PROVE  PacoteAbstrato(pk) = Forma(pk, DispDe(pk.id), Errados(pk) # {"D"})
  <2>1. Exato(pk) = (Errados(pk) # {"D"})
    BY <1>6 DEF Exato
  <2> QED
    BY <1>1, <1>6, <2>1
<1> QED
  BY <1>2, <1>3, <1>4, <1>5, <1>6
-----------------------------------------------------------------------------
(***************************************************************************)
(* A traversal of the abstract packet is the abstraction of the traversal. *)
(***************************************************************************)
\* A traversal changes nothing the proof or the device is read from.
LEMMA MesmaConversa ==
  ASSUME NEW pk, NEW q, Conversa(pk), Passo(pk, q)
  PROVE  /\ Conversa(q) /\ InvPkt(q) /\ q.lugar # "rede"
         /\ DispDe(q.id) = DispDe(pk.id) /\ ProvaDe(q) = ProvaDe(pk)
         /\ Errados(q) = Errados(pk)
<1>1. /\ q \in Pkt /\ InvPkt(q) /\ q.lugar # "rede"
      /\ q.id = pk.id /\ q.rid = pk.rid /\ q.payload = pk.payload
  BY DEF Passo
<1>2. Errados(q) = Errados(pk)
  BY <1>1 DEF Errados
<1> QED
  BY <1>1, <1>2 DEF Conversa, ProvaDe

\* The abstract packet before and after a traversal.
LEMMA FormaDepois ==
  ASSUME NEW pk, NEW q, Conversa(pk), Passo(pk, q), NEW k, NEW x
  PROVE  /\ Forma(pk, k, x) = Registro(pk.lugar, pk.oper, DispDe(pk.id), ProvaDe(pk),
                                       pk.rodada, k, x, Nao)
         /\ Forma(q, k, x) = Registro(q.lugar, q.oper, DispDe(pk.id), ProvaDe(pk),
                                      q.rodada, k, x, Nao)
BY MesmaConversa DEF Forma

\* One QR in the ingress: every stage finds its rule.
LEMMA AbstratoIngressForro ==
  ASSUME NEW pk, Conversa(pk), InvPkt(pk), pk.lugar = "ingress", pk.oper = 3,
         Passo(pk, IngressForro(pk))
  PROVE  PacoteAbstrato(IngressForro(pk)) = Tab!IngressForro(PacoteAbstrato(pk))
<1> DEFINE q == IngressForro(pk)
           D == DispDe(pk.id)
           a == Forma(pk, D, Sim)
           n == (pk.rodada + 1) % 256
<1>1. PacoteAbstrato(pk) = a
  BY AbstratoDe
<1>2. pk.rodada \in 1..56 /\ pk.rodada % 2 = 1
  BY DEF InvPkt, InvIngress, EmCalculo, RegrasIngress, total_rodadas
<1>3. q.lugar = "egress" /\ q.oper = 3 /\ q.rodada = n
  BY DEF IngressForro, Conversa, Pkt
<1> HIDE DEF q
<1>4. PacoteAbstrato(q) = Forma(q, D, Sim)
  BY <1>3, MesmaConversa, AbstratoDe DEF q
<1>5. a.exato = Sim /\ a.rodada = pk.rodada
  BY CamposDaForma
<1>6. /\ \A i \in Tab!Estagios : Tab!Acerta("ig", i, pk.rodada)
      /\ Tab!Mais1(pk.rodada) = n
  BY <1>2, TabelasCompletas
<1>7. Tab!IngressForro(a) = ComQRIngress(a, Sim, n, "egress")
  <2> HIDE DEF a, n
  <2>1. (a.exato /\ \A i \in Tab!Estagios : Tab!Acerta("ig", i, a.rodada)) = Sim
    BY <1>5, <1>6, Zenon DEF Sim
  <2>2. Tab!Mais1(a.rodada) = n
    BY <1>5, <1>6
  <2> QED
    BY <2>1, <2>2, Zenon DEF Tab!IngressForro, ComQRIngress
<1>8. ComQRIngress(a, Sim, n, "egress")
        = Registro("egress", pk.oper, D, ProvaDe(pk), n, D, Sim, Nao)
  BY MudaQRIngress DEF Forma
<1>9. Forma(q, D, Sim) = Registro("egress", pk.oper, D, ProvaDe(pk), n, D, Sim, Nao)
  BY <1>3, FormaDepois DEF q
<1> QED
  BY <1>1, <1>4, <1>7, <1>8, <1>9, Zenon DEF q

\* One QR in the egress, and the fin rule.
LEMMA AbstratoEgressForro ==
  ASSUME NEW pk, Conversa(pk), InvPkt(pk), pk.lugar = "egress", pk.oper = 3,
         Passo(pk, EgressForro(pk))
  PROVE  PacoteAbstrato(EgressForro(pk)) = Tab!EgressForro(PacoteAbstrato(pk))
<1> DEFINE q == EgressForro(pk)
           D == DispDe(pk.id)
           a == Forma(pk, D, Sim)
           acerto == {i \in Tab!Estagios : Tab!Acerta("eg", i, a.rodada)}
           fim == 11 \in acerto /\ a.rodada = Tab!total_rodadas - 1
           x == a.exato /\ acerto \in {{}, Tab!Estagios}
           o == IF fim THEN 4 ELSE a.oper
           r == CASE fim -> 0
                  [] ~fim /\ 11 \in acerto -> Tab!Mais1(a.rodada)
                  [] OTHER -> a.rodada
           n == IF pk.rodada = 56 THEN 0 ELSE (pk.rodada + 1) % 256
           m == IF pk.rodada = 56 THEN 4 ELSE 3
<1>1. PacoteAbstrato(pk) = a
  BY AbstratoDe
<1>2. pk.rodada \in 1..56 /\ pk.rodada % 2 = 0 /\ pk.rodada \in RegrasEgress
  BY DEF InvPkt, InvEgress, EmCalculo, RegrasEgress, total_rodadas
<1>3. q.lugar = "ingress" /\ q.oper = m /\ q.rodada = n
  BY <1>2 DEF EgressForro, RegraFin, total_rodadas, Conversa, Pkt
<1>4. a.exato = Sim /\ a.rodada = pk.rodada /\ a.oper = 3
  BY CamposDaForma
<1>5. acerto = Tab!Estagios /\ 11 \in acerto
  <2>1. \A i \in Tab!Estagios : Tab!Acerta("eg", i, pk.rodada)
    BY <1>2, TabelasCompletas
  <2>2. 11 \in Tab!Estagios
    BY DEF Tab!Estagios
  <2> HIDE DEF a
  <2> QED
    BY <1>4, <2>1, <2>2
<1>6. fim <=> pk.rodada = 56
  <2>1. Tab!total_rodadas - 1 = 56
    BY TabelasCompletas
  <2> HIDE DEF a, acerto
  <2> QED
    BY <1>4, <1>5, <2>1
<1>7. x = Sim /\ o = m /\ r = n
  <2>1. Tab!Mais1(pk.rodada) = (pk.rodada + 1) % 256
    BY <1>2, TabelasCompletas
  <2> HIDE DEF a, acerto, fim
  <2>2. x = Sim
    BY <1>4, <1>5, Zenon DEF Sim
  <2>3. o = m
    BY <1>4, <1>6
  <2>4. r = n
    BY <1>4, <1>5, <1>6, <2>1
  <2> QED
    BY <2>2, <2>3, <2>4
<1>8. Tab!EgressForro(a) = ComQREgress(a, x, o, r, "ingress")
  <2> HIDE DEF a
  <2> QED
    BY Zenon DEF Tab!EgressForro, ComQREgress
<1> HIDE DEF q
<1>9. PacoteAbstrato(q) = Forma(q, D, Sim)
  BY <1>3, MesmaConversa, AbstratoDe DEF q
<1>10. Tab!EgressForro(a) = ComQREgress(a, Sim, m, n, "ingress")
  <2> HIDE DEF a, x, o, r, m, n
  <2> QED
    BY <1>7, <1>8, Zenon
<1> HIDE DEF m, n
<1>11. ComQREgress(a, Sim, m, n, "ingress")
         = Registro("ingress", m, D, ProvaDe(pk), n, D, Sim, Nao)
  BY MudaQREgress DEF Forma
<1>12. Forma(q, D, Sim) = Registro("ingress", m, D, ProvaDe(pk), n, D, Sim, Nao)
  BY <1>3, FormaDepois DEF q
<1> QED
  BY <1>1, <1>9, <1>10, <1>11, <1>12, Zenon DEF q

\* The finalisation and the comparison of the words 15 to 5.
LEMMA AbstratoIngressVerifica ==
  ASSUME NEW pk, Conversa(pk), InvPkt(pk), pk.lugar = "ingress", pk.oper = 4,
         Passo(pk, IngressVerifica(pk))
  PROVE  PacoteAbstrato(IngressVerifica(pk)) = Tab!IngressVerifica(PacoteAbstrato(pk))
<1> DEFINE q == IngressVerifica(pk)
           D == DispDe(pk.id)
           a == Forma(pk, D, Sim)
           y == finalizar_forro(pk)
           e == Errados(pk)
           x == "D" \notin e
           tf(i) == <<"p4dra_ig_fin", i>>
<1>1. PacoteAbstrato(pk) = a
  BY AbstratoDe
<1>2. Registrado(pk.id) /\ pk.v = Iteracoes(rounds, Ini(pk)) /\ pk \in Pkt
  BY DEF InvPkt, InvIngress, EmCalculo, Conversa
<1>3. y = forro(Ini(pk)) /\ y \in Estado /\ pk.payload \in Estado
  BY <1>2, FinalizarEhForro, EstadoCarregado, ForroType DEF Pkt
<1>4. verifica_ingress(y, pk.payload) <=> ~("A" \in e \/ "B" \in e \/ "C" \in e)
  BY <1>2, <1>3, ComparaPalavras, GruposErrados
<1>5. /\ a.exato = Sim /\ a.chave = D /\ a.disp = D
      /\ a.prova.chave = D /\ a.prova.erro = e
  BY <1>2, GruposErrados, CamposDaForma
<1>6. /\ D \in 1..NDisp
      /\ Tab!Tem(tf(0), Tab!PosFinaliza(D))
      /\ \A i \in 1..8 : Tab!Tem(tf(i), Tab!PosIgFin(i))
      /\ <<[n \in 1..NDisp |-> n]>>[Tab!Versao][D] = D
  BY <1>2, LinhaDoDispositivo, TabelasCompletas
<1>7. Tab!Difere(a) = e
  <2> HIDE DEF a, e, D
  <2>1. a.exato
    BY <1>5 DEF Sim
  <2>2. a.chave = a.prova.chave /\ Tab!Tem(tf(0), Tab!PosFinaliza(a.disp))
    BY <1>5, <1>6
  <2>3. <<[n \in 1..NDisp |-> n]>>[Tab!Versao][a.disp] = a.prova.chave
    BY <1>5, <1>6
  <2>4. Tab!Tem(tf(1), Tab!PosIgFin(1)) /\ Tab!Tem(tf(2), Tab!PosIgFin(2))
        /\ Tab!Tem(tf(3), Tab!PosIgFin(3)) /\ Tab!Tem(tf(4), Tab!PosIgFin(4))
    BY <1>6
  <2> QED
    BY <1>5, <2>1, <2>2, <2>3, <2>4 DEF Tab!Difere
<1>8. ASSUME ~verifica_ingress(y, pk.payload)
      PROVE  PacoteAbstrato(q) = Tab!IngressVerifica(a)
  <2>1. q = [pk EXCEPT !.lugar = "descarte"]
    BY <1>8 DEF IngressVerifica, drop
  <2>2. q.lugar = "descarte" /\ q.oper = 4 /\ q.rodada = pk.rodada
    BY <1>2, <2>1 DEF Pkt
  <2> HIDE DEF q
  <2>3. Tab!IngressVerifica(a) = Tab!drop(a)
    <3>1. "A" \in e \/ "B" \in e \/ "C" \in e
      BY <1>4, <1>8
    <3>2. Tab!Tem(tf(4), Tab!PosIgFin(4))
      BY <1>6
    <3> HIDE DEF a, e
    <3> QED
      BY <1>7, <3>1, <3>2 DEF Tab!IngressVerifica, Tab!SemPorta
  <2>4. Tab!drop(a) = Registro("descarte", pk.oper, D, ProvaDe(pk), pk.rodada, D, Sim, Nao)
    BY MudaLugar DEF Tab!drop, Forma
  <2>5. PacoteAbstrato(q) = Forma(q, D, Sim)
    <3>1. PacoteAbstrato(q) = Forma(q, DispDe(q.id), Errados(q) # {"D"})
      BY <2>2, MesmaConversa, AbstratoDe DEF q
    <3>2. DispDe(q.id) = D /\ Errados(q) = e
      BY MesmaConversa DEF q
    <3>3. (e # {"D"}) = Sim
      BY <1>4, <1>8 DEF Sim
    <3> QED
      BY <3>1, <3>2, <3>3, Zenon
  <2>6. Forma(q, D, Sim) = Registro("descarte", pk.oper, D, ProvaDe(pk), pk.rodada, D, Sim, Nao)
    BY <2>2, FormaDepois DEF q
  <2> QED
    BY <2>3, <2>4, <2>5, <2>6, Zenon
<1>9. ASSUME verifica_ingress(y, pk.payload)
      PROVE  PacoteAbstrato(q) = Tab!IngressVerifica(a)
  <2>1. q = [pk EXCEPT !.v = y, !.porta = porta_CPU, !.lugar = "egress"]
    BY <1>9 DEF IngressVerifica
  <2>2. q.lugar = "egress" /\ q.oper = 4 /\ q.rodada = pk.rodada
    <3> HIDE DEF q, y
    <3> QED
      BY <1>2, <2>1 DEF Pkt
  <2> HIDE DEF q
  <2>3. Tab!IngressVerifica(a) = ComLugarExato(a, "egress", x)
    <3>1. ~("A" \in e \/ "B" \in e \/ "C" \in e)
      BY <1>4, <1>9
    <3>2. /\ Tab!Tem(tf(4), Tab!PosIgFin(4)) /\ Tab!Tem(tf(6), Tab!PosIgFin(6))
          /\ Tab!Tem(tf(7), Tab!PosIgFin(7)) /\ Tab!Tem(tf(8), Tab!PosIgFin(8))
      BY <1>6
    <3> HIDE DEF a, e
    <3> QED
      BY <1>7, <3>1, <3>2 DEF Tab!IngressVerifica, ComLugarExato
  <2>4. PacoteAbstrato(q) = Forma(q, D, x)
    <3>1. PacoteAbstrato(q) = Forma(q, DispDe(q.id), "D" \notin Errados(q))
      BY <2>2, MesmaConversa, AbstratoDe DEF q
    <3>2. DispDe(q.id) = D /\ Errados(q) = e
      BY MesmaConversa DEF q
    <3> QED
      BY <3>1, <3>2, Zenon
  <2> HIDE DEF x
  <2>5. ComLugarExato(a, "egress", x) = Registro("egress", pk.oper, D, ProvaDe(pk), pk.rodada, D, x, Nao)
    BY MudaLugarExato DEF Forma
  <2>6. Forma(q, D, x) = Registro("egress", pk.oper, D, ProvaDe(pk), pk.rodada, D, x, Nao)
    BY <2>2, FormaDepois DEF q
  <2> QED
    BY <2>3, <2>4, <2>5, <2>6, Zenon
<1> QED
  BY <1>1, <1>8, <1>9

\* The comparison of the words 4 to 0.
LEMMA AbstratoEgressVerifica ==
  ASSUME NEW pk, Conversa(pk), InvPkt(pk), pk.lugar = "egress", pk.oper = 4,
         Passo(pk, EgressVerifica(pk))
  PROVE  PacoteAbstrato(EgressVerifica(pk)) = Tab!EgressVerifica(PacoteAbstrato(pk))
<1> DEFINE q == EgressVerifica(pk)
           D == DispDe(pk.id)
           e == Errados(pk)
           x == "D" \notin e
           a == Forma(pk, D, x)
           l == IF x THEN "saida" ELSE "descarte"
<1>1. PacoteAbstrato(pk) = a
  BY AbstratoDe
<1>2. /\ Registrado(pk.id) /\ pk.v = forro(Ini(pk)) /\ pk \in Pkt
      /\ \A i \in 5..15 : pk.v[i] = pk.payload[i]
  BY DEF InvPkt, InvEgress, EmCalculo, Conversa
<1>3. verifica_egress(pk.v, pk.payload) <=> x
  <2>1. pk.v \in Estado /\ pk.payload \in Estado
    BY <1>2 DEF Pkt
  <2> QED
    BY <1>2, <2>1, ComparaPalavras, GruposErrados
<1>4. (e # {"D"}) = x
  <2>1. "A" \notin e /\ "B" \notin e /\ "C" \notin e /\ e \subseteq {"A", "B", "C", "D"}
    BY <1>2, GruposErrados
  <2> QED
    BY <2>1
<1>5. q.lugar = l /\ q.oper = 4 /\ q.rodada = pk.rodada
  BY <1>2, <1>3 DEF EgressVerifica, drop, Pkt
<1>6. PacoteAbstrato(q) = Forma(q, D, x)
  <2>1. PacoteAbstrato(q) = Forma(q, DispDe(q.id), Errados(q) # {"D"})
    <3> HIDE DEF q
    <3> QED
      BY <1>5, MesmaConversa, AbstratoDe DEF q
  <2>2. DispDe(q.id) = D /\ Errados(q) = e
    BY MesmaConversa
  <2> HIDE DEF q
  <2> QED
    BY <1>4, <2>1, <2>2, Zenon
<1>7. Tab!EgressVerifica(a) = [a EXCEPT !.lugar = l]
  <2>1. Tab!Tem(<<"p4dra_eg_fin", 1>>, Tab!PosEgFin(1)) /\ a.exato = x
    BY TabelasCompletas, CamposDaForma
  <2> HIDE DEF a, e
  <2> QED
    BY <2>1 DEF Tab!EgressVerifica, Tab!drop
<1> HIDE DEF q, l, x
<1>8. [a EXCEPT !.lugar = l] = Registro(l, pk.oper, D, ProvaDe(pk), pk.rodada, D, x, Nao)
  BY MudaLugar DEF Forma
<1>9. Forma(q, D, x) = Registro(l, pk.oper, D, ProvaDe(pk), pk.rodada, D, x, Nao)
  BY <1>5, FormaDepois DEF q
<1> QED
  BY <1>1, <1>6, <1>7, <1>8, <1>9, Zenon DEF q

\* A packet as it came from a host: forwarded, loaded with the device's key, or
\* dropped.
LEMMA AbstratoIngressInicial ==
  ASSUME NEW pk, Conversa(pk), InvPkt(pk), pk.lugar = "ingress", pk.oper \in {0, 1, 2, 5},
         Passo(pk, IngressInicial(pk))
  PROVE  PacoteAbstrato(IngressInicial(pk)) = Tab!IngressInicial(PacoteAbstrato(pk))
<1> DEFINE q == IngressInicial(pk)
           D == DispDe(pk.id)
           a == Forma(pk, 0, Nao)
           t == <<"p4dra_ig", 0>>
<1>1. PacoteAbstrato(pk) = a
  BY AbstratoDe
<1>2. pk \in Pkt /\ pk.id \in Id /\ porta_cliente \notin Recirculacao /\ 196 \in Recirculacao
  BY DEF Conversa, Pkt, Recirculacao, porta_cliente
<1>3. a.oper = pk.oper /\ a.disp = D
  BY CamposDaForma
<1>4. /\ Tab!Tem(t, Tab!PosStart) /\ Tab!Tem(t, Tab!PosSetup)
      /\ \A i \in 1..3 : Tab!Tem(<<"p4dra_ig", i>>, Tab!PosIg(i))
      /\ D \in 1..NDisp => Tab!Tem(t, Tab!PosCarrega(D))
      /\ D \in 1..NDisp => <<[n \in 1..NDisp |-> n]>>[Tab!Versao][D] = D
  BY TabelasCompletas
<1>5. ASSUME pk.oper = 0 PROVE PacoteAbstrato(q) = Tab!IngressInicial(a)
  <2>1. q = [[pk EXCEPT !.oper = 1] EXCEPT !.porta = porta_cliente, !.lugar = "saida"]
    BY <1>2, <1>5 DEF IngressInicial, forward_request, SaiSemEgress
  <2>2. q.lugar = "saida" /\ q.oper = 1 /\ q.rodada = pk.rodada
    <3> HIDE DEF q
    <3> QED
      BY <1>2, <2>1 DEF Pkt
  <2>3. Tab!IngressInicial(a) = ComOperLugar(a, 1, "saida")
    <3> HIDE DEF a
    <3> QED
      BY <1>3, <1>4, <1>5 DEF Tab!IngressInicial, ComOperLugar
  <2> HIDE DEF q
  <2>4. PacoteAbstrato(q) = Forma(q, 0, Nao)
    BY <2>2, MesmaConversa, AbstratoDe DEF q
  <2>5. ComOperLugar(a, 1, "saida") = Registro("saida", 1, D, ProvaDe(pk), pk.rodada, 0, Nao, Nao)
    BY MudaOperLugar DEF Forma
  <2>6. Forma(q, 0, Nao) = Registro("saida", 1, D, ProvaDe(pk), pk.rodada, 0, Nao, Nao)
    BY <2>2, FormaDepois DEF q
  <2> QED
    BY <2>3, <2>4, <2>5, <2>6, Zenon
<1>6. ASSUME pk.oper = 5 PROVE PacoteAbstrato(q) = Tab!IngressInicial(a)
  <2>1. q = [pk EXCEPT !.porta = porta_cliente, !.lugar = "saida"]
    BY <1>2, <1>6 DEF IngressInicial, forward, SaiSemEgress
  <2>2. q.lugar = "saida" /\ q.oper = 5 /\ q.rodada = pk.rodada
    <3> HIDE DEF q
    <3> QED
      BY <1>2, <1>6, <2>1 DEF Pkt
  <2>3. Tab!IngressInicial(a) = [a EXCEPT !.lugar = "saida"]
    <3> HIDE DEF a
    <3> QED
      BY <1>3, <1>4, <1>6 DEF Tab!IngressInicial
  <2> HIDE DEF q
  <2>4. PacoteAbstrato(q) = Forma(q, 0, Nao)
    BY <2>2, MesmaConversa, AbstratoDe DEF q
  <2>5. [a EXCEPT !.lugar = "saida"]
          = Registro("saida", pk.oper, D, ProvaDe(pk), pk.rodada, 0, Nao, Nao)
    BY MudaLugar DEF Forma
  <2>6. Forma(q, 0, Nao) = Registro("saida", pk.oper, D, ProvaDe(pk), pk.rodada, 0, Nao, Nao)
    BY <1>6, <2>2, FormaDepois DEF q
  <2> QED
    BY <2>3, <2>4, <2>5, <2>6, Zenon
<1>7. ASSUME pk.oper = 2, Registrado(pk.id) PROVE PacoteAbstrato(q) = Tab!IngressInicial(a)
  <2>1. Casa(pk.id) /\ D \in 1..NDisp
    BY <1>2, <1>7, RegraDoDispositivo, LinhaDoDispositivo
  <2> DEFINE w == carregar_estado(Regra(pk.id), pk.rid)
  <2>2. q = SaiSemEgress([pk EXCEPT !.v = w, !.rodada = 1, !.oper = 3], 196)
    BY <1>7, <2>1 DEF IngressInicial, iniciar
  <2> HIDE DEF w
  <2>3. q = [[pk EXCEPT !.v = w, !.rodada = 1, !.oper = 3]
               EXCEPT !.porta = 196, !.lugar = "ingress"]
    BY <1>2, <2>2 DEF SaiSemEgress
  <2>4. q.lugar = "ingress" /\ q.oper = 3 /\ q.rodada = 1
    <3> HIDE DEF q
    <3> QED
      BY <1>2, <2>3 DEF Pkt
  <2>5. Tab!IngressInicial(a) = ComInicio(a, 3, 1, D, Sim)
    <3>1. (\A i \in 1..2 : Tab!Tem(<<"p4dra_ig", i>>, Tab!PosIg(i))) = Sim
      BY <1>4 DEF Sim
    <3>2. Tab!Tem(<<"p4dra_ig", 3>>, Tab!PosIg(3))
      BY <1>4
    <3>3. /\ a.oper = 2 /\ a.disp \in 1..NDisp /\ Tab!Tem(t, Tab!PosCarrega(a.disp))
          /\ <<[n \in 1..NDisp |-> n]>>[Tab!Versao][a.disp] = D
      BY <1>3, <1>4, <1>7, <2>1
    <3> HIDE DEF a, D
    <3>4. Tab!IngressInicial(a)
            = [a EXCEPT !.oper = 3, !.rodada = 1,
                        !.chave = <<[n \in 1..NDisp |-> n]>>[Tab!Versao][a.disp],
                        !.exato = \A i \in 1..2 : Tab!Tem(<<"p4dra_ig", i>>, Tab!PosIg(i))]
      BY <3>2, <3>3 DEF Tab!IngressInicial
    <3> QED
      BY <3>1, <3>3, <3>4, Zenon DEF ComInicio
  <2> HIDE DEF q
  <2>6. PacoteAbstrato(q) = Forma(q, D, Sim)
    BY <2>4, MesmaConversa, AbstratoDe DEF q
  <2>7. ComInicio(a, 3, 1, D, Sim) = Registro("ingress", 3, D, ProvaDe(pk), 1, D, Sim, Nao)
    BY MudaInicio DEF Forma
  <2>8. Forma(q, D, Sim) = Registro("ingress", 3, D, ProvaDe(pk), 1, D, Sim, Nao)
    BY <2>4, FormaDepois DEF q
  <2> QED
    BY <2>5, <2>6, <2>7, <2>8, Zenon
<1>8. ASSUME pk.oper = 1 \/ (pk.oper = 2 /\ ~Registrado(pk.id))
      PROVE  PacoteAbstrato(q) = Tab!IngressInicial(a)
  <2>1. pk.oper = 2 => ~Casa(pk.id) /\ D \notin 1..NDisp
    BY <1>2, <1>8, RegraDoDispositivo, LinhaDoDispositivo
  <2>2. q = [pk EXCEPT !.lugar = "descarte"]
    BY <1>8, <2>1 DEF IngressInicial, drop
  <2>3. q.lugar = "descarte" /\ q.oper = pk.oper /\ q.rodada = pk.rodada
    <3> HIDE DEF q
    <3> QED
      BY <1>2, <2>2 DEF Pkt
  <2>4. Tab!IngressInicial(a) = [a EXCEPT !.lugar = "descarte"]
    <3> HIDE DEF a, D
    <3> QED
      BY <1>3, <1>8, <2>1 DEF Tab!IngressInicial, Tab!drop
  <2> HIDE DEF q
  <2>5. PacoteAbstrato(q) = Forma(q, 0, Nao)
    BY <1>8, <2>3, MesmaConversa, AbstratoDe DEF q
  <2>6. [a EXCEPT !.lugar = "descarte"]
          = Registro("descarte", pk.oper, D, ProvaDe(pk), pk.rodada, 0, Nao, Nao)
    BY MudaLugar DEF Forma
  <2>7. Forma(q, 0, Nao) = Registro("descarte", pk.oper, D, ProvaDe(pk), pk.rodada, 0, Nao, Nao)
    BY <2>3, FormaDepois DEF q
  <2> QED
    BY <2>4, <2>5, <2>6, <2>7, Zenon
<1> QED
  BY <1>1, <1>5, <1>6, <1>7, <1>8
-----------------------------------------------------------------------------
\* What an ingress traversal makes of an abstract packet, and an egress one.
DepoisIngressAbstrato(a) ==
  CASE a.oper = 3 -> Tab!IngressForro(a)
    [] a.oper = 4 -> Tab!IngressVerifica(a)
    [] OTHER      -> Tab!IngressInicial(a)

DepoisEgressAbstrato(a) == IF a.oper = 3 THEN Tab!EgressForro(a) ELSE Tab!EgressVerifica(a)

\* Every traversal of a packet is the one of SwitchSetup.
LEMMA AbstratoTravessia ==
  ASSUME NEW pk, Conversa(pk), InvPkt(pk)
  PROVE  /\ pk.lugar = "ingress" =>
              /\ PacoteAbstrato(pk).lugar = "ingress"
              /\ Conversa(DepoisIngress(pk))
              /\ PacoteAbstrato(DepoisIngress(pk)) = DepoisIngressAbstrato(PacoteAbstrato(pk))
         /\ pk.lugar = "egress" =>
              /\ PacoteAbstrato(pk).lugar = "egress"
              /\ Conversa(DepoisEgress(pk))
              /\ PacoteAbstrato(DepoisEgress(pk)) = DepoisEgressAbstrato(PacoteAbstrato(pk))
<1> DEFINE a == PacoteAbstrato(pk)
<1>1. pk.lugar # "rede" => a.lugar = pk.lugar /\ a.oper = pk.oper
  BY DEF PacoteAbstrato
<1>2. pk \in Pkt
  BY DEF Conversa
<1> HIDE DEF a
<1>3. ASSUME pk.lugar = "ingress"
      PROVE  Conversa(DepoisIngress(pk)) /\ PacoteAbstrato(DepoisIngress(pk)) = DepoisIngressAbstrato(a)
  <2>1. Passo(pk, DepoisIngress(pk)) /\ InvIngress(pk) /\ a.oper = pk.oper
    BY <1>1, <1>2, <1>3, PassoTravessia DEF InvPkt
  <2>2. Conversa(DepoisIngress(pk))
    BY <2>1, MesmaConversa
  <2>3. CASE pk.oper = 3
    <3>1. DepoisIngress(pk) = IngressForro(pk)
      BY <2>3 DEF DepoisIngress
    <3>2. DepoisIngressAbstrato(a) = Tab!IngressForro(a)
      BY <2>1, <2>3 DEF DepoisIngressAbstrato
    <3> QED
      BY <1>3, <2>1, <2>2, <2>3, <3>1, <3>2, AbstratoIngressForro DEF a
  <2>4. CASE pk.oper = 4
    <3>1. DepoisIngress(pk) = IngressVerifica(pk)
      BY <2>4 DEF DepoisIngress
    <3>2. DepoisIngressAbstrato(a) = Tab!IngressVerifica(a)
      BY <2>1, <2>4 DEF DepoisIngressAbstrato
    <3> QED
      BY <1>3, <2>1, <2>2, <2>4, <3>1, <3>2, AbstratoIngressVerifica DEF a
  <2>5. CASE pk.oper \notin {3, 4}
    <3>1. pk.oper \in {0, 1, 2, 5}
      BY <2>1, <2>5 DEF InvIngress, EmCalculo
    <3>2. DepoisIngress(pk) = IngressInicial(pk)
      BY <2>5 DEF DepoisIngress
    <3>3. DepoisIngressAbstrato(a) = Tab!IngressInicial(a)
      BY <2>1, <2>5 DEF DepoisIngressAbstrato
    <3> QED
      BY <1>3, <2>1, <2>2, <3>1, <3>2, <3>3, AbstratoIngressInicial DEF a
  <2> QED
    BY <2>3, <2>4, <2>5
<1>4. ASSUME pk.lugar = "egress"
      PROVE  Conversa(DepoisEgress(pk)) /\ PacoteAbstrato(DepoisEgress(pk)) = DepoisEgressAbstrato(a)
  <2>1. Passo(pk, DepoisEgress(pk)) /\ InvEgress(pk) /\ a.oper = pk.oper
    BY <1>1, <1>2, <1>4, PassoTravessia DEF InvPkt
  <2>2. Conversa(DepoisEgress(pk))
    BY <2>1, MesmaConversa
  <2>3. CASE pk.oper = 3
    <3>1. DepoisEgress(pk) = EgressForro(pk)
      BY <2>3 DEF DepoisEgress
    <3>2. DepoisEgressAbstrato(a) = Tab!EgressForro(a)
      BY <2>1, <2>3 DEF DepoisEgressAbstrato
    <3> QED
      BY <1>4, <2>1, <2>2, <2>3, <3>1, <3>2, AbstratoEgressForro DEF a
  <2>4. CASE pk.oper # 3
    <3>1. pk.oper = 4
      BY <2>1, <2>4 DEF InvEgress, EmCalculo
    <3>2. DepoisEgress(pk) = EgressVerifica(pk)
      BY <2>4 DEF DepoisEgress
    <3>3. DepoisEgressAbstrato(a) = Tab!EgressVerifica(a)
      BY <2>1, <2>4 DEF DepoisEgressAbstrato
    <3> QED
      BY <1>4, <2>1, <2>2, <3>1, <3>2, <3>3, AbstratoEgressVerifica DEF a
  <2> QED
    BY <2>3, <2>4
<1> QED
  BY <1>1, <1>3, <1>4 DEF a

\* An arrival is an arrival of SwitchSetup.
LEMMA AbstratoChega ==
  ASSUME NEW m \in Entradas,
         NEW q, q = [lugar |-> "ingress", oper |-> m.oper, rid |-> m.rid, id |-> m.id,
                     payload |-> m.payload, rodada |-> 0, v |-> Nulo, porta |-> SemPorta]
  PROVE  /\ Conversa(q)
         /\ \E n \in EntradasAbstratas :
              PacoteAbstrato(q)
                = [lugar |-> "ingress", oper |-> n.oper, disp |-> n.disp, prova |-> n.prova,
                   rodada |-> 0, chave |-> 0, exato |-> FALSE,
                   perturbado |-> SetupTerminado.modo # "pronto"]
<1> DEFINE n == [oper |-> m.oper, disp |-> DispDe(m.id), prova |-> ProvaDe(m)]
<1>1. q \in Pkt /\ InvPkt(q)
  BY PassoChega
<1>2. /\ q.lugar = "ingress" /\ q.oper = m.oper /\ q.id = m.id /\ q.rid = m.rid
      /\ q.payload = m.payload /\ q.rodada = 0
  OBVIOUS
<1>3. Conversa(q)
  BY <1>1, <1>2 DEF Conversa, Conversas
<1>4. ProvaDe(q) = ProvaDe(m)
  <2>1. Errados(q) = Errados(m)
    BY <1>2 DEF Errados
  <2> QED
    BY <1>2, <2>1 DEF ProvaDe
<1>5. m.oper \in {0, 1, 2, 5}
  BY SwitchAssumption
<1>6. PacoteAbstrato(q) = Forma(q, 0, Nao)
  BY <1>1, <1>2, <1>3, <1>5, AbstratoDe
<1>7. Forma(q, 0, Nao) = Registro("ingress", n.oper, n.disp, n.prova, 0, 0, Nao, Nao)
  BY <1>2, <1>4 DEF Forma
<1>8. (SetupTerminado.modo # "pronto") = Nao
  BY DEF SetupTerminado, Nao
<1>9. PacoteAbstrato(q)
        = [lugar |-> "ingress", oper |-> n.oper, disp |-> n.disp, prova |-> n.prova,
           rodada |-> 0, chave |-> 0, exato |-> FALSE,
           perturbado |-> SetupTerminado.modo # "pronto"]
  <2> HIDE DEF n
  <2> QED
    BY <1>6, <1>7, <1>8, Zenon DEF Registro, Nao
<1>10. n \in EntradasAbstratas
  BY DEF EntradasAbstratas
<1> QED
  BY <1>3, <1>9, <1>10
-----------------------------------------------------------------------------
(***************************************************************************)
(* The refinement.  Besides the invariant of P4SwitchProofs it needs that  *)
(* a packet in the switch carries the id and id_rodada of an arrival, for  *)
(* which the mapping has the states and the proof.                         *)
(***************************************************************************)
Conversando == \A p \in Pacotes : pkt[p].lugar # "rede" => Conversa(pkt[p])

LEMMA InitConversando == Init => Conversando
BY DEF Init, Conversando

\* A step of the switch is a step of SwitchSetup, or changes nothing.
LEMMA NextTabelas ==
  IInv /\ Conversando /\ [Next]_vars => Conversando' /\ [Tab!Next]_(Tab!vars)
<1> SUFFICES ASSUME IInv, Conversando, [Next]_vars
             PROVE  Conversando' /\ [Tab!Next]_(Tab!vars)
  OBVIOUS
<1>1. pkt \in [Pacotes -> Pkt] /\ \A p \in Pacotes : InvPkt(pkt[p])
  BY DEF IInv, TypeOK, EstadoSegueProva
<1>2. /\ PktAbstrato = [p \in Pacotes |-> PacoteAbstrato(pkt[p])]
      /\ PktAbstrato' = [p \in Pacotes |-> PacoteAbstrato(pkt'[p])]
  BY DEF PktAbstrato, PacoteAbstrato, ProvaDe, Exato, Errados, DispDe, Registrado
<1>3. SetupTerminado' = SetupTerminado
  BY DEF SetupTerminado, Ordem, NDisp, total_rodadas
<1>4. ASSUME NEW p \in Pacotes, NEW q, Conversa(q), pkt' = [pkt EXCEPT ![p] = q]
      PROVE  Conversando' /\ PktAbstrato' = [PktAbstrato EXCEPT ![p] = PacoteAbstrato(q)]
  <2>1. \A x \in Pacotes : pkt'[x].lugar # "rede" => Conversa(pkt'[x])
    BY <1>1, <1>4 DEF Conversando
  <2>2. PktAbstrato' = [PktAbstrato EXCEPT ![p] = PacoteAbstrato(q)]
    BY <1>1, <1>2, <1>4
  <2> QED
    BY <2>1, <2>2 DEF Conversando, Conversa
<1>5. ASSUME NEW p \in Pacotes, Chega(p) PROVE Conversando' /\ Tab!Next
  <2>1. PICK m \in Entradas :
          pkt' = [pkt EXCEPT ![p] =
                    [lugar |-> "ingress", oper |-> m.oper, rid |-> m.rid, id |-> m.id,
                     payload |-> m.payload, rodada |-> 0, v |-> Nulo, porta |-> SemPorta]]
    BY <1>5 DEF Chega
  <2>2. PICK q : q = [lugar |-> "ingress", oper |-> m.oper, rid |-> m.rid, id |-> m.id,
                      payload |-> m.payload, rodada |-> 0, v |-> Nulo, porta |-> SemPorta]
    OBVIOUS
  <2>3. pkt' = [pkt EXCEPT ![p] = q]
    BY <2>1, <2>2
  <2>4. PICK n \in EntradasAbstratas :
          PacoteAbstrato(q)
            = [lugar |-> "ingress", oper |-> n.oper, disp |-> n.disp, prova |-> n.prova,
               rodada |-> 0, chave |-> 0, exato |-> FALSE,
               perturbado |-> SetupTerminado.modo # "pronto"]
    BY <2>2, AbstratoChega
  <2>5. Conversa(q)
    BY <2>2, AbstratoChega
  <2>6. Conversando' /\ PktAbstrato' = [PktAbstrato EXCEPT ![p] = PacoteAbstrato(q)]
    BY <1>4, <2>3, <2>5
  <2>7. PktAbstrato[p].lugar = "rede"
    BY <1>2, <1>5 DEF Chega, PacoteAbstrato, NaRede
  <2>8. Tab!Chega(p)
    BY <1>3, <2>4, <2>6, <2>7, Zenon DEF Tab!Chega
  <2> QED
    BY <2>6, <2>8 DEF Tab!Next
<1>6. ASSUME NEW p \in Pacotes, Ingress(p) PROVE Conversando' /\ Tab!Next
  <2> DEFINE q == DepoisIngress(pkt[p])
  <2>1. pkt[p].lugar = "ingress" /\ pkt' = [pkt EXCEPT ![p] = q]
    BY <1>1, <1>6 DEF Ingress, DepoisIngress
  <2>2. Conversa(pkt[p]) /\ InvPkt(pkt[p])
    BY <1>1, <2>1 DEF Conversando
  <2>3. /\ PacoteAbstrato(pkt[p]).lugar = "ingress" /\ Conversa(q)
        /\ PacoteAbstrato(q) = DepoisIngressAbstrato(PacoteAbstrato(pkt[p]))
    BY <2>1, <2>2, AbstratoTravessia
  <2> HIDE DEF q
  <2>4. Conversando' /\ PktAbstrato' = [PktAbstrato EXCEPT ![p] = PacoteAbstrato(q)]
    BY <1>4, <2>1, <2>3
  <2>5. PktAbstrato[p] = PacoteAbstrato(pkt[p])
    BY <1>2
  <2>6. Tab!Ingress(p)
    BY <1>3, <2>3, <2>4, <2>5 DEF Tab!Ingress, DepoisIngressAbstrato
  <2> QED
    BY <2>4, <2>6 DEF Tab!Next
<1>7. ASSUME NEW p \in Pacotes, Egress(p) PROVE Conversando' /\ Tab!Next
  <2> DEFINE q == DepoisEgress(pkt[p])
  <2>1. pkt[p].lugar = "egress" /\ pkt' = [pkt EXCEPT ![p] = q]
    BY <1>1, <1>7 DEF Egress, DepoisEgress
  <2>2. Conversa(pkt[p]) /\ InvPkt(pkt[p])
    BY <1>1, <2>1 DEF Conversando
  <2>3. /\ PacoteAbstrato(pkt[p]).lugar = "egress" /\ Conversa(q)
        /\ PacoteAbstrato(q) = DepoisEgressAbstrato(PacoteAbstrato(pkt[p]))
    BY <2>1, <2>2, AbstratoTravessia
  <2> HIDE DEF q
  <2>4. Conversando' /\ PktAbstrato' = [PktAbstrato EXCEPT ![p] = PacoteAbstrato(q)]
    BY <1>4, <2>1, <2>3
  <2>5. PktAbstrato[p] = PacoteAbstrato(pkt[p])
    BY <1>2
  <2>6. Tab!Egress(p)
    BY <1>3, <2>3, <2>4, <2>5 DEF Tab!Egress, DepoisEgressAbstrato
  <2> QED
    BY <2>4, <2>6 DEF Tab!Next
<1>8. CASE UNCHANGED vars
  <2>1. PktAbstrato' = PktAbstrato
    BY <1>2, <1>8 DEF vars
  <2>2. Conversando'
    BY <1>8 DEF vars, Conversando, Conversa
  <2> QED
    BY <1>3, <2>1, <2>2 DEF Tab!vars
<1> QED
  BY <1>5, <1>6, <1>7, <1>8 DEF Next

\* For every word algebra, file of devices and set of packets, the packet program
\* on words (the 24 Forro tables, the finalisation and the comparisons) implements
\* SwitchSetup with complete tables.
THEOREM ImplementaTabelas == Spec => ImplementaSetup
<1>1. Init => Tab!Init
  <2> SUFFICES ASSUME Init PROVE Tab!Init
    OBVIOUS
  <2>1. PktAbstrato = [p \in Pacotes |-> NaRede]
    BY DEF Init, PktAbstrato, PacoteAbstrato
  <2>2. SetupTerminado = Tab!SetupPronto
    <3>1. Tab!TotalRegras = 12 * (total_rodadas - 1) + 2 * NDisp + 15
      BY TotalDasRegras
    <3>2. Ordem = CHOOSE o \in {Ordem} : TRUE
      OBVIOUS
    <3> QED
      BY <3>1, <3>2 DEF SetupTerminado, Tab!SetupPronto
  <2> QED
    BY <2>1, <2>2 DEF Tab!Init, NaRede, Tab!SemProva
<1> QED
  BY <1>1, InitConversando, NextTabelas, InvarianteIndutivo, PTL DEF Spec, ImplementaSetup
=============================================================================
