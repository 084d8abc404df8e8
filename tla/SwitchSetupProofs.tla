-------------------------- MODULE SwitchSetupProofs --------------------------
(***************************************************************************)
(* Proofs about SwitchSetup: its safety properties for any version of      *)
(* Forro whose rodadas fit the counter, any number of packets, devices and *)
(* runs of setup.py, any files and any order of the tables.                *)
(***************************************************************************)
EXTENDS SwitchSetup, FiniteSetTheorems, TLAPS

Lugares == {"rede", "ingress", "egress", "saida", "descarte"}
Opers == 0..5
Disps == {m.disp : m \in Entradas} \union {0} \union Dispositivos
Provas == {m.prova : m \in Entradas} \union {SemProva}
Contagens == 0..(2^LarguraRodada - 1)
Chaves == {Chave[e][d] : e \in Int, d \in Dispositivos} \union {0}

TipoPacote ==
  [lugar : Lugares, oper : Opers, disp : Disps, prova : Provas, rodada : Contagens,
   chave : Chaves, exato : BOOLEAN, perturbado : BOOLEAN]

\* What holds of a packet whatever happens to the tables.
Seguro(pk) ==
  /\ pk.lugar = "egress" => pk.oper \in {3, 4}
  /\ pk.oper \in {3, 4} => pk.disp \in Dispositivos
  /\ pk.oper = 4 /\ (pk.lugar = "saida" \/ (pk.lugar = "egress" /\ pk.exato))
       => pk.prova.erro = {} /\ pk.prova.chave = pk.chave

\* The reply of a listed device, right under the file in use.
Certa(pk) ==
  /\ pk.disp \in Dispositivos
  /\ pk.prova = [chave |-> Chave[setup.execucao][pk.disp], erro |-> {}]

\* A packet that has met only complete tables: it holds the state the trusted
\* application would hold, and its rodada is that of the pipeline it is at.
EmServico(pk) ==
  pk.lugar # "rede" /\ ~pk.perturbado =>
    /\ setup.modo = "pronto"
    /\ (pk.lugar = "ingress" /\ pk.oper \in {3, 4}) \/ (pk.lugar = "egress" /\ pk.oper = 3)
         => pk.exato /\ pk.chave = Chave[setup.execucao][pk.disp]
    /\ pk.lugar = "ingress" /\ pk.oper = 3
         => pk.rodada \in 1..(total_rodadas - 2) /\ pk.rodada % 2 = 1
    /\ pk.lugar = "egress" /\ pk.oper = 3
         => pk.rodada \in 2..(total_rodadas - 1) /\ pk.rodada % 2 = 0
    /\ pk.lugar = "egress" /\ pk.oper = 4 /\ Certa(pk) => pk.exato
    /\ pk.lugar = "descarte" /\ pk.oper \in {0, 2, 4, 5}
         => pk.oper \in {2, 4} /\ ~Certa(pk)

PacoteOK(pk) == pk \in TipoPacote /\ Seguro(pk) /\ EmServico(pk)

Modos == {"pronto", "limpa", "insere", "parado"}
Progresso == 0..TotalRegras

OrdensOuInicial == Ordens \union {CHOOSE o \in Ordens : TRUE}

TipoSetup ==
  [modo : Modos, n : Progresso, antes : Progresso, execucao : Int, ordem : OrdensOuInicial]

SetupOK ==
  /\ setup \in TipoSetup
  /\ setup.modo = "pronto" => setup.n = TotalRegras
  /\ setup.modo = "insere" => setup.n < TotalRegras

(***************************************************************************)
(* The inductive invariant.                                                *)
(***************************************************************************)
Ind ==
  /\ SetupOK
  /\ pkt \in [Pacotes -> TipoPacote]
  /\ \A p \in Pacotes : Seguro(pkt[p]) /\ EmServico(pkt[p])
-----------------------------------------------------------------------------
\* The number of tables, as far as it matters: clear_all takes fewer steps than
\* there are rules.
LEMMA TabelasContadas == Cardinality(Tabelas) \in Nat /\ Cardinality(Tabelas) <= 39
<1> DEFINE f == [k \in 1..39 |->
                   IF k <= 12 THEN <<"ig", k - 1>>
                   ELSE IF k <= 24 THEN <<"eg", k - 13>>
                   ELSE IF k <= 28 THEN <<"p4dra_ig", k - 25>>
                   ELSE IF k <= 37 THEN <<"p4dra_ig_fin", k - 29>>
                   ELSE <<"p4dra_eg_fin", k - 38>>]
<1>1. ASSUME NEW k \in 1..39
      PROVE  f[k] \in Tabelas
  <2>1. CASE k <= 12
    BY <2>1 DEF Tabelas, TabelasForro, Estagios
  <2>2. CASE k > 12 /\ k <= 24
    BY <2>2 DEF Tabelas, TabelasForro, Estagios
  <2>3. CASE k > 24 /\ k <= 28
    BY <2>3 DEF Tabelas, TabelasP4dra
  <2>4. CASE k > 28 /\ k <= 37
    BY <2>4 DEF Tabelas, TabelasP4dra
  <2>5. CASE k > 37
    BY <2>5 DEF Tabelas, TabelasP4dra
  <2> QED
    BY <2>1, <2>2, <2>3, <2>4, <2>5
<1>2. ASSUME NEW t \in Tabelas
      PROVE  \E k \in 1..39 : f[k] = t
  <2>1. ASSUME NEW i \in Estagios, t = <<"ig", i>>
        PROVE  \E k \in 1..39 : f[k] = t
    <3>1. i + 1 \in 1..39 /\ f[i + 1] = t
      BY <2>1 DEF Estagios
    <3> QED
      BY <3>1
  <2>2. ASSUME NEW i \in Estagios, t = <<"eg", i>>
        PROVE  \E k \in 1..39 : f[k] = t
    <3>1. i + 13 \in 1..39 /\ f[i + 13] = t
      BY <2>2 DEF Estagios
    <3> QED
      BY <3>1
  <2>3. ASSUME NEW i \in 0..3, t = <<"p4dra_ig", i>>
        PROVE  \E k \in 1..39 : f[k] = t
    <3>1. i + 25 \in 1..39 /\ f[i + 25] = t
      BY <2>3
    <3> QED
      BY <3>1
  <2>4. ASSUME NEW i \in 0..8, t = <<"p4dra_ig_fin", i>>
        PROVE  \E k \in 1..39 : f[k] = t
    <3>1. i + 29 \in 1..39 /\ f[i + 29] = t
      BY <2>4
    <3> QED
      BY <3>1
  <2>5. ASSUME NEW i \in 0..1, t = <<"p4dra_eg_fin", i>>
        PROVE  \E k \in 1..39 : f[k] = t
    <3>1. i + 38 \in 1..39 /\ f[i + 38] = t
      BY <2>5
    <3> QED
      BY <3>1
  <2> HIDE DEF f
  <2> QED
    BY <2>1, <2>2, <2>3, <2>4, <2>5 DEF Tabelas, TabelasForro, TabelasP4dra
<1>3. f \in Surjection(1..39, Tabelas)
  <2>1. f \in [1..39 -> Tabelas]
    BY <1>1
  <2> HIDE DEF f
  <2> QED
    BY <1>2, <2>1 DEF Surjection
<1> HIDE DEF f
<1>4. IsFiniteSet(1..39) /\ Cardinality(1..39) = 39
  <2>1. /\ IsFiniteSet(1..39)
        /\ Cardinality(1..39) = IF 1 > 39 THEN 0 ELSE 39 - 1 + 1
    <3>1. 1 \in Int /\ 39 \in Int
      OBVIOUS
    <3> QED
      BY <3>1, FS_Interval, Zenon
  <2> QED
    BY <2>1
<1>5. IsFiniteSet(Tabelas) /\ Cardinality(Tabelas) <= 39
  BY <1>3, <1>4, FS_Surjection
<1> QED
  BY <1>5, FS_CardinalityType

\* Every rule has its place among the TotalRegras that setup.py installs.
LEMMA Posicoes ==
  /\ total_rodadas \in Nat /\ total_rodadas >= 5 /\ total_rodadas % 2 = 1
  /\ total_rodadas < 2^LarguraRodada /\ 2^LarguraRodada \in Nat
  /\ TotalRegras \in Nat /\ 39 < TotalRegras
  /\ \A r \in 1..(total_rodadas - 1), i \in Estagios : PosForro(r, i) <= TotalRegras
  /\ \A d \in Dispositivos : PosCarrega(d) <= TotalRegras /\ PosFinaliza(d) <= TotalRegras
  /\ PosStart <= TotalRegras /\ PosSetup <= TotalRegras
  /\ \A i \in 1..3 : PosIg(i) <= TotalRegras
  /\ \A i \in 1..8 : PosIgFin(i) <= TotalRegras
  /\ \A i \in 0..1 : PosEgFin(i) <= TotalRegras
<1>1. Cardinality(Dispositivos) \in Nat /\ versao_forro \in Nat /\ versao_forro >= 1
  BY FS_CardinalityType, SetupAssumption
<1> DEFINE c == Cardinality(Dispositivos)
<1>2. \A d \in Dispositivos : d \in 1..c
  BY SetupAssumption
<1> HIDE DEF c
<1>3. c \in Nat
  BY <1>1 DEF c
<1>4. PosFin = 48 * versao_forro /\ PosPadrao = 48 * versao_forro + 2 * c /\ TotalRegras = 48 * versao_forro + 2 * c + 15
  BY <1>1, <1>3 DEF PosFin, PosPadrao, TotalRegras, total_rodadas, c
<1>5. /\ total_rodadas = 4 * versao_forro + 1 /\ total_rodadas >= 5 /\ total_rodadas % 2 = 1
      /\ total_rodadas < 2^LarguraRodada /\ 2^LarguraRodada \in Nat
  BY <1>1, SetupAssumption DEF total_rodadas
<1>6. \A r \in 1..(total_rodadas - 1), i \in Estagios : PosForro(r, i) <= TotalRegras
  BY <1>1, <1>3, <1>4, <1>5 DEF PosForro, Estagios
<1>7. \A d \in Dispositivos : PosCarrega(d) <= TotalRegras /\ PosFinaliza(d) <= TotalRegras
  BY <1>1, <1>2, <1>3, <1>4 DEF PosCarrega, PosFinaliza
<1>8. /\ PosStart <= TotalRegras /\ PosSetup <= TotalRegras
      /\ \A i \in 1..3 : PosIg(i) <= TotalRegras
      /\ \A i \in 1..8 : PosIgFin(i) <= TotalRegras
      /\ \A i \in 0..1 : PosEgFin(i) <= TotalRegras
  BY <1>1, <1>3, <1>4 DEF PosStart, PosSetup, PosIg, PosIgFin, PosEgFin
<1> QED
  BY <1>1, <1>3, <1>4, <1>5, <1>6, <1>7, <1>8

\* Once setup.py has ended every lookup a packet makes finds its rule.
LEMMA TudoInstalado ==
  ASSUME SetupOK, setup.modo = "pronto"
  PROVE  /\ Versao = setup.execucao
         /\ \A t : Tem(t, PosStart) /\ Tem(t, PosSetup)
         /\ \A t : \A d \in Dispositivos : Tem(t, PosCarrega(d)) /\ Tem(t, PosFinaliza(d))
         /\ \A t : \A i \in 1..3 : Tem(t, PosIg(i))
         /\ \A t : \A i \in 1..8 : Tem(t, PosIgFin(i))
         /\ \A t : \A i \in 0..1 : Tem(t, PosEgFin(i))
         /\ \A r \in 1..(total_rodadas - 1), i \in Estagios :
              /\ r % 2 = 1 => Acerta("ig", i, r) /\ ~Acerta("eg", i, r)
              /\ r % 2 = 0 => Acerta("eg", i, r) /\ ~Acerta("ig", i, r)
<1>1. \A t, pos : Tem(t, pos) <=> pos <= TotalRegras
  BY DEF SetupOK, Tem
<1>2. Versao = setup.execucao
  BY DEF Versao
<1>3. \A r \in 1..(total_rodadas - 1), i \in Estagios :
        /\ r % 2 = 1 => Acerta("ig", i, r) /\ ~Acerta("eg", i, r)
        /\ r % 2 = 0 => Acerta("eg", i, r) /\ ~Acerta("ig", i, r)
  BY <1>1, Posicoes DEF Acerta
<1> QED
  BY <1>1, <1>2, <1>3, Posicoes

\* The counter keeps its width, and does not wrap before the fin rule.
LEMMA TipoFatos ==
  /\ 0 \in Opers /\ 1 \in Opers /\ 2 \in Opers /\ 3 \in Opers /\ 4 \in Opers /\ 5 \in Opers
  /\ {"rede", "ingress", "egress", "saida", "descarte"} \subseteq Lugares
  /\ 0 \in Contagens /\ 1 \in Contagens
  /\ \A r \in Contagens : Mais1(r) \in Contagens
  /\ \A r \in 1..(total_rodadas - 1) : r \in Contagens /\ Mais1(r) = r + 1
  /\ \A d \in Dispositivos, e \in Int : Chave[e][d] \in Chaves
  /\ 0 \in Chaves
  /\ \A q \in Provas : q.erro \subseteq Grupos
<1>1. \A r \in 1..(total_rodadas - 1) : r \in Contagens /\ Mais1(r) = r + 1
  BY Posicoes DEF Contagens, Mais1
<1>2. \A r \in Contagens : Mais1(r) \in Contagens
  BY Posicoes DEF Contagens, Mais1
<1>3. 0 \in Contagens /\ 1 \in Contagens
  BY Posicoes DEF Contagens
<1>4. \A q \in Provas : q.erro \subseteq Grupos
  BY EntradasAssumption DEF Provas, SemProva
<1> QED
  BY <1>1, <1>2, <1>3, <1>4 DEF Chaves, Opers, Lugares

\* The bounds of setup.py's progress.
LEMMA SetupFatos ==
  /\ {"pronto", "limpa", "insere", "parado"} \subseteq Modos
  /\ 0 \in Progresso /\ TotalRegras \in Progresso
  /\ \A n \in Progresso : n < TotalRegras => n + 1 \in Progresso
<1>1. {"pronto", "limpa", "insere", "parado"} \subseteq Modos
  BY DEF Modos
<1>2. /\ 0 \in Progresso /\ TotalRegras \in Progresso
      /\ \A n \in Progresso : n < TotalRegras => n + 1 \in Progresso
  BY Posicoes DEF Progresso
<1> QED
  BY <1>1, <1>2

LEMMA DropOK ==
  ASSUME NEW pk, PacoteOK(pk), pk.lugar # "rede",
         ~pk.perturbado /\ pk.oper \in {0, 2, 4, 5} => pk.oper \in {2, 4} /\ ~Certa(pk)
  PROVE  PacoteOK(drop(pk))
<1> DEFINE q == [pk EXCEPT !.lugar = "descarte"]
<1>1. pk \in TipoPacote /\ Seguro(pk) /\ EmServico(pk)
  BY DEF PacoteOK
<1>2. q \in TipoPacote
  BY <1>1, TipoFatos DEF TipoPacote
<1>3. /\ q.lugar = "descarte" /\ q.oper = pk.oper /\ q.disp = pk.disp /\ q.prova = pk.prova
      /\ q.perturbado = pk.perturbado
  BY <1>1 DEF TipoPacote
<1> HIDE DEF q
<1>4. Seguro(q)
  BY <1>1, <1>3 DEF Seguro
<1>5. EmServico(q)
  BY <1>1, <1>3 DEF EmServico, Certa
<1> QED
  BY <1>2, <1>4, <1>5 DEF PacoteOK, drop, q

\* The first traversal: a reply of a listed device is loaded; a start or a setup
\* leaves.
LEMMA InicialOK ==
  ASSUME SetupOK, NEW pk, PacoteOK(pk), pk.lugar = "ingress", pk.oper \notin {3, 4}
  PROVE  PacoteOK(IngressInicial(pk))
<1> DEFINE q == IngressInicial(pk)
           t0 == <<"p4dra_ig", 0>>
           carrega == /\ pk.oper = 2
                      /\ pk.disp \in Dispositivos /\ Tem(t0, PosCarrega(pk.disp))
           inicia == Tem(<<"p4dra_ig", 3>>, PosIg(3))
<1>0. pk \in TipoPacote /\ Seguro(pk) /\ EmServico(pk) /\ pk.perturbado \in BOOLEAN
  BY DEF PacoteOK, TipoPacote
<1>1. CASE pk.oper = 0 /\ Tem(t0, PosStart)
  <2>1. q = [pk EXCEPT !.oper = 1, !.lugar = "saida"]
    BY <1>1 DEF IngressInicial
  <2> HIDE DEF q
  <2>2. q \in TipoPacote
    BY <1>0, <2>1, TipoFatos DEF TipoPacote
  <2>3. q.oper = 1 /\ q.lugar = "saida" /\ q.perturbado = pk.perturbado
    BY <1>0, <2>1 DEF TipoPacote
  <2>4. Seguro(q) /\ EmServico(q)
    BY <1>0, <1>1, <2>3 DEF Seguro, EmServico
  <2> QED
    BY <2>2, <2>4 DEF PacoteOK, q
<1>2. CASE pk.oper = 5 /\ Tem(t0, PosSetup)
  <2>1. q = [pk EXCEPT !.lugar = "saida"]
    BY <1>2 DEF IngressInicial
  <2> HIDE DEF q
  <2>2. q \in TipoPacote
    BY <1>0, <2>1, TipoFatos DEF TipoPacote
  <2>3. q.oper = 5 /\ q.lugar = "saida" /\ q.perturbado = pk.perturbado
    BY <1>0, <1>2, <2>1 DEF TipoPacote
  <2>4. Seguro(q) /\ EmServico(q)
    BY <1>0, <1>2, <2>3 DEF Seguro, EmServico
  <2> QED
    BY <2>2, <2>4 DEF PacoteOK, q
<1>3. CASE carrega /\ inicia
  <2> DEFINE x == \A i \in 1..2 : Tem(<<"p4dra_ig", i>>, PosIg(i))
             k == Chave[Versao][pk.disp]
  <2>1. q = [pk EXCEPT !.oper = 3, !.rodada = 1, !.chave = k, !.exato = x]
    BY <1>3 DEF IngressInicial
  <2>2. k \in Chaves /\ x \in BOOLEAN
    <3>1. Versao \in Int
      BY DEF Versao, SetupOK, TipoSetup
    <3> QED
      BY <1>3, <3>1, TipoFatos
  <2>3. ~pk.perturbado => x /\ k = Chave[setup.execucao][pk.disp] /\ setup.modo = "pronto"
    BY <1>0, TudoInstalado DEF EmServico
  <2> HIDE DEF q, x, k
  <2>4. q \in TipoPacote
    BY <1>0, <2>1, <2>2, TipoFatos DEF TipoPacote
  <2>5. /\ q.oper = 3 /\ q.lugar = "ingress" /\ q.perturbado = pk.perturbado /\ q.rodada = 1
        /\ q.chave = k /\ q.exato = x /\ q.disp = pk.disp
    BY <1>0, <2>1 DEF TipoPacote
  <2>6. Seguro(q)
    BY <1>3, <2>5 DEF Seguro
  <2>7. 1 \in 1..(total_rodadas - 2) /\ 1 % 2 = 1
    BY Posicoes
  <2>8. EmServico(q)
    BY <2>3, <2>5, <2>7 DEF EmServico
  <2> QED
    BY <2>4, <2>6, <2>8 DEF PacoteOK, q
<1>4. CASE /\ ~(pk.oper = 0 /\ Tem(t0, PosStart))
           /\ ~(pk.oper = 5 /\ Tem(t0, PosSetup))
           /\ ~(carrega /\ inicia)
  <2>1. q = drop(pk)
    BY <1>4 DEF IngressInicial, SemPorta
  <2>2. ASSUME ~pk.perturbado, pk.oper \in {0, 2, 4, 5}
        PROVE  pk.oper = 2 /\ ~Certa(pk)
    <3>1. setup.modo = "pronto"
      BY <1>0, <2>2 DEF EmServico
    <3>2. /\ Tem(t0, PosStart) /\ Tem(t0, PosSetup) /\ inicia
          /\ pk.disp \in Dispositivos => Tem(t0, PosCarrega(pk.disp))
      BY <3>1, TudoInstalado
    <3> QED
      BY <1>4, <2>2, <3>2 DEF Certa
  <2> HIDE DEF q
  <2> QED
    BY <2>1, <2>2, DropOK DEF q
<1> QED
  BY <1>1, <1>2, <1>3, <1>4

\* A traversal of the ingress under computation.
LEMMA IngressForroOK ==
  ASSUME SetupOK, NEW pk, PacoteOK(pk), pk.lugar = "ingress", pk.oper = 3
  PROVE  PacoteOK(IngressForro(pk))
<1> DEFINE q == IngressForro(pk)
           x == pk.exato /\ \A i \in Estagios : Acerta("ig", i, pk.rodada)
<1>0. pk \in TipoPacote /\ Seguro(pk) /\ EmServico(pk) /\ pk.perturbado \in BOOLEAN
  BY DEF PacoteOK, TipoPacote
<1>1. q = [pk EXCEPT !.exato = x, !.rodada = Mais1(pk.rodada), !.lugar = "egress"]
  BY <1>0 DEF IngressForro, TipoPacote
<1>2. x \in BOOLEAN
  OBVIOUS
<1>3. ASSUME ~pk.perturbado
      PROVE  /\ x /\ pk.chave = Chave[setup.execucao][pk.disp] /\ setup.modo = "pronto"
             /\ Mais1(pk.rodada) \in 2..(total_rodadas - 1) /\ Mais1(pk.rodada) % 2 = 0
  <2>1. /\ pk.exato /\ pk.chave = Chave[setup.execucao][pk.disp] /\ setup.modo = "pronto"
        /\ pk.rodada \in 1..(total_rodadas - 2) /\ pk.rodada % 2 = 1
    BY <1>0, <1>3 DEF EmServico
  <2>2. pk.rodada \in 1..(total_rodadas - 1)
    BY <2>1, Posicoes
  <2>3. Mais1(pk.rodada) = pk.rodada + 1
    BY <2>2, TipoFatos
  <2> QED
    BY <2>1, <2>2, <2>3, Posicoes, TudoInstalado
<1> HIDE DEF q, x
<1>4. q \in TipoPacote
  BY <1>0, <1>1, <1>2, TipoFatos DEF TipoPacote
<1>5. /\ q.oper = 3 /\ q.lugar = "egress" /\ q.perturbado = pk.perturbado
      /\ q.rodada = Mais1(pk.rodada) /\ q.chave = pk.chave /\ q.exato = x /\ q.disp = pk.disp
  BY <1>0, <1>1 DEF TipoPacote
<1>6. Seguro(q)
  BY <1>0, <1>5 DEF Seguro
<1>7. EmServico(q)
  BY <1>3, <1>5 DEF EmServico
<1> QED
  BY <1>4, <1>6, <1>7 DEF PacoteOK, q

\* A traversal of the egress under computation, the last one included.
LEMMA EgressForroOK ==
  ASSUME SetupOK, NEW pk, PacoteOK(pk), pk.lugar = "egress", pk.oper = 3
  PROVE  PacoteOK(EgressForro(pk))
<1> DEFINE q == EgressForro(pk)
           acerto == {i \in Estagios : Acerta("eg", i, pk.rodada)}
           fim == 11 \in acerto /\ pk.rodada = total_rodadas - 1
           x == pk.exato /\ acerto \in {{}, Estagios}
           o == IF fim THEN 4 ELSE 3
           r == CASE fim -> 0
                  [] ~fim /\ 11 \in acerto -> Mais1(pk.rodada)
                  [] OTHER -> pk.rodada
<1>0. /\ pk \in TipoPacote /\ Seguro(pk) /\ EmServico(pk) /\ pk.perturbado \in BOOLEAN
      /\ pk.rodada \in Contagens
  BY DEF PacoteOK, TipoPacote
<1>1. q = [pk EXCEPT !.exato = x, !.oper = o, !.rodada = r, !.lugar = "ingress"]
  BY <1>0 DEF EgressForro, TipoPacote
<1>2. x \in BOOLEAN /\ o \in {3, 4} /\ r \in Contagens
  BY <1>0, TipoFatos
<1>3. ASSUME ~pk.perturbado
      PROVE  /\ x /\ pk.chave = Chave[setup.execucao][pk.disp] /\ setup.modo = "pronto"
             /\ o = 3 => r \in 1..(total_rodadas - 2) /\ r % 2 = 1
  <2>1. /\ pk.exato /\ pk.chave = Chave[setup.execucao][pk.disp] /\ setup.modo = "pronto"
        /\ pk.rodada \in 2..(total_rodadas - 1) /\ pk.rodada % 2 = 0
    BY <1>0, <1>3 DEF EmServico
  <2>2. pk.rodada \in 1..(total_rodadas - 1)
    BY <2>1, Posicoes
  <2>3. acerto = Estagios /\ 11 \in acerto
    BY <2>1, <2>2, TudoInstalado DEF Estagios
  <2>4. Mais1(pk.rodada) = pk.rodada + 1
    BY <2>2, TipoFatos
  <2>5. o = 3 => r = pk.rodada + 1 /\ pk.rodada # total_rodadas - 1
    BY <2>3, <2>4
  <2>6. o = 3 => r \in 1..(total_rodadas - 2) /\ r % 2 = 1
    BY <2>1, <2>5, Posicoes
  <2> QED
    BY <2>1, <2>3, <2>6
<1> HIDE DEF q, x, o, r, acerto, fim
<1>4. q \in TipoPacote
  BY <1>0, <1>1, <1>2, TipoFatos DEF TipoPacote
<1>5. /\ q.oper = o /\ q.lugar = "ingress" /\ q.perturbado = pk.perturbado
      /\ q.rodada = r /\ q.chave = pk.chave /\ q.exato = x /\ q.disp = pk.disp
  BY <1>0, <1>1 DEF TipoPacote
<1>6. Seguro(q)
  BY <1>0, <1>5 DEF Seguro
<1>7. EmServico(q)
  BY <1>2, <1>3, <1>5 DEF EmServico
<1> QED
  BY <1>4, <1>6, <1>7 DEF PacoteOK, q

\* The comparison in the ingress: nothing differs only from an intact proof of
\* the key loaded, and nothing differs from a right one under complete tables.
LEMMA DifereFatos ==
  ASSUME SetupOK, NEW pk, PacoteOK(pk), pk.lugar = "ingress", pk.oper = 4
  PROVE  /\ Difere(pk) \cap Grupos = {} => pk.prova.erro = {} /\ pk.prova.chave = pk.chave
         /\ ~pk.perturbado /\ Certa(pk) => Difere(pk) = {}
<1>0. pk \in TipoPacote /\ Seguro(pk) /\ EmServico(pk)
  BY DEF PacoteOK
<1>1. ASSUME Difere(pk) \cap Grupos = {}
      PROVE  pk.prova.erro = {} /\ pk.prova.chave = pk.chave
  <2>1. Grupos # {} /\ pk.prova.erro \subseteq Grupos
    BY <1>0, TipoFatos DEF Grupos, TipoPacote
  <2>2. ~(\/ ~pk.exato \/ pk.chave # pk.prova.chave
          \/ ~Tem(<<"p4dra_ig_fin", 0>>, PosFinaliza(pk.disp)))
    BY <1>1, <2>1 DEF Difere
  <2>3. pk.prova.erro \subseteq Difere(pk)
    BY <2>2 DEF Difere
  <2> QED
    BY <1>1, <2>1, <2>2, <2>3
<1>2. ASSUME ~pk.perturbado, Certa(pk)
      PROVE  Difere(pk) = {}
  <2>1. /\ setup.modo = "pronto" /\ pk.exato /\ pk.disp \in Dispositivos
        /\ pk.chave = Chave[setup.execucao][pk.disp]
        /\ pk.prova.chave = Chave[setup.execucao][pk.disp] /\ pk.prova.erro = {}
    BY <1>0, <1>2 DEF EmServico, Certa
  <2>2. /\ Versao = setup.execucao /\ Tem(<<"p4dra_ig_fin", 0>>, PosFinaliza(pk.disp))
        /\ \A i \in 1..8 : Tem(<<"p4dra_ig_fin", i>>, PosIgFin(i))
    BY <2>1, TudoInstalado
  <2> QED
    BY <2>1, <2>2 DEF Difere
<1> QED
  BY <1>1, <1>2

LEMMA IngressVerificaOK ==
  ASSUME SetupOK, NEW pk, PacoteOK(pk), pk.lugar = "ingress", pk.oper = 4
  PROVE  PacoteOK(IngressVerifica(pk))
<1> DEFINE q == IngressVerifica(pk)
           ruim == Difere(pk)
           cai == \/ "A" \in ruim \/ ~Tem(<<"p4dra_ig_fin", 6>>, PosIgFin(6))
                  \/ "B" \in ruim \/ ~Tem(<<"p4dra_ig_fin", 7>>, PosIgFin(7))
                  \/ "C" \in ruim \/ ~Tem(<<"p4dra_ig_fin", 8>>, PosIgFin(8))
           sem == ~Tem(<<"p4dra_ig_fin", 4>>, PosIgFin(4))
           x == "D" \notin ruim
<1>0. pk \in TipoPacote /\ Seguro(pk) /\ EmServico(pk) /\ pk.perturbado \in BOOLEAN
  BY DEF PacoteOK, TipoPacote
<1>1. CASE cai \/ sem
  <2>1. q = drop(pk)
    BY <1>1 DEF IngressVerifica, SemPorta
  <2>2. ~pk.perturbado => ~Certa(pk)
    <3>1. SUFFICES ASSUME ~pk.perturbado, Certa(pk) PROVE FALSE
      OBVIOUS
    <3>2. setup.modo = "pronto" /\ ruim = {}
      BY <1>0, <3>1, DifereFatos DEF EmServico
    <3>3. \A i \in 1..8 : Tem(<<"p4dra_ig_fin", i>>, PosIgFin(i))
      BY <3>2, TudoInstalado
    <3> QED
      BY <1>1, <3>2, <3>3
  <2> HIDE DEF q
  <2> QED
    BY <2>1, <2>2, DropOK DEF q
<1>2. CASE ~cai /\ ~sem
  <2>1. q = [pk EXCEPT !.lugar = "egress", !.exato = x]
    BY <1>2 DEF IngressVerifica
  <2>2. x => pk.prova.erro = {} /\ pk.prova.chave = pk.chave
    BY <1>2, DifereFatos DEF Grupos
  <2>3. ~pk.perturbado /\ Certa(pk) => x
    BY DifereFatos
  <2>4. x \in BOOLEAN
    OBVIOUS
  <2> HIDE DEF q, x, cai, sem
  <2>5. q \in TipoPacote
    BY <1>0, <2>1, <2>4, TipoFatos DEF TipoPacote
  <2>6. /\ q.oper = 4 /\ q.lugar = "egress" /\ q.perturbado = pk.perturbado
        /\ q.chave = pk.chave /\ q.exato = x /\ q.disp = pk.disp /\ q.prova = pk.prova
    BY <1>0, <2>1 DEF TipoPacote
  <2>7. Seguro(q)
    BY <1>0, <2>2, <2>6 DEF Seguro
  <2>8. EmServico(q)
    BY <1>0, <2>3, <2>6 DEF EmServico, Certa
  <2> QED
    BY <2>5, <2>7, <2>8 DEF PacoteOK, q
<1> QED
  BY <1>1, <1>2

LEMMA EgressVerificaOK ==
  ASSUME SetupOK, NEW pk, PacoteOK(pk), pk.lugar = "egress", pk.oper = 4
  PROVE  PacoteOK(EgressVerifica(pk))
<1> DEFINE q == EgressVerifica(pk)
           passa == Tem(<<"p4dra_eg_fin", 1>>, PosEgFin(1)) /\ pk.exato
<1>0. pk \in TipoPacote /\ Seguro(pk) /\ EmServico(pk) /\ pk.perturbado \in BOOLEAN
  BY DEF PacoteOK, TipoPacote
<1>1. CASE passa
  <2>1. q = [pk EXCEPT !.lugar = "saida"]
    BY <1>1 DEF EgressVerifica
  <2> HIDE DEF q
  <2>2. q \in TipoPacote
    BY <1>0, <2>1, TipoFatos DEF TipoPacote
  <2>3. /\ q.oper = 4 /\ q.lugar = "saida" /\ q.perturbado = pk.perturbado
        /\ q.chave = pk.chave /\ q.disp = pk.disp /\ q.prova = pk.prova
    BY <1>0, <2>1 DEF TipoPacote
  <2>4. Seguro(q) /\ EmServico(q)
    BY <1>0, <1>1, <2>3 DEF Seguro, EmServico
  <2> QED
    BY <2>2, <2>4 DEF PacoteOK, q
<1>2. CASE ~passa
  <2>1. q = drop(pk)
    BY <1>2 DEF EgressVerifica
  <2>2. ~pk.perturbado => ~Certa(pk)
    <3>1. SUFFICES ASSUME ~pk.perturbado, Certa(pk) PROVE FALSE
      OBVIOUS
    <3>2. setup.modo = "pronto" /\ pk.exato
      BY <1>0, <3>1 DEF EmServico
    <3> QED
      BY <1>2, <3>2, TudoInstalado
  <2> HIDE DEF q
  <2> QED
    BY <2>1, <2>2, DropOK DEF q
<1> QED
  BY <1>1, <1>2

\* A packet goes one step on while the tables stay as they are.
LEMMA PacotePreserva ==
  ASSUME Ind, NEW p \in Pacotes, NEW q, PacoteOK(q), pkt' = [pkt EXCEPT ![p] = q],
         UNCHANGED setup
  PROVE  Ind'
<1>1. /\ pkt' \in [Pacotes -> TipoPacote] /\ pkt'[p] = q
      /\ \A g \in Pacotes : g # p => pkt'[g] = pkt[g]
  BY DEF Ind, PacoteOK
<1>2. \A g \in Pacotes : Seguro(pkt'[g])
  BY <1>1 DEF Ind, PacoteOK
<1>3. \A g \in Pacotes : EmServico(pkt[g])'
  BY <1>1 DEF Ind, PacoteOK, EmServico, Certa
<1>4. SetupOK'
  BY DEF Ind, SetupOK
<1> QED
  BY <1>1, <1>2, <1>3, <1>4 DEF Ind, Seguro

\* setup.py goes one step on: no packet that is in the switch is left undisturbed.
LEMMA SetupPreserva ==
  ASSUME Ind, SetupOK', UNCHANGED pkt, setup.modo # "pronto"
  PROVE  Ind'
BY DEF Ind, Seguro, EmServico

LEMMA ComecaPreserva ==
  ASSUME Ind, Comeca
  PROVE  Ind'
<1>1. SetupOK'
  <2>1. PICK o \in Ordens : setup' = [modo |-> "limpa", n |-> 0, antes |-> setup.n, ordem |-> o,
                                     execucao |-> setup.execucao + 1]
    BY DEF Comeca
  <2>2. setup.n \in Progresso /\ setup.execucao + 1 \in Int
    BY DEF Ind, SetupOK, TipoSetup
  <2>3. setup' \in TipoSetup /\ setup'.modo = "limpa"
    BY <2>1, <2>2, SetupFatos DEF TipoSetup, OrdensOuInicial
  <2> QED
    BY <2>3 DEF SetupOK
<1>2. /\ pkt' \in [Pacotes -> TipoPacote]
      /\ \A p \in Pacotes :
           /\ pkt'[p].perturbado
           /\ \A c \in {"lugar", "oper", "disp", "prova", "chave", "exato"} : pkt'[p][c] = pkt[p][c]
  BY DEF Ind, Comeca, TipoPacote
<1>3. \A p \in Pacotes : Seguro(pkt[p])'
  BY <1>2 DEF Ind, Seguro
<1>4. \A p \in Pacotes : EmServico(pkt[p])'
  BY <1>2 DEF EmServico
<1> QED
  BY <1>1, <1>2, <1>3, <1>4 DEF Ind

LEMMA IndInit == Init => Ind
<1> SUFFICES ASSUME Init PROVE Ind
  OBVIOUS
<1> DEFINE q == [lugar |-> "rede", oper |-> 0, disp |-> 0, prova |-> SemProva, rodada |-> 0,
                 chave |-> 0, exato |-> FALSE, perturbado |-> FALSE]
<1>1. SetupOK
  <2> DEFINE o == CHOOSE x \in Ordens : TRUE
  <2>1. setup = [modo |-> "pronto", n |-> TotalRegras, antes |-> 0, execucao |-> 1, ordem |-> o]
    BY DEF Init, SetupPronto
  <2>2. o \in OrdensOuInicial
    BY DEF OrdensOuInicial
  <2> HIDE DEF o
  <2>3. setup \in TipoSetup /\ setup.modo = "pronto" /\ setup.n = TotalRegras
    BY <2>1, <2>2, SetupFatos DEF TipoSetup
  <2> QED
    BY <2>3 DEF SetupOK
<1>2. q \in TipoPacote
  BY TipoFatos DEF TipoPacote, Disps, Provas
<1>3. \A p \in Pacotes : pkt[p] = q
  BY DEF Init
<1>4. Seguro(q) /\ EmServico(q)
  BY DEF Seguro, EmServico
<1>5. pkt \in [Pacotes -> TipoPacote]
  BY <1>2 DEF Init
<1> QED
  BY <1>1, <1>3, <1>4, <1>5 DEF Ind

LEMMA IndNext == Ind /\ [Next]_vars => Ind'
<1> SUFFICES ASSUME Ind, [Next]_vars PROVE Ind'
  OBVIOUS
<1>0. SetupOK /\ \A p \in Pacotes : PacoteOK(pkt[p])
  BY DEF Ind, PacoteOK
<1>1. CASE Limpa
  <2>1. setup.modo = "limpa" /\ setup \in TipoSetup /\ setup.n \in Progresso
    BY <1>0, <1>1 DEF Limpa, SetupOK, TipoSetup
  <2>2. CASE setup.n < Cardinality(Tabelas)
    <3>1. setup.n + 1 \in Progresso
      BY <2>1, <2>2, TabelasContadas, Posicoes DEF Progresso
    <3>2. setup' = [setup EXCEPT !.n = setup.n + 1]
      BY <1>1, <2>1, <2>2 DEF Limpa, TipoSetup
    <3>3. setup' \in TipoSetup /\ setup'.modo = "limpa"
      BY <2>1, <3>1, <3>2 DEF TipoSetup
    <3>4. SetupOK'
      BY <3>3 DEF SetupOK
    <3> QED
      BY <1>1, <2>1, <3>4, SetupPreserva DEF Limpa
  <2>3. CASE ~(setup.n < Cardinality(Tabelas))
    <3>1. setup' = [setup EXCEPT !.modo = "insere", !.n = 0]
      BY <1>1, <2>3 DEF Limpa
    <3>2. setup' \in TipoSetup /\ setup'.modo = "insere" /\ setup'.n = 0
      BY <2>1, <3>1, SetupFatos DEF TipoSetup
    <3>3. SetupOK'
      BY <3>2, Posicoes DEF SetupOK
    <3> QED
      BY <1>1, <2>1, <3>3, SetupPreserva DEF Limpa
  <2> QED
    BY <2>2, <2>3
<1>2. CASE Insere
  <2> DEFINE m == IF setup.n + 1 = TotalRegras THEN "pronto" ELSE "insere"
  <2>1. /\ setup.modo = "insere" /\ setup \in TipoSetup /\ setup.n \in Progresso
        /\ setup.n < TotalRegras
    BY <1>0, <1>2 DEF Insere, SetupOK, TipoSetup
  <2>2. setup' = [setup EXCEPT !.n = setup.n + 1, !.modo = m]
    BY <1>2, <2>1 DEF Insere, TipoSetup
  <2>3. m \in Modos /\ setup.n + 1 \in Progresso
    BY <2>1, SetupFatos
  <2>4. setup' \in TipoSetup /\ setup'.n = setup.n + 1 /\ setup'.modo = m
    <3> HIDE DEF m
    <3> QED
      BY <2>1, <2>2, <2>3 DEF TipoSetup
  <2>5. SetupOK'
    BY <2>1, <2>4, Posicoes DEF SetupOK, Progresso
  <2> QED
    BY <1>2, <2>5, SetupPreserva DEF Insere
<1>3. CASE Aborta
  <2>1. SetupOK'
    BY <1>0, <1>3, SetupFatos DEF Aborta, SetupOK, TipoSetup
  <2> QED
    BY <1>3, <2>1, SetupPreserva DEF Aborta
<1>4. ASSUME NEW p \in Pacotes, Chega(p)
      PROVE  Ind'
  <2>1. PICK m \in Entradas :
          pkt' = [pkt EXCEPT ![p] =
                    [lugar |-> "ingress", oper |-> m.oper, disp |-> m.disp, prova |-> m.prova,
                     rodada |-> 0, chave |-> 0, exato |-> FALSE,
                     perturbado |-> setup.modo # "pronto"]]
    BY <1>4 DEF Chega
  <2> DEFINE q == [lugar |-> "ingress", oper |-> m.oper, disp |-> m.disp, prova |-> m.prova,
                   rodada |-> 0, chave |-> 0, exato |-> FALSE,
                   perturbado |-> setup.modo # "pronto"]
  <2>2. m.oper \in {0, 1, 2, 5} /\ m.oper \in Opers
    BY EntradasAssumption, TipoFatos
  <2>3. q \in TipoPacote
    BY <2>2, TipoFatos DEF TipoPacote, Disps, Provas
  <2>4. q.lugar = "ingress" /\ q.oper \notin {3, 4} /\ (~q.perturbado => setup.modo = "pronto")
    <3>1. q.lugar = "ingress" /\ q.oper = m.oper
      OBVIOUS
    <3>2. q.perturbado = (setup.modo # "pronto")
      BY Zenon
    <3> HIDE DEF q
    <3>3. ~q.perturbado => setup.modo = "pronto"
      BY <3>2, Zenon
    <3> QED
      BY <2>2, <3>1, <3>3
  <2> HIDE DEF q
  <2>5. Seguro(q) /\ EmServico(q)
    BY <2>4 DEF Seguro, EmServico
  <2> QED
    BY <1>4, <2>1, <2>3, <2>5, PacotePreserva DEF Chega, PacoteOK, q
<1>5. ASSUME NEW p \in Pacotes, Ingress(p)
      PROVE  Ind'
  <2> DEFINE q == CASE pkt[p].oper = 3 -> IngressForro(pkt[p])
                    [] pkt[p].oper = 4 -> IngressVerifica(pkt[p])
                    [] OTHER           -> IngressInicial(pkt[p])
  <2>1. pkt[p].lugar = "ingress" /\ pkt' = [pkt EXCEPT ![p] = q] /\ UNCHANGED setup
    BY <1>5 DEF Ingress, Ind
  <2>2. PacoteOK(q)
    <3>1. CASE pkt[p].oper = 3
      BY <1>0, <2>1, <3>1, IngressForroOK
    <3>2. CASE pkt[p].oper = 4
      BY <1>0, <2>1, <3>2, IngressVerificaOK
    <3>3. CASE pkt[p].oper \notin {3, 4}
      BY <1>0, <2>1, <3>3, InicialOK
    <3> QED
      BY <3>1, <3>2, <3>3
  <2> HIDE DEF q
  <2> QED
    BY <2>1, <2>2, PacotePreserva
<1>6. ASSUME NEW p \in Pacotes, Egress(p)
      PROVE  Ind'
  <2> DEFINE q == IF pkt[p].oper = 3 THEN EgressForro(pkt[p]) ELSE EgressVerifica(pkt[p])
  <2>1. pkt[p].lugar = "egress" /\ pkt' = [pkt EXCEPT ![p] = q] /\ UNCHANGED setup
    BY <1>6 DEF Egress, Ind
  <2>2. pkt[p].oper \in {3, 4}
    BY <2>1 DEF Ind, Seguro
  <2>3. PacoteOK(q)
    <3>1. CASE pkt[p].oper = 3
      BY <1>0, <2>1, <3>1, EgressForroOK
    <3>2. CASE pkt[p].oper = 4
      BY <1>0, <2>1, <3>2, EgressVerificaOK
    <3> QED
      BY <2>2, <3>1, <3>2
  <2> HIDE DEF q
  <2> QED
    BY <2>1, <2>3, PacotePreserva
<1>7. CASE UNCHANGED vars
  BY <1>7 DEF vars, Ind, SetupOK, Seguro, EmServico, Certa
<1> QED
  BY <1>1, <1>2, <1>3, <1>4, <1>5, <1>6, <1>7, ComecaPreserva DEF Next

LEMMA Invariante == Spec => []Ind
BY IndInit, IndNext, PTL DEF Spec
-----------------------------------------------------------------------------
(* Type correctness of the switch and of setup.py's progress, the counter   *)
(* of rodadas within its width included.                                    *)
THEOREM TipoCorretoSetup == Spec => []TypeOK
<1>1. Ind => TypeOK
  <2> SUFFICES ASSUME Ind PROVE TypeOK
    OBVIOUS
  <2>1. \A p \in Pacotes :
          /\ pkt[p].lugar \in Lugares /\ pkt[p].oper \in Opers /\ pkt[p].rodada \in Contagens
          /\ pkt[p].exato \in BOOLEAN /\ pkt[p].perturbado \in BOOLEAN
    BY DEF Ind, TipoPacote
  <2> QED
    BY <2>1 DEF Ind, SetupOK, TipoSetup, Modos, Progresso, TypeOK, Lugares, Opers, Contagens
<1> QED
  BY <1>1, Invariante, PTL

(* Whatever clear_all has taken away and the rules not yet back, a packet   *)
(* that leaves by the CPU port as attested is an intact reply of a listed   *)
(* device, computed with the key it was loaded with.                        *)
THEOREM SemAtestadoErrado == Spec => []SetupNaoAtestaErrado
<1>1. Ind => SetupNaoAtestaErrado
  BY DEF Ind, Seguro, SetupNaoAtestaErrado, Atestado
<1> QED
  BY <1>1, Invariante, PTL

(* After setup.py has ended the switch drops no right reply, no start and   *)
(* no setup that arrived since, however often and however incompletely it   *)
(* was run before.                                                          *)
THEOREM ServicoRestaurado == Spec => []SetupRestauraServico
<1>1. Ind => SetupRestauraServico
  BY DEF Ind, EmServico, Certa, SetupRestauraServico
<1> QED
  BY <1>1, Invariante, PTL
-----------------------------------------------------------------------------
(***************************************************************************)
(* The measure of RecirculacaoAvanca.                                      *)
(***************************************************************************)
\* One count takes the distance along, around the wrap too; and the rules are
\* at distances that no count jumps over.
LEMMA DistanciaFatos ==
  ASSUME NEW r \in Contagens
  PROVE  /\ Distancia(r, total_rodadas - 1) \in 0..(2^LarguraRodada - 1)
         /\ Distancia(r, total_rodadas - 2) \in 0..(2^LarguraRodada - 1)
         /\ Distancia(Mais1(r), total_rodadas - 1) = Distancia(r, total_rodadas - 2)
         /\ r # total_rodadas - 1
              => Distancia(r, total_rodadas - 2) = Distancia(r, total_rodadas - 1) - 1
         /\ r < total_rodadas - 2
              => Distancia(Mais1(r), total_rodadas - 2) = Distancia(r, total_rodadas - 1) - 2
<1> DEFINE w == 2^LarguraRodada
           t == total_rodadas
<1>1. w \in Nat /\ t \in Nat /\ t >= 5 /\ t < w /\ r \in 0..(w - 1)
  BY Posicoes DEF Contagens
<1>2. Mais1(r) = (r + 1) % w
  BY DEF Mais1
<1>3. \A x, a : Distancia(x, a) = IF x <= a THEN a - x ELSE a - x + w
  BY DEF Distancia
<1> HIDE DEF w, t
<1>4. (r + 1) % w = IF r = w - 1 THEN 0 ELSE r + 1
  BY <1>1
<1>5. CASE r = w - 1
  <2>1. Mais1(r) = 0
    BY <1>2, <1>4, <1>5
  <2>2. /\ Distancia(r, t - 1) = t /\ Distancia(r, t - 2) = t - 1
        /\ Distancia(0, t - 1) = t - 1
    BY <1>1, <1>3, <1>5
  <2>3. r >= t
    BY <1>1, <1>5
  <2> QED
    BY <1>1, <2>1, <2>2, <2>3 DEF w, t
<1>6. CASE r # w - 1
  BY <1>1, <1>2, <1>3, <1>4, <1>6 DEF w, t
<1> QED
  BY <1>5, <1>6

\* A packet in the switch has a traversal to make, and not too many.
LEMMA FaltamLimites ==
  ASSUME NEW pk, PacoteOK(pk), pk.lugar # "rede"
  PROVE  /\ pk.lugar \in {"ingress", "egress"}
              => Faltam(pk) \in 1..(2 * 2^LarguraRodada + 2)
         /\ pk.lugar \in {"saida", "descarte"} => Faltam(pk) = 0
<1> DEFINE w == 2^LarguraRodada
<1>1. /\ pk.rodada \in Contagens /\ pk.lugar \in Lugares
      /\ pk.lugar = "egress" => pk.oper \in {3, 4}
  BY DEF PacoteOK, TipoPacote, Seguro
<1>2. w \in Nat /\ total_rodadas \in Nat /\ total_rodadas < w /\ total_rodadas >= 5
  BY Posicoes
<1>3. /\ Distancia(pk.rodada, total_rodadas - 1) \in 0..(w - 1)
      /\ Distancia(pk.rodada, total_rodadas - 2) \in 0..(w - 1)
  BY <1>1, DistanciaFatos
<1>4. Distancia(1, total_rodadas - 2) = total_rodadas - 3
  BY <1>2 DEF Distancia
<1> HIDE DEF w
<1>5. CASE pk.lugar = "egress" /\ pk.oper = 4
  BY <1>2, <1>5 DEF Faltam, w
<1>6. CASE pk.lugar = "ingress" /\ pk.oper = 4
  BY <1>2, <1>6 DEF Faltam, w
<1>7. CASE pk.lugar = "egress" /\ pk.oper = 3
  <2>1. Faltam(pk) = 3 + 2 * Distancia(pk.rodada, total_rodadas - 1)
    BY <1>7 DEF Faltam
  <2> QED
    BY <1>2, <1>3, <1>7, <2>1 DEF w
<1>8. CASE pk.lugar = "ingress" /\ pk.oper = 3
  <2>1. Faltam(pk) = 4 + 2 * Distancia(pk.rodada, total_rodadas - 2)
    BY <1>8 DEF Faltam
  <2> QED
    BY <1>2, <1>3, <1>8, <2>1 DEF w
<1>9. CASE pk.lugar = "ingress" /\ pk.oper \notin {3, 4}
  <2>1. Faltam(pk) = 5 + 2 * Distancia(1, total_rodadas - 2)
    BY <1>9 DEF Faltam
  <2> QED
    BY <1>2, <1>4, <1>9, <2>1 DEF w
<1>10. CASE pk.lugar \in {"saida", "descarte"}
  BY <1>10 DEF Faltam
<1> QED
  BY <1>1, <1>5, <1>6, <1>7, <1>8, <1>9, <1>10 DEF Lugares

\* The first traversal starts the computation or decides.
LEMMA InicialAvanca ==
  ASSUME SetupOK, NEW pk, PacoteOK(pk), pk.lugar = "ingress", pk.oper \notin {3, 4}
  PROVE  /\ IngressInicial(pk).lugar \in {"ingress", "saida", "descarte"}
         /\ IngressInicial(pk).lugar = "ingress" =>
              Faltam(IngressInicial(pk)) = Faltam(pk) - 1
<1>0. pk \in TipoPacote
  BY DEF PacoteOK
<1> DEFINE q == IngressInicial(pk)
           k == Chave[Versao][pk.disp]
           x == \A i \in 1..2 : Tem(<<"p4dra_ig", i>>, PosIg(i))
<1>1. \/ q = [pk EXCEPT !.oper = 1, !.lugar = "saida"]
      \/ q = [pk EXCEPT !.lugar = "saida"]
      \/ q = [pk EXCEPT !.lugar = "descarte"]
      \/ q = [pk EXCEPT !.oper = 3, !.rodada = 1, !.chave = k, !.exato = x]
  BY DEF IngressInicial, SemPorta, drop
<1> HIDE DEF q, k, x
<1>2. CASE \/ q = [pk EXCEPT !.oper = 1, !.lugar = "saida"]
           \/ q = [pk EXCEPT !.lugar = "saida"]
           \/ q = [pk EXCEPT !.lugar = "descarte"]
  <2>1. q.lugar \in {"saida", "descarte"}
    BY <1>0, <1>2 DEF TipoPacote
  <2> QED
    BY <2>1 DEF q
<1>3. CASE q = [pk EXCEPT !.oper = 3, !.rodada = 1, !.chave = k, !.exato = x]
  <2>1. q.lugar = "ingress" /\ q.oper = 3 /\ q.rodada = 1
    BY <1>0, <1>3 DEF TipoPacote
  <2>2. /\ Faltam(q) = 4 + 2 * Distancia(1, total_rodadas - 2)
        /\ Faltam(pk) = 5 + 2 * Distancia(1, total_rodadas - 2)
    BY <2>1 DEF Faltam
  <2>3. Distancia(1, total_rodadas - 2) \in Nat
    BY Posicoes DEF Distancia
  <2> QED
    BY <2>1, <2>2, <2>3 DEF q
<1> QED
  BY <1>1, <1>2, <1>3

\* A traversal of the ingress counts once, with or without its rules.
LEMMA IngressForroAvanca ==
  ASSUME SetupOK, NEW pk, PacoteOK(pk), pk.lugar = "ingress", pk.oper = 3
  PROVE  /\ IngressForro(pk).lugar = "egress"
         /\ Faltam(IngressForro(pk)) = Faltam(pk) - 1
<1> DEFINE q == IngressForro(pk)
           x == pk.exato /\ \A i \in Estagios : Acerta("ig", i, pk.rodada)
<1>0. pk \in TipoPacote /\ pk.rodada \in Contagens
  BY DEF PacoteOK, TipoPacote
<1>1. q = [pk EXCEPT !.exato = x, !.rodada = Mais1(pk.rodada), !.lugar = "egress"]
  BY <1>0 DEF IngressForro, TipoPacote
<1> HIDE DEF q, x
<1>2. q.oper = 3 /\ q.lugar = "egress" /\ q.rodada = Mais1(pk.rodada)
  BY <1>0, <1>1 DEF TipoPacote
<1>3. /\ Faltam(q) = 3 + 2 * Distancia(Mais1(pk.rodada), total_rodadas - 1)
      /\ Faltam(pk) = 4 + 2 * Distancia(pk.rodada, total_rodadas - 2)
  BY <1>2 DEF Faltam
<1>4. /\ Distancia(Mais1(pk.rodada), total_rodadas - 1) = Distancia(pk.rodada, total_rodadas - 2)
      /\ Distancia(pk.rodada, total_rodadas - 2) \in Nat
  BY <1>0, DistanciaFatos, Posicoes
<1> QED
  BY <1>2, <1>3, <1>4 DEF q

\* A traversal of the egress ends the computation at the fin rule, counts at the
\* other even rodadas, and elsewhere leaves the count to the next ingress.
LEMMA EgressForroAvanca ==
  ASSUME SetupOK, setup.modo = "pronto",
         NEW pk, PacoteOK(pk), pk.lugar = "egress", pk.oper = 3
  PROVE  /\ EgressForro(pk).lugar = "ingress"
         /\ Faltam(EgressForro(pk)) < Faltam(pk)
<1> DEFINE q == EgressForro(pk)
           t == total_rodadas
           acerto == {i \in Estagios : Acerta("eg", i, pk.rodada)}
           fim == 11 \in acerto /\ pk.rodada = total_rodadas - 1
           x == pk.exato /\ acerto \in {{}, Estagios}
           o == IF fim THEN 4 ELSE 3
           r == CASE fim -> 0
                  [] ~fim /\ 11 \in acerto -> Mais1(pk.rodada)
                  [] OTHER -> pk.rodada
<1>0. pk \in TipoPacote /\ pk.rodada \in Contagens
  BY DEF PacoteOK, TipoPacote
<1>1. q = [pk EXCEPT !.exato = x, !.oper = o, !.rodada = r, !.lugar = "ingress"]
  BY <1>0 DEF EgressForro, TipoPacote
<1>2. /\ t \in Nat /\ t >= 5 /\ t % 2 = 1
      /\ pk.rodada \in Nat
  BY <1>0, Posicoes DEF Contagens
<1>3. 11 \in acerto <=> pk.rodada \in 1..(t - 1) /\ pk.rodada % 2 = 0
  <2>1. 11 \in Estagios
    BY DEF Estagios
  <2>2. ASSUME pk.rodada \in 1..(t - 1), pk.rodada % 2 = 0
        PROVE  Acerta("eg", 11, pk.rodada)
    BY <2>1, <2>2, TudoInstalado
  <2>3. ASSUME Acerta("eg", 11, pk.rodada)
        PROVE  pk.rodada \in 1..(t - 1) /\ pk.rodada % 2 = 0
    BY <2>3 DEF Acerta
  <2> QED
    BY <2>1, <2>2, <2>3
<1>4. Faltam(pk) = 3 + 2 * Distancia(pk.rodada, t - 1)
  BY DEF Faltam
<1>5. /\ Distancia(pk.rodada, t - 1) \in Nat
      /\ pk.rodada # t - 1 => Distancia(pk.rodada, t - 2) = Distancia(pk.rodada, t - 1) - 1
      /\ pk.rodada < t - 2
           => Distancia(Mais1(pk.rodada), t - 2) = Distancia(pk.rodada, t - 1) - 2
  BY <1>0, DistanciaFatos, Posicoes
<1>6. CASE pk.rodada = t - 1
  <2>1. fim
    BY <1>2, <1>3, <1>6
  <2>2. o = 4
    BY <2>1
  <2> HIDE DEF q, o, r, x
  <2>3. q.oper = 4 /\ q.lugar = "ingress"
    BY <1>0, <1>1, <2>2 DEF TipoPacote
  <2>4. Faltam(q) = 2
    BY <2>3 DEF Faltam
  <2> QED
    BY <1>4, <1>5, <2>3, <2>4 DEF q
<1>7. CASE pk.rodada # t - 1
  <2>1. ~fim /\ o = 3 /\ r = IF 11 \in acerto THEN Mais1(pk.rodada) ELSE pk.rodada
    BY <1>7
  <2>2. 11 \in acerto => pk.rodada < t - 2
    BY <1>2, <1>3, <1>7
  <2> HIDE DEF q, o, r, x, acerto, fim
  <2>3. q.oper = 3 /\ q.lugar = "ingress" /\ q.rodada = r
    BY <1>0, <1>1, <2>1 DEF TipoPacote
  <2>4. Faltam(q) = 4 + 2 * Distancia(r, t - 2)
    BY <2>3 DEF Faltam
  <2>5. \/ Distancia(r, t - 2) = Distancia(pk.rodada, t - 1) - 1
        \/ Distancia(r, t - 2) = Distancia(pk.rodada, t - 1) - 2
    BY <1>5, <1>7, <2>1, <2>2
  <2> QED
    BY <1>4, <1>5, <2>3, <2>4, <2>5 DEF q
<1> QED
  BY <1>6, <1>7

\* The two traversals of the comparison.
LEMMA VerificaAvanca ==
  ASSUME NEW pk, PacoteOK(pk), pk.oper = 4
  PROVE  /\ pk.lugar = "ingress" =>
              /\ IngressVerifica(pk).lugar \in {"egress", "descarte"}
              /\ IngressVerifica(pk).lugar = "egress" =>
                   Faltam(IngressVerifica(pk)) < Faltam(pk)
         /\ pk.lugar = "egress" => EgressVerifica(pk).lugar \in {"saida", "descarte"}
<1>0. pk \in TipoPacote
  BY DEF PacoteOK
<1>1. ASSUME pk.lugar = "ingress"
      PROVE  /\ IngressVerifica(pk).lugar \in {"egress", "descarte"}
             /\ IngressVerifica(pk).lugar = "egress" =>
                  Faltam(IngressVerifica(pk)) < Faltam(pk)
  <2> DEFINE q == IngressVerifica(pk)
  <2>1. \/ q = [pk EXCEPT !.lugar = "descarte"]
        \/ \E x : q = [pk EXCEPT !.lugar = "egress", !.exato = x]
    BY DEF IngressVerifica, SemPorta, drop
  <2> HIDE DEF q
  <2>2. q.lugar \in {"egress", "descarte"} /\ q.oper = 4
    BY <1>0, <2>1 DEF TipoPacote
  <2>3. Faltam(pk) = 2 /\ (q.lugar = "egress" => Faltam(q) = 1)
    BY <1>1, <2>2 DEF Faltam
  <2> QED
    BY <2>2, <2>3 DEF q
<1>2. ASSUME pk.lugar = "egress"
      PROVE  EgressVerifica(pk).lugar \in {"saida", "descarte"}
  BY <1>0 DEF EgressVerifica, drop, TipoPacote
<1> QED
  BY <1>1, <1>2

\* What the property asks of a packet pk that becomes q.
Avanca(pk, q) ==
  /\ Faltam(pk) \in 1..(2 * 2^LarguraRodada + 2)
  /\ Faltam(q) \in 0..(Faltam(pk) - 1)
  /\ Faltam(q) = 0 <=> q.lugar \in {"saida", "descarte"}

LEMMA AvancaFatos ==
  ASSUME NEW pk, PacoteOK(pk), pk.lugar \in {"ingress", "egress"},
         NEW q, PacoteOK(q), q.lugar # "rede",
         q.lugar \in {"ingress", "egress"} => Faltam(q) < Faltam(pk)
  PROVE  Avanca(pk, q)
<1>1. /\ Faltam(pk) \in 1..(2 * 2^LarguraRodada + 2)
      /\ q.lugar \in {"ingress", "egress"} => Faltam(q) \in 1..(2 * 2^LarguraRodada + 2)
      /\ q.lugar \in {"saida", "descarte"} => Faltam(q) = 0
  BY FaltamLimites
<1>2. q.lugar \in {"ingress", "egress", "saida", "descarte"}
  BY DEF PacoteOK, TipoPacote, Lugares
<1>3. 2^LarguraRodada \in Nat
  BY Posicoes
<1>4. CASE q.lugar \in {"ingress", "egress"}
  BY <1>1, <1>3, <1>4 DEF Avanca
<1>5. CASE q.lugar \in {"saida", "descarte"}
  BY <1>1, <1>3, <1>5 DEF Avanca
<1> QED
  BY <1>2, <1>4, <1>5

(* The packets caught by a change of the tables do not recirculate for      *)
(* good, without the appeal to fairness: under complete tables every        *)
(* traversal of every packet takes it nearer to its decision, around the    *)
(* wrap of the counter and past every missed rule, for any version of Forro *)
(* and any width of the counter.                                            *)
THEOREM RecirculacaoProgride == Spec => RecirculacaoAvanca
<1>1. ASSUME Ind, [Next]_vars, NEW p \in Pacotes,
             pkt[p].lugar \in {"ingress", "egress"}, pkt'[p] # pkt[p],
             setup.modo = "pronto", setup'.modo = "pronto"
      PROVE  Avanca(pkt[p], pkt'[p])
  <2>0. SetupOK /\ PacoteOK(pkt[p]) /\ pkt \in [Pacotes -> TipoPacote]
    BY <1>1 DEF Ind, PacoteOK
  <2>1. ~Comeca /\ ~Limpa /\ ~Insere /\ ~Aborta /\ ~UNCHANGED vars
    <3>1. ~Comeca
      BY <1>1 DEF Comeca
    <3> QED
      BY <1>1, <3>1 DEF Limpa, Insere, Aborta, vars
  <2>2. ~Chega(p) /\ \A g \in Pacotes : g # p => ~(Chega(g) \/ Ingress(g) \/ Egress(g))
    BY <1>1, <2>0 DEF Chega, Ingress, Egress
  <2>3. Ingress(p) \/ Egress(p)
    BY <1>1, <2>1, <2>2 DEF Next
  <2>4. CASE Ingress(p)
    <3> DEFINE q == CASE pkt[p].oper = 3 -> IngressForro(pkt[p])
                      [] pkt[p].oper = 4 -> IngressVerifica(pkt[p])
                      [] OTHER           -> IngressInicial(pkt[p])
    <3>1. pkt[p].lugar = "ingress" /\ pkt'[p] = q
      BY <2>0, <2>4 DEF Ingress
    <3>2. CASE pkt[p].oper = 3
      <4>1. pkt'[p] = IngressForro(pkt[p])
        BY <3>1, <3>2
      <4>2. PacoteOK(pkt'[p])
        BY <2>0, <3>1, <3>2, <4>1, IngressForroOK
      <4>3. pkt'[p].lugar = "egress" /\ Faltam(pkt'[p]) = Faltam(pkt[p]) - 1
        BY <2>0, <3>1, <3>2, <4>1, IngressForroAvanca
      <4>4. Faltam(pkt[p]) \in 1..(2 * 2^LarguraRodada + 2) /\ 2^LarguraRodada \in Nat
        BY <2>0, <3>1, FaltamLimites, Posicoes
      <4> QED
        BY <1>1, <2>0, <4>2, <4>3, <4>4, AvancaFatos
    <3>3. CASE pkt[p].oper = 4
      <4>1. pkt'[p] = IngressVerifica(pkt[p])
        BY <3>1, <3>3
      <4>2. PacoteOK(pkt'[p])
        BY <2>0, <3>1, <3>3, <4>1, IngressVerificaOK
      <4>3. /\ pkt'[p].lugar \in {"egress", "descarte"}
            /\ pkt'[p].lugar = "egress" => Faltam(pkt'[p]) < Faltam(pkt[p])
        BY <2>0, <3>1, <3>3, <4>1, VerificaAvanca
      <4> QED
        BY <1>1, <2>0, <4>2, <4>3, AvancaFatos
    <3>4. CASE pkt[p].oper \notin {3, 4}
      <4>1. pkt'[p] = IngressInicial(pkt[p])
        BY <3>1, <3>4
      <4>2. PacoteOK(pkt'[p])
        BY <2>0, <3>1, <3>4, <4>1, InicialOK
      <4>3. /\ pkt'[p].lugar \in {"ingress", "saida", "descarte"}
            /\ pkt'[p].lugar = "ingress" => Faltam(pkt'[p]) = Faltam(pkt[p]) - 1
        BY <2>0, <3>1, <3>4, <4>1, InicialAvanca
      <4>4. Faltam(pkt[p]) \in 1..(2 * 2^LarguraRodada + 2) /\ 2^LarguraRodada \in Nat
        BY <2>0, <3>1, FaltamLimites, Posicoes
      <4> QED
        BY <1>1, <2>0, <4>2, <4>3, <4>4, AvancaFatos
    <3> QED
      BY <3>2, <3>3, <3>4
  <2>5. CASE Egress(p)
    <3>1. /\ pkt[p].lugar = "egress"
          /\ pkt'[p] = IF pkt[p].oper = 3 THEN EgressForro(pkt[p]) ELSE EgressVerifica(pkt[p])
      BY <2>0, <2>5 DEF Egress
    <3>2. pkt[p].oper \in {3, 4}
      BY <2>0, <3>1 DEF PacoteOK, Seguro
    <3>3. CASE pkt[p].oper = 3
      <4>1. PacoteOK(pkt'[p])
        BY <2>0, <3>1, <3>3, EgressForroOK
      <4>2. pkt'[p].lugar = "ingress" /\ Faltam(pkt'[p]) < Faltam(pkt[p])
        BY <1>1, <2>0, <3>1, <3>3, EgressForroAvanca
      <4> QED
        BY <1>1, <2>0, <4>1, <4>2, AvancaFatos
    <3>4. CASE pkt[p].oper = 4
      <4>1. PacoteOK(pkt'[p])
        BY <2>0, <3>1, <3>4, EgressVerificaOK
      <4>2. pkt'[p].lugar \in {"saida", "descarte"}
        BY <2>0, <3>1, <3>4, VerificaAvanca
      <4> QED
        BY <1>1, <2>0, <4>1, <4>2, AvancaFatos
    <3> QED
      BY <3>2, <3>3, <3>4
  <2> QED
    BY <2>3, <2>4, <2>5
<1>2. Ind /\ [Next]_vars =>
        [\A p \in Pacotes :
           /\ pkt[p].lugar \in {"ingress", "egress"} /\ pkt'[p] # pkt[p]
           /\ setup.modo = "pronto" /\ setup'.modo = "pronto"
           => /\ Faltam(pkt[p]) \in 1..(2 * 2^LarguraRodada + 2)
              /\ Faltam(pkt'[p]) \in 0..(Faltam(pkt[p]) - 1)
              /\ Faltam(pkt'[p]) = 0 <=> pkt'[p].lugar \in {"saida", "descarte"}]_vars
  BY <1>1 DEF Avanca
<1> QED
  BY <1>2, Invariante, PTL DEF Spec, RecirculacaoAvanca
=============================================================================
