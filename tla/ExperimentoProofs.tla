-------------------------- MODULE ExperimentoProofs --------------------------
(***************************************************************************)
(* Proofs about Experimento: the verifier ends at its total, every device  *)
(* holds its own line, every reply carries the proof it should or one of   *)
(* two things a failure explains, and what a computed verdict says; for    *)
(* any file, script, ring and number of devices.                           *)
(***************************************************************************)
EXTENDS Experimento, FiniteSetTheorems, SequenceTheorems, TLAPS

(***************************************************************************)
(* Everything that travels, as a function of the line it is about.         *)
(***************************************************************************)
Rodadas == {c.rid : c \in Comandos}
ProvaDe(k, rd) == Prova(Campo(k), rd[2], rd[1], Campo(k))

\* A field reversed w times.
Vezes(c, w) == IF w % 2 = 0 THEN c ELSE swapEndian(c)

\* Line k of the file after w passes of envia_provas_arquivo.
Gravado(k, w) ==
  [id |-> Vezes(Campo(k), w), chave |-> Campo(k), prova |-> Vezes(ProvaDe(k, RodadaArquivo), w)]

\* Passes over line k before loop index id.
Passagens(id, k) == id \div Modulo + (IF k < id % Modulo THEN 1 ELSE 0)

Indices == 0..(Linhas - 1)
LinhasDe(i) == {k \in Indices : mac(k) = <<0, 0, i>>}

SetupDe(k) ==
  [oper |-> 5, rid |-> <<Campo(0), Campo(0)>>, id |-> swapEndian(Campo(k)),
   chave |-> swapEndian(Campo(k)), reg |-> k]
PedidoDe(rd) == [oper |-> 1, rid |-> swapRodada(rd)]
EntradasDe(i) == {SetupDe(k) : k \in LinhasDe(i)} \union {PedidoDe(rd) : rd \in Rodadas}

CfgDe(k) == [id |-> Campo(k), chave |-> Campo(k), reg |-> k]
CfgsDe(i) == {SemRegistro} \union {CfgDe(k) : k \in LinhasDe(i)}

\* The proof of the file is always for one round, whatever round the packet names.
DoArquivo(k, w, rd) ==
  [oper |-> 2, rid |-> swapRodada(rd), id |-> Vezes(Campo(k), w + 1),
   prova |-> Vezes(ProvaDe(k, RodadaArquivo), w + 1), origem |-> "arquivo", reg |-> k,
   volta |-> w]

\* A device of line k has saved its record or nothing, and its child may fail.
ProvasDisp(k, rd) == {ProvaDe(k, rd), ProvaVazia(rd), ProvaLixo}
DoDisp(k, rd, x) ==
  [oper |-> 2, rid |-> swapRodada(rd), id |-> swapEndian(Campo(k)),
   prova |-> swapEndian(x), origem |-> "dispositivo", reg |-> k, volta |-> 0]

RodadasProvas == {c.rid : c \in {d \in Comandos : d.prog = "provas"}}
DeArquivo == {DoArquivo(k, w, rd) : k \in Indices, w \in Nat, rd \in RodadasProvas}
DeDisp == UNION {{DoDisp(k, rd, x) : x \in ProvasDisp(k, rd)} : k \in Indices, rd \in Rodadas}
Avisos == {[oper |-> o] : o \in {0, 1, 4, 5}}
Mensagens == DeArquivo \union DeDisp \union Avisos

\* What the verifier may send for reply p after n others.
Verificacao(p, v) ==
  [oper |-> 4, rid |-> swapRodada(p.rid), id |-> swapEndian(p.id), prova |-> swapEndian(p.prova),
   verificacao |-> v, origem |-> p.origem, reg |-> p.reg, volta |-> p.volta]
Vereditos(p, n) == {Verificacao(p, v) : v \in {forro_args_dra2(p, n), ProvaLixo}}
Saidas == UNION {Vereditos(p, n) : p \in DeArquivo \union DeDisp, n \in Nat}
-----------------------------------------------------------------------------
Modos == {"captura", "calcula", "fim", "morto"}

EmissorOK ==
  /\ emissor = [roteiro |-> emissor.roteiro, id |-> emissor.id, dados |-> emissor.dados]
  /\ emissor.roteiro \in Seq(Comandos) /\ emissor.id \in Nat
  /\ emissor.dados = [k \in Indices |-> emissor.dados[k]]

\* What the running program finds in its copy of the file.
DadosOK ==
  emissor.roteiro # <<>> =>
    /\ Programa.prog = "provas" =>
         \A k \in 0..(Modulo - 1) : emissor.dados[k] = Gravado(k, Passagens(emissor.id, k))
    /\ Programa.prog = "setup" =>
         \A k \in Indices : k >= emissor.id => emissor.dados[k] = Registro(k)

DispDe(i) == [entrada : Seq(EntradasDe(i)), cfg : CfgsDe(i)]

DispOK ==
  /\ disp = [i \in 1..NumDisp |-> disp[i]]
  /\ \A i \in 1..NumDisp : disp[i] \in DispDe(i)

\* What is stored, or is going to be, is of the device's own line.
GuardaOK ==
  /\ filhos = [i \in 1..NumDisp |-> filhos[i]] /\ guardado = [i \in 1..NumDisp |-> guardado[i]]
  /\ \A i \in 1..NumDisp : filhos[i] \in Seq(CfgsDe(i)) /\ guardado[i] \in CfgsDe(i)
  /\ mortos \subseteq 1..NumDisp

FilaOK == fila \in Seq(Mensagens) /\ Len(fila) <= TamAnel

\* A reply being verified is still the head of the ring; the count is that of the
\* verifications sent.
VerifOK ==
  /\ verif \in [modo : Modos, contador : Nat]
  /\ verif.contador = Len(saida)
  /\ verif.modo = "calcula" => fila # <<>> /\ Head(fila).oper = 2
  /\ IF verif.modo = "fim" THEN verif.contador = total_pacotes ELSE verif.contador < total_pacotes

SaidaOK ==
  /\ saida \in Seq(Saidas)
  /\ \A n \in 1..Len(saida) : \E p \in DeArquivo \union DeDisp : saida[n] \in Vereditos(p, n - 1)

(***************************************************************************)
(* The inductive invariant.                                                *)
(***************************************************************************)
Ind == EmissorOK /\ DadosOK /\ DispOK /\ GuardaOK /\ FilaOK /\ VerifOK /\ SaidaOK
-----------------------------------------------------------------------------
(***************************************************************************)
(* Fields and rounds.                                                      *)
(***************************************************************************)
LEMMA TrocaCampo ==
  ASSUME NEW x
  PROVE  /\ swapEndian(Campo(x)) = [v |-> x, inv |-> TRUE]
         /\ swapEndian(swapEndian(Campo(x))) = Campo(x)
         /\ swapEndian(Campo(x)) # Campo(x)
         /\ \A y : Campo(x) = Campo(y) => x = y
         /\ \A y : Campo(x) # swapEndian(Campo(y))
<1>1. ASSUME NEW y PROVE swapEndian(Campo(y)) = [v |-> y, inv |-> TRUE]
  <2>1. swapEndian(Campo(y)) = [Campo(y) EXCEPT !.inv = ~Campo(y).inv] /\ Campo(y).inv = FALSE
    BY DEF swapEndian, Campo
  <2>2. swapEndian(Campo(y)) = [Campo(y) EXCEPT !.inv = TRUE]
    BY <2>1
  <2> QED
    BY <2>2 DEF Campo
<1>2. swapEndian([v |-> x, inv |-> TRUE]) = [v |-> x, inv |-> FALSE]
  <2> DEFINE c == [v |-> x, inv |-> TRUE]
  <2>1. swapEndian(c) = [c EXCEPT !.inv = FALSE]
    BY DEF swapEndian
  <2> QED
    BY <2>1
<1>3. Campo(x).inv = FALSE /\ Campo(x).v = x
  BY DEF Campo
<1>4. \A y : Campo(y).v = y /\ [v |-> y, inv |-> TRUE].inv = TRUE
  BY DEF Campo
<1> QED
  BY <1>1, <1>2, <1>3, <1>4 DEF Campo

(* One more reversal.                                                      *)
LEMMA VezesMais ==
  ASSUME NEW x, NEW w \in Nat
  PROVE  swapEndian(Vezes(Campo(x), w)) = Vezes(Campo(x), w + 1)
<1>1. CASE w % 2 = 0
  <2>1. (w + 1) % 2 # 0
    BY <1>1
  <2> QED
    BY <1>1, <2>1 DEF Vezes
<1>2. CASE w % 2 # 0
  <2>1. (w + 1) % 2 = 0
    BY <1>2
  <2> QED
    BY <1>2, <2>1, TrocaCampo DEF Vezes
<1> QED
  BY <1>1, <1>2

(* Two reversals of a round undo each other.                               *)
LEMMA RodadaDeVolta ==
  ASSUME NEW rd \in Rodadas
  PROVE  swapRodada(swapRodada(rd)) = rd
<1>1. PICK c \in Comandos : rd = c.rid
  BY DEF Rodadas
<1>2. rd = <<Campo(rd[1].v), Campo(rd[2].v)>>
  BY <1>1, RoteirosAssumption
<1>3. PICK x, y : rd = <<Campo(x), Campo(y)>>
  BY <1>2
<1>4. swapRodada(rd) = <<swapEndian(Campo(x)), swapEndian(Campo(y))>>
  BY <1>3 DEF swapRodada
<1>5. swapRodada(swapRodada(rd)) = <<swapEndian(swapEndian(Campo(x))), swapEndian(swapEndian(Campo(y)))>>
  BY <1>4 DEF swapRodada
<1> QED
  BY <1>3, <1>5, TrocaCampo

(* A proof is a field, and names its key and device.                       *)
LEMMA ProvaCampo ==
  ASSUME NEW k, NEW rd
  PROVE  ProvaDe(k, rd) = Campo([chave |-> Campo(k), rodada |-> <<rd[1], rd[2]>>, id |-> Campo(k)])
BY DEF ProvaDe, Prova

LEMMA RegistroGravado ==
  /\ \A k \in Indices : Registro(k) = Gravado(k, 0)
  /\ carregarArquivoMemoria = [k \in Indices |-> Registro(k)]
<1>1. 0 % 2 = 0
  OBVIOUS
<1>2. ASSUME NEW k \in Indices PROVE Registro(k) = Gravado(k, 0)
  BY <1>1 DEF Registro, Gravado, Vezes, ProvaDe
<1> QED
  BY <1>2 DEF carregarArquivoMemoria, Indices
-----------------------------------------------------------------------------
(***************************************************************************)
(* The arithmetic of passes and of MAC addresses.                          *)
(***************************************************************************)
LEMMA Quociente ==
  ASSUME NEW a \in Nat, NEW m \in Nat \ {0}
  PROVE  a \div m \in Nat /\ a % m \in 0..(m - 1) /\ a - (a % m) = m * (a \div m)
<1>1. a \div m \in Nat
  OBVIOUS
<1>2. a % m \in 0..(m - 1)
  OBVIOUS
<1>3. a - (a % m) = m * (a \div m)
  OBVIOUS
<1> QED
  BY <1>1, <1>2, <1>3

LEMMA Multiplo ==
  ASSUME NEW a \in Nat, NEW m \in Nat \ {0}, NEW q \in Nat, a + 1 = m * q
  PROVE  (a + 1) % m = 0 /\ (a + 1) \div m = q
OBVIOUS

LEMMA QuocienteSeguinte ==
  ASSUME NEW a \in Nat, NEW m \in Nat \ {0}
  PROVE  /\ (a % m) + 1 < m => (a + 1) % m = (a % m) + 1 /\ (a + 1) \div m = a \div m
         /\ (a % m) + 1 = m => (a + 1) % m = 0 /\ (a + 1) \div m = a \div m + 1
<1>1. ASSUME (a % m) + 1 < m PROVE (a + 1) % m = (a % m) + 1 /\ (a + 1) \div m = a \div m
  BY <1>1
<1>2. ASSUME (a % m) + 1 = m PROVE (a + 1) % m = 0 /\ (a + 1) \div m = a \div m + 1
  <2>1. PICK q \in Nat : q = a \div m
    BY Quociente
  <2>2. a - (a % m) = m * q
    BY <2>1, Quociente
  <2>3. a % m = m - 1
    BY <1>2, Quociente
  <2>4. a + 1 = m * (q + 1)
    BY <2>2, <2>3
  <2>5. PICK r \in Nat : r = q + 1
    OBVIOUS
  <2>6. (a + 1) % m = 0 /\ (a + 1) \div m = r
    <3>1. a + 1 = m * r
      BY <2>4, <2>5
    <3> QED
      BY <3>1, Multiplo
  <2> QED
    BY <2>1, <2>5, <2>6
<1> QED
  BY <1>1, <1>2

(* Sending index id passes its line once more and no other.                *)
LEMMA PassagemSeguinte ==
  ASSUME NEW id \in Nat, NEW k \in 0..(Modulo - 1)
  PROVE  /\ Passagens(id, k) \in Nat
         /\ k = id % Modulo => Passagens(id, k) = id \div Modulo
         /\ k = id % Modulo => Passagens(id + 1, k) = id \div Modulo + 1
         /\ k # id % Modulo => Passagens(id + 1, k) = Passagens(id, k)
<1>1. Modulo \in Nat \ {0}
  BY ExperimentoAssumption
<1> DEFINE q == id \div Modulo
           r == id % Modulo
<1>2. q \in Nat /\ r \in 0..(Modulo - 1)
  BY <1>1, Quociente
<1>3. CASE r + 1 < Modulo
  <2>1. (id + 1) % Modulo = r + 1 /\ (id + 1) \div Modulo = q
    BY <1>1, <1>3, QuocienteSeguinte
  <2> HIDE DEF q, r
  <2>2. Passagens(id, k) = q + (IF k < r THEN 1 ELSE 0) /\ Passagens(id + 1, k) = q + (IF k < r + 1 THEN 1 ELSE 0)
    BY <2>1 DEF Passagens, q, r
  <2>3. /\ Passagens(id, k) \in Nat
        /\ k = r => Passagens(id, k) = q /\ Passagens(id + 1, k) = q + 1
        /\ k # r => Passagens(id + 1, k) = Passagens(id, k)
    BY <1>1, <1>2, <2>2
  <2> QED
    BY <2>3 DEF q, r
<1>4. CASE r + 1 = Modulo
  <2>1. (id + 1) % Modulo = 0 /\ (id + 1) \div Modulo = q + 1
    BY <1>1, <1>4, QuocienteSeguinte
  <2> HIDE DEF q, r
  <2>2. Passagens(id, k) = q + (IF k < r THEN 1 ELSE 0) /\ Passagens(id + 1, k) = q + 1 + (IF k < 0 THEN 1 ELSE 0)
    BY <2>1 DEF Passagens, q, r
  <2>3. /\ Passagens(id, k) \in Nat
        /\ k = r => Passagens(id, k) = q /\ Passagens(id + 1, k) = q + 1
        /\ k # r => Passagens(id + 1, k) = Passagens(id, k)
    BY <1>1, <1>2, <1>4, <2>2
  <2> QED
    BY <2>3 DEF q, r
<1> QED
  BY <1>1, <1>2, <1>3, <1>4

LEMMA Divisoes ==
  ASSUME NEW k \in Nat, NEW b \in Nat \ {0}, k < b * b * b,
         (k \div (b * b)) % b = 0, (k \div b) % b = 0
  PROVE  k < b
OBVIOUS

(* Below 256^3 lines no two have the same address, and the address of      *)
(* device i is that of line i - 1.                                         *)
LEMMA MacDaLinha ==
  ASSUME NEW i \in 1..NumDisp, NEW k \in LinhasDe(i)
  PROVE  k = i - 1 /\ k \in Indices
<1>1. /\ k \in Nat /\ k < Linhas /\ Base \in Nat \ {0} /\ i \in Nat \ {0} /\ i < Base /\ k \in Indices
      /\ Linhas \in Nat /\ Linhas <= Base * Base * Base
  BY ExperimentoAssumption DEF LinhasDe, Indices
<1>2. (k \div (Base * Base)) % Base = 0 /\ (k \div Base) % Base = 0 /\ (k + 1) % Base = i
  BY DEF LinhasDe, mac
<1>3. PICK c \in Nat : c = Base * Base * Base
  BY <1>1
<1>4. k < c
  BY <1>1, <1>3
<1>5. k < Base
  BY <1>1, <1>2, <1>3, <1>4, Divisoes
<1>6. k + 1 < Base \/ k + 1 = Base
  BY <1>1, <1>5
<1>7. CASE k + 1 < Base
  BY <1>1, <1>2, <1>7
<1>8. CASE k + 1 = Base
  BY <1>1, <1>2, <1>8
<1> QED
  BY <1>1, <1>6, <1>7, <1>8
-----------------------------------------------------------------------------
(***************************************************************************)
(* The ring and the verifier's view of it.                                 *)
(***************************************************************************)
LEMMA ChegaFila ==
  ASSUME NEW q \in Seq(Mensagens), Len(q) <= TamAnel, NEW p \in Mensagens
  PROVE  /\ Chega(q, p) \in Seq(Mensagens) /\ Len(Chega(q, p)) <= TamAnel
         /\ q # <<>> => Chega(q, p) # <<>> /\ Head(Chega(q, p)) = Head(q)
<1>1. TamAnel \in Nat /\ Len(q) \in Nat
  BY ExperimentoAssumption
<1>2. CASE Len(q) < TamAnel
  <2>1. Chega(q, p) = Append(q, p)
    BY <1>2 DEF Chega
  <2>2. Append(q, p) \in Seq(Mensagens) /\ Len(Append(q, p)) = Len(q) + 1
    OBVIOUS
  <2>3. q # <<>> => Append(q, p) # <<>> /\ Head(Append(q, p)) = Head(q)
    OBVIOUS
  <2> QED
    BY <1>1, <1>2, <2>1, <2>2, <2>3
<1>3. CASE ~(Len(q) < TamAnel)
  BY <1>3 DEF Chega
<1> QED
  BY <1>2, <1>3

(* A packet that arrives changes nothing the verifier relies on.           *)
LEMMA ChegaInd ==
  ASSUME Ind, NEW p \in Mensagens, fila' = Chega(fila, p) \/ fila' = fila,
         verif' = verif, saida' = saida
  PROVE  FilaOK' /\ VerifOK' /\ SaidaOK'
<1>1. fila \in Seq(Mensagens) /\ Len(fila) <= TamAnel
  BY DEF Ind, FilaOK
<1>2. /\ fila' \in Seq(Mensagens) /\ Len(fila') <= TamAnel
      /\ fila # <<>> => fila' # <<>> /\ Head(fila') = Head(fila)
  BY <1>1, ChegaFila
<1>3. VerifOK'
  BY <1>2 DEF Ind, VerifOK
<1> QED
  BY <1>2, <1>3 DEF Ind, FilaOK, SaidaOK

LEMMA AvisosMensagens ==
  /\ [oper |-> 0] \in Mensagens /\ [oper |-> 1] \in Mensagens
  /\ [oper |-> 4] \in Mensagens /\ [oper |-> 5] \in Mensagens
BY DEF Mensagens, Avisos
-----------------------------------------------------------------------------
(***************************************************************************)
(* The senders.                                                            *)
(***************************************************************************)
LEMMA ProgramaRodando ==
  ASSUME EmissorOK, NEW prog, Rodando(prog)
  PROVE  /\ emissor.roteiro # <<>> /\ emissor.roteiro \in Seq(Comandos)
         /\ Programa \in Comandos /\ Programa.prog = prog
         /\ emissor.id \in Nat /\ emissor.id < Programa.n
<1>1. emissor.roteiro # <<>> /\ emissor.roteiro \in Seq(Comandos)
  BY DEF EmissorOK, Rodando
<1>2. Head(emissor.roteiro) \in Comandos
  BY <1>1
<1> QED
  BY <1>1, <1>2 DEF EmissorOK, Rodando, Programa

LEMMA EmissorAvanca ==
  ASSUME EmissorOK, NEW k \in Indices, NEW r,
         emissor' = [emissor EXCEPT !.id = @ + 1, !.dados[k] = r]
  PROVE  /\ EmissorOK'
         /\ emissor'.roteiro = emissor.roteiro /\ emissor'.id = emissor.id + 1
         /\ emissor'.dados[k] = r
         /\ \A j \in Indices : j # k => emissor'.dados[j] = emissor.dados[j]
<1> DEFINE d == [emissor.dados EXCEPT ![k] = r]
<1>1. d = [j \in Indices |-> IF j = k THEN r ELSE emissor.dados[j]]
  BY DEF EmissorOK
<1>2. emissor' = [emissor EXCEPT !.id = @ + 1, !.dados = d]
  BY DEF EmissorOK
<1> HIDE DEF d
<1>3. emissor'.roteiro = emissor.roteiro /\ emissor'.id = emissor.id + 1 /\ emissor'.dados = d
  BY <1>2 DEF EmissorOK
<1>4. emissor' = [roteiro |-> emissor'.roteiro, id |-> emissor'.id, dados |-> emissor'.dados]
  BY <1>2 DEF EmissorOK
<1>5. d[k] = r /\ (\A j \in Indices : j # k => d[j] = emissor.dados[j]) /\ d = [j \in Indices |-> d[j]]
  BY <1>1
<1>6. EmissorOK'
  <2>1. emissor'.roteiro \in Seq(Comandos) /\ emissor'.id \in Nat
    BY <1>3 DEF EmissorOK
  <2>2. emissor'.dados = [j \in Indices |-> emissor'.dados[j]]
    BY <1>3, <1>5
  <2> QED
    BY <1>4, <2>1, <2>2, Zenon DEF EmissorOK
<1> QED
  BY <1>3, <1>5, <1>6

(* A program that has just loaded the file.                                *)
LEMMA ArquivoCarregado ==
  /\ \A k \in Indices : carregarArquivoMemoria[k] = Registro(k)
  /\ \A k \in 0..(Modulo - 1) : carregarArquivoMemoria[k] = Gravado(k, Passagens(0, k))
<1>1. \A k \in Indices : carregarArquivoMemoria[k] = Registro(k)
  BY RegistroGravado
<1>2. ASSUME NEW k \in 0..(Modulo - 1)
      PROVE  carregarArquivoMemoria[k] = Gravado(k, Passagens(0, k))
  <2>1. k \in Indices
    BY ExperimentoAssumption DEF Indices
  <2>2. 0 \div Modulo = 0 /\ 0 % Modulo = 0
    BY ExperimentoAssumption
  <2>3. Passagens(0, k) = 0
    BY <2>2 DEF Passagens
  <2> QED
    BY <2>1, <2>3, RegistroGravado
<1> QED
  BY <1>1, <1>2

LEMMA EnviaProvaInd ==
  ASSUME Ind, EnviaProva
  PROVE  Ind'
<1>1. /\ EmissorOK /\ emissor.roteiro # <<>> /\ emissor.roteiro \in Seq(Comandos)
      /\ Programa \in Comandos /\ Programa.prog = "provas" /\ emissor.id \in Nat
  BY ProgramaRodando DEF Ind, EnviaProva
<1> DEFINE k == emissor.id % Modulo
           w == emissor.id \div Modulo
           g == emissor.dados[k]
           r == [g EXCEPT !.id = swapEndian(@), !.prova = swapEndian(@)]
           p == [oper |-> 2, rid |-> swapRodada(Programa.rid), id |-> r.id,
                 prova |-> r.prova, origem |-> "arquivo", reg |-> k, volta |-> w]
<1>2. k \in 0..(Modulo - 1) /\ k \in Indices /\ w \in Nat
  <2>1. Modulo \in Nat \ {0} /\ Modulo <= Linhas /\ Linhas \in Nat
    BY ExperimentoAssumption
  <2>2. k \in 0..(Modulo - 1) /\ w \in Nat
    BY <1>1, <2>1, Quociente
  <2> HIDE DEF k, w
  <2> QED
    BY <2>1, <2>2 DEF Indices
<1>3. g = Gravado(k, w)
  <2>1. Passagens(emissor.id, k) = w
    BY <1>1, <1>2, PassagemSeguinte
  <2> QED
    BY <1>1, <1>2, <2>1 DEF Ind, DadosOK
<1>4. /\ fila' = Chega(fila, p)
      /\ emissor' = [emissor EXCEPT !.id = @ + 1, !.dados[k] = r]
      /\ UNCHANGED <<disp, filhos, guardado, mortos, verif, saida>>
  BY Zenon DEF EnviaProva, dispVars
<1> HIDE DEF k, w, g
<1>5. r = Gravado(k, w + 1)
  <2>1. swapEndian(Vezes(Campo(k), w)) = Vezes(Campo(k), w + 1)
    BY <1>2, VezesMais
  <2>2. swapEndian(Vezes(ProvaDe(k, RodadaArquivo), w)) = Vezes(ProvaDe(k, RodadaArquivo), w + 1)
    BY <1>2, VezesMais, ProvaCampo
  <2>3. r = [id |-> swapEndian(Vezes(Campo(k), w)), chave |-> Campo(k),
             prova |-> swapEndian(Vezes(ProvaDe(k, RodadaArquivo), w))]
    <3>1. g = [id |-> Vezes(Campo(k), w), chave |-> Campo(k),
               prova |-> Vezes(ProvaDe(k, RodadaArquivo), w)]
      BY <1>3 DEF Gravado
    <3>2. g.id = Vezes(Campo(k), w) /\ g.prova = Vezes(ProvaDe(k, RodadaArquivo), w)
      BY <3>1
    <3>3. r = [g EXCEPT !.id = swapEndian(@), !.prova = swapEndian(@)]
      OBVIOUS
    <3> HIDE DEF r
    <3>4. r = [id |-> r.id, chave |-> r.chave, prova |-> r.prova]
      BY <3>1, <3>3
    <3>5. r.id = swapEndian(g.id) /\ r.chave = Campo(k) /\ r.prova = swapEndian(g.prova)
      BY <3>1, <3>3
    <3> QED
      BY <3>2, <3>4, <3>5
  <2> QED
    BY <2>1, <2>2, <2>3 DEF Gravado
<1>6. p \in Mensagens
  <2>1. r.id = Vezes(Campo(k), w + 1) /\ r.prova = Vezes(ProvaDe(k, RodadaArquivo), w + 1)
    BY <1>5 DEF Gravado
  <2>2. p = DoArquivo(k, w, Programa.rid)
    BY <2>1 DEF DoArquivo
  <2>3. Programa.rid \in RodadasProvas
    BY <1>1 DEF RodadasProvas
  <2> QED
    BY <1>2, <2>2, <2>3 DEF Mensagens, DeArquivo
<1> HIDE DEF r, p
<1>7. /\ EmissorOK'
      /\ emissor'.roteiro = emissor.roteiro /\ emissor'.id = emissor.id + 1
      /\ emissor'.dados[k] = r
      /\ \A j \in Indices : j # k => emissor'.dados[j] = emissor.dados[j]
  BY <1>1, <1>2, <1>4, EmissorAvanca
<1>8. DadosOK'
  <2>1. Programa' = Programa
    BY <1>7 DEF Programa
  <2>2. ASSUME NEW j \in 0..(Modulo - 1)
        PROVE  emissor'.dados[j] = Gravado(j, Passagens(emissor'.id, j))
    <3>1. j \in Indices
      BY ExperimentoAssumption DEF Indices
    <3>2. CASE j = k
      <4>1. Passagens(emissor.id + 1, j) = w + 1
        BY <1>1, <3>2, PassagemSeguinte DEF k, w
      <4> QED
        BY <1>5, <1>7, <3>2, <4>1
    <3>3. CASE j # k
      <4>1. Passagens(emissor.id + 1, j) = Passagens(emissor.id, j)
        BY <1>1, <3>3, PassagemSeguinte DEF k
      <4>2. emissor.dados[j] = Gravado(j, Passagens(emissor.id, j))
        BY <1>1 DEF Ind, DadosOK
      <4> QED
        BY <1>7, <3>1, <3>3, <4>1, <4>2
    <3> QED
      BY <3>2, <3>3
  <2> QED
    BY <1>1, <2>1, <2>2 DEF DadosOK
<1>9. FilaOK' /\ VerifOK' /\ SaidaOK'
  BY <1>4, <1>6, ChegaInd
<1> QED
  BY <1>4, <1>7, <1>8, <1>9 DEF Ind, DispOK, GuardaOK

(* A frame that only reaches the device it may be for.                     *)
LEMMA EntregaInd ==
  ASSUME DispOK, NEW m, NEW p, Entrega(m, p),
         \A i \in 1..NumDisp : m = <<0, 0, i>> => p \in EntradasDe(i)
  PROVE  DispOK'
<1>1. disp' = [i \in 1..NumDisp |-> IF m = <<0, 0, i>> THEN [disp[i] EXCEPT !.entrada = Append(@, p)]
                                    ELSE disp[i]]
  BY DEF Entrega, DispOK
<1>2. ASSUME NEW i \in 1..NumDisp PROVE disp'[i] \in DispDe(i)
  <2>1. disp[i] \in DispDe(i)
    BY DEF DispOK
  <2>2. CASE m = <<0, 0, i>>
    <3>1. disp'[i] = [disp[i] EXCEPT !.entrada = Append(disp[i].entrada, p)]
      BY <1>1, <2>2
    <3>2. Append(disp[i].entrada, p) \in Seq(EntradasDe(i))
      BY <2>1, <2>2 DEF DispDe
    <3> QED
      BY <2>1, <3>1, <3>2 DEF DispDe
  <2>3. CASE m # <<0, 0, i>>
    BY <1>1, <2>1, <2>3
  <2> QED
    BY <2>2, <2>3
<1>3. disp' = [i \in 1..NumDisp |-> disp'[i]]
  BY <1>1
<1> QED
  BY <1>2, <1>3 DEF DispOK

LEMMA EnviaSetupInd ==
  ASSUME Ind, EnviaSetup
  PROVE  Ind'
<1>1. /\ EmissorOK /\ emissor.roteiro # <<>> /\ emissor.roteiro \in Seq(Comandos)
      /\ Programa \in Comandos /\ Programa.prog = "setup" /\ emissor.id \in Nat
      /\ emissor.id < Programa.n
  BY ProgramaRodando DEF Ind, EnviaSetup
<1> DEFINE k == emissor.id
           g == emissor.dados[k]
           r == [g EXCEPT !.id = swapEndian(@), !.chave = swapEndian(@)]
           p == [oper |-> 5, rid |-> <<Campo(0), Campo(0)>>, id |-> r.id, chave |-> r.chave,
                 reg |-> k]
<1>2. k \in Indices
  <2>1. Programa.n \in Nat /\ Programa.n <= Linhas
    BY <1>1, RoteirosAssumption
  <2> QED
    BY <1>1, <2>1, ExperimentoAssumption DEF Indices
<1>3. g = Registro(k)
  BY <1>1, <1>2 DEF Ind, DadosOK
<1>4. /\ Entrega(mac(k), p) /\ fila' = Chega(fila, [oper |-> 5])
      /\ emissor' = [emissor EXCEPT !.id = @ + 1, !.dados[k] = r]
      /\ UNCHANGED <<filhos, guardado, mortos, verif, saida>>
  BY Zenon DEF EnviaSetup
<1> HIDE DEF g
<1>5. r.id = swapEndian(Campo(k)) /\ r.chave = swapEndian(Campo(k))
  <2>1. r = [g EXCEPT !.id = swapEndian(@), !.chave = swapEndian(@)]
    OBVIOUS
  <2> HIDE DEF r, k
  <2>2. g = [id |-> Campo(k), chave |-> Campo(k), prova |-> ProvaDe(k, RodadaArquivo)]
    BY <1>3 DEF Registro, ProvaDe
  <2> QED
    BY <2>1, <2>2
<1>6. p = SetupDe(k)
  BY <1>5 DEF SetupDe
<1> HIDE DEF r, p
<1>7. DispOK'
  <2>1. \A i \in 1..NumDisp : mac(k) = <<0, 0, i>> => p \in EntradasDe(i)
    BY <1>2, <1>6 DEF EntradasDe, LinhasDe
  <2> QED
    BY <1>4, <2>1, EntregaInd DEF Ind
<1>8. /\ EmissorOK'
      /\ emissor'.roteiro = emissor.roteiro /\ emissor'.id = emissor.id + 1
      /\ \A j \in Indices : j # k => emissor'.dados[j] = emissor.dados[j]
  BY <1>1, <1>2, <1>4, EmissorAvanca
<1>9. DadosOK'
  <2>1. Programa' = Programa
    BY <1>8 DEF Programa
  <2>2. ASSUME NEW j \in Indices, j >= emissor'.id
        PROVE  emissor'.dados[j] = Registro(j)
    <3>1. j # k /\ j >= emissor.id
      BY <1>1, <1>8, <2>2, ExperimentoAssumption DEF Indices
    <3> QED
      BY <1>1, <1>8, <3>1 DEF Ind, DadosOK
  <2> QED
    BY <1>1, <2>1, <2>2 DEF DadosOK
<1>10. FilaOK' /\ VerifOK' /\ SaidaOK'
  BY <1>4, AvisosMensagens, ChegaInd
<1> QED
  BY <1>4, <1>7, <1>8, <1>9, <1>10 DEF Ind, GuardaOK

LEMMA EnviaPedidoInd ==
  ASSUME Ind, EnviaPedido
  PROVE  Ind'
<1>1. /\ EmissorOK /\ emissor.roteiro # <<>> /\ emissor.roteiro \in Seq(Comandos)
      /\ Programa \in Comandos /\ Programa.prog = "pedidos" /\ emissor.id \in Nat
  BY ProgramaRodando DEF Ind, EnviaPedido
<1> DEFINE p == [oper |-> 1, rid |-> swapRodada(Programa.rid)]
<1>2. /\ Entrega(mac(emissor.id), p) /\ fila' = Chega(fila, [oper |-> Programa.oper])
      /\ emissor' = [emissor EXCEPT !.id = @ + 1]
      /\ UNCHANGED <<filhos, guardado, mortos, verif, saida>>
  BY DEF EnviaPedido
<1>3. \A i \in 1..NumDisp : p \in EntradasDe(i)
  <2>1. p = PedidoDe(Programa.rid) /\ Programa.rid \in Rodadas
    BY <1>1 DEF PedidoDe, Rodadas
  <2> QED
    BY <2>1 DEF EntradasDe
<1> HIDE DEF p
<1>4. DispOK'
  BY <1>2, <1>3, EntregaInd DEF Ind
<1>5. /\ emissor'.roteiro = emissor.roteiro /\ emissor'.id = emissor.id + 1
      /\ emissor'.dados = emissor.dados
      /\ emissor' = [roteiro |-> emissor'.roteiro, id |-> emissor'.id, dados |-> emissor'.dados]
  BY <1>1, <1>2 DEF EmissorOK
<1>6. EmissorOK'
  <2>1. emissor'.roteiro \in Seq(Comandos) /\ emissor'.id \in Nat
    BY <1>1, <1>5
  <2>2. emissor'.dados = [j \in Indices |-> emissor'.dados[j]]
    BY <1>1, <1>5 DEF EmissorOK
  <2> QED
    BY <1>5, <2>1, <2>2, Zenon DEF EmissorOK
<1>7. DadosOK'
  <2>1. Programa' = Programa
    BY <1>5 DEF Programa
  <2> QED
    BY <1>1, <2>1 DEF DadosOK
<1>8. FilaOK' /\ VerifOK' /\ SaidaOK'
  <2>1. Programa.oper \in {0, 1}
    BY <1>1, RoteirosAssumption
  <2>2. [oper |-> Programa.oper] \in Mensagens
    BY <2>1, AvisosMensagens
  <2> QED
    BY <1>2, <2>2, ChegaInd
<1> QED
  BY <1>2, <1>4, <1>6, <1>7, <1>8 DEF Ind, GuardaOK

LEMMA EncerraInd ==
  ASSUME Ind, Encerra
  PROVE  Ind'
<1>1. /\ emissor.roteiro # <<>> /\ UNCHANGED <<disp, filhos, guardado, mortos, fila, verif, saida>>
      /\ emissor' = [emissor EXCEPT !.roteiro = Tail(@), !.id = 0, !.dados = carregarArquivoMemoria]
  BY DEF Encerra, dispVars
<1>2. /\ emissor'.roteiro = Tail(emissor.roteiro) /\ emissor'.id = 0
      /\ emissor'.dados = carregarArquivoMemoria
      /\ emissor' = [roteiro |-> emissor'.roteiro, id |-> emissor'.id, dados |-> emissor'.dados]
  BY <1>1 DEF Ind, EmissorOK
<1>3. emissor'.roteiro \in Seq(Comandos)
  BY <1>1, <1>2 DEF Ind, EmissorOK
<1>4. EmissorOK'
  <2>1. emissor'.dados = [j \in Indices |-> emissor'.dados[j]]
    BY <1>2, RegistroGravado
  <2>2. emissor'.id \in Nat
    BY <1>2
  <2> QED
    BY <1>2, <1>3, <2>1, <2>2, Zenon DEF EmissorOK
<1>5. DadosOK'
  BY <1>2, ArquivoCarregado DEF DadosOK
<1> QED
  BY <1>1, <1>4, <1>5 DEF Ind, DispOK, GuardaOK, FilaOK, VerifOK, SaidaOK
-----------------------------------------------------------------------------
(***************************************************************************)
(* The devices.                                                            *)
(***************************************************************************)
LEMMA DispAtual ==
  ASSUME DispOK, NEW i \in 1..NumDisp, NEW d \in DispDe(i), disp' = [disp EXCEPT ![i] = d]
  PROVE  DispOK'
<1>1. disp' = [j \in 1..NumDisp |-> IF j = i THEN d ELSE disp[j]]
  BY DEF DispOK
<1>2. disp' = [j \in 1..NumDisp |-> disp'[j]]
  BY <1>1
<1>3. \A j \in 1..NumDisp : disp'[j] \in DispDe(j)
  BY <1>1 DEF DispOK
<1> QED
  BY <1>2, <1>3 DEF DispOK

(* What a device may find at the head of its queue.                        *)
LEMMA EntradaDe ==
  ASSUME DispOK, NEW i \in 1..NumDisp, disp[i].entrada # <<>>
  PROVE  /\ disp[i] \in DispDe(i) /\ Tail(disp[i].entrada) \in Seq(EntradasDe(i))
         /\ Head(disp[i].entrada).oper = 5 =>
              \E k \in LinhasDe(i) : Head(disp[i].entrada) = SetupDe(k)
         /\ Head(disp[i].entrada).oper = 1 =>
              \E rd \in Rodadas : Head(disp[i].entrada) = PedidoDe(rd)
<1>1. disp[i] \in DispDe(i)
  BY DEF DispOK
<1>2. disp[i].entrada \in Seq(EntradasDe(i))
  BY <1>1 DEF DispDe
<1>3. Head(disp[i].entrada) \in EntradasDe(i) /\ Tail(disp[i].entrada) \in Seq(EntradasDe(i))
  BY <1>2
<1>4. (\A k : SetupDe(k).oper = 5) /\ (\A rd : PedidoDe(rd).oper = 1)
  BY DEF SetupDe, PedidoDe
<1> QED
  BY <1>1, <1>3, <1>4 DEF EntradasDe

(* A service that ends leaves everything else as it was.                   *)
LEMMA SaiInd ==
  ASSUME Ind, NEW i \in 1..NumDisp, Sai(i), UNCHANGED <<emissor, verif, saida>>
  PROVE  Ind'
<1>1. /\ mortos' = mortos \union {i} /\ UNCHANGED <<emissor, disp, filhos, guardado, fila, verif, saida>>
  BY DEF Sai
<1>2. GuardaOK'
  BY <1>1 DEF Ind, GuardaOK
<1> QED
  BY <1>1, <1>2 DEF Ind, EmissorOK, DadosOK, Programa, DispOK, FilaOK, VerifOK, SaidaOK

LEMMA ConfiguraInd ==
  ASSUME Ind, NEW i \in 1..NumDisp, Configura(i)
  PROVE  Ind'
<1> DEFINE p == Head(disp[i].entrada)
           c == [id |-> swapEndian(p.id), chave |-> swapEndian(p.chave), reg |-> p.reg]
           d == [entrada |-> Tail(disp[i].entrada), cfg |-> c]
<1>1. /\ disp[i].entrada # <<>> /\ p.oper = 5
      /\ \/ /\ disp' = [disp EXCEPT ![i] = d] /\ filhos' = [filhos EXCEPT ![i] = Append(@, c)]
            /\ UNCHANGED <<guardado, mortos, fila>>
         \/ Sai(i)
      /\ UNCHANGED <<emissor, verif, saida>>
  BY Zenon DEF Configura
<1>2. /\ disp[i] \in DispDe(i) /\ Tail(disp[i].entrada) \in Seq(EntradasDe(i))
      /\ \E k \in LinhasDe(i) : p = SetupDe(k)
  BY <1>1, EntradaDe DEF Ind
<1>3. PICK k \in LinhasDe(i) : p = SetupDe(k)
  BY <1>2
<1> HIDE DEF p
<1>4. c = CfgDe(k)
  <2>1. p.id = swapEndian(Campo(k)) /\ p.chave = swapEndian(Campo(k)) /\ p.reg = k
    BY <1>3 DEF SetupDe
  <2> QED
    BY <2>1, TrocaCampo DEF CfgDe
<1>5. c \in CfgsDe(i)
  BY <1>4 DEF CfgsDe
<1> HIDE DEF c
<1>6. d \in DispDe(i)
  BY <1>2, <1>5 DEF DispDe
<1>7. CASE Sai(i)
  BY <1>1, <1>7, SaiInd
<1>8. CASE ~Sai(i)
  <2>1. /\ disp' = [disp EXCEPT ![i] = d] /\ filhos' = [filhos EXCEPT ![i] = Append(@, c)]
        /\ UNCHANGED <<guardado, mortos, fila>>
    BY <1>1, <1>8
  <2> HIDE DEF d
  <2>2. DispOK'
    BY <1>6, <2>1, DispAtual DEF Ind
  <2>3. filhos' = [j \in 1..NumDisp |-> IF j = i THEN Append(filhos[i], c) ELSE filhos[j]]
    BY <2>1 DEF Ind, GuardaOK
  <2>4. Append(filhos[i], c) \in Seq(CfgsDe(i))
    BY <1>5 DEF Ind, GuardaOK
  <2>5. GuardaOK'
    <3>1. \A j \in 1..NumDisp : filhos'[j] \in Seq(CfgsDe(j))
      BY <2>3, <2>4 DEF Ind, GuardaOK
    <3>2. filhos' = [j \in 1..NumDisp |-> filhos'[j]]
      BY <2>3
    <3> QED
      BY <2>1, <3>1, <3>2 DEF Ind, GuardaOK
  <2> QED
    BY <1>1, <2>1, <2>2, <2>5 DEF Ind, EmissorOK, DadosOK, Programa, FilaOK, VerifOK, SaidaOK
<1> QED
  BY <1>7, <1>8

(* Whatever the child of a setup did, the storage is empty or holds a      *)
(* record the device was sent.                                             *)
LEMMA GravaInd ==
  ASSUME Ind, NEW i \in 1..NumDisp, Grava(i)
  PROVE  Ind'
<1>1. PICK j \in 1..Len(filhos[i]) :
        /\ guardado' \in {[guardado EXCEPT ![i] = g] : g \in {filhos[i][j], guardado[i], SemRegistro}}
        /\ filhos' = [filhos EXCEPT ![i] = SubSeq(@, 1, j - 1) \o SubSeq(@, j + 1, Len(@))]
  BY DEF Grava
<1>2. PICK g \in {filhos[i][j], guardado[i], SemRegistro} : guardado' = [guardado EXCEPT ![i] = g]
  BY <1>1
<1>3. UNCHANGED <<emissor, disp, mortos, fila, verif, saida>>
  BY DEF Grava
<1>4. filhos[i] \in Seq(CfgsDe(i)) /\ guardado[i] \in CfgsDe(i)
  BY DEF Ind, GuardaOK
<1>5. filhos[i][j] \in CfgsDe(i)
  BY <1>4
<1>6. g \in CfgsDe(i)
  BY <1>4, <1>5, <1>2 DEF CfgsDe
<1> DEFINE q == SubSeq(filhos[i], 1, j - 1) \o SubSeq(filhos[i], j + 1, Len(filhos[i]))
<1>7. q \in Seq(CfgsDe(i))
  <2>1. SubSeq(filhos[i], 1, j - 1) \in Seq(CfgsDe(i)) /\ SubSeq(filhos[i], j + 1, Len(filhos[i])) \in Seq(CfgsDe(i))
    BY <1>4
  <2> QED
    BY <2>1
<1> HIDE DEF q
<1>8. /\ filhos' = [k \in 1..NumDisp |-> IF k = i THEN q ELSE filhos[k]]
      /\ guardado' = [k \in 1..NumDisp |-> IF k = i THEN g ELSE guardado[k]]
  BY <1>1, <1>2 DEF Ind, GuardaOK, q
<1>9. GuardaOK'
  <2>1. \A k \in 1..NumDisp : filhos'[k] \in Seq(CfgsDe(k)) /\ guardado'[k] \in CfgsDe(k)
    BY <1>6, <1>7, <1>8 DEF Ind, GuardaOK
  <2>2. filhos' = [k \in 1..NumDisp |-> filhos'[k]] /\ guardado' = [k \in 1..NumDisp |-> guardado'[k]]
    BY <1>8
  <2> QED
    BY <1>3, <2>1, <2>2 DEF Ind, GuardaOK
<1> QED
  BY <1>3, <1>9 DEF Ind, EmissorOK, DadosOK, Programa, DispOK, FilaOK, VerifOK, SaidaOK

(* The reply is garbage, or the proof, for the round of the request, of an *)
(* empty storage or of the line the reply names.                           *)
LEMMA AtestaInd ==
  ASSUME Ind, NEW i \in 1..NumDisp, Atesta(i)
  PROVE  Ind'
<1>1. disp[i].entrada # <<>> /\ Head(disp[i].entrada).oper = 1 /\ UNCHANGED <<emissor, verif, saida>>
  BY DEF Atesta
<1>2. /\ disp[i] \in DispDe(i) /\ Tail(disp[i].entrada) \in Seq(EntradasDe(i))
      /\ \E rd \in Rodadas : Head(disp[i].entrada) = PedidoDe(rd)
  BY <1>1, EntradaDe DEF Ind
<1>3. EmissorOK' /\ DadosOK'
  BY <1>1 DEF Ind, EmissorOK, DadosOK, Programa
<1>4. CASE Sai(i)
  BY <1>1, <1>4, SaiInd
<1>5. CASE ~Sai(i)
  <2> DEFINE p == Head(disp[i].entrada)
             r == swapRodada(p.rid)
             c == disp[i].cfg
             m(x) == [oper |-> 2, rid |-> swapRodada(r), id |-> swapEndian(c.id),
                      prova |-> swapEndian(x), origem |-> "dispositivo",
                      reg |-> c.reg, volta |-> 0]
             d == [entrada |-> Tail(disp[i].entrada), cfg |-> disp[i].cfg]
  <2>1. /\ c # SemRegistro /\ disp' = [disp EXCEPT ![i] = d]
        /\ \E x \in optee_dra(guardado[i], r) : fila' = Chega(fila, m(x))
        /\ UNCHANGED <<filhos, guardado, mortos>>
    BY <1>5, Zenon DEF Atesta
  <2>2. PICK rd \in Rodadas : p = PedidoDe(rd)
    BY <1>2
  <2>3. PICK k \in LinhasDe(i) : c = CfgDe(k)
    BY <1>2, <2>1 DEF DispDe, CfgsDe
  <2> HIDE DEF p, c
  <2>4. r = rd
    BY <2>2, RodadaDeVolta DEF PedidoDe
  <2>5. c.id = Campo(k) /\ c.chave = Campo(k) /\ c.reg = k
    BY <2>3 DEF CfgDe
  <2> HIDE DEF r
  <2>6. PICK x \in optee_dra(guardado[i], rd) : fila' = Chega(fila, m(x))
    BY <2>1, <2>4
  <2>7. x \in ProvasDisp(k, rd)
    <3>1. guardado[i] \in CfgsDe(i)
      BY DEF Ind, GuardaOK
    <3>2. CASE guardado[i] = SemRegistro
      BY <2>6, <3>2 DEF optee_dra, ProvasDisp, ProvaVazia
    <3>3. ASSUME NEW h \in LinhasDe(i), guardado[i] = CfgDe(h) PROVE x \in ProvasDisp(k, rd)
      <4>1. h = k
        BY MacDaLinha
      <4>2. guardado[i].chave = Campo(k) /\ guardado[i].id = Campo(k)
        BY <3>3, <4>1 DEF CfgDe
      <4> QED
        BY <2>6, <4>2 DEF optee_dra, ProvasDisp, ProvaDe
    <3> QED
      BY <3>1, <3>2, <3>3 DEF CfgsDe
  <2>8. m(x) = DoDisp(k, rd, x)
    BY <2>4, <2>5 DEF DoDisp
  <2>9. m(x) \in Mensagens
    <3>1. k \in Indices
      BY MacDaLinha
    <3> DEFINE Y == {DoDisp(k, rd, y) : y \in ProvasDisp(k, rd)}
    <3>2. DoDisp(k, rd, x) \in Y
      BY <2>7
    <3> HIDE DEF m
    <3>3. Y \in {{DoDisp(h, rr, y) : y \in ProvasDisp(h, rr)} : h \in Indices, rr \in Rodadas}
      BY <3>1
    <3> HIDE DEF Y
    <3>4. DoDisp(k, rd, x) \in DeDisp
      <4> DEFINE C == {{DoDisp(h, rr, y) : y \in ProvasDisp(h, rr)} : h \in Indices, rr \in Rodadas}
      <4>1. DeDisp = UNION C
        BY DEF DeDisp
      <4> HIDE DEF C
      <4>2. Y \in C
        BY <3>3 DEF C
      <4> QED
        BY <3>2, <4>1, <4>2
    <3> QED
      BY <2>8, <3>4 DEF Mensagens
  <2> HIDE DEF m
  <2>10. d \in DispDe(i)
    BY <1>2 DEF DispDe
  <2> HIDE DEF d
  <2>11. DispOK'
    BY <2>1, <2>10, DispAtual DEF Ind
  <2>12. FilaOK' /\ VerifOK' /\ SaidaOK'
    BY <1>1, <2>6, <2>9, ChegaInd
  <2>13. GuardaOK'
    BY <2>1 DEF Ind, GuardaOK
  <2> QED
    BY <1>3, <2>11, <2>12, <2>13 DEF Ind
<1> QED
  BY <1>4, <1>5
-----------------------------------------------------------------------------
(***************************************************************************)
(* The verifier.                                                           *)
(***************************************************************************)
LEMMA IgnoraInd ==
  ASSUME Ind, Ignora
  PROVE  Ind'
<1>1. /\ fila # <<>> /\ fila' = Tail(fila) /\ verif.modo = "captura"
      /\ UNCHANGED <<emissor, disp, filhos, guardado, mortos, verif, saida>>
  BY DEF Ignora, dispVars
<1>2. FilaOK'
  <2>1. fila \in Seq(Mensagens) /\ Len(fila) <= TamAnel /\ TamAnel \in Nat
    BY ExperimentoAssumption DEF Ind, FilaOK
  <2>2. fila' \in Seq(Mensagens) /\ Len(fila') = Len(fila) - 1 /\ Len(fila) \in Nat
    BY <1>1, <2>1
  <2> QED
    BY <2>1, <2>2 DEF FilaOK
<1>3. VerifOK'
  BY <1>1 DEF Ind, VerifOK
<1> QED
  BY <1>1, <1>2, <1>3 DEF Ind, EmissorOK, DadosOK, Programa, DispOK, GuardaOK, SaidaOK

LEMMA IniciaInd ==
  ASSUME Ind, Inicia
  PROVE  Ind'
<1>1. /\ fila # <<>> /\ Head(fila).oper = 2 /\ verif.modo = "captura"
      /\ verif' \in {[verif EXCEPT !.modo = "calcula"], [verif EXCEPT !.modo = "morto"]}
      /\ UNCHANGED <<emissor, disp, filhos, guardado, mortos, fila, saida>>
  BY DEF Inicia, dispVars
<1>2. verif \in [modo : Modos, contador : Nat]
  BY DEF Ind, VerifOK
<1>3. verif'.modo \in {"calcula", "morto"} /\ verif'.contador = verif.contador
  BY <1>1, <1>2
<1>4. verif' \in [modo : Modos, contador : Nat]
  BY <1>1, <1>2 DEF Modos
<1>5. VerifOK'
  BY <1>1, <1>3, <1>4 DEF Ind, VerifOK
<1> QED
  BY <1>1, <1>5 DEF Ind, EmissorOK, DadosOK, Programa, DispOK, GuardaOK, FilaOK, SaidaOK

(* Only replies have oper 2.                                               *)
LEMMA CabecaResposta ==
  ASSUME NEW p \in Mensagens, p.oper = 2
  PROVE  p \in DeArquivo \union DeDisp
<1>1. \A a \in Avisos : a.oper # 2
  BY DEF Avisos
<1> QED
  BY <1>1 DEF Mensagens

LEMMA DepoisValor ==
  ASSUME verif \in [modo : Modos, contador : Nat]
  PROVE  /\ Depois(verif) \in [modo : Modos, contador : Nat]
         /\ Depois(verif).contador = verif.contador + 1
         /\ Depois(verif).modo = IF verif.contador + 1 = total_pacotes THEN "fim" ELSE "captura"
<1> DEFINE m == IF verif.contador + 1 = total_pacotes THEN "fim" ELSE "captura"
<1>1. Depois(verif) = [verif EXCEPT !.contador = @ + 1, !.modo = m]
  BY DEF Depois
<1>2. m \in Modos
  BY DEF Modos
<1> HIDE DEF m
<1>3. verif = [modo |-> verif.modo, contador |-> verif.contador] /\ verif.contador + 1 \in Nat
  OBVIOUS
<1>4. Depois(verif) = [modo |-> m, contador |-> verif.contador + 1]
  BY <1>1, <1>3
<1>5. /\ Depois(verif).contador = verif.contador + 1 /\ Depois(verif).modo = m
      /\ Depois(verif) \in [modo : Modos, contador : Nat]
  BY <1>2, <1>3, <1>4
<1> QED
  BY <1>5 DEF m

LEMMA VerificaInd ==
  ASSUME Ind, Verifica
  PROVE  Ind'
<1> DEFINE p == Head(fila)
<1>1. /\ verif.modo = "calcula" /\ \E s \in Vereditos(p, verif.contador) : saida' = Append(saida, s)
      /\ fila' = Tail(Chega(fila, [oper |-> 4]))
      /\ verif' = Depois(verif) /\ UNCHANGED <<emissor, disp, filhos, guardado, mortos>>
  <2>1. PICK v \in {forro_args_dra2(p, verif.contador), ProvaLixo} :
          saida' = Append(saida, Verificacao(p, v))
    BY Zenon DEF Verifica, Verificacao
  <2>2. Verificacao(p, v) \in Vereditos(p, verif.contador)
    BY <2>1 DEF Vereditos
  <2> QED
    BY <2>1, <2>2, Zenon DEF Verifica, dispVars
<1>2. /\ fila \in Seq(Mensagens) /\ Len(fila) <= TamAnel /\ fila # <<>> /\ p.oper = 2
      /\ verif \in [modo : Modos, contador : Nat] /\ verif.contador = Len(saida)
      /\ verif.contador < total_pacotes /\ saida \in Seq(Saidas)
  BY <1>1 DEF Ind, FilaOK, VerifOK, SaidaOK
<1>3. p \in DeArquivo \union DeDisp
  <2>1. p \in Mensagens
    BY <1>2
  <2> QED
    BY <1>2, <2>1, CabecaResposta
<1>4. FilaOK'
  <2> DEFINE q == Chega(fila, [oper |-> 4])
  <2>1. q \in Seq(Mensagens) /\ Len(q) <= TamAnel /\ q # <<>>
    BY <1>2, AvisosMensagens, ChegaFila
  <2> HIDE DEF q
  <2>2. Tail(q) \in Seq(Mensagens) /\ Len(Tail(q)) = Len(q) - 1 /\ Len(q) \in Nat /\ TamAnel \in Nat
    BY <2>1, ExperimentoAssumption
  <2>3. Len(Tail(q)) <= TamAnel
    BY <2>1, <2>2
  <2> QED
    BY <1>1, <2>2, <2>3 DEF FilaOK, q
<1> HIDE DEF p
<1>5. PICK s \in Vereditos(p, verif.contador) : saida' = Append(saida, s)
  BY <1>1
<1>6. s \in Vereditos(p, Len(saida)) /\ s \in Saidas
  <2>1. s \in Saidas
    BY <1>2, <1>3 DEF Saidas
  <2> QED
    BY <1>2, <2>1
<1>7. /\ saida' \in Seq(Saidas) /\ Len(saida') = Len(saida) + 1 /\ Len(saida) \in Nat
      /\ saida'[Len(saida) + 1] = s /\ \A n \in 1..Len(saida) : saida'[n] = saida[n]
  BY <1>2, <1>5, <1>6
<1>8. SaidaOK'
  <2>1. ASSUME NEW n \in 1..Len(saida')
        PROVE  \E x \in DeArquivo \union DeDisp : saida'[n] \in Vereditos(x, n - 1)
    <3>1. CASE n = Len(saida) + 1
      <4>1. n - 1 = Len(saida)
        BY <1>7, <3>1
      <4> QED
        BY <1>3, <1>6, <1>7, <3>1, <4>1
    <3>2. CASE n # Len(saida) + 1
      <4>1. n \in 1..Len(saida)
        BY <1>7, <3>2
      <4> QED
        BY <1>7, <4>1 DEF Ind, SaidaOK
    <3> QED
      BY <3>1, <3>2
  <2> QED
    BY <1>7, <2>1 DEF SaidaOK
<1>9. VerifOK'
  <2>1. /\ verif' \in [modo : Modos, contador : Nat] /\ verif'.contador = verif.contador + 1
        /\ verif'.modo = IF verif.contador + 1 = total_pacotes THEN "fim" ELSE "captura"
    BY <1>1, <1>2, DepoisValor
  <2>2. verif.contador \in Nat /\ total_pacotes \in Nat
    BY <1>2, ExperimentoAssumption
  <2>3. verif'.contador = Len(saida')
    BY <1>2, <1>7, <2>1
  <2>4. verif'.modo # "calcula"
    BY <2>1
  <2>5. IF verif'.modo = "fim" THEN verif'.contador = total_pacotes ELSE verif'.contador < total_pacotes
    BY <1>2, <2>1, <2>2
  <2> QED
    BY <2>1, <2>3, <2>4, <2>5, Zenon DEF VerifOK
<1> QED
  BY <1>1, <1>4, <1>8, <1>9 DEF Ind, EmissorOK, DadosOK, Programa, DispOK, GuardaOK
-----------------------------------------------------------------------------
(***************************************************************************)
(* The induction.                                                          *)
(***************************************************************************)
LEMMA InitInd ==
  ASSUME Init
  PROVE  Ind
<1>1. PICK r \in Roteiros : emissor = [roteiro |-> r, id |-> 0, dados |-> carregarArquivoMemoria]
  BY DEF Init
<1>2. emissor.roteiro \in Seq(Comandos) /\ emissor.id = 0 /\ emissor.dados = carregarArquivoMemoria
  BY <1>1, RoteirosAssumption
<1>3. EmissorOK
  <2>1. emissor = [roteiro |-> emissor.roteiro, id |-> emissor.id, dados |-> emissor.dados]
    BY <1>1
  <2>2. emissor.dados = [k \in Indices |-> emissor.dados[k]]
    BY <1>2, RegistroGravado
  <2> QED
    BY <1>2, <2>1, <2>2 DEF EmissorOK
<1>4. DadosOK
  BY <1>2, ArquivoCarregado DEF DadosOK
<1>5. DispOK
  BY DEF Init, DispOK, DispDe, CfgsDe
<1>6. GuardaOK
  BY DEF Init, GuardaOK, CfgsDe
<1>7. FilaOK /\ SaidaOK
  BY ExperimentoAssumption DEF Init, FilaOK, SaidaOK
<1>8. VerifOK
  BY ExperimentoAssumption DEF Init, VerifOK, Modos
<1> QED
  BY <1>3, <1>4, <1>5, <1>6, <1>7, <1>8 DEF Ind

LEMMA NextInd ==
  ASSUME Ind, [Next]_vars
  PROVE  Ind'
<1>1. CASE UNCHANGED vars
  BY <1>1 DEF Ind, EmissorOK, DadosOK, Programa, DispOK, GuardaOK, FilaOK, VerifOK, SaidaOK, vars
<1>2. CASE Next
  BY <1>2, EnviaProvaInd, EnviaSetupInd, EnviaPedidoInd, EncerraInd, ConfiguraInd, GravaInd, AtestaInd,
     IgnoraInd, IniciaInd, VerificaInd DEF Next
<1> QED
  BY <1>1, <1>2

LEMMA IndSempre == Spec => []Ind
BY InitInd, NextInd, PTL DEF Spec
-----------------------------------------------------------------------------
(***************************************************************************)
(* The results.                                                            *)
(***************************************************************************)
(* The senders, devices, ring and verifier keep their types: the ring is   *)
(* never longer than its frames, and the count of replies in               *)
(* packet_handler never passes the total.                                  *)
THEOREM TipoCorretoExperimento == Spec => []TypeOK
<1>1. Ind => TypeOK
  <2> SUFFICES ASSUME Ind PROVE TypeOK
    OBVIOUS
  <2>1. emissor.id \in Nat /\ Len(fila) <= TamAnel /\ verif.modo \in {"captura", "calcula", "fim", "morto"}
    BY DEF Ind, EmissorOK, FilaOK, VerifOK, Modos
  <2>2. verif.contador \in 0..total_pacotes
    <3>1. verif.contador \in Nat /\ (verif.contador = total_pacotes \/ verif.contador < total_pacotes)
      BY DEF Ind, VerifOK
    <3> QED
      BY <3>1, ExperimentoAssumption
  <2>3. ASSUME NEW i \in 1..NumDisp, NEW c \in CfgsDe(i) PROVE c.reg \in 0..Linhas
    <3>1. CASE c = SemRegistro
      BY <3>1, ExperimentoAssumption DEF SemRegistro
    <3>2. CASE \E k \in LinhasDe(i) : c = CfgDe(k)
      <4>1. PICK k \in LinhasDe(i) : c = CfgDe(k)
        BY <3>2
      <4>2. k \in Indices /\ c.reg = k
        BY <4>1, MacDaLinha DEF CfgDe
      <4> QED
        BY <4>2, ExperimentoAssumption DEF Indices
    <3> QED
      BY <3>1, <3>2 DEF CfgsDe
  <2>4. ASSUME NEW i \in 1..NumDisp PROVE disp[i].cfg \in CfgsDe(i) /\ guardado[i] \in CfgsDe(i)
    BY DEF Ind, DispOK, DispDe, GuardaOK
  <2>5. mortos \subseteq 1..NumDisp
    BY DEF Ind, GuardaOK
  <2> QED
    BY <2>1, <2>2, <2>3, <2>4, <2>5 DEF TypeOK
<1> QED
  BY <1>1, IndSempre, PTL

(* packet_handler breaks the loop with exactly total_pacotes verifications *)
(* sent, whatever else passed through the ring and whatever was lost.      *)
THEOREM TerminaNoTotal == Spec => []FimNoTotal
<1>1. Ind => FimNoTotal
  <2> SUFFICES ASSUME Ind PROVE FimNoTotal
    OBVIOUS
  <2>1. /\ verif.contador = Len(saida) /\ verif.contador \in Nat /\ total_pacotes \in Nat
        /\ verif.modo = "fim" => verif.contador = total_pacotes
        /\ verif.modo # "fim" => verif.contador < total_pacotes
    BY ExperimentoAssumption DEF Ind, VerifOK
  <2> QED
    BY <2>1 DEF FimNoTotal
<1> QED
  BY <1>1, IndSempre, PTL

\* The replies of a ring after an arrival, and after its head has left.
LEMMA NoAnelFinito ==
  ASSUME NEW q \in Seq(Mensagens)
  PROVE  IsFiniteSet({i \in 1..Len(q) : q[i].oper = 2}) /\ NoAnel(q) \in Nat
<1>1. IsFiniteSet(1..Len(q))
  BY FS_Interval
<1>2. {i \in 1..Len(q) : q[i].oper = 2} \in SUBSET (1..Len(q))
  OBVIOUS
<1>3. IsFiniteSet({i \in 1..Len(q) : q[i].oper = 2})
  BY <1>1, <1>2, FS_Subset
<1> QED
  BY <1>3, FS_CardinalityType DEF NoAnel

LEMMA NoAnelChega ==
  ASSUME NEW q \in Seq(Mensagens), NEW p
  PROVE  /\ NoAnel(Chega(q, p)) \in {NoAnel(q), NoAnel(q) + 1}
         /\ p.oper # 2 => NoAnel(Chega(q, p)) = NoAnel(q)
<1> DEFINE S(x) == {i \in 1..Len(x) : x[i].oper = 2}
           n == Len(q) + 1
<1>1. IsFiniteSet(S(q)) /\ NoAnel(q) \in Nat
  BY NoAnelFinito
<1>2. CASE Len(q) < TamAnel
  <2>1. Chega(q, p) = Append(q, p)
    BY <1>2 DEF Chega
  <2>2. /\ Len(Append(q, p)) = n /\ Append(q, p)[n] = p /\ Len(q) \in Nat
        /\ \A i \in 1..Len(q) : Append(q, p)[i] = q[i]
    <3>1. q \in Seq(Mensagens \union {p}) /\ p \in Mensagens \union {p}
      OBVIOUS
    <3> QED
      BY <3>1
  <2>3. p.oper = 2 => S(Append(q, p)) = S(q) \union {n}
    BY <2>2
  <2>4. p.oper # 2 => S(Append(q, p)) = S(q)
    BY <2>2
  <2>5. n \notin S(q)
    BY <2>2
  <2> HIDE DEF n
  <2>6. Cardinality(S(q) \union {n}) = Cardinality(S(q)) + 1
    BY <1>1, <2>5, FS_AddElement
  <2> QED
    BY <2>1, <2>3, <2>4, <2>6 DEF NoAnel
<1>3. CASE ~(Len(q) < TamAnel)
  BY <1>3 DEF Chega
<1> QED
  BY <1>2, <1>3

LEMMA NoAnelSai ==
  ASSUME NEW q \in Seq(Mensagens), q # <<>>
  PROVE  NoAnel(Tail(q)) = IF Head(q).oper = 2 THEN NoAnel(q) - 1 ELSE NoAnel(q)
<1> DEFINE S(x) == {i \in 1..Len(x) : x[i].oper = 2}
           T == S(q) \ {1}
           f == [i \in S(Tail(q)) |-> i + 1]
<1>1. IsFiniteSet(S(q)) /\ IsFiniteSet(S(Tail(q))) /\ NoAnel(q) \in Nat
  <2>1. Tail(q) \in Seq(Mensagens)
    OBVIOUS
  <2> QED
    BY <2>1, NoAnelFinito
<1>2. /\ Len(q) \in Nat /\ Len(q) > 0 /\ Len(Tail(q)) = Len(q) - 1 /\ Head(q) = q[1]
      /\ \A i \in 1..(Len(q) - 1) : Tail(q)[i] = q[i + 1]
  OBVIOUS
<1>3. \A i \in S(Tail(q)) : i \in Int /\ i + 1 \in T
  BY <1>2
<1>4. \A j \in T : j - 1 \in S(Tail(q)) /\ j \in Int
  BY <1>2
<1>5. ExistsBijection(S(Tail(q)), T)
  <2> HIDE DEF S, T
  <2>1. f \in [S(Tail(q)) -> T]
    BY <1>3
  <2>2. \A a, b \in S(Tail(q)) : f[a] = f[b] => a = b
    BY <1>3
  <2>3. \A t \in T : \E s \in S(Tail(q)) : f[s] = t
    <3> TAKE t \in T
    <3>1. t - 1 \in S(Tail(q)) /\ t \in Int
      BY <1>4
    <3>2. f[t - 1] = t
      BY <3>1
    <3> QED
      BY <3>1, <3>2
  <2>4. f \in Bijection(S(Tail(q)), T)
    <3> HIDE DEF f
    <3> QED
      BY <2>1, <2>2, <2>3 DEF Bijection, Injection, Surjection, IsInjective
  <2> QED
    BY <2>4 DEF ExistsBijection
<1>6. Cardinality(T) = Cardinality(S(Tail(q)))
  <2> HIDE DEF S, T
  <2> QED
    BY <1>1, <1>5, FS_Bijection
<1>7. Cardinality(T) = IF 1 \in S(q) THEN Cardinality(S(q)) - 1 ELSE Cardinality(S(q))
  <2> HIDE DEF S
  <2> QED
    BY <1>1, FS_RemoveElement
<1>8. 1 \in S(q) <=> Head(q).oper = 2
  BY <1>2
<1>9. NoAnel(q) = Cardinality(S(q)) /\ NoAnel(Tail(q)) = Cardinality(S(Tail(q)))
  BY DEF NoAnel
<1> QED
  <2> HIDE DEF S, T
  <2> QED
    BY <1>6, <1>7, <1>8, <1>9

(* A reply leaves the ring of the x86 verifier only with its verification  *)
(* sent, and every verification is for one reply: for every ring, script   *)
(* and order of arrivals.                                                  *)
THEOREM RespostasFicam == Spec => RespostaNaoSome
<1>1. Ind /\ Ind' /\ [Next]_vars =>
        [/\ Respostas' \in {Respostas, Respostas + 1}
         /\ saida' # saida => Respostas' = Respostas]_vars
  <2> SUFFICES ASSUME Ind, Ind', Next
               PROVE  /\ Respostas' \in {Respostas, Respostas + 1}
                      /\ saida' # saida => Respostas' = Respostas
    OBVIOUS
  <2>1. fila \in Seq(Mensagens) /\ fila' \in Seq(Mensagens) /\ saida \in Seq(Saidas)
    BY DEF Ind, FilaOK, SaidaOK
  <2>2. Len(saida) \in Nat /\ NoAnel(fila) \in Nat
    <3>1. Len(saida) \in Nat
      BY <2>1
    <3>2. NoAnel(fila) \in Nat
      BY <2>1, NoAnelFinito
    <3> QED
      BY <3>1, <3>2
  <2>3. Respostas = Len(saida) + NoAnel(fila) /\ Respostas' = Len(saida') + NoAnel(fila')
    BY DEF Respostas, NoAnel
  <2> DEFINE Conta == /\ Respostas' \in {Respostas, Respostas + 1}
                      /\ saida' # saida => Respostas' = Respostas
  <2>4. ASSUME NEW p, fila' = Chega(fila, p), saida' = saida PROVE Conta
    <3>1. NoAnel(fila') \in {NoAnel(fila), NoAnel(fila) + 1}
      BY <2>1, <2>4, NoAnelChega
    <3> QED
      BY <2>2, <2>3, <2>4, <3>1
  <2>5. CASE fila' = fila /\ saida' = saida
    BY <2>3, <2>5
  <2>6. CASE EnviaProva
    <3>1. (\E p : fila' = Chega(fila, p)) /\ saida' = saida
      BY <2>6, Zenon DEF EnviaProva
    <3> QED
      BY <2>4, <3>1
  <2>7. CASE EnviaSetup
    <3>1. fila' = Chega(fila, [oper |-> 5]) /\ saida' = saida
      BY <2>7, Zenon DEF EnviaSetup
    <3> QED
      BY <2>4, <3>1
  <2>8. CASE EnviaPedido
    BY <2>4, <2>8 DEF EnviaPedido
  <2>9. ASSUME NEW i \in 1..NumDisp, Configura(i) \/ Grava(i) \/ Atesta(i) PROVE Conta
    <3>1. saida' = saida /\ (fila' = fila \/ \E p : fila' = Chega(fila, p))
      <4>1. Configura(i) \/ Grava(i) => fila' = fila /\ saida' = saida
        BY Zenon DEF Configura, Grava, Sai
      <4>2. Atesta(i) => saida' = saida /\ (fila' = fila \/ \E p : fila' = Chega(fila, p))
        BY Zenon DEF Atesta, Sai
      <4> QED
        BY <2>9, <4>1, <4>2
    <3> QED
      BY <2>4, <2>5, <3>1
  <2>10. CASE Ignora
    <3>1. fila # <<>> /\ Head(fila).oper # 2 /\ fila' = Tail(fila) /\ saida' = saida
      BY <2>10 DEF Ignora
    <3>2. NoAnel(fila') = NoAnel(fila)
      BY <2>1, <3>1, NoAnelSai
    <3> QED
      BY <2>3, <3>1, <3>2
  <2>11. CASE Verifica
    <3> DEFINE q == Chega(fila, [oper |-> 4])
    <3>1. verif.modo = "calcula" /\ fila' = Tail(q) /\ \E s : saida' = Append(saida, s)
      BY <2>11, Zenon DEF Verifica
    <3>2. fila # <<>> /\ Head(fila).oper = 2 /\ Len(fila) <= TamAnel
      BY <3>1 DEF Ind, VerifOK, FilaOK
    <3>3. q \in Seq(Mensagens) /\ q # <<>> /\ Head(q) = Head(fila)
      BY <2>1, <3>2, AvisosMensagens, ChegaFila
    <3>4. NoAnel(q) = NoAnel(fila)
      BY <2>1, NoAnelChega
    <3> HIDE DEF q
    <3>5. NoAnel(fila') = NoAnel(fila) - 1
      BY <3>1, <3>2, <3>3, <3>4, NoAnelSai
    <3>6. Len(saida') = Len(saida) + 1
      BY <2>1, <3>1
    <3> QED
      BY <2>2, <2>3, <3>5, <3>6
  <2>12. CASE Encerra \/ Inicia
    BY <2>5, <2>12 DEF Encerra, Inicia
  <2>13. \/ EnviaProva \/ EnviaSetup \/ EnviaPedido \/ Ignora \/ Verifica
         \/ Encerra \/ Inicia
         \/ \E i \in 1..NumDisp : Configura(i) \/ Grava(i) \/ Atesta(i)
    BY Zenon DEF Next
  <2> QED
    BY <2>6, <2>7, <2>8, <2>9, <2>10, <2>11, <2>12, <2>13, Zenon
<1> QED
  BY <1>1, IndSempre, PTL DEF RespostaNaoSome, Spec

(* envia_setup_host_arquivo and the three address bytes it computes give   *)
(* every emulated device its own line, to announce and to store, for any   *)
(* number of lines a file can have, any order of setups and requests and   *)
(* whatever children fail.                                                 *)
THEOREM CadaDispositivoSuaLinha == Spec => []CadaUmComOSeu
<1>1. Ind => CadaUmComOSeu
  <2> SUFFICES ASSUME Ind, NEW i \in 1..NumDisp, NEW c \in {disp[i].cfg, guardado[i]}, c # SemRegistro
               PROVE  c.id = Registro(i - 1).id /\ c.chave = Registro(i - 1).chave
    BY DEF CadaUmComOSeu
  <2>1. c \in CfgsDe(i)
    BY DEF Ind, DispOK, DispDe, GuardaOK
  <2>2. PICK k \in LinhasDe(i) : c = CfgDe(k)
    BY <2>1 DEF CfgsDe
  <2>3. k = i - 1
    BY MacDaLinha
  <2> QED
    BY <2>2, <2>3 DEF CfgDe, Registro
<1> QED
  BY <1>1, IndSempre, PTL
-----------------------------------------------------------------------------
\* envia_provas_arquivo is given the round its file was computed for.
ProvasDaRodada == \A c \in Comandos : c.prog = "provas" => c.rid = RodadaArquivo

(* A reply names line k and, in an even pass, carries its proof for the    *)
(* round it names, or what a device sends instead; in an odd one what it   *)
(* carries is no proof.                                                    *)
LEMMA RespostaDaLinha ==
  ASSUME ProvasDaRodada, NEW p \in DeArquivo \union DeDisp
  PROVE  \E k \in Indices, rd \in Rodadas :
           /\ swapRodada(p.rid) = rd /\ p.reg = k
           /\ p.volta % 2 = 0 =>
                /\ swapEndian(p.id) = Campo(k)
                /\ \/ swapEndian(p.prova) = ProvaDe(k, rd)
                   \/ p.origem = "dispositivo" /\ swapEndian(p.prova) \in {ProvaLixo, ProvaVazia(rd)}
           /\ p.volta % 2 # 0 => \A x : swapEndian(p.prova) # Campo(x)
<1>1. CASE p \in DeDisp
  <2>1. PICK k \in Indices, rd \in Rodadas : \E x \in ProvasDisp(k, rd) : p = DoDisp(k, rd, x)
    BY <1>1 DEF DeDisp
  <2>2. PICK x \in ProvasDisp(k, rd) : p = DoDisp(k, rd, x)
    BY <2>1
  <2>3. /\ p.rid = swapRodada(rd) /\ p.reg = k /\ p.volta = 0 /\ p.id = swapEndian(Campo(k))
        /\ p.prova = swapEndian(x) /\ p.origem = "dispositivo"
    BY <2>2 DEF DoDisp
  <2>4. swapRodada(p.rid) = rd
    BY <2>3, RodadaDeVolta
  <2>5. swapEndian(p.id) = Campo(k) /\ swapEndian(p.prova) = x
    <3>1. PICK z : x = Campo(z)
      BY <2>2 DEF ProvasDisp, ProvaDe, ProvaVazia, ProvaLixo, Prova
    <3> QED
      BY <2>3, <3>1, TrocaCampo
  <2>6. p.volta % 2 = 0
    BY <2>3
  <2> QED
    BY <2>3, <2>4, <2>5, <2>6, <2>2 DEF ProvasDisp
<1>2. CASE p \in DeArquivo
  <2>1. PICK k \in Indices, w \in Nat, rd \in RodadasProvas : p = DoArquivo(k, w, rd)
    BY <1>2 DEF DeArquivo
  <2>2. rd = RodadaArquivo /\ rd \in Rodadas
    BY DEF RodadasProvas, Rodadas, ProvasDaRodada
  <2> DEFINE z == [chave |-> Campo(k), rodada |-> <<rd[1], rd[2]>>, id |-> Campo(k)]
  <2>3. ProvaDe(k, rd) = Campo(z)
    BY ProvaCampo
  <2> HIDE DEF z
  <2>4. /\ p.rid = swapRodada(rd) /\ p.reg = k /\ p.volta = w /\ p.id = Vezes(Campo(k), w + 1)
        /\ p.prova = Vezes(Campo(z), w + 1)
    BY <2>1, <2>2, <2>3 DEF DoArquivo
  <2>5. swapRodada(p.rid) = rd
    BY <2>2, <2>4, RodadaDeVolta
  <2>6. CASE w % 2 = 0
    <3>1. (w + 1) % 2 # 0
      BY <2>6
    <3>2. p.id = swapEndian(Campo(k)) /\ p.prova = swapEndian(Campo(z))
      BY <2>4, <3>1 DEF Vezes
    <3>3. swapEndian(p.id) = Campo(k) /\ swapEndian(p.prova) = ProvaDe(k, rd)
      BY <2>3, <3>2, TrocaCampo
    <3> QED
      BY <2>2, <2>4, <2>5, <2>6, <3>3
  <2>7. CASE w % 2 # 0
    <3>1. (w + 1) % 2 = 0
      BY <2>7
    <3>2. p.prova = Campo(z)
      BY <2>4, <3>1 DEF Vezes
    <3>3. \A x : swapEndian(p.prova) # Campo(x)
      BY <3>2, TrocaCampo
    <3> QED
      BY <2>2, <2>4, <2>5, <2>7, <3>3
  <2> QED
    BY <2>6, <2>7
<1> QED
  BY <1>1, <1>2

(* The key of the id of line k.                                            *)
LEMMA ChaveDaLinha ==
  ASSUME NEW k \in Indices
  PROVE  ChaveDe(Campo(k)) = Campo(k)
<1>1. /\ DOMAIN dados = Indices
      /\ \A j \in Indices : dados[j].id = Campo(j) /\ dados[j].chave = Campo(j)
  BY RegistroGravado DEF dados, Registro
<1> DEFINE S == {dados[i] : i \in DOMAIN dados}
           c == CHOOSE r \in S : r.id = Campo(k)
<1>2. dados[k] \in S /\ dados[k].id = Campo(k)
  BY <1>1
<1>3. c \in S /\ c.id = Campo(k)
  BY <1>2
<1>4. PICK j \in Indices : c = dados[j]
  BY <1>1, <1>3
<1>5. ChaveDe(Campo(k)) = c.chave
  BY <1>1, Zenon DEF ChaveDe
<1> HIDE DEF c
<1>6. j = k
  BY <1>1, <1>3, <1>4, TrocaCampo
<1> QED
  BY <1>1, <1>4, <1>5, <1>6

(* When the file's proofs are sent for their own round, every reply in the *)
(* ring of verifica_p4dra_rede carries the proof of the key of the id it   *)
(* names for the round it names, or comes from a device and is garbage or  *)
(* the proof of an empty storage for that round: whichever children of     *)
(* dra_service fail, are late or end out of order.                         *)
THEOREM RespostasSaoProvas == ProvasDaRodada => (Spec => []RespostasValidas)
<1> SUFFICES ASSUME ProvasDaRodada PROVE Spec => []RespostasValidas
  OBVIOUS
<1>1. Ind => RespostasValidas
  <2> DEFINE Valida(p, rd) ==
               \/ swapEndian(p.prova) =
                    Prova(ChaveDe(swapEndian(p.id)), rd[2], rd[1], swapEndian(p.id))
               \/ p.origem = "dispositivo" /\ swapEndian(p.prova) \in {ProvaLixo, ProvaVazia(rd)}
  <2> SUFFICES ASSUME Ind, NEW i \in 1..Len(fila), fila[i].oper = 2, fila[i].volta = 0
               PROVE  Valida(fila[i], swapRodada(fila[i].rid))
    BY Zenon DEF RespostasValidas
  <2> DEFINE p == fila[i]
  <2>1. p \in Mensagens
    BY DEF Ind, FilaOK
  <2>2. p \in DeArquivo \union DeDisp
    BY <2>1, CabecaResposta
  <2>3. p.volta % 2 = 0
    OBVIOUS
  <2>4. PICK k \in Indices, rd \in Rodadas :
          /\ swapRodada(p.rid) = rd /\ swapEndian(p.id) = Campo(k)
          /\ \/ swapEndian(p.prova) = ProvaDe(k, rd)
             \/ p.origem = "dispositivo" /\ swapEndian(p.prova) \in {ProvaLixo, ProvaVazia(rd)}
    <3> HIDE DEF p
    <3> QED
      BY <2>2, <2>3, RespostaDaLinha
  <2> QED
    BY <2>4, ChaveDaLinha DEF ProvaDe
<1> QED
  BY <1>1, IndSempre, PTL

(* A proof names its key.                                                  *)
LEMMA ProvaNomeiaChave ==
  ASSUME NEW a, NEW b, NEW c, NEW d, NEW e, NEW f, NEW g, NEW h,
         Prova(a, b, c, d) = Prova(e, f, g, h)
  PROVE  a = e
<1> DEFINE x == [chave |-> a, rodada |-> <<c, b>>, id |-> d]
           y == [chave |-> e, rodada |-> <<g, f>>, id |-> h]
<1>1. Campo(x) = Campo(y)
  BY DEF Prova
<1>2. x.chave = a /\ y.chave = e
  OBVIOUS
<1> HIDE DEF x, y
<1>3. x = y
  BY <1>1, TrocaCampo
<1> QED
  BY <1>2, <1>3

(* A proof made with the key of a line is neither garbage nor that of an   *)
(* empty storage.                                                          *)
LEMMA ProvaDeLinha ==
  ASSUME NEW k \in Indices, NEW b, NEW c, NEW d, NEW rd
  PROVE  Prova(Campo(k), b, c, d) \notin {ProvaLixo, ProvaVazia(rd)}
<1>1. k # -1
  BY ExperimentoAssumption DEF Indices
<1>2. Campo(k) # Campo(-1)
  BY <1>1, TrocaCampo
<1>3. Prova(Campo(k), b, c, d) # ProvaLixo
  BY <1>2, ProvaNomeiaChave DEF ProvaLixo, Lixo
<1>4. Prova(Campo(k), b, c, d) # ProvaVazia(rd)
  <2>1. ProvaVazia(rd) = Prova(Campo(-1), rd[2], rd[1], Campo(-1))
    BY DEF ProvaVazia, SemRegistro
  <2> QED
    BY <1>2, <2>1, ProvaNomeiaChave
<1> QED
  BY <1>3, <1>4

(* The verifier takes keys by position: under the same hypothesis, what    *)
(* forro-args-dra2 computes for the n-th reply agrees with its proof       *)
(* exactly when the reply is of line n - 1 modulo the table, of an even    *)
(* pass, and neither garbage nor the proof of an empty storage: for any    *)
(* script, losses, order of the replies and failures of the children.      *)
THEOREM VeredictoPelaPosicao == ProvasDaRodada => (Spec => []VeredictoExato)
<1> SUFFICES ASSUME ProvasDaRodada PROVE Spec => []VeredictoExato
  OBVIOUS
<1>1. Ind => VeredictoExato
  <2> SUFFICES ASSUME Ind, NEW n \in 1..Len(saida), saida[n].verificacao # ProvaLixo
               PROVE  saida[n].verificacao = saida[n].prova <=>
                        /\ saida[n].reg = (n - 1) % Modulo /\ saida[n].volta % 2 = 0
                        /\ saida[n].prova \notin {ProvaLixo, ProvaVazia(saida[n].rid)}
    BY DEF VeredictoExato
  <2> DEFINE m == (n - 1) % Modulo
             s == saida[n]
  <2>1. PICK p \in DeArquivo \union DeDisp : s \in Vereditos(p, n - 1)
    BY DEF Ind, SaidaOK
  <2>2. /\ s.verificacao = forro_args_dra2(p, n - 1) /\ s.prova = swapEndian(p.prova)
        /\ s.rid = swapRodada(p.rid) /\ s.reg = p.reg /\ s.volta = p.volta
    BY <2>1 DEF Vereditos, Verificacao
  <2>3. PICK k \in Indices, rd \in Rodadas :
           /\ swapRodada(p.rid) = rd /\ p.reg = k
           /\ p.volta % 2 = 0 =>
                /\ swapEndian(p.id) = Campo(k)
                /\ \/ swapEndian(p.prova) = ProvaDe(k, rd)
                   \/ p.origem = "dispositivo" /\ swapEndian(p.prova) \in {ProvaLixo, ProvaVazia(rd)}
           /\ p.volta % 2 # 0 => \A x : swapEndian(p.prova) # Campo(x)
    BY RespostaDaLinha
  <2>4. m \in Indices
    <3>1. Modulo \in Nat \ {0} /\ Modulo <= Linhas /\ Linhas \in Nat /\ n - 1 \in Nat
      BY ExperimentoAssumption DEF Ind, SaidaOK
    <3>2. m \in 0..(Modulo - 1)
      BY <3>1, Quociente
    <3> HIDE DEF m
    <3> QED
      BY <3>1, <3>2 DEF Indices
  <2>5. buscarPorIdDireto(n - 1) = Campo(m)
    <3>1. buscarPorIdDireto(n - 1) = dados[m].chave
      BY DEF buscarPorIdDireto
    <3> HIDE DEF m
    <3>2. dados[m] = Registro(m)
      BY <2>4, RegistroGravado DEF dados
    <3> QED
      BY <3>1, <3>2 DEF Registro
  <2> HIDE DEF m, s
  <2>6. s.verificacao = Prova(Campo(m), rd[2], rd[1], swapEndian(p.id))
    BY <2>2, <2>3, <2>5 DEF forro_args_dra2
  <2>7. s.verificacao \notin {ProvaLixo, ProvaVazia(rd)}
    BY <2>4, <2>6, ProvaDeLinha
  <2> DEFINE certa == /\ s.reg = m /\ s.volta % 2 = 0
                      /\ s.prova \notin {ProvaLixo, ProvaVazia(s.rid)}
  <2>8. s.verificacao = s.prova <=> certa
    <3>1. CASE p.volta % 2 # 0
      <4>1. s.verificacao # s.prova
        BY <2>2, <2>3, <2>6, <3>1 DEF Prova
      <4> QED
        BY <2>2, <3>1, <4>1
    <3>2. CASE p.volta % 2 = 0 /\ s.prova = ProvaDe(k, rd)
      <4>1. s.verificacao = Prova(Campo(m), rd[2], rd[1], Campo(k))
        BY <2>3, <2>6, <3>2
      <4>2. s.verificacao = s.prova => m = k
        <5>1. Prova(Campo(m), rd[2], rd[1], Campo(k)) = ProvaDe(k, rd) => Campo(m) = Campo(k)
          BY ProvaNomeiaChave DEF ProvaDe
        <5> QED
          BY <3>2, <4>1, <5>1, TrocaCampo
      <4>3. m = k => s.verificacao = s.prova
        BY <3>2, <4>1 DEF ProvaDe
      <4>4. s.prova \notin {ProvaLixo, ProvaVazia(rd)}
        BY <3>2, ProvaDeLinha DEF ProvaDe
      <4> QED
        BY <2>2, <2>3, <3>2, <4>2, <4>3, <4>4
    <3>3. CASE p.volta % 2 = 0 /\ s.prova \in {ProvaLixo, ProvaVazia(rd)}
      BY <2>2, <2>3, <2>7, <3>3
    <3> QED
      BY <2>2, <2>3, <3>1, <3>2, <3>3
  <2> QED
    BY <2>8 DEF m, s
<1> QED
  BY <1>1, IndSempre, PTL
=============================================================================
