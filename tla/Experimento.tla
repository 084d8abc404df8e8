---------------------------- MODULE Experimento ----------------------------
(***************************************************************************)
(* The x86 side of the experiments of README-en.md: the programs that send *)
(* setups, requests and prerecorded proofs, the emulated devices, and the  *)
(* verifier verifica_p4dra_rede with the ring its packets wait in, which   *)
(* is the bounded queue of FilaCaptura.                                    *)
(*                                                                         *)
(* A device is dra_service as DraService has it, its optee_dra children    *)
(* reduced to their outcomes: the child of a setup writes some time later, *)
(* or fails; the child of a request prints a proof of what is stored then, *)
(* or nothing; and nobody looks at how a child ended.                      *)
(***************************************************************************)
EXTENDS Hexa, FiniteSets

CONSTANTS
  Linhas,        \* lines of the data file
  Modulo,        \* 20000 in dados[id%20000]
  Base,          \* values of a byte of a MAC address: 256
  NumDisp,       \* emulated devices; device i has MAC 52:54:00:00:00:i
  TamAnel,       \* packets the capture ring of the verifier holds
  total_pacotes, \* replies after which the verifier ends
  Roteiros       \* what may be run: sequences of [prog, n, oper, rid]

VARIABLES
  emissor,       \* the program sending now, and those still to run: roteiro, id, dados
  disp,          \* the devices' services: packets to handle, last setup handled
  filhos,        \* the children of setups that have not ended, by device
  guardado,      \* what the secure storage of each device holds
  mortos,        \* devices whose service has ended
  fila,          \* the verifier's ring
  verif,         \* the verifier
  saida          \* oper 4 packets sent by the verifier, with their origin

vars == <<emissor, disp, filhos, guardado, mortos, fila, verif, saida>>

dispVars == <<disp, filhos, guardado, mortos>>

\* ID_MAX keeps the file below 256^3 lines.
ASSUME ExperimentoAssumption ==
  /\ {Linhas, Modulo, TamAnel, total_pacotes} \subseteq Nat \ {0}
  /\ Modulo <= Linhas
  /\ {Base, NumDisp} \subseteq Nat /\ NumDisp < Base
  /\ Linhas <= Base * Base * Base

Comandos == UNION {{r[j] : j \in 1..Len(r)} : r \in Roteiros}

\* A setup has a line of the file for every packet, a request leaves as oper 1 or
\* 0, and a round is given as a hexstring.
ASSUME RoteirosAssumption ==
  /\ Roteiros \subseteq Seq(Comandos)
  /\ \A c \in Comandos :
       /\ c.n \in Nat
       /\ c.prog = "setup" => c.n <= Linhas
       /\ c.prog = "pedidos" => c.oper \in {0, 1}
       /\ c.rid = <<Campo(c.rid[1].v), Campo(c.rid[2].v)>>
-----------------------------------------------------------------------------
(***************************************************************************)
(* The data file, as gerar_provas.sh writes it: one device per line, its   *)
(* proof computed for one round.                                           *)
(***************************************************************************)
RodadaArquivo == <<Campo(1), Campo(2)>>

Registro(i) ==
  [id |-> Campo(i), chave |-> Campo(i),
   prova |-> Prova(Campo(i), RodadaArquivo[2], RodadaArquivo[1], Campo(i))]

carregarArquivoMemoria == [i \in 0..(Linhas - 1) |-> Registro(i)]

\* Mutant: only the last byte depends on the device.
mac_UmByte(id) == <<0, 0, (id + 1) % Base>>

\* Bytes 3, 4 and 5 of the address computed for loop index id.
mac(id) == <<(id \div (Base * Base)) % Base, (id \div Base) % Base, (id + 1) % Base>>
-----------------------------------------------------------------------------
(***************************************************************************)
(* The senders.  id is the loop variable of the program running.           *)
(***************************************************************************)
Programa == Head(emissor.roteiro)

Rodando(prog) == emissor.roteiro # <<>> /\ Programa.prog = prog /\ emissor.id < Programa.n

\* A packet that finds the ring full is lost.
Chega(q, p) == IF Len(q) < TamAnel THEN Append(q, p) ELSE q

\* envia_provas_arquivo: the record is reversed where it is, then copied out.
\* origem, reg and volta are auxiliary: who sends, its line and how often the
\* table was passed.
EnviaProva ==
  /\ Rodando("provas")
  /\ LET k == emissor.id % Modulo
         r == [emissor.dados[k] EXCEPT !.id = swapEndian(@), !.prova = swapEndian(@)]
     IN /\ fila' = Chega(fila, [oper |-> 2, rid |-> swapRodada(Programa.rid), id |-> r.id,
                                prova |-> r.prova, origem |-> "arquivo", reg |-> k,
                                volta |-> emissor.id \div Modulo])
        /\ emissor' = [emissor EXCEPT !.id = @ + 1, !.dados[k] = r]
  /\ UNCHANGED <<dispVars, verif, saida>>

\* The rules of the bridge let a frame through to the device it is addressed to.
Entrega(m, p) ==
  disp' = [i \in DOMAIN disp |-> IF m = <<0, 0, i>> THEN [disp[i] EXCEPT !.entrada = Append(@, p)]
                                 ELSE disp[i]]

\* Mutant: id and key go out as they are in the file.
EnviaSetup_SemTroca ==
  /\ Rodando("setup")
  /\ LET k == emissor.id
         p == [oper |-> 5, rid |-> <<Campo(0), Campo(0)>>, id |-> emissor.dados[k].id,
               chave |-> emissor.dados[k].chave, reg |-> k]
     IN Entrega(mac(k), p) /\ fila' = Chega(fila, [oper |-> 5])
  /\ emissor' = [emissor EXCEPT !.id = @ + 1]
  /\ UNCHANGED <<filhos, guardado, mortos, verif, saida>>

\* envia_setup_host_arquivo.  The verifier captures on the same interface and
\* sees what leaves through it.
EnviaSetup ==
  /\ Rodando("setup")
  /\ LET k == emissor.id
         r == [emissor.dados[k] EXCEPT !.id = swapEndian(@), !.chave = swapEndian(@)]
         p == [oper |-> 5, rid |-> <<Campo(0), Campo(0)>>, id |-> r.id, chave |-> r.chave,
               reg |-> k]
     IN /\ Entrega(mac(k), p)
        /\ fila' = Chega(fila, [oper |-> 5])
        /\ emissor' = [emissor EXCEPT !.id = @ + 1, !.dados[k] = r]
  /\ UNCHANGED <<filhos, guardado, mortos, verif, saida>>

\* envia_pedidos_host (oper 1), or envia_pedidos (oper 0), whose packets pass the
\* switch: forward_request makes them requests.
EnviaPedido ==
  /\ Rodando("pedidos")
  /\ Entrega(mac(emissor.id), [oper |-> 1, rid |-> swapRodada(Programa.rid)])
  /\ fila' = Chega(fila, [oper |-> Programa.oper])
  /\ emissor' = [emissor EXCEPT !.id = @ + 1]
  /\ UNCHANGED <<filhos, guardado, mortos, verif, saida>>

\* The program has sent everything, or sendto failed and it exits; the next one
\* loads the file anew.
Encerra ==
  /\ emissor.roteiro # <<>>
  /\ emissor' = [emissor EXCEPT !.roteiro = Tail(@), !.id = 0, !.dados = carregarArquivoMemoria]
  /\ UNCHANGED <<dispVars, fila, verif, saida>>
-----------------------------------------------------------------------------
(***************************************************************************)
(* The device.  An empty storage proves with a key and an id of zeros,     *)
(* which no line of the file has.                                          *)
(***************************************************************************)
SemRegistro == [id |-> Campo(-1), chave |-> Campo(-1), reg |-> Linhas]

\* popen, socket or sendto failed: the service exits and nothing restarts it.
Sai(i) ==
  /\ mortos' = mortos \union {i}
  /\ UNCHANGED <<disp, filhos, guardado, fila>>

\* A setup: the reversed fields are kept, as a hexstring in file order, and a
\* child nobody waits for is given them to store.
Configura(i) ==
  /\ i \notin mortos /\ disp[i].entrada # <<>> /\ Head(disp[i].entrada).oper = 5
  /\ LET p == Head(disp[i].entrada)
         c == [id |-> swapEndian(p.id), chave |-> swapEndian(p.chave), reg |-> p.reg]
     IN \/ /\ disp' = [disp EXCEPT ![i] = [entrada |-> Tail(disp[i].entrada), cfg |-> c]]
           /\ filhos' = [filhos EXCEPT ![i] = Append(@, c)]
           /\ UNCHANGED <<guardado, mortos, fila>>
        \/ Sai(i)
  /\ UNCHANGED <<emissor, verif, saida>>

\* A setup's child ends, in any order: it wrote, had no session or could not
\* create the object, or failed in the write and deleted it.
Grava(i) ==
  /\ \E j \in 1..Len(filhos[i]) :
       /\ guardado' \in {[guardado EXCEPT ![i] = g] : g \in {filhos[i][j], guardado[i], SemRegistro}}
       /\ filhos' = [filhos EXCEPT ![i] = SubSeq(@, 1, j - 1) \o SubSeq(@, j + 1, Len(@))]
  /\ UNCHANGED <<emissor, disp, mortos, fila, verif, saida>>

\* What getline leaves when the child printed nothing; no proof is equal to it.
ProvaLixo == Prova(Lixo, Lixo, Lixo, Lixo)

\* What the child of a request for round r prints, storage g given.
optee_dra(g, r) == {Prova(g.chave, r[2], r[1], g.id), ProvaLixo}

\* A request: the child's line is sent with the id of the last setup handled.
\* Before any setup that id is a null pointer and the service dies.
Atesta(i) ==
  /\ i \notin mortos /\ disp[i].entrada # <<>> /\ Head(disp[i].entrada).oper = 1
  /\ \/ /\ disp[i].cfg # SemRegistro
        /\ LET p == Head(disp[i].entrada)
               r == swapRodada(p.rid)
               c == disp[i].cfg
           IN \E prova \in optee_dra(guardado[i], r) :
                fila' = Chega(fila, [oper |-> 2, rid |-> swapRodada(r), id |-> swapEndian(c.id),
                                     prova |-> swapEndian(prova), origem |-> "dispositivo",
                                     reg |-> c.reg, volta |-> 0])
        /\ disp' = [disp EXCEPT ![i] = [entrada |-> Tail(disp[i].entrada), cfg |-> disp[i].cfg]]
        /\ UNCHANGED <<filhos, guardado, mortos>>
     \/ Sai(i)
  /\ UNCHANGED <<emissor, verif, saida>>
-----------------------------------------------------------------------------
(***************************************************************************)
(* The verifier.  dados is its own copy of the file, which it only reads.  *)
(***************************************************************************)
dados == carregarArquivoMemoria

\* Mutant: the count is taken after this packet.
buscarPorIdDireto_Adiantado(id) == dados[(id + 1) % Modulo].chave

buscarPorIdDireto(id) == dados[id % Modulo].chave

\* Mutant: every packet is counted, as le_provas_rede does.
Ignora_Conta ==
  /\ verif.modo = "captura" /\ fila # <<>> /\ Head(fila).oper # 2
  /\ fila' = Tail(fila)
  /\ LET n == verif.contador + 1
     IN verif' = [verif EXCEPT !.contador = n, !.modo = IF n = total_pacotes THEN "fim" ELSE @]
  /\ UNCHANGED <<emissor, dispVars, saida>>

\* Mutant: the operation of the packet is not looked at.
Ignora_QualquerOper ==
  /\ verif.modo = "captura" /\ fila # <<>>
  /\ fila' = Tail(fila)
  /\ UNCHANGED <<emissor, dispVars, verif, saida>>

\* packet_handler for anything but a reply, its own verifications included.
Ignora ==
  /\ verif.modo = "captura" /\ fila # <<>> /\ Head(fila).oper # 2
  /\ fila' = Tail(fila)
  /\ UNCHANGED <<emissor, dispVars, verif, saida>>

\* popen of forro-args-dra2; the packet stays in the ring until the handler is
\* through.  If popen, or the sendto after it, fails the verifier exits, and it
\* dies if getline could not allocate its buffer.
Inicia ==
  /\ verif.modo = "captura" /\ fila # <<>> /\ Head(fila).oper = 2
  /\ verif' \in {[verif EXCEPT !.modo = "calcula"], [verif EXCEPT !.modo = "morto"]}
  /\ UNCHANGED <<emissor, dispVars, fila, saida>>

\* The command line for reply p when n replies were handled before it.
forro_args_dra2(p, n) ==
  LET r == swapRodada(p.rid)
  IN Prova(buscarPorIdDireto(n), r[2], r[1], swapEndian(p.id))

\* Mutant: the comparison with the total comes before the increment.
Depois_ComparaAntes(v) ==
  [v EXCEPT !.contador = @ + 1, !.modo = IF v.contador = total_pacotes THEN "fim" ELSE "captura"]

\* Mutant: the loop is never broken.
Depois_SemBreak(v) == [v EXCEPT !.contador = @ + 1, !.modo = "captura"]

\* contador_pacotes and, at the total, pcap_breakloop.
Depois(v) ==
  [v EXCEPT !.contador = @ + 1, !.modo = IF v.contador + 1 = total_pacotes THEN "fim" ELSE "captura"]

\* What is read is sent with the reply's fields, reversed again, and counted, also
\* when the child printed nothing; what is sent is captured too.  saida holds the
\* fields before the reversal.
Verifica ==
  /\ verif.modo = "calcula"
  /\ LET p == Head(fila)
     IN \E v \in {forro_args_dra2(p, verif.contador), ProvaLixo} :
          saida' = Append(saida, [oper |-> 4, rid |-> swapRodada(p.rid), id |-> swapEndian(p.id),
                                  prova |-> swapEndian(p.prova), verificacao |-> v,
                                  origem |-> p.origem, reg |-> p.reg, volta |-> p.volta])
  /\ fila' = Tail(Chega(fila, [oper |-> 4]))
  /\ verif' = Depois(verif)
  /\ UNCHANGED <<emissor, dispVars>>
-----------------------------------------------------------------------------
Init ==
  /\ \E r \in Roteiros :
       emissor = [roteiro |-> r, id |-> 0, dados |-> carregarArquivoMemoria]
  /\ disp = [i \in 1..NumDisp |-> [entrada |-> <<>>, cfg |-> SemRegistro]]
  /\ filhos = [i \in 1..NumDisp |-> <<>>]
  /\ guardado = [i \in 1..NumDisp |-> SemRegistro] /\ mortos = {}
  /\ fila = <<>> /\ saida = <<>>
  /\ verif = [modo |-> "captura", contador |-> 0]

Next ==
  \/ EnviaProva \/ EnviaSetup \/ EnviaPedido \/ Encerra
  \/ \E i \in 1..NumDisp : Configura(i) \/ Grava(i) \/ Atesta(i)
  \/ Ignora \/ Inicia \/ Verifica

\* The programs are scheduled and forro-args-dra2 ends.
Fairness == WF_vars(Ignora \/ Inicia \/ Verifica)

Spec == Init /\ [][Next]_vars /\ Fairness
-----------------------------------------------------------------------------
TypeOK ==
  /\ emissor.id \in Nat
  /\ \A i \in 1..NumDisp : {disp[i].cfg.reg, guardado[i].reg} \subseteq 0..Linhas
  /\ mortos \subseteq 1..NumDisp
  /\ Len(fila) <= TamAnel
  /\ verif.modo \in {"captura", "calcula", "fim", "morto"}
  /\ verif.contador \in 0..total_pacotes

ChaveDe(id) == IF \E i \in DOMAIN dados : dados[i].id = id
                 THEN (CHOOSE r \in {dados[i] : i \in DOMAIN dados} : r.id = id).chave
                 ELSE Campo(-1)

\* The proof of an empty storage.
ProvaVazia(rd) == Prova(SemRegistro.chave, rd[2], rd[1], SemRegistro.id)

(* A verification that forro-args-dra2 computed for the n-th reply agrees    *)
(* with the proof exactly when the reply is of the n-th device of the file   *)
(* (counting modulo the table), was sent in an odd pass over it, and the     *)
(* device had a proof of its record to send: one lost packet or two swapped  *)
(* ones shift all that follow to wrong keys, every second pass of            *)
(* envia_provas_arquivo sends its records reversed, and a child that fails,  *)
(* here or in a device, costs its own reply and no other.                    *)
VeredictoExato ==
  \A n \in 1..Len(saida) :
    saida[n].verificacao # ProvaLixo =>
      (saida[n].verificacao = saida[n].prova <=>
         /\ saida[n].reg = (n - 1) % Modulo /\ saida[n].volta % 2 = 0
         /\ saida[n].prova \notin {ProvaLixo, ProvaVazia(saida[n].rid)})

(* Every reply on its way to a verifier, from a device or from the file in   *)
(* its first pass, carries the proof of the key of the id it names, for the  *)
(* round it names.  Only a device may send something else, and only garbage  *)
(* or the proof of an empty storage for the round asked: whatever setups     *)
(* fail or are late, it sends no proof of another line or another round, and *)
(* none that mixes two records.                                              *)
RespostasValidas ==
  \A i \in 1..Len(fila) :
    LET p == fila[i]
        rd == swapRodada(p.rid)
    IN p.oper = 2 /\ p.volta = 0 =>
         \/ swapEndian(p.prova) =
              Prova(ChaveDe(swapEndian(p.id)), rd[2], rd[1], swapEndian(p.id))
         \/ p.origem = "dispositivo" /\ swapEndian(p.prova) \in {ProvaLixo, ProvaVazia(rd)}

(* Whatever number of setups is sent, also more than a byte can number, the  *)
(* device with MAC i announces, and stores, the record of line i and no      *)
(* other.                                                                    *)
CadaUmComOSeu ==
  \A i \in 1..NumDisp :
    \A c \in {disp[i].cfg, guardado[i]} \ {SemRegistro} :
      c.id = Registro(i - 1).id /\ c.chave = Registro(i - 1).chave

(* The verifier ends with exactly the number of verifications it was asked   *)
(* for; the requests and its own packets it captures do not count.           *)
FimNoTotal == verif.modo = "fim" <=> Len(saida) = total_pacotes

\* Replies in a ring; and those that got into it so far.
NoAnel(q) == Cardinality({i \in 1..Len(q) : q[i].oper = 2})
Respostas == Len(saida) + NoAnel(fila)

(* A reply that got into the ring is verified, and once: whatever arrives    *)
(* beside it, the verifier's own packets included, and whether the ring is   *)
(* full or not, a reply leaves the ring only with its verification sent.     *)
RespostaNaoSome ==
  [][/\ Respostas' \in {Respostas, Respostas + 1}
     /\ saida' # saida => Respostas' = Respostas]_vars

(* Once enough replies got into the ring the verifier ends (with fewer, for  *)
(* instance after a loss, it waits for ever).                                *)
VerificadorTermina == Respostas >= total_pacotes ~> verif.modo \in {"fim", "morto"}

(* packet_handler: "Se for resposta, calcula verificacao": the verification  *)
(* computed for a reply is the one of the device the reply names.            *)
VerificaODispositivo ==
  \A n \in 1..Len(saida) :
    saida[n].verificacao # ProvaLixo =>
      saida[n].verificacao = Prova(ChaveDe(saida[n].id), saida[n].rid[2], saida[n].rid[1], saida[n].id)
=============================================================================
