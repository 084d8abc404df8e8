-------------------------- MODULE DraServiceProofs --------------------------
(***************************************************************************)
(* Proofs about DraService: its safety properties for any number of        *)
(* processes and descriptors and any set of devices and rounds, under      *)
(* every interleaving of packets, children and restarts.                   *)
(***************************************************************************)
EXTENDS DraService, OpteeDraProofs

TipoServico ==
  [pc : {"livre", "espera", "morto"},
   id : {a.id : a \in Argumentos} \union {Ninguem},
   rid : Rodadas \union {Ninguem},
   filho : Procs \union {Ninguem},
   quieto : BOOLEAN]

\* What the secrets object may hold.
Pares == Argumentos \union {[chave |-> ChaveZero, id |-> IdZero]}

Vivo(p) == p.pc \notin {"livre", "fim"}

EscritorVivo(p) == p.comando = CMD_WRITE_RAW /\ Vivo(p)

\* What a REQUEST may end with.
Imprimiu(p) ==
  \/ p.rc # 0 \/ p.saida = Lixo
  \/ \E s \in Pares : p.saida = Prova(s, p.arg)

ServicoOK ==
  /\ servico \in TipoServico
  /\ abertos \in 0..MaxAbertos
  /\ servico.pc = "espera" => abertos > 0
  /\ duvida \in BOOLEAN

\* The service waits for the child it started for the round it was asked for;
\* what the child prints is garbage or a proof of that round.
EsperaFilho ==
  servico.pc = "espera" =>
    /\ servico.filho \in Procs /\ servico.rid \in Rodadas
    /\ proc[servico.filho].comando = CMD_REQUEST_PROOF
    /\ proc[servico.filho].arg = servico.rid
    /\ proc[servico.filho].pc # "livre"
    /\ proc[servico.filho].pc = "fim" => Imprimiu(proc[servico.filho])

\* Any child still running is of a setup, but for the one waited for.
SoUmPedido ==
  \A g \in Procs : Vivo(proc[g]) /\ proc[g].comando # CMD_WRITE_RAW =>
    servico.pc = "espera" /\ g = servico.filho

\* As long as the last setup was handled beside no other and has not failed, its
\* child is the only one that writes, and writes the id the service announces.
EscritorSo ==
  ~duvida =>
    \A h \in Procs : EscritorVivo(proc[h]) =>
      /\ proc[h].arg.id = servico.id
      /\ \A g \in Procs : EscritorVivo(proc[g]) => g = h

\* A request that came when the device was quiet: nobody writes while its child
\* runs, on a storage that holds the last setup, and the proof is of that setup.
PedidoQuieto ==
  servico.pc = "espera" /\ servico.quieto =>
    /\ servico.id # Ninguem /\ gravado # Ninguem /\ gravado.id = servico.id
    /\ \A g \in Procs : ~EscritorVivo(proc[g])
    /\ proc[servico.filho].pc = "fim" =>
         \/ proc[servico.filho].rc # 0 \/ proc[servico.filho].saida = Lixo
         \/ proc[servico.filho].saida = Prova(gravado, servico.rid)

(***************************************************************************)
(* The inductive invariant.                                                *)
(***************************************************************************)
Ind ==
  /\ TAInd
  /\ ServicoOK
  /\ EsperaFilho
  /\ SoUmPedido
  /\ EscritorSo
  /\ IdAcompanhaStorage
  /\ PedidoQuieto
-----------------------------------------------------------------------------
\* What a step of a child may do, whichever it is: only its own process moves on;
\* only a WRITE touches the storage, and when it ends well gravado is its argument;
\* a REQUEST ends with an error, with garbage or with the proof.
EfeitoDePasso(h) ==
  /\ Vivo(proc[h]) /\ proc'[h].pc # "livre"
  /\ proc'[h].comando = proc[h].comando /\ proc'[h].arg = proc[h].arg
  /\ \A g \in Procs : g # h => proc'[g] = proc[g]
  /\ proc[h].comando # CMD_WRITE_RAW => UNCHANGED <<objeto, gravado>>
  /\ proc[h].comando = CMD_WRITE_RAW /\ proc'[h].pc = "fim" /\ proc'[h].rc = 0
       => gravado' = proc[h].arg
  /\ proc[h].comando = CMD_REQUEST_PROOF /\ proc'[h].pc = "fim"
       => \/ proc'[h].rc # 0 \/ proc'[h].saida = Lixo
          \/ proc'[h].saida = Prova(objeto["secrets"], proc[h].arg)

\* Sai, for any result the model gives it.
LEMMA SaiGeral ==
  ASSUME TAInd, NEW h \in Procs, NEW rc, NEW s, Sai(h, rc, s)
  PROVE  /\ proc'[h].pc = "fim" /\ proc'[h].rc = rc /\ proc'[h].saida = s
         /\ proc'[h].comando = proc[h].comando /\ proc'[h].arg = proc[h].arg
         /\ \A g \in Procs : g # h => proc'[g] = proc[g]
<1>1. proc \in [Procs -> TipoProcesso]
  BY DEF TAInd, TAEstado
<1> QED
  BY <1>1 DEF Sai, TipoProcesso

LEMMA PassoEfeito ==
  ASSUME TAInd, NEW h \in Procs, Passo(h)
  PROVE  EfeitoDePasso(h)
<1> USE DEF EfeitoDePasso, Vivo
<1>0. proc \in [Procs -> TipoProcesso]
  BY DEF TAInd, TAEstado
<1>1. CASE prepare_tee_session(h)
  <2>1. proc[h].pc = "inicio" /\ UNCHANGED <<objeto, gravado>>
    BY <1>1 DEF prepare_tee_session
  <2>2. CASE Sai(h, 1, Ninguem)
    <3>1. /\ proc'[h].pc = "fim" /\ proc'[h].rc = 1
          /\ proc'[h].comando = proc[h].comando /\ proc'[h].arg = proc[h].arg
          /\ \A g \in Procs : g # h => proc'[g] = proc[g]
      BY <2>2, SaiGeral
    <3> QED
      BY <2>1, <3>1
  <2>3. CASE proc' = [proc EXCEPT ![h].pc = IF proc[h].comando = CMD_WRITE_RAW THEN "cria"
                                            ELSE "chama"]
    <3>1. /\ proc'[h].pc \in {"cria", "chama"}
          /\ proc'[h].comando = proc[h].comando /\ proc'[h].arg = proc[h].arg
          /\ \A g \in Procs : g # h => proc'[g] = proc[g]
      BY <1>0, <2>3 DEF TipoProcesso
    <3> QED
      BY <2>1, <3>1
  <2> QED
    BY <1>1, <2>2, <2>3 DEF prepare_tee_session
<1>2. CASE cria(h)
  <2>1. proc[h].pc = "cria" /\ proc[h].comando = CMD_WRITE_RAW
    BY <1>2 DEF cria, TAInd, ProcessoOK
  <2>2. /\ proc'[h].pc = "grava" \/ (proc'[h].pc = "fim" /\ proc'[h].rc = 1)
        /\ proc'[h].comando = proc[h].comando /\ proc'[h].arg = proc[h].arg
        /\ \A g \in Procs : g # h => proc'[g] = proc[g]
    <3>1. CASE proc' = [proc EXCEPT ![h].pc = "grava"]
      BY <1>0, <3>1 DEF TipoProcesso
    <3>2. CASE Sai(h, 1, Ninguem)
      BY <3>2, SaiGeral
    <3> QED
      BY <1>2, <3>1, <3>2 DEF cria
  <2> QED
    BY <2>1, <2>2 DEF CMD_WRITE_RAW, CMD_REQUEST_PROOF
<1>3. CASE grava(h)
  <2>1. proc[h].pc = "grava" /\ proc[h].comando = CMD_WRITE_RAW
    BY <1>3 DEF grava, TAInd, ProcessoOK
  <2>2. /\ \/ proc'[h].pc = "cria"
           \/ proc'[h].pc = "fim" /\ proc'[h].rc = 1
           \/ proc'[h].pc = "fim" /\ gravado' = proc[h].arg
        /\ proc'[h].comando = proc[h].comando /\ proc'[h].arg = proc[h].arg
        /\ \A g \in Procs : g # h => proc'[g] = proc[g]
    <3>1. CASE proc' = [proc EXCEPT ![h].pc = "cria", ![h].n = @ + 1]
      BY <1>0, <3>1 DEF TipoProcesso
    <3>2. CASE Sai(h, 0, Ninguem) /\ gravado' = proc[h].arg
      BY <3>2, SaiGeral
    <3>3. CASE Sai(h, 1, Ninguem)
      BY <3>3, SaiGeral
    <3> QED
      BY <1>3, <3>1, <3>2, <3>3 DEF grava
  <2> QED
    BY <2>1, <2>2 DEF CMD_WRITE_RAW, CMD_REQUEST_PROOF
<1>4. CASE request_proof(h)
  <2>1. /\ proc[h].pc = "chama" /\ proc[h].comando = CMD_REQUEST_PROOF
        /\ UNCHANGED <<objeto, gravado>>
    BY <1>4 DEF request_proof
  <2>2. PICK s : /\ Sai(h, 0, s)
                 /\ s = Lixo \/ s = Prova(objeto["secrets"], proc[h].arg)
    BY <1>4 DEF request_proof
  <2>3. /\ proc'[h].pc = "fim" /\ proc'[h].rc = 0 /\ proc'[h].saida = s
        /\ proc'[h].comando = proc[h].comando /\ proc'[h].arg = proc[h].arg
        /\ \A g \in Procs : g # h => proc'[g] = proc[g]
    BY <2>2, SaiGeral
  <2> QED
    BY <2>1, <2>2, <2>3 DEF CMD_WRITE_RAW, CMD_REQUEST_PROOF
<1>5. CASE read_secure_objects(h) \/ outro_comando(h)
  <2>1. /\ proc[h].pc = "chama" /\ UNCHANGED <<objeto, gravado>>
        /\ proc[h].comando \notin {CMD_WRITE_RAW, CMD_REQUEST_PROOF}
    BY <1>5 DEF read_secure_objects, outro_comando,
                CMD_READ_RAW, CMD_WRITE_RAW, CMD_REQUEST_PROOF
  <2>2. PICK rc, s : Sai(h, rc, s)
    BY <1>5 DEF read_secure_objects, outro_comando
  <2>3. /\ proc'[h].pc = "fim"
        /\ proc'[h].comando = proc[h].comando /\ proc'[h].arg = proc[h].arg
        /\ \A g \in Procs : g # h => proc'[g] = proc[g]
    BY <2>2, SaiGeral
  <2> QED
    BY <2>1, <2>3
<1> QED
  BY <1>1, <1>2, <1>3, <1>4, <1>5 DEF Passo

LEMMA SwapInverte == \A x : swapEndian(swapEndian(Hex(x))) = Hex(x)
<1> SUFFICES ASSUME NEW x PROVE swapEndian(swapEndian(Hex(x))) = Hex(x)
  OBVIOUS
<1> DEFINE T == [texto : {x}, inv : BOOLEAN]
<1>1. \A u, v \in T : u.inv = v.inv => u = v
  OBVIOUS
<1>2. \A u \in T : swapEndian(u) \in T /\ swapEndian(u).inv = ~u.inv
  BY DEF swapEndian
<1>3. Hex(x) \in T
  BY DEF Hex
<1> QED
  BY <1>1, <1>2, <1>3

\* What the handlers take out of a packet is what the verifier's side meant.
LEMMA PacoteFatos ==
  /\ \A m \in Pedidos : swapEndian(m.rid) \in Rodadas
  /\ \A m \in Setups :
       \E a \in Argumentos : /\ [chave |-> swapEndian(m.chave), id |-> swapEndian(m.id)] = a
                             /\ swapEndian(m.id) = a.id
<1>1. \A r \in Rodadas : swapEndian(swapEndian(r)) = r
  BY SwapInverte, HexAssumption
<1>2. \A a \in Argumentos : /\ swapEndian(swapEndian(a.chave)) = a.chave
                            /\ swapEndian(swapEndian(a.id)) = a.id
                            /\ a = [chave |-> a.chave, id |-> a.id]
  <2> SUFFICES ASSUME NEW a \in Argumentos
               PROVE  /\ swapEndian(swapEndian(a.chave)) = a.chave
                      /\ swapEndian(swapEndian(a.id)) = a.id
                      /\ a = [chave |-> a.chave, id |-> a.id]
    OBVIOUS
  <2>1. a = [chave |-> Hex(a.chave.texto), id |-> Hex(a.id.texto)]
    BY HexAssumption
  <2>2. a.chave = Hex(a.chave.texto) /\ a.id = Hex(a.id.texto)
    BY <2>1
  <2> QED
    BY <2>1, <2>2, SwapInverte
<1> QED
  BY <1>1, <1>2 DEF Pedidos, Setups

\* The proof of the secrets object is the proof of a pair.
LEMMA ProvaDePar ==
  ASSUME TAInd, NEW r
  PROVE  \E s \in Pares : Prova(objeto["secrets"], r) = Prova(s, r)
<1>1. Par(objeto["secrets"].chave, objeto["secrets"].id)
  BY DEF TAInd, TAEstado
<1>2. CASE \E a \in Argumentos : objeto["secrets"].chave = a.chave /\ objeto["secrets"].id = a.id
  BY <1>2 DEF Prova, Pares
<1>3. CASE objeto["secrets"].chave = ChaveZero /\ objeto["secrets"].id = IdZero
  <2> DEFINE z == [chave |-> ChaveZero, id |-> IdZero]
  <2>1. z \in Pares /\ z.chave = ChaveZero /\ z.id = IdZero
    BY DEF Pares
  <2> HIDE DEF z
  <2> QED
    BY <1>3, <2>1 DEF Prova
<1> QED
  BY <1>1, <1>2, <1>3 DEF Par

\* A child moves: the service is where it was.
LEMMA FilhoPreserva ==
  ASSUME Ind, NEW h \in Procs, Filho(h)
  PROVE  Ind'
<1>1. /\ Passo(h) /\ UNCHANGED <<servico, abertos, resposta>> /\ TAInd
      /\ duvida' = (duvida \/ (proc[h].comando = CMD_WRITE_RAW /\ proc'[h].rc # 0))
  BY DEF Filho, Ind
<1>2. TAInd' /\ EfeitoDePasso(h)
  BY <1>1, PassoPreserva, PassoEfeito
<1>3. ServicoOK'
  <2>1. duvida' \in BOOLEAN
    BY <1>1
  <2> QED
    BY <1>1, <2>1 DEF Ind, ServicoOK
<1>4. EsperaFilho'
  <2>1. SUFFICES ASSUME servico.pc = "espera" PROVE EsperaFilho'
    BY <1>1 DEF EsperaFilho
  <2>2. CASE servico.filho = h
    <3>1. proc'[h].pc = "fim" => Imprimiu(proc'[h])
      BY <1>1, <1>2, <2>1, <2>2, ProvaDePar DEF Ind, EsperaFilho, EfeitoDePasso, Imprimiu
    <3> QED
      BY <1>1, <1>2, <2>1, <2>2, <3>1 DEF Ind, EsperaFilho, EfeitoDePasso
  <2>3. CASE servico.filho # h
    BY <1>1, <1>2, <2>1, <2>3 DEF Ind, EsperaFilho, EfeitoDePasso
  <2> QED
    BY <2>2, <2>3
<1>5. SoUmPedido'
  BY <1>1, <1>2 DEF Ind, SoUmPedido, EfeitoDePasso, Vivo
<1>6. EscritorSo'
  BY <1>1, <1>2 DEF Ind, EscritorSo, EfeitoDePasso, EscritorVivo, Vivo
<1>7. IdAcompanhaStorage'
  <2>1. SUFFICES ASSUME ~duvida', ~Gravando', servico.id # Ninguem
                 PROVE  gravado' # Ninguem /\ gravado'.id = servico.id
    BY <1>1 DEF IdAcompanhaStorage, Quieto
  <2>2. ~duvida
    BY <1>1, <2>1
  <2>3. CASE proc[h].comando = CMD_WRITE_RAW
    <3>1. proc'[h].pc = "fim" /\ proc'[h].rc = 0
      BY <1>1, <1>2, <2>1, <2>3 DEF Gravando, EfeitoDePasso
    <3>2. proc[h].arg.id = servico.id /\ proc[h].arg \in Argumentos
      BY <1>1, <1>2, <2>2, <2>3 DEF Ind, EscritorSo, EscritorVivo, EfeitoDePasso, TAInd, ProcessoOK
    <3> QED
      BY <1>2, <2>3, <3>1, <3>2, OpteeAssumption DEF EfeitoDePasso
  <2>4. CASE proc[h].comando # CMD_WRITE_RAW
    <3>1. gravado' = gravado /\ ~Gravando
      BY <1>2, <2>1, <2>4 DEF Gravando, EfeitoDePasso
    <3> QED
      BY <2>1, <2>2, <3>1 DEF Ind, IdAcompanhaStorage, Quieto
  <2> QED
    BY <2>3, <2>4
<1>8. PedidoQuieto'
  <2>1. SUFFICES ASSUME servico.pc = "espera", servico.quieto
                 PROVE  PedidoQuieto'
    BY <1>1 DEF PedidoQuieto
  <2> DEFINE f == servico.filho
  <2>2. h = f /\ f \in Procs /\ proc[h].comando = CMD_REQUEST_PROOF /\ proc[h].arg = servico.rid
    BY <1>2, <2>1 DEF Ind, PedidoQuieto, EsperaFilho, EfeitoDePasso, SoUmPedido, EscritorVivo
  <2>3. UNCHANGED <<objeto, gravado>>
    BY <1>2, <2>2 DEF EfeitoDePasso, CMD_WRITE_RAW, CMD_REQUEST_PROOF
  <2>4. gravado # Ninguem /\ gravado.id = servico.id /\ servico.id # Ninguem
    BY <2>1 DEF Ind, PedidoQuieto
  <2>5. \A g \in Procs : ~EscritorVivo(proc'[g])
    BY <1>2, <2>1, <2>2 DEF Ind, PedidoQuieto, EfeitoDePasso, EscritorVivo,
                            CMD_WRITE_RAW, CMD_REQUEST_PROOF
  <2>6. Prova(objeto["secrets"], servico.rid) = Prova(gravado, servico.rid)
    BY <1>1, <2>4, OrdemFatos DEF TAInd, ConteudoGravado, Conteudo, Prova
  <2> QED
    BY <1>1, <1>2, <2>1, <2>2, <2>3, <2>4, <2>5, <2>6 DEF PedidoQuieto, EfeitoDePasso
<1> QED
  BY <1>2, <1>3, <1>4, <1>5, <1>6, <1>7, <1>8 DEF Ind

\* A new child in a free slot.
LEMMA PopenEfeito ==
  ASSUME TAInd, ServicoOK, NEW h \in Procs, NEW p \in TipoProcesso, ProcessoOK(p),
         p.pc = "inicio", popen(h, p)
  PROVE  /\ TAInd'
         /\ proc'[h] = p /\ ~Vivo(proc[h])
         /\ \A g \in Procs : g # h => proc'[g] = proc[g]
         /\ UNCHANGED <<objeto, sessao, gravado>>
         /\ abertos' \in 0..MaxAbertos /\ abertos' > 0
<1>1. ~Vivo(proc[h]) /\ proc[h].pc \in {"livre", "fim"}
  BY DEF popen, Vaga, Vivo
<1>2. TAInd'
  BY <1>1, TrocaPreserva DEF popen
<1>3. abertos' \in 0..MaxAbertos /\ abertos' > 0
  BY ServiceAssumption DEF popen, ServicoOK
<1> QED
  BY <1>1, <1>2, <1>3 DEF popen, TAInd, TAEstado

\* The service dies when popen fails.
LEMMA MorrePreserva ==
  ASSUME Ind, servico.pc = "livre", Morre
  PROVE  Ind'
<1>1. /\ servico' \in TipoServico /\ servico'.pc = "morto" /\ servico'.id = servico.id
      /\ UNCHANGED <<objeto, sessao, proc, gravado, abertos, duvida>>
  BY DEF Morre, taVars, Ind, ServicoOK, TipoServico
<1>2. TAInd'
  BY <1>1 DEF Ind, TAInd, TAEstado, ProcessoOK, Par, Alterando, JaGravou, ConteudoGravado
<1>3. ServicoOK' /\ EsperaFilho' /\ PedidoQuieto'
  BY <1>1 DEF Ind, ServicoOK, EsperaFilho, PedidoQuieto
<1>4. SoUmPedido'
  BY <1>1 DEF Ind, SoUmPedido
<1>5. EscritorSo' /\ IdAcompanhaStorage'
  BY <1>1 DEF Ind, EscritorSo, IdAcompanhaStorage, Quieto, Gravando
<1> QED
  BY <1>2, <1>3, <1>4, <1>5 DEF Ind

LEMMA PedidoPreserva ==
  ASSUME Ind, RecebePedido
  PROVE  Ind'
<1>1. PICK m \in Pedidos :
        /\ servico.pc = "livre"
        /\ \/ /\ \E h \in Procs :
                   /\ popen(h, Processo(CMD_REQUEST_PROOF, swapEndian(m.rid)))
                   /\ servico' = [servico EXCEPT !.pc = "espera", !.rid = swapEndian(m.rid),
                                                 !.filho = h, !.quieto = Quieto]
              /\ UNCHANGED <<resposta, duvida>>
           \/ Morre
  BY DEF RecebePedido
<1> DEFINE r == swapEndian(m.rid)
           p == Processo(CMD_REQUEST_PROOF, r)
<1>2. ASSUME NEW h \in Procs, popen(h, p),
             servico' = [servico EXCEPT !.pc = "espera", !.rid = r, !.filho = h, !.quieto = Quieto],
             UNCHANGED <<resposta, duvida>>
      PROVE  Ind'
  <2>1. /\ r \in Rodadas /\ p \in TipoProcesso /\ ProcessoOK(p) /\ p.pc = "inicio"
        /\ p.comando = CMD_REQUEST_PROOF /\ p.arg = r
    BY PacoteFatos, InicioTipo DEF Processo, SemProcesso
  <2> HIDE DEF p, r
  <2>2. /\ TAInd' /\ proc'[h] = p /\ ~Vivo(proc[h])
        /\ \A g \in Procs : g # h => proc'[g] = proc[g]
        /\ UNCHANGED <<objeto, sessao, gravado>>
        /\ abertos' \in 0..MaxAbertos /\ abertos' > 0
    BY <1>2, <2>1, PopenEfeito DEF Ind
  <2>3. /\ servico' \in TipoServico /\ servico'.pc = "espera" /\ servico'.rid = r
        /\ servico'.filho = h /\ servico'.quieto = Quieto /\ servico'.id = servico.id
    <3>1. Quieto \in BOOLEAN
      BY DEF Quieto
    <3> QED
      BY <1>2, <2>1, <3>1 DEF Ind, ServicoOK, TipoServico
  <2>4. /\ Gravando' <=> Gravando
        /\ \A g \in Procs : EscritorVivo(proc'[g]) => proc'[g] = proc[g]
    BY <2>1, <2>2 DEF Gravando, EscritorVivo, Vivo, CMD_WRITE_RAW, CMD_REQUEST_PROOF
  <2>5. \A g \in Procs : Vivo(proc[g]) => proc[g].comando = CMD_WRITE_RAW
    BY <1>1 DEF Ind, SoUmPedido
  <2>6. ServicoOK'
    BY <1>2, <2>2, <2>3 DEF Ind, ServicoOK
  <2>7. EsperaFilho'
    BY <2>1, <2>2, <2>3 DEF EsperaFilho
  <2>8. SoUmPedido'
    BY <2>2, <2>3, <2>5 DEF SoUmPedido
  <2>9. EscritorSo'
    BY <1>2, <2>3, <2>4 DEF Ind, EscritorSo
  <2>10. IdAcompanhaStorage'
    BY <1>2, <2>2, <2>3, <2>4 DEF Ind, ServicoOK, IdAcompanhaStorage, Quieto
  <2>11. PedidoQuieto'
    <3>1. SUFFICES ASSUME Quieto PROVE PedidoQuieto'
      BY <2>3 DEF PedidoQuieto
    <3>2. \A g \in Procs : ~EscritorVivo(proc[g])
      BY <3>1 DEF Quieto, Gravando, EscritorVivo, Vivo
    <3>3. servico.id # Ninguem /\ gravado # Ninguem /\ gravado.id = servico.id
      BY <3>1 DEF Quieto, Ind, IdAcompanhaStorage
    <3> QED
      BY <2>1, <2>2, <2>3, <2>4, <3>2, <3>3 DEF PedidoQuieto
  <2> QED
    BY <2>2, <2>6, <2>7, <2>8, <2>9, <2>10, <2>11 DEF Ind
<1> QED
  BY <1>1, <1>2, MorrePreserva

LEMMA SetupPreserva ==
  ASSUME Ind, RecebeSetup
  PROVE  Ind'
<1>1. PICK m \in Setups :
        /\ servico.pc = "livre"
        /\ \/ /\ \E h \in Procs :
                   popen(h, Processo(CMD_WRITE_RAW,
                                     [chave |-> swapEndian(m.chave), id |-> swapEndian(m.id)]))
              /\ servico' = [servico EXCEPT !.id = swapEndian(m.id)]
              /\ duvida' = Gravando
              /\ UNCHANGED resposta
           \/ Morre
  BY DEF RecebeSetup
<1>2. PICK a \in Argumentos : /\ [chave |-> swapEndian(m.chave), id |-> swapEndian(m.id)] = a
                              /\ swapEndian(m.id) = a.id
  BY PacoteFatos
<1> DEFINE p == Processo(CMD_WRITE_RAW, a)
<1>3. ASSUME NEW h \in Procs, popen(h, p),
             servico' = [servico EXCEPT !.id = a.id],
             duvida' = Gravando
      PROVE  Ind'
  <2>1. /\ p \in TipoProcesso /\ ProcessoOK(p) /\ p.pc = "inicio"
        /\ p.comando = CMD_WRITE_RAW /\ p.arg = a
    BY InicioTipo DEF Processo, SemProcesso
  <2> HIDE DEF p
  <2>2. /\ TAInd' /\ proc'[h] = p /\ ~Vivo(proc[h])
        /\ \A g \in Procs : g # h => proc'[g] = proc[g]
        /\ UNCHANGED <<objeto, sessao, gravado>>
        /\ abertos' \in 0..MaxAbertos
    BY <1>3, <2>1, PopenEfeito DEF Ind
  <2>3. servico' \in TipoServico /\ servico'.pc = "livre" /\ servico'.id = a.id
    BY <1>1, <1>3 DEF Ind, ServicoOK, TipoServico
  <2>4. ServicoOK'
    <3>1. duvida' \in BOOLEAN
      BY <1>3 DEF Gravando
    <3> QED
      BY <2>2, <2>3, <3>1 DEF ServicoOK
  <2>5. EsperaFilho' /\ PedidoQuieto'
    BY <2>3 DEF EsperaFilho, PedidoQuieto
  <2>6. \A g \in Procs : Vivo(proc[g]) => proc[g].comando = CMD_WRITE_RAW
    BY <1>1 DEF Ind, SoUmPedido
  <2>7. SoUmPedido'
    BY <2>1, <2>2, <2>3, <2>6 DEF SoUmPedido
  <2>8. EscritorSo'
    <3>1. SUFFICES ASSUME ~Gravando PROVE EscritorSo'
      BY <1>3 DEF EscritorSo
    <3>2. \A g \in Procs : ~EscritorVivo(proc[g])
      BY <3>1 DEF Gravando, EscritorVivo, Vivo
    <3> QED
      BY <2>1, <2>2, <2>3, <3>2 DEF EscritorSo, EscritorVivo
  <2>9. IdAcompanhaStorage'
    <3>1. Gravando'
      BY <2>1, <2>2 DEF Gravando
    <3> QED
      BY <3>1 DEF IdAcompanhaStorage, Quieto
  <2> QED
    BY <2>2, <2>4, <2>5, <2>7, <2>8, <2>9 DEF Ind
<1> QED
  BY <1>1, <1>2, <1>3, MorrePreserva

\* The reply is sent, or the service dies; either way its child is waited for.
LEMMA RespondePreserva ==
  ASSUME Ind, Responde
  PROVE  Ind'
<1> DEFINE f == servico.filho
<1>1. /\ f \in Procs /\ proc[f].pc = "fim" /\ proc' = [proc EXCEPT ![f] = SemProcesso]
      /\ UNCHANGED <<objeto, sessao, gravado, duvida>>
      /\ abertos' = abertos - 1 /\ servico.pc = "espera"
  BY DEF Ind, Responde, EsperaFilho
<1>2. TAInd'
  BY <1>1, InicioTipo, TrocaPreserva DEF Ind
<1>3. /\ proc'[f] = SemProcesso
      /\ \A g \in Procs : g # f => proc'[g] = proc[g]
  BY <1>1 DEF Ind, TAInd, TAEstado
<1>4. servico' \in TipoServico /\ servico'.pc # "espera" /\ servico'.id = servico.id
  <2>1. CASE servico' = [ServicoInicial EXCEPT !.id = servico.id]
    BY <2>1 DEF Ind, ServicoOK, TipoServico, ServicoInicial
  <2>2. CASE servico' = [servico EXCEPT !.pc = "morto"]
    BY <2>2 DEF Ind, ServicoOK, TipoServico
  <2> QED
    BY <2>1, <2>2 DEF Responde
<1>5. ~Vivo(proc[f]) /\ ~Vivo(proc'[f])
  BY <1>1, <1>3, InicioTipo DEF Vivo
<1>6. ServicoOK' /\ EsperaFilho' /\ PedidoQuieto'
  <2>1. abertos' \in 0..MaxAbertos
    BY <1>1, ServiceAssumption DEF Ind, ServicoOK
  <2> QED
    BY <1>1, <1>4, <2>1 DEF Ind, ServicoOK, EsperaFilho, PedidoQuieto
<1>7. SoUmPedido'
  BY <1>3, <1>5 DEF Ind, SoUmPedido
<1>8. EscritorSo'
  BY <1>1, <1>3, <1>4, <1>5 DEF Ind, EscritorSo, EscritorVivo
<1>9. IdAcompanhaStorage'
  <2>1. Gravando => Gravando'
    BY <1>1, <1>3, <1>5 DEF Gravando, Vivo
  <2> QED
    BY <1>1, <1>4, <2>1 DEF Ind, IdAcompanhaStorage, Quieto
<1> QED
  BY <1>2, <1>6, <1>7, <1>8, <1>9 DEF Ind

LEMMA ReiniciaPreserva ==
  ASSUME Ind, Reinicia
  PROVE  Ind'
<1>1. TAInd' /\ \A h \in Procs : proc'[h] = SemProcesso /\ ~Vivo(proc'[h])
  BY QuedaPreserva, InicioTipo DEF Ind, Reinicia, TAQueda, Vivo
<1>2. servico' \in TipoServico /\ servico'.pc = "livre" /\ servico'.id = Ninguem
  BY DEF Reinicia, ServicoInicial, TipoServico
<1>3. ServicoOK'
  <2>1. 0 \in 0..MaxAbertos
    BY ServiceAssumption
  <2>2. abertos' = 0 /\ duvida' \in BOOLEAN
    BY DEF Reinicia
  <2> QED
    BY <1>2, <2>1, <2>2 DEF ServicoOK
<1> QED
  BY <1>1, <1>2, <1>3 DEF Ind, EsperaFilho, SoUmPedido, EscritorSo, EscritorVivo,
                          IdAcompanhaStorage, Quieto, PedidoQuieto

LEMMA ServicoInit == Init => Ind
<1> SUFFICES ASSUME Init PROVE Ind
  OBVIOUS
<1>1. TAInd /\ \A h \in Procs : ~Vivo(proc[h])
  BY InitInd, InicioTipo DEF Init, TAInit, Vivo
<1>2. servico \in TipoServico /\ servico.pc = "livre" /\ servico.id = Ninguem
  BY DEF Init, ServicoInicial, TipoServico
<1>3. ServicoOK
  <2>1. 0 \in 0..MaxAbertos
    BY ServiceAssumption
  <2>2. abertos = 0 /\ duvida \in BOOLEAN
    BY DEF Init
  <2> QED
    BY <1>2, <2>1, <2>2 DEF ServicoOK
<1> QED
  BY <1>1, <1>2, <1>3 DEF Ind, EsperaFilho, SoUmPedido, EscritorSo, EscritorVivo,
                          IdAcompanhaStorage, Quieto, PedidoQuieto

LEMMA ServicoNext == Ind /\ [Next]_vars => Ind'
<1> SUFFICES ASSUME Ind, [Next]_vars PROVE Ind'
  OBVIOUS
<1>1. CASE UNCHANGED vars
  <2>1. UNCHANGED <<objeto, sessao, proc, gravado, servico, abertos, duvida>>
    BY <1>1 DEF vars, taVars
  <2>2. TAInd'
    BY <2>1 DEF Ind, TAInd, TAEstado, ProcessoOK, Par, Alterando, JaGravou, ConteudoGravado
  <2> QED
    BY <2>1, <2>2 DEF Ind, ServicoOK, EsperaFilho, SoUmPedido, EscritorSo,
                      IdAcompanhaStorage, Quieto, PedidoQuieto, Gravando
<1> QED
  BY <1>1, PedidoPreserva, RespondePreserva, SetupPreserva, FilhoPreserva, ReiniciaPreserva
  DEF Next

LEMMA ServicoInvariante == Spec => []Ind
BY ServicoInit, ServicoNext, PTL DEF Spec

\* Only Responde sends, and the child it waited for ended with what it may send.
LEMMA RespostaValida ==
  ASSUME Ind, RespostaExplicada, [Next]_vars
  PROVE  RespostaExplicada'
<1>1. CASE Responde /\ servico.id # Ninguem /\ resposta' # resposta
  <2> DEFINE f == servico.filho
             r == servico.rid
  <2>1. /\ servico.pc = "espera" /\ proc[f].pc = "fim"
        /\ resposta' = [rid |-> swapEndian(r), id |-> swapEndian(servico.id),
                        prova |-> swapEndian(prova_hex(proc[f])), quieto |-> servico.quieto]
    BY <1>1 DEF Responde
  <2>2. /\ resposta'.rid = swapEndian(r) /\ resposta'.id = swapEndian(servico.id)
        /\ resposta'.prova = swapEndian(prova_hex(proc[f]))
        /\ resposta'.quieto = servico.quieto
    BY <2>1
  <2>3. Imprimiu(proc[f]) /\ proc[f].arg = r /\ r \in Rodadas
    BY <2>1 DEF Ind, EsperaFilho
  <2>4. swapEndian(swapEndian(r)) = r
    BY <2>3, SwapInverte, HexAssumption
  <2>5. CASE proc[f].rc # 0 \/ proc[f].saida = Lixo
    <3>1. prova_hex(proc[f]) = Hex(Lixo)
      BY <2>5 DEF prova_hex
    <3> QED
      BY <2>2, <3>1 DEF RespostaExplicada
  <2>6. CASE proc[f].rc = 0 /\ proc[f].saida # Lixo /\ servico.quieto
    <3>1. /\ gravado # Ninguem /\ gravado.id = servico.id
          /\ proc[f].saida = Prova(gravado, r)
      BY <2>1, <2>6 DEF Ind, PedidoQuieto
    <3>2. gravado \in Argumentos
      BY <3>1 DEF Ind, TAInd, TAEstado
    <3>3. resposta'.prova = swapEndian(Hex(Prova(gravado, swapEndian(resposta'.rid))))
      BY <2>2, <2>4, <2>6, <3>1 DEF prova_hex
    <3>4. resposta'.id = swapEndian(gravado.id)
      BY <2>2, <3>1
    <3>5. Valida(resposta')
      BY <3>2, <3>3, <3>4 DEF Valida
    <3> QED
      BY <3>5 DEF RespostaExplicada, Valida
  <2>7. CASE proc[f].rc = 0 /\ proc[f].saida # Lixo /\ ~servico.quieto
    <3>1. PICK s \in Pares : proc[f].saida = Prova(s, r)
      BY <2>3, <2>7 DEF Imprimiu
    <3>2. resposta'.prova = swapEndian(Hex(Prova(s, swapEndian(resposta'.rid))))
      BY <2>2, <2>4, <2>7, <3>1 DEF prova_hex
    <3>3. DeUmaConfiguracao(resposta')
      BY <3>1, <3>2 DEF DeUmaConfiguracao, Pares
    <3> QED
      BY <2>2, <2>7, <3>3 DEF RespostaExplicada, DeUmaConfiguracao
  <2> QED
    BY <2>5, <2>6, <2>7
<1>2. CASE resposta' = resposta
  BY <1>2 DEF RespostaExplicada, Valida, DeUmaConfiguracao
<1>3. resposta' # resposta => Responde /\ servico.id # Ninguem
  BY DEF Next, vars, RecebePedido, RecebeSetup, Responde, Filho, Reinicia, Morre
<1> QED
  BY <1>1, <1>2, <1>3
-----------------------------------------------------------------------------
(* Type correctness of the service and of the trusted application under it. *)
THEOREM TipoCorretoServico == Spec => []TypeOK
<1>1. Ind => TypeOK
  BY IndImplica DEF Ind, TypeOK, ServicoOK, TipoServico
<1> QED
  BY <1>1, ServicoInvariante, PTL

(* The id packet_handler keeps in id_dispositivo_hex is the one optee_dra   *)
(* saved whenever the last setup was handled beside no other and its child  *)
(* ended well: requests beside it and earlier failures do not matter.       *)
THEOREM IdESecretsJuntos == Spec => []IdAcompanhaStorage
<1>1. Ind => IdAcompanhaStorage
  BY DEF Ind
<1> QED
  BY <1>1, ServicoInvariante, PTL

(* Whatever envia_pacote_resposta sends is a proof the verifier accepts,    *)
(* garbage of a child that failed, or, only after a setup that overlapped   *)
(* another or failed, the proof of this round for another setup.            *)
THEOREM RespostaSempreExplicada == Spec => []RespostaExplicada
<1>1. Init => RespostaExplicada
  BY DEF Init, RespostaExplicada
<1>2. Ind /\ RespostaExplicada /\ [Next]_vars => RespostaExplicada'
  BY RespostaValida
<1> QED
  BY <1>1, <1>2, ServicoInvariante, PTL DEF Spec
=============================================================================
