----------------------------- MODULE DraService -----------------------------
(***************************************************************************)
(* The prover's network service (optee_dra/dra_service/host/main.c): it    *)
(* answers attestation requests and setup packets by running optee_dra.    *)
(*                                                                         *)
(* pcap_loop handles one packet at a time.  A request waits for the end of *)
(* its child; a setup starts a child and returns, so the child's writes    *)
(* run beside whatever the service does next.  The network loses,          *)
(* duplicates and reorders packets, so any packet the verifier's side ever *)
(* sends may be captured at any time and any number of times, or never;    *)
(* and the device may restart.                                             *)
(***************************************************************************)
EXTENDS OpteeDra

CONSTANTS
  MaxAbertos  \* descriptors the service may hold besides the capture's

VARIABLES
  servico,    \* the service: control point and what its variables hold
  abertos,    \* descriptors of popen's streams that were not closed by pclose
  resposta,   \* the last reply sent
  duvida      \* auxiliary: the last setup was handled while the child of an
              \* earlier one was alive, or its own child failed

vars == <<taVars, servico, abertos, resposta, duvida>>

ASSUME ServiceAssumption == MaxAbertos \in Nat

\* A hexstring, in the order of the TA or with the bytes of its words reversed.
Hex(x) == [texto |-> x, inv |-> FALSE]
swapEndian(h) == [h EXCEPT !.inv = ~@]

\* Keys, ids and rounds are hexstrings in the order of the TA.
ASSUME HexAssumption ==
  /\ \A r \in Rodadas : r = Hex(r.texto)
  /\ \A a \in Argumentos : a = [chave |-> Hex(a.chave.texto), id |-> Hex(a.id.texto)]

\* What the verifier's side sends, in the order of the packet.
Pedidos == {[oper |-> 1, rid |-> swapEndian(r)] : r \in Rodadas}
Setups == {[oper |-> 5, chave |-> swapEndian(a.chave), id |-> swapEndian(a.id)]
             : a \in Argumentos}

ServicoInicial == [pc |-> "livre", id |-> Ninguem, rid |-> Ninguem, filho |-> Ninguem,
                   quieto |-> FALSE]

Init ==
  /\ TAInit
  /\ servico = ServicoInicial
  /\ abertos = 0
  /\ resposta = Ninguem
  /\ duvida = FALSE
-----------------------------------------------------------------------------
\* A child that writes and has not ended.
Gravando == \E h \in Procs : /\ proc[h].comando = CMD_WRITE_RAW
                             /\ proc[h].pc \notin {"livre", "fim"}

\* A setup came since the device started, no other was being saved when the last
\* one was handled, and the last one was saved.
Quieto == ~Gravando /\ ~duvida /\ servico.id # Ninguem

\* A slot for a child: the ended child of a setup is never waited for.
Vaga(h) == \/ proc[h].pc = "livre"
           \/ proc[h].pc = "fim" /\ proc[h].comando = CMD_WRITE_RAW

\* popen: the child is started and will run on its own.  The two ends of a pipe
\* are opened, and the service keeps one.
popen(h, p) == /\ abertos + 2 <= MaxAbertos
               /\ Vaga(h)
               /\ proc' = [proc EXCEPT ![h] = p]
               /\ abertos' = abertos + 1
               /\ UNCHANGED <<objeto, sessao, gravado>>

\* popen returned NULL, for want of descriptors or for any other reason: perror
\* and exit(1).
Morre == /\ servico' = [servico EXCEPT !.pc = "morto"]
         /\ UNCHANGED <<taVars, abertos, resposta, duvida>>

\* packet_handler, oper 1, up to getline.
RecebePedido ==
  \E m \in Pedidos :
    /\ servico.pc = "livre"
    /\ \/ /\ \E h \in Procs :
               /\ popen(h, Processo(CMD_REQUEST_PROOF, swapEndian(m.rid)))
               /\ servico' = [servico EXCEPT !.pc = "espera", !.rid = swapEndian(m.rid),
                                             !.filho = h, !.quieto = Quieto]
          /\ UNCHANGED <<resposta, duvida>>
       \/ Morre

\* A child that had no session printed nothing: what getline leaves in its buffer
\* is not a proof.
prova_hex(p) == Hex(IF p.rc = 0 THEN p.saida ELSE Lixo)

\* Mutant: the global id is swapped in place instead of in a copy.
Responde_SemCopia ==
  /\ servico.pc = "espera"
  /\ proc[servico.filho].pc = "fim"
  /\ proc' = [proc EXCEPT ![servico.filho] = SemProcesso]
  /\ IF servico.id = Ninguem
       THEN /\ servico' = [servico EXCEPT !.pc = "morto"]
            /\ UNCHANGED resposta
       ELSE /\ resposta' =
                 [rid |-> swapEndian(servico.rid), id |-> swapEndian(servico.id),
                  prova |-> swapEndian(prova_hex(proc[servico.filho])),
                  quieto |-> servico.quieto]
            /\ servico' = [ServicoInicial EXCEPT !.id = swapEndian(servico.id)]
  /\ abertos' = abertos - 1
  /\ UNCHANGED <<objeto, sessao, gravado, duvida>>

\* Mutant: the handler waits for a child that succeeds.
Responde_SoComSucesso ==
  /\ servico.pc = "espera"
  /\ proc[servico.filho].pc = "fim"
  /\ proc[servico.filho].rc = 0
  /\ proc' = [proc EXCEPT ![servico.filho] = SemProcesso]
  /\ servico' = [ServicoInicial EXCEPT !.id = servico.id]
  /\ abertos' = abertos - 1
  /\ UNCHANGED <<objeto, sessao, gravado, resposta, duvida>>

\* The rest of the handler: getline ends when the child does, pclose, and
\* envia_pacote_resposta, which copies id_dispositivo_hex before swapping it.
\* The service dies when no setup came since it started (the copy reads a null
\* pointer), and may die when socket or sendto fails.
Responde ==
  /\ servico.pc = "espera"
  /\ proc[servico.filho].pc = "fim"
  /\ proc' = [proc EXCEPT ![servico.filho] = SemProcesso]
  /\ \/ /\ servico.id # Ninguem
        /\ resposta' =
             [rid |-> swapEndian(servico.rid), id |-> swapEndian(servico.id),
              prova |-> swapEndian(prova_hex(proc[servico.filho])),
              quieto |-> servico.quieto]
        /\ servico' = [ServicoInicial EXCEPT !.id = servico.id]
     \/ /\ servico' = [servico EXCEPT !.pc = "morto"]
        /\ UNCHANGED resposta
  /\ abertos' = abertos - 1
  /\ UNCHANGED <<objeto, sessao, gravado, duvida>>

\* Mutant: the setup's fields are used in the order of the packet.
RecebeSetup_SemTroca ==
  \E m \in Setups :
    /\ servico.pc = "livre"
    /\ \E h \in Procs :
         popen(h, Processo(CMD_WRITE_RAW, [chave |-> m.chave, id |-> m.id]))
    /\ servico' = [servico EXCEPT !.id = m.id]
    /\ duvida' = Gravando
    /\ UNCHANGED resposta

\* Mutant: a local variable hides the global id_dispositivo_hex.
RecebeSetup_IdLocal ==
  \E m \in Setups :
    /\ servico.pc = "livre"
    /\ \E h \in Procs :
         popen(h, Processo(CMD_WRITE_RAW,
                           [chave |-> swapEndian(m.chave), id |-> swapEndian(m.id)]))
    /\ servico' = [servico EXCEPT !.id = IF @ = Ninguem THEN swapEndian(m.id) ELSE @]
    /\ duvida' = Gravando
    /\ UNCHANGED resposta

\* packet_handler, oper 5: the global is set at once, the storage by a child
\* nobody waits for.
RecebeSetup ==
  \E m \in Setups :
    /\ servico.pc = "livre"
    /\ \/ /\ \E h \in Procs :
               popen(h, Processo(CMD_WRITE_RAW,
                                 [chave |-> swapEndian(m.chave), id |-> swapEndian(m.id)]))
          /\ servico' = [servico EXCEPT !.id = swapEndian(m.id)]
          /\ duvida' = Gravando
          /\ UNCHANGED resposta
       \/ Morre

\* A child takes a step.  Nobody learns that the child of a setup failed.
Filho(h) ==
  /\ Passo(h)
  /\ duvida' = (duvida \/ (proc[h].comando = CMD_WRITE_RAW /\ proc'[h].rc # 0))
  /\ UNCHANGED <<servico, abertos, resposta>>

\* The device restarts; init.d starts the service once.
Reinicia ==
  /\ TAQueda
  /\ servico' = ServicoInicial
  /\ abertos' = 0
  /\ duvida' = FALSE
  /\ UNCHANGED resposta

Next ==
  \/ RecebePedido \/ Responde \/ RecebeSetup
  \/ \E h \in Procs : Filho(h)
  \/ Reinicia

\* The scheduler runs the children, and the service once its child has ended.
Fairness == WF_vars(Responde) /\ \A h \in Procs : WF_vars(Filho(h))

Spec == Init /\ [][Next]_vars /\ Fairness
-----------------------------------------------------------------------------
TypeOK ==
  /\ TATypeOK
  /\ servico.pc \in {"livre", "espera", "morto"}
  /\ servico.id \in {a.id : a \in Argumentos} \union {Ninguem}
  /\ servico.rid \in Rodadas \union {Ninguem}
  /\ servico.filho \in Procs \union {Ninguem}
  /\ abertos \in 0..MaxAbertos
  /\ duvida \in BOOLEAN

\* The verifier finds the id in its table and the proof right for the round.
Valida(r) ==
  \E a \in Argumentos :
    /\ r.id = swapEndian(a.id)
    /\ r.prova = swapEndian(Hex(Prova(a, swapEndian(r.rid))))

\* The proof is the one of the round asked, for what one setup carried or for a
\* storage of zeros, whichever id the reply announces.
DeUmaConfiguracao(r) ==
  \E s \in Argumentos \union {[chave |-> ChaveZero, id |-> IdZero]} :
    r.prova = swapEndian(Hex(Prova(s, swapEndian(r.rid))))

(* Every reply the service sends is one of three things.  It is accepted by *)
(* the verifier; or its proof is garbage, because the request's own child   *)
(* failed; or it is the proof of the round asked for another setup than the *)
(* one announced (or for an empty object), and then the last setup was      *)
(* still being saved, had been handled beside an earlier one, or had failed *)
(* when the request came.  So no loss, repetition, restart or failure mixes *)
(* two rounds or two devices in a proof, and one setup saved by itself is   *)
(* enough for the device never to send another device's proof, whatever     *)
(* went wrong before.                                                       *)
RespostaExplicada ==
  resposta # Ninguem =>
    \/ Valida(resposta)
    \/ resposta.prova = swapEndian(Hex(Lixo))
    \/ ~resposta.quieto /\ DeUmaConfiguracao(resposta)

(* The id the service announces is the one the TA proves with, once the     *)
(* last setup's child has ended well, if no earlier setup was still being   *)
(* saved when it was handled: whatever requests were handled beside that    *)
(* child, and whatever had failed or overlapped before.  Otherwise          *)
(* id_dispositivo_hex and the storage may belong to two devices, which      *)
(* nobody notices.                                                          *)
IdAcompanhaStorage ==
  Quieto => gravado # Ninguem /\ gravado.id = servico.id

(* The service never waits for good: the child of a request ends, refused   *)
(* by the TA or not, and the handler goes on.                               *)
ServicoNaoTrava == servico.pc = "espera" ~> servico.pc # "espera"
=============================================================================
