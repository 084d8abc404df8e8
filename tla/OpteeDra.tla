------------------------------ MODULE OpteeDra ------------------------------
(***************************************************************************)
(* The prover's trusted application with its secure storage                *)
(* (optee_dra/dra/ta) and the processes of the program optee_dra that call *)
(* it (optee_dra/dra/host).                                                *)
(*                                                                         *)
(* The TA is TA_FLAG_SINGLE_INSTANCE without TA_FLAG_MULTI_SESSION, so one *)
(* process at a time holds a session and a second one is refused.  The     *)
(* device may lose power at any time; the storage commits a creation or a  *)
(* write as a whole or not at all.  A hexstring is a model value, and a    *)
(* proof the triple it is computed from.                                   *)
(***************************************************************************)
EXTENDS Integers, Sequences

CONSTANTS
  Procs,      \* process slots: how many optee_dra may be alive at once
  Argumentos, \* the [chave, id] pairs WRITE may be given
  Rodadas,    \* the id_rodada||nonce values REQUEST may be given
  ChaveZero, IdZero,  \* hexstrings read from a buffer of zeros
  Lixo,       \* what an uninitialised buffer prints as
  Ninguem,    \* no session, no process, no argument
  LeituraFalha \* whether reading a stored object may fail

VARIABLES
  objeto,     \* the persistent objects of the TA
  sessao,     \* the process that holds the TA's session
  proc,       \* the optee_dra processes
  gravado     \* auxiliary: arguments of the last WRITE that succeeded and
              \* has not been followed by another attempt

taVars == <<objeto, sessao, proc, gravado>>

ASSUME OpteeAssumption ==
  /\ LeituraFalha \in BOOLEAN
  /\ Ninguem \notin Procs
  /\ Ninguem \notin Argumentos

\* The objects in the order WRITE saves them: ID_OBJ_KEY, ID_OBJ_DISP and
\* ID_OBJ_SECRETS.
Ordem == <<"chave", "dispositivo", "secrets">>
Objetos == {Ordem[n] : n \in 1..3}

CMD_READ_RAW == 0
CMD_WRITE_RAW == 1
CMD_DELETE == 2
CMD_REQUEST_PROOF == 3

\* An object's contents as read into a buffer of zeros; an object that was
\* created and not yet written has none.
Ausente == [existe |-> FALSE, chave |-> ChaveZero, id |-> IdZero]
Vazio == [existe |-> TRUE, chave |-> ChaveZero, id |-> IdZero]
Conteudo(o, a) ==
  [existe |-> TRUE,
   chave |-> IF o \in {"chave", "secrets"} THEN a.chave ELSE ChaveZero,
   id |-> IF o \in {"dispositivo", "secrets"} THEN a.id ELSE IdZero]

Prova(s, rid) == [chave |-> s.chave, id |-> s.id, rid |-> rid]

SemProcesso == [pc |-> "livre", comando |-> CMD_DELETE, arg |-> Ninguem, n |-> 1,
                rc |-> 0, saida |-> Ninguem]

Processo(comando, arg) ==
  [SemProcesso EXCEPT !.pc = "inicio", !.comando = comando, !.arg = arg]

TAInit ==
  /\ objeto = [o \in Objetos |-> Ausente]
  /\ sessao = Ninguem
  /\ proc = [h \in Procs |-> SemProcesso]
  /\ gravado = Ninguem
-----------------------------------------------------------------------------
\* Mutant: a process that was refused closes the session of another.
Sai_FechaSessaoAlheia(h, rc, saida) ==
  /\ proc' = [proc EXCEPT ![h].pc = "fim", ![h].rc = rc, ![h].saida = saida]
  /\ sessao' = Ninguem

\* Mutant: only a process that ends well closes its session.
Sai_SoFechaNoFim(h, rc, saida) ==
  /\ proc' = [proc EXCEPT ![h].pc = "fim", ![h].rc = rc, ![h].saida = saida]
  /\ sessao' = IF sessao = h /\ rc = 0 THEN Ninguem ELSE sessao

\* The process exits: its session, if any, is closed with it.
Sai(h, rc, saida) ==
  /\ proc' = [proc EXCEPT ![h].pc = "fim", ![h].rc = rc, ![h].saida = saida]
  /\ sessao' = IF sessao = h THEN Ninguem ELSE sessao

\* Mutant: the TA accepts several sessions.
prepare_tee_session_MultiSessao(h) ==
  /\ proc[h].pc = "inicio"
  /\ sessao' = h
  /\ proc' = [proc EXCEPT ![h].pc = IF proc[h].comando = CMD_WRITE_RAW THEN "cria"
                                   ELSE "chama"]
  /\ UNCHANGED <<objeto, gravado>>

\* Mutant: a process that is refused waits for the session.
prepare_tee_session_Espera(h) ==
  /\ proc[h].pc = "inicio"
  /\ sessao = Ninguem
  /\ sessao' = h
  /\ proc' = [proc EXCEPT ![h].pc = IF proc[h].comando = CMD_WRITE_RAW THEN "cria"
                                   ELSE "chama"]
  /\ UNCHANGED <<objeto, gravado>>

\* prepare_tee_session, up to the switch on comando: the session, or errx when
\* another process has it (TEE_ERROR_BUSY), when there is no context, or when
\* opening the session fails for any other reason.
prepare_tee_session(h) ==
  /\ proc[h].pc = "inicio"
  /\ \/ /\ sessao = Ninguem
        /\ sessao' = h
        /\ proc' = [proc EXCEPT ![h].pc = IF proc[h].comando = CMD_WRITE_RAW THEN "cria"
                                         ELSE "chama"]
     \/ Sai(h, 1, Ninguem)
  /\ UNCHANGED <<objeto, gravado>>

\* create_raw_object up to TEE_CreatePersistentObject: an object of the same
\* name is replaced by an empty one, or the creation fails and WRITE exits.
cria(h) ==
  LET o == Ordem[proc[h].n]
  IN /\ proc[h].pc = "cria"
     /\ \/ /\ objeto' = [objeto EXCEPT ![o] = Vazio]
           /\ proc' = [proc EXCEPT ![h].pc = "grava"]
           /\ UNCHANGED sessao
        \/ /\ Sai(h, 1, Ninguem)
           /\ UNCHANGED objeto
     /\ gravado' = Ninguem

\* The rest of create_raw_object and of write_secure_object: a failed write
\* deletes the object and WRITE exits.
grava(h) ==
  LET o == Ordem[proc[h].n]
  IN /\ proc[h].pc = "grava"
     /\ \/ /\ objeto' = [objeto EXCEPT ![o] = Conteudo(o, proc[h].arg)]
           /\ IF proc[h].n < 3
                THEN /\ proc' = [proc EXCEPT ![h].pc = "cria", ![h].n = @ + 1]
                     /\ UNCHANGED <<sessao, gravado>>
                ELSE /\ Sai(h, 0, Ninguem)
                     /\ gravado' = proc[h].arg
        \/ /\ objeto' = [objeto EXCEPT ![o] = Ausente]
           /\ Sai(h, 1, Ninguem)
           /\ UNCHANGED gravado

\* Mutant: the TA answers with the object instead of the proof.
request_proof_DevolveObjeto(h) ==
  /\ proc[h].pc = "chama" /\ proc[h].comando = CMD_REQUEST_PROOF
  /\ Sai(h, 0, objeto["secrets"])
  /\ UNCHANGED <<objeto, gravado>>

\* Mutant: the key and the id are read from their own objects.
request_proof_DoisObjetos(h) ==
  /\ proc[h].pc = "chama" /\ proc[h].comando = CMD_REQUEST_PROOF
  /\ Sai(h, 0, IF \A o \in Objetos : objeto[o].existe
               THEN [chave |-> objeto["chave"].chave, id |-> objeto["dispositivo"].id,
                     rid |-> proc[h].arg]
               ELSE Lixo)
  /\ UNCHANGED <<objeto, gravado>>

\* request_proof and reply_proof: whatever reply_proof returns, main prints the
\* buffer prova and exits 0.
request_proof(h) ==
  /\ proc[h].pc = "chama" /\ proc[h].comando = CMD_REQUEST_PROOF
  /\ \/ /\ objeto["secrets"].existe
        /\ Sai(h, 0, Prova(objeto["secrets"], proc[h].arg))
     \/ /\ ~objeto["secrets"].existe \/ LeituraFalha
        /\ Sai(h, 0, Lixo)
  /\ UNCHANGED <<objeto, gravado>>

\* READ: the three objects are printed in turn; the first that is missing or
\* cannot be read ends the program.  An object that was created and never written
\* fills nothing of main's buffer, which is printed as it was.  No other process
\* changes the objects meanwhile.
read_secure_objects(h) ==
  /\ proc[h].pc = "chama" /\ proc[h].comando = CMD_READ_RAW
  /\ \/ /\ \A o \in Objetos : objeto[o].existe
        /\ Sai(h, 0, [o \in Objetos |-> IF objeto[o] = Vazio THEN Lixo ELSE objeto[o]])
     \/ /\ LeituraFalha \/ \E o \in Objetos : ~objeto[o].existe
        /\ Sai(h, 1, Ninguem)
  /\ UNCHANGED <<objeto, gravado>>

\* DELETE is accepted and does nothing, as delete_secure_object is never called;
\* any other number is an error.
outro_comando(h) ==
  /\ proc[h].pc = "chama"
  /\ proc[h].comando \notin {CMD_READ_RAW, CMD_WRITE_RAW, CMD_REQUEST_PROOF}
  /\ Sai(h, IF proc[h].comando = CMD_DELETE THEN 0 ELSE 1, Ninguem)
  /\ UNCHANGED <<objeto, gravado>>

Passo(h) ==
  \/ prepare_tee_session(h)
  \/ cria(h)
  \/ grava(h)
  \/ request_proof(h)
  \/ read_secure_objects(h)
  \/ outro_comando(h)

\* The device loses power: the processes and the TA are gone, the storage stays.
TAQueda ==
  /\ proc' = [h \in Procs |-> SemProcesso]
  /\ sessao' = Ninguem
  /\ UNCHANGED <<objeto, gravado>>
-----------------------------------------------------------------------------
(***************************************************************************)
(* optee_dra started by hand, as the README's tests do.                    *)
(***************************************************************************)
Chama(h) ==
  /\ proc[h].pc = "livre"
  /\ \E p \in {Processo(CMD_WRITE_RAW, a) : a \in Argumentos} \union
              {Processo(CMD_REQUEST_PROOF, r) : r \in Rodadas} \union
              {Processo(c, Ninguem) : c \in {CMD_READ_RAW, CMD_DELETE, 4}} :
       proc' = [proc EXCEPT ![h] = p]
  /\ UNCHANGED <<objeto, sessao, gravado>>

\* The shell has seen the output and the exit code.
Colhe(h) ==
  /\ proc[h].pc = "fim"
  /\ proc' = [proc EXCEPT ![h] = SemProcesso]
  /\ UNCHANGED <<objeto, sessao, gravado>>

TANext == (\E h \in Procs : Chama(h) \/ Passo(h) \/ Colhe(h)) \/ TAQueda

TASpec == TAInit /\ [][TANext]_taVars /\ \A h \in Procs : WF_taVars(Passo(h))
-----------------------------------------------------------------------------
Saidas == {Ninguem, Lixo} \union
          [chave : {a.chave : a \in Argumentos} \union {ChaveZero},
           id : {a.id : a \in Argumentos} \union {IdZero}, rid : Rodadas]

Objeto == [existe : BOOLEAN, chave : {a.chave : a \in Argumentos} \union {ChaveZero},
           id : {a.id : a \in Argumentos} \union {IdZero}]

TATypeOK ==
  /\ objeto \in [Objetos -> Objeto]
  /\ sessao \in Procs \union {Ninguem}
  /\ gravado \in Argumentos \union {Ninguem}
  /\ \A h \in Procs :
       /\ proc[h].pc \in {"livre", "inicio", "cria", "grava", "chama", "fim"}
       /\ proc[h].comando \in 0..4
       /\ proc[h].arg \in CASE proc[h].comando = CMD_WRITE_RAW -> Argumentos
                            [] proc[h].comando = CMD_REQUEST_PROOF -> Rodadas
                            [] OTHER -> {Ninguem}
       /\ proc[h].n \in 1..3 /\ proc[h].rc \in {0, 1}
       /\ proc[h].comando = CMD_REQUEST_PROOF => proc[h].saida \in Saidas

(* What a successful WRITE reported as saved stays saved: until another     *)
(* WRITE begins to change the storage, the key, the id and the secrets      *)
(* objects all hold its arguments, however many processes were started      *)
(* meanwhile, whichever of them were refused, and through losses of power.  *)
ConteudoGravado ==
  gravado # Ninguem => \A o \in Objetos : objeto[o] = Conteudo(o, gravado)

(* A process in the middle of a WRITE holds the session, and what it has    *)
(* saved so far is still there: no other process of the device, refused or  *)
(* not, comes between its three writes.                                     *)
EscritaExclusiva ==
  \A h \in Procs :
    proc[h].pc \in {"cria", "grava"} =>
      /\ sessao = h
      /\ \A m \in 1..(proc[h].n - 1) : objeto[Ordem[m]] = Conteudo(Ordem[m], proc[h].arg)

(* The session is never lost: it is held exactly by the process between its *)
(* TEEC_OpenSession and its end, though the errx of a failed read or write  *)
(* skips terminate_tee_session.  A session nobody would close has every     *)
(* later process of the device refused.                                     *)
SessaoTemDono ==
  \A h \in Procs : sessao = h <=> proc[h].pc \in {"cria", "grava", "chama"}

(* A proof never mixes the key of one device with the id of another: what   *)
(* reply_proof computes with is a pair one WRITE was given, or all zeros.   *)
ProvaNaoMistura ==
  \A h \in Procs :
    proc[h].comando = CMD_REQUEST_PROOF /\ proc[h].saida \notin {Ninguem, Lixo} =>
      \/ \E a \in Argumentos : proc[h].saida.chave = a.chave /\ proc[h].saida.id = a.id
      \/ proc[h].saida.chave = ChaveZero /\ proc[h].saida.id = IdZero

(* README-en.md: "Request proof using written key and Device_id (oper 3)":  *)
(* a proof the TA returns is computed from a key and an id a WRITE saved.   *)
ProvaUsaOGravado ==
  \A h \in Procs :
    proc[h].comando = CMD_REQUEST_PROOF /\ proc[h].saida \notin {Ninguem, Lixo} =>
      \E a \in Argumentos : proc[h].saida.chave = a.chave /\ proc[h].saida.id = a.id

(* Every process ends, so the session of the TA is never kept for good: a   *)
(* process refused a session exits instead of waiting for it.               *)
ProcessoTermina ==
  \A h \in Procs : proc[h].pc = "inicio" ~> proc[h].pc \in {"fim", "livre"}
=============================================================================
