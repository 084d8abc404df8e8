--------------------------- MODULE OpteeDraProofs ---------------------------
(***************************************************************************)
(* Proofs about OpteeDra: the safety invariants its run checks, for any    *)
(* number of processes, any set of devices and rounds, and whether or not  *)
(* reading an object may fail.                                             *)
(*                                                                         *)
(* The step lemmas are about Passo, TAQueda and the replacement of an      *)
(* ended process, so that DraServiceProofs can use them as well.           *)
(***************************************************************************)
EXTENDS OpteeDra, TLAPS

\* What READ prints.
Leituras == [Objetos -> Objeto \union {Lixo}]

Pontos == {"livre", "inicio", "cria", "grava", "chama", "fim"}
Comandos == 0..4
Args == Argumentos \union Rodadas \union {Ninguem}
Passos == 1..3
Codigos == {0, 1}
Impressos == Saidas \union Leituras

TipoProcesso ==
  [pc : Pontos, comando : Comandos, arg : Args, n : Passos, rc : Codigos, saida : Impressos]

\* The key and the id are those of one WRITE, or both read from zeros.
Par(chave, id) == \/ \E a \in Argumentos : chave = a.chave /\ id = a.id
                  \/ chave = ChaveZero /\ id = IdZero

\* What is known of one process by itself.
ProcessoOK(p) ==
  /\ p.comando = CMD_WRITE_RAW => p.arg \in Argumentos
  /\ p.comando = CMD_REQUEST_PROOF => p.arg \in Rodadas /\ p.saida \in Saidas
  /\ p.comando \notin {CMD_WRITE_RAW, CMD_REQUEST_PROOF} => p.arg = Ninguem
  /\ p.comando = CMD_REQUEST_PROOF /\ p.saida \notin {Ninguem, Lixo}
       => Par(p.saida.chave, p.saida.id)
  /\ p.pc \in {"cria", "grava"} => p.comando = CMD_WRITE_RAW
  /\ p.pc = "inicio" => p.n = 1

\* A process that has changed the storage and not ended: nothing counts as saved.
Alterando(p) == p.pc = "grava" \/ (p.pc = "cria" /\ p.n > 1)

\* The objects the process has saved before the current one hold its argument.
JaGravou(p) ==
  \A m \in 1..(p.n - 1) : objeto[Ordem[m]] = Conteudo(Ordem[m], p.arg)

TAEstado ==
  /\ objeto \in [Objetos -> Objeto]
  /\ sessao \in Procs \union {Ninguem}
  /\ gravado \in Argumentos \union {Ninguem}
  /\ proc \in [Procs -> TipoProcesso]
  /\ Par(objeto["secrets"].chave, objeto["secrets"].id)

(***************************************************************************)
(* The inductive invariant.                                                *)
(***************************************************************************)
TAInd ==
  /\ TAEstado
  /\ \A h \in Procs : ProcessoOK(proc[h])
  /\ \A h \in Procs : proc[h].pc \in {"cria", "grava"} => sessao = h /\ JaGravou(proc[h])
  /\ \A h \in Procs : Alterando(proc[h]) => gravado = Ninguem
  /\ sessao # Ninguem => proc[sessao].pc \in {"cria", "grava", "chama"}
  /\ \A h \in Procs : proc[h].pc = "chama" => sessao = h
  /\ ConteudoGravado
-----------------------------------------------------------------------------
LEMMA OrdemFatos ==
  /\ Objetos = {"chave", "dispositivo", "secrets"}
  /\ Ordem[1] = "chave" /\ Ordem[2] = "dispositivo" /\ Ordem[3] = "secrets"
  /\ \A n \in 1..3 : Ordem[n] \in Objetos
BY DEF Objetos, Ordem

\* What an object may hold after WRITE has created, saved or deleted it.
LEMMA ConteudoTipo ==
  /\ Ausente \in Objeto /\ Vazio \in Objeto
  /\ \A o, a : a \in Argumentos => Conteudo(o, a) \in Objeto
BY DEF Ausente, Vazio, Conteudo, Objeto

\* Sai ends one process and leaves the others alone.
LEMMA SaiEfeito ==
  ASSUME proc \in [Procs -> TipoProcesso],
         NEW h \in Procs, NEW rc \in Codigos, NEW s \in Impressos,
         Sai(h, rc, s)
  PROVE  /\ proc' \in [Procs -> TipoProcesso]
         /\ proc'[h].pc = "fim" /\ proc'[h].rc = rc /\ proc'[h].saida = s
         /\ proc'[h].comando = proc[h].comando /\ proc'[h].arg = proc[h].arg
         /\ proc'[h].n = proc[h].n
         /\ \A g \in Procs : g # h => proc'[g] = proc[g]
<1>1. "fim" \in Pontos
  BY DEF Pontos
<1>2. proc' = [proc EXCEPT ![h] = [proc[h] EXCEPT !.pc = "fim", !.rc = rc, !.saida = s]]
  BY DEF Sai, TipoProcesso
<1>3. [proc[h] EXCEPT !.pc = "fim", !.rc = rc, !.saida = s] \in TipoProcesso
  BY <1>1 DEF TipoProcesso
<1>4. /\ proc' \in [Procs -> TipoProcesso]
      /\ proc'[h] = [proc[h] EXCEPT !.pc = "fim", !.rc = rc, !.saida = s]
      /\ \A g \in Procs : g # h => proc'[g] = proc[g]
  BY <1>2, <1>3
<1> QED
  BY <1>4 DEF TipoProcesso

\* A process that changes nothing but itself, the session and perhaps gravado.
LEMMA SaiPreserva ==
  ASSUME TAInd, NEW h \in Procs, NEW rc \in Codigos, NEW s \in Impressos,
         Sai(h, rc, s), UNCHANGED objeto, gravado' \in {gravado, Ninguem},
         proc[h].comando = CMD_REQUEST_PROOF =>
           s \in Saidas /\ (s \notin {Ninguem, Lixo} => Par(s.chave, s.id))
  PROVE  TAInd'
<1>1. /\ proc' \in [Procs -> TipoProcesso]
      /\ proc'[h].pc = "fim" /\ proc'[h].rc = rc /\ proc'[h].saida = s
      /\ proc'[h].comando = proc[h].comando /\ proc'[h].arg = proc[h].arg
      /\ proc'[h].n = proc[h].n
      /\ \A g \in Procs : g # h => proc'[g] = proc[g]
  BY SaiEfeito DEF TAInd, TAEstado
<1>2. sessao' = IF sessao = h THEN Ninguem ELSE sessao
  BY DEF Sai
<1>3. TAEstado'
  BY <1>1, <1>2 DEF TAInd, TAEstado, Par
<1>4. ASSUME NEW g \in Procs
      PROVE  ProcessoOK(proc[g])'
  <2>1. CASE g = h
    BY <1>1, <2>1 DEF TAInd, ProcessoOK, Par
  <2>2. CASE g # h
    BY <1>1, <2>2 DEF TAInd, ProcessoOK, Par
  <2> QED
    BY <2>1, <2>2
<1>5. ASSUME NEW g \in Procs, proc'[g].pc \in {"cria", "grava"}
      PROVE  sessao' = g /\ JaGravou(proc[g])'
  <2>1. g # h /\ proc'[g] = proc[g]
    BY <1>1, <1>5
  <2> QED
    BY <1>2, <1>5, <2>1 DEF TAInd, JaGravou
<1>6. ASSUME NEW g \in Procs, Alterando(proc[g])'
      PROVE  gravado' = Ninguem
  <2>1. g # h /\ proc'[g] = proc[g]
    BY <1>1, <1>6 DEF Alterando
  <2> QED
    BY <1>6, <2>1 DEF TAInd, Alterando
<1>7. sessao' # Ninguem => proc'[sessao'].pc \in {"cria", "grava", "chama"}
  BY <1>1, <1>2 DEF TAInd, TAEstado
<1>8. ConteudoGravado'
  BY DEF TAInd, ConteudoGravado
<1>9. ASSUME NEW g \in Procs, proc'[g].pc = "chama"
      PROVE  sessao' = g
  <2>1. g # h /\ proc'[g] = proc[g]
    BY <1>1, <1>9
  <2> QED
    BY <1>2, <1>9, <2>1 DEF TAInd
<1> QED
  BY <1>3, <1>4, <1>5, <1>6, <1>7, <1>8, <1>9 DEF TAInd

\* A step of one process that neither ends nor changes its command.
LEMMA AndaEfeito ==
  ASSUME proc \in [Procs -> TipoProcesso], NEW h \in Procs, NEW pc \in Pontos,
         NEW n \in Passos,
         \/ proc' = [proc EXCEPT ![h].pc = pc] /\ n = proc[h].n
         \/ proc' = [proc EXCEPT ![h].pc = pc, ![h].n = n]
  PROVE  /\ proc' \in [Procs -> TipoProcesso]
         /\ proc'[h].pc = pc /\ proc'[h].n = n
         /\ proc'[h].comando = proc[h].comando /\ proc'[h].arg = proc[h].arg
         /\ proc'[h].saida = proc[h].saida
         /\ \A g \in Procs : g # h => proc'[g] = proc[g]
<1>1. proc' = [proc EXCEPT ![h] = [proc[h] EXCEPT !.pc = pc, !.n = n]]
  BY DEF TipoProcesso
<1>2. [proc[h] EXCEPT !.pc = pc, !.n = n] \in TipoProcesso
  BY DEF TipoProcesso
<1>3. /\ proc' \in [Procs -> TipoProcesso]
      /\ proc'[h] = [proc[h] EXCEPT !.pc = pc, !.n = n]
      /\ \A g \in Procs : g # h => proc'[g] = proc[g]
  BY <1>1, <1>2
<1> QED
  BY <1>3 DEF TipoProcesso

LEMMA PreparaPreserva ==
  ASSUME TAInd, NEW h \in Procs, prepare_tee_session(h)
  PROVE  TAInd'
<1>1. CASE Sai(h, 1, Ninguem)
  <2>1. 1 \in Codigos /\ Ninguem \in Impressos /\ Ninguem \in Saidas
    BY DEF Codigos, Impressos, Saidas
  <2> QED
    BY <1>1, <2>1, SaiPreserva DEF prepare_tee_session
<1>2. CASE /\ sessao = Ninguem
           /\ sessao' = h
           /\ proc' = [proc EXCEPT ![h].pc = IF proc[h].comando = CMD_WRITE_RAW THEN "cria"
                                             ELSE "chama"]
  <2> DEFINE pc == IF proc[h].comando = CMD_WRITE_RAW THEN "cria" ELSE "chama"
  <2>1. proc[h].pc = "inicio" /\ UNCHANGED <<objeto, gravado>>
    BY DEF prepare_tee_session
  <2>2. proc[h].n \in Passos /\ pc \in Pontos
    BY DEF TAInd, TAEstado, TipoProcesso, Pontos
  <2>3. /\ proc' \in [Procs -> TipoProcesso]
        /\ proc'[h].pc = pc /\ proc'[h].n = proc[h].n
        /\ proc'[h].comando = proc[h].comando /\ proc'[h].arg = proc[h].arg
        /\ proc'[h].saida = proc[h].saida
        /\ \A g \in Procs : g # h => proc'[g] = proc[g]
    <3>1. proc' = [proc EXCEPT ![h].pc = pc] /\ proc \in [Procs -> TipoProcesso]
      BY <1>2 DEF TAInd, TAEstado
    <3> HIDE DEF pc
    <3> QED
      BY <2>2, <3>1, AndaEfeito
  <2>4. proc[h].n = 1 /\ ProcessoOK(proc[h])
    BY <2>1 DEF TAInd, ProcessoOK
  <2>5. TAEstado'
    BY <1>2, <2>1, <2>3 DEF TAInd, TAEstado, Par
  <2>6. ASSUME NEW g \in Procs
        PROVE  ProcessoOK(proc[g])'
    BY <2>3, <2>4 DEF TAInd, ProcessoOK, Par
  <2>7. ASSUME NEW g \in Procs, proc'[g].pc \in {"cria", "grava"}
        PROVE  sessao' = g /\ JaGravou(proc[g])'
    BY <1>2, <2>1, <2>3, <2>4, <2>7, OpteeAssumption DEF TAInd, JaGravou
  <2>8. ASSUME NEW g \in Procs, Alterando(proc[g])'
        PROVE  gravado' = Ninguem
    BY <2>1, <2>3, <2>4, <2>8 DEF TAInd, Alterando
  <2>9. ASSUME NEW g \in Procs, proc'[g].pc = "chama"
        PROVE  sessao' = g
    BY <1>2, <2>3, <2>9, OpteeAssumption DEF TAInd
  <2> QED
    BY <1>2, <2>1, <2>3, <2>5, <2>6, <2>7, <2>8, <2>9 DEF TAInd, ConteudoGravado
<1> QED
  BY <1>1, <1>2 DEF prepare_tee_session

LEMMA CriaPreserva ==
  ASSUME TAInd, NEW h \in Procs, cria(h)
  PROVE  TAInd'
<1> DEFINE o == Ordem[proc[h].n]
<1>1. CASE Sai(h, 1, Ninguem) /\ UNCHANGED objeto
  <2>1. 1 \in Codigos /\ Ninguem \in Impressos /\ Ninguem \in Saidas
    BY DEF Codigos, Impressos, Saidas
  <2> QED
    BY <1>1, <2>1, SaiPreserva DEF cria
<1>2. CASE /\ objeto' = [objeto EXCEPT ![o] = Vazio]
           /\ proc' = [proc EXCEPT ![h].pc = "grava"]
           /\ UNCHANGED sessao
  <2>1. proc[h].pc = "cria" /\ gravado' = Ninguem
    BY DEF cria
  <2>2. proc[h].n \in Passos /\ "grava" \in Pontos
    BY DEF TAInd, TAEstado, TipoProcesso, Pontos
  <2>3. /\ proc' \in [Procs -> TipoProcesso]
        /\ proc'[h].pc = "grava" /\ proc'[h].n = proc[h].n
        /\ proc'[h].comando = proc[h].comando /\ proc'[h].arg = proc[h].arg
        /\ proc'[h].saida = proc[h].saida
        /\ \A g \in Procs : g # h => proc'[g] = proc[g]
    <3>1. proc \in [Procs -> TipoProcesso]
      BY DEF TAInd, TAEstado
    <3> QED
      BY <1>2, <2>2, <3>1, AndaEfeito
  <2>4. /\ o \in Objetos /\ objeto' \in [Objetos -> Objeto]
        /\ objeto'[o] = Vazio
        /\ \A q \in Objetos : q # o => objeto'[q] = objeto[q]
    BY <1>2, <2>2, OrdemFatos, ConteudoTipo DEF TAInd, TAEstado, Passos
  <2>5. TAEstado'
    <3>1. Par(objeto["secrets"].chave, objeto["secrets"].id)'
      BY <2>4, OrdemFatos DEF TAInd, TAEstado, Par, Vazio
    <3> QED
      BY <1>2, <2>1, <2>3, <2>4, <3>1 DEF TAInd, TAEstado
  <2>6. ASSUME NEW g \in Procs
        PROVE  ProcessoOK(proc[g])'
    BY <2>1, <2>3 DEF TAInd, ProcessoOK, Par
  <2>7. ASSUME NEW g \in Procs, proc'[g].pc \in {"cria", "grava"}
        PROVE  sessao' = g /\ JaGravou(proc[g])'
    <3>1. sessao = h /\ g = h
      BY <2>1, <2>3, <2>7 DEF TAInd
    <3>2. \A m \in 1..(proc[h].n - 1) : Ordem[m] \in Objetos /\ Ordem[m] # o
      BY <2>2, OrdemFatos DEF Passos
    <3> QED
      BY <1>2, <2>1, <2>3, <2>4, <3>1, <3>2 DEF TAInd, JaGravou
  <2>8. sessao' # Ninguem => proc'[sessao'].pc \in {"cria", "grava", "chama"}
    BY <1>2, <2>1, <2>3 DEF TAInd, TAEstado
  <2>9. ASSUME NEW g \in Procs, proc'[g].pc = "chama"
        PROVE  sessao' = g
    BY <1>2, <2>3, <2>9 DEF TAInd
  <2> QED
    BY <2>1, <2>5, <2>6, <2>7, <2>8, <2>9 DEF TAInd, ConteudoGravado
<1> QED
  BY <1>1, <1>2 DEF cria

\* The three outcomes of grava: the next object, the end of WRITE, the failure.
LEMMA GravaPreserva ==
  ASSUME TAInd, NEW h \in Procs, grava(h)
  PROVE  TAInd'
<1> DEFINE o == Ordem[proc[h].n]
<1>1. /\ proc[h].pc = "grava" /\ sessao = h /\ JaGravou(proc[h])
      /\ proc[h].comando = CMD_WRITE_RAW /\ proc[h].arg \in Argumentos
      /\ gravado = Ninguem /\ proc[h].n \in Passos
  BY DEF grava, TAInd, TAEstado, TipoProcesso, ProcessoOK, Alterando
<1>2. o \in Objetos /\ (o = "secrets" <=> proc[h].n = 3)
  BY <1>1, OrdemFatos DEF Passos
<1>3. \A m \in 1..(proc[h].n - 1) : Ordem[m] \in Objetos /\ Ordem[m] # o
  BY <1>1, OrdemFatos DEF Passos
\* No other process is in the trusted application.
<1>4. \A g \in Procs : g # h => proc[g].pc \notin {"cria", "grava", "chama"}
  BY <1>1 DEF TAInd
<1>5. 0 \in Codigos /\ 1 \in Codigos /\ Ninguem \in Impressos /\ "cria" \in Pontos
  BY DEF Codigos, Impressos, Saidas, Pontos
<1>6. ASSUME NEW c \in Objeto, objeto' = [objeto EXCEPT ![o] = c],
             c = Ausente \/ c = Conteudo(o, proc[h].arg)
      PROVE  /\ objeto' \in [Objetos -> Objeto]
             /\ objeto'[o] = c
             /\ \A q \in Objetos : q # o => objeto'[q] = objeto[q]
             /\ Par(objeto["secrets"].chave, objeto["secrets"].id)'
  <2>1. /\ objeto' \in [Objetos -> Objeto]
        /\ objeto'[o] = c
        /\ \A q \in Objetos : q # o => objeto'[q] = objeto[q]
    BY <1>2, <1>6 DEF TAInd, TAEstado
  <2>2. CASE o = "secrets"
    BY <1>1, <1>6, <2>1, <2>2 DEF Par, Ausente, Conteudo
  <2>3. CASE o # "secrets"
    BY <2>1, <2>3, OrdemFatos DEF TAInd, TAEstado, Par
  <2> QED
    BY <2>1, <2>2, <2>3
<1>7. CASE /\ objeto' = [objeto EXCEPT ![o] = Conteudo(o, proc[h].arg)]
           /\ proc[h].n < 3
           /\ proc' = [proc EXCEPT ![h].pc = "cria", ![h].n = @ + 1]
           /\ UNCHANGED <<sessao, gravado>>
  <2>1. /\ objeto' \in [Objetos -> Objeto]
        /\ objeto'[o] = Conteudo(o, proc[h].arg)
        /\ \A q \in Objetos : q # o => objeto'[q] = objeto[q]
        /\ Par(objeto["secrets"].chave, objeto["secrets"].id)'
    BY <1>1, <1>6, <1>7, ConteudoTipo
  <2>2. proc[h].n + 1 \in Passos
    BY <1>1, <1>7 DEF Passos
  <2>3. /\ proc' \in [Procs -> TipoProcesso]
        /\ proc'[h].pc = "cria" /\ proc'[h].n = proc[h].n + 1
        /\ proc'[h].comando = proc[h].comando /\ proc'[h].arg = proc[h].arg
        /\ proc'[h].saida = proc[h].saida
        /\ \A g \in Procs : g # h => proc'[g] = proc[g]
    <3>1. proc \in [Procs -> TipoProcesso]
      BY DEF TAInd, TAEstado
    <3>2. proc' = [proc EXCEPT ![h].pc = "cria", ![h].n = proc[h].n + 1]
      BY <1>7, <3>1 DEF TipoProcesso
    <3> QED
      BY <1>5, <2>2, <3>1, <3>2, AndaEfeito
  <2>4. TAEstado'
    BY <1>7, <2>1, <2>3 DEF TAInd, TAEstado
  <2>5. ASSUME NEW g \in Procs
        PROVE  ProcessoOK(proc[g])'
    BY <1>1, <2>3 DEF TAInd, ProcessoOK, Par
  <2>6. JaGravou(proc[h])'
    <3>1. SUFFICES ASSUME NEW m \in 1..proc[h].n
                   PROVE  objeto'[Ordem[m]] = Conteudo(Ordem[m], proc[h].arg)
      BY <1>1, <2>3 DEF JaGravou, Passos
    <3>2. CASE m = proc[h].n
      BY <2>1, <3>2
    <3>3. CASE m \in 1..(proc[h].n - 1)
      BY <1>1, <1>3, <2>1, <3>3 DEF JaGravou
    <3> QED
      BY <1>1, <3>2, <3>3 DEF Passos
  <2>7. ASSUME NEW g \in Procs, proc'[g].pc \in {"cria", "grava"}
        PROVE  sessao' = g /\ JaGravou(proc[g])'
    BY <1>1, <1>4, <1>7, <2>3, <2>6, <2>7
  <2> QED
    BY <1>1, <1>7, <2>3, <2>4, <2>5, <2>7 DEF TAInd, ConteudoGravado
\* In both other cases the process ends.
<1>8. ASSUME NEW rc \in Codigos, Sai(h, rc, Ninguem)
      PROVE  /\ proc' \in [Procs -> TipoProcesso]
             /\ sessao' = Ninguem
             /\ \A g \in Procs : ProcessoOK(proc[g])'
             /\ \A g \in Procs : proc'[g].pc \notin {"cria", "grava", "chama"}
  <2>1. /\ proc' \in [Procs -> TipoProcesso]
        /\ proc'[h].pc = "fim" /\ proc'[h].saida = Ninguem
        /\ proc'[h].comando = proc[h].comando /\ proc'[h].arg = proc[h].arg
        /\ \A g \in Procs : g # h => proc'[g] = proc[g]
    BY <1>5, <1>8, SaiEfeito DEF TAInd, TAEstado
  <2>2. \A g \in Procs : ProcessoOK(proc[g])'
    BY <1>1, <2>1 DEF TAInd, ProcessoOK, Par, CMD_WRITE_RAW, CMD_REQUEST_PROOF
  <2> QED
    BY <1>1, <1>4, <1>8, <2>1, <2>2 DEF Sai
<1>9. CASE /\ objeto' = [objeto EXCEPT ![o] = Conteudo(o, proc[h].arg)]
           /\ ~(proc[h].n < 3)
           /\ Sai(h, 0, Ninguem)
           /\ gravado' = proc[h].arg
  <2>1. /\ objeto' \in [Objetos -> Objeto]
        /\ objeto'[o] = Conteudo(o, proc[h].arg)
        /\ \A q \in Objetos : q # o => objeto'[q] = objeto[q]
        /\ Par(objeto["secrets"].chave, objeto["secrets"].id)'
    BY <1>1, <1>6, <1>9, ConteudoTipo
  <2>2. /\ proc' \in [Procs -> TipoProcesso] /\ sessao' = Ninguem
        /\ \A g \in Procs : ProcessoOK(proc[g])'
        /\ \A g \in Procs : proc'[g].pc \notin {"cria", "grava", "chama"}
    BY <1>5, <1>8, <1>9
  <2>3. proc[h].n = 3
    BY <1>1, <1>9 DEF Passos
  <2>4. ConteudoGravado'
    <3>1. SUFFICES ASSUME NEW q \in Objetos
                   PROVE  objeto'[q] = Conteudo(q, proc[h].arg)
      BY <1>9 DEF ConteudoGravado
    <3>2. CASE q = "secrets"
      BY <2>1, <2>3, <3>2, OrdemFatos
    <3>3. CASE q # "secrets"
      <4>1. PICK m \in 1..2 : q = Ordem[m]
        BY <3>3, OrdemFatos
      <4>2. objeto[q] = Conteudo(q, proc[h].arg)
        BY <1>1, <2>3, <4>1 DEF JaGravou
      <4> QED
        BY <2>1, <2>3, <3>3, <4>2, OrdemFatos
    <3> QED
      BY <3>2, <3>3
  <2>5. TAEstado'
    BY <1>1, <1>9, <2>1, <2>2 DEF TAEstado
  <2> QED
    BY <2>2, <2>4, <2>5 DEF TAInd, Alterando
<1>10. CASE /\ objeto' = [objeto EXCEPT ![o] = Ausente]
            /\ Sai(h, 1, Ninguem)
            /\ UNCHANGED gravado
  <2>1. objeto' \in [Objetos -> Objeto] /\ Par(objeto["secrets"].chave, objeto["secrets"].id)'
    BY <1>6, <1>10, ConteudoTipo
  <2>2. /\ proc' \in [Procs -> TipoProcesso] /\ sessao' = Ninguem
        /\ \A g \in Procs : ProcessoOK(proc[g])'
        /\ \A g \in Procs : proc'[g].pc \notin {"cria", "grava", "chama"}
    BY <1>5, <1>8, <1>10
  <2>3. TAEstado'
    BY <1>10, <2>1, <2>2 DEF TAInd, TAEstado
  <2> QED
    BY <1>1, <1>10, <2>2, <2>3 DEF TAInd, Alterando, ConteudoGravado
<1> QED
  BY <1>7, <1>9, <1>10 DEF grava

\* The proof is computed from the pair the secrets object holds.
LEMMA ProvaPreserva ==
  ASSUME TAInd, NEW h \in Procs, request_proof(h)
  PROVE  TAInd'
<1>1. proc[h].comando = CMD_REQUEST_PROOF /\ UNCHANGED <<objeto, gravado>>
  BY DEF request_proof
<1>2. 0 \in Codigos /\ Lixo \in Saidas /\ Saidas \subseteq Impressos
  BY DEF Codigos, Saidas, Impressos
<1>3. CASE Sai(h, 0, Lixo)
  BY <1>1, <1>2, <1>3, SaiPreserva
<1>4. CASE Sai(h, 0, Prova(objeto["secrets"], proc[h].arg))
  <2> DEFINE p == Prova(objeto["secrets"], proc[h].arg)
  <2>1. objeto["secrets"] \in Objeto /\ proc[h].arg \in Rodadas
    BY <1>1, OrdemFatos DEF TAInd, TAEstado, ProcessoOK
  <2>2. p \in Saidas
    BY <2>1 DEF Prova, Saidas, Objeto
  <2>3. Par(p.chave, p.id)
    BY DEF TAInd, TAEstado, Prova
  <2> HIDE DEF p
  <2> QED
    BY <1>1, <1>2, <1>4, <2>2, <2>3, SaiPreserva DEF p
<1> QED
  BY <1>3, <1>4 DEF request_proof

LEMMA LeituraPreserva ==
  ASSUME TAInd, NEW h \in Procs, read_secure_objects(h) \/ outro_comando(h)
  PROVE  TAInd'
<1>1. UNCHANGED <<objeto, gravado>> /\ proc[h].comando # CMD_REQUEST_PROOF
  BY DEF read_secure_objects, outro_comando, CMD_READ_RAW, CMD_REQUEST_PROOF
<1>2. 0 \in Codigos /\ 1 \in Codigos /\ Ninguem \in Impressos
  BY DEF Codigos, Saidas, Impressos
<1>3. [o \in Objetos |-> IF objeto[o] = Vazio THEN Lixo ELSE objeto[o]] \in Impressos
  BY DEF TAInd, TAEstado, Leituras, Impressos
<1>4. PICK rc \in Codigos, s \in Impressos : Sai(h, rc, s)
  <2>1. CASE read_secure_objects(h)
    BY <1>2, <1>3, <2>1 DEF read_secure_objects
  <2>2. CASE outro_comando(h)
    BY <1>2, <2>2 DEF outro_comando
  <2> QED
    BY <2>1, <2>2
<1> QED
  BY <1>1, <1>4, SaiPreserva

LEMMA PassoPreserva ==
  ASSUME TAInd, NEW h \in Procs, Passo(h)
  PROVE  TAInd'
BY PreparaPreserva, CriaPreserva, GravaPreserva, ProvaPreserva, LeituraPreserva DEF Passo

\* A slot without a process, and a process just started.
LEMMA InicioTipo ==
  /\ SemProcesso \in TipoProcesso /\ ProcessoOK(SemProcesso)
  /\ \A a \in Argumentos : /\ Processo(CMD_WRITE_RAW, a) \in TipoProcesso
                           /\ ProcessoOK(Processo(CMD_WRITE_RAW, a))
  /\ \A r \in Rodadas : /\ Processo(CMD_REQUEST_PROOF, r) \in TipoProcesso
                        /\ ProcessoOK(Processo(CMD_REQUEST_PROOF, r))
  /\ \A c \in {CMD_READ_RAW, CMD_DELETE, 4} : /\ Processo(c, Ninguem) \in TipoProcesso
                                              /\ ProcessoOK(Processo(c, Ninguem))
  /\ \A c, a : Processo(c, a).pc = "inicio"
  /\ SemProcesso.pc = "livre"
<1>1. /\ {"livre", "inicio"} \subseteq Pontos /\ 1 \in Passos /\ 0 \in Codigos
      /\ Ninguem \in Impressos /\ Ninguem \in Saidas
      /\ {CMD_READ_RAW, CMD_WRITE_RAW, CMD_DELETE, CMD_REQUEST_PROOF, 4} \subseteq Comandos
  BY DEF Pontos, Passos, Codigos, Impressos, Saidas, Comandos,
         CMD_READ_RAW, CMD_WRITE_RAW, CMD_DELETE, CMD_REQUEST_PROOF
<1>2. SemProcesso \in TipoProcesso /\ ProcessoOK(SemProcesso)
  BY <1>1 DEF SemProcesso, TipoProcesso, Args, ProcessoOK,
              CMD_WRITE_RAW, CMD_DELETE, CMD_REQUEST_PROOF
<1>3. \A c, a : /\ Processo(c, a).pc = "inicio" /\ Processo(c, a).comando = c
                /\ Processo(c, a).arg = a /\ Processo(c, a).n = 1
                /\ Processo(c, a).saida = Ninguem
  BY DEF Processo, SemProcesso
<1>4. \A c \in Comandos : \A a \in Args : Processo(c, a) \in TipoProcesso
  BY <1>1, <1>2 DEF TipoProcesso, Processo
<1>5. \A a \in Argumentos : ProcessoOK(Processo(CMD_WRITE_RAW, a))
  BY <1>3 DEF ProcessoOK, CMD_WRITE_RAW, CMD_REQUEST_PROOF
<1>6. \A r \in Rodadas : ProcessoOK(Processo(CMD_REQUEST_PROOF, r))
  BY <1>1, <1>3 DEF ProcessoOK, CMD_WRITE_RAW, CMD_REQUEST_PROOF
<1>7. \A c \in {CMD_READ_RAW, CMD_DELETE, 4} : ProcessoOK(Processo(c, Ninguem))
  BY <1>3 DEF ProcessoOK, CMD_READ_RAW, CMD_WRITE_RAW, CMD_DELETE, CMD_REQUEST_PROOF
<1>8. \A a \in Argumentos \union Rodadas \union {Ninguem} : a \in Args
  BY DEF Args
<1>9. SemProcesso.pc = "livre"
  BY DEF SemProcesso
<1> QED
  BY <1>1, <1>2, <1>3, <1>4, <1>5, <1>6, <1>7, <1>8, <1>9

LEMMA QuedaPreserva ==
  ASSUME TAInd, TAQueda
  PROVE  TAInd'
<1>1. /\ proc' \in [Procs -> TipoProcesso]
      /\ \A h \in Procs : proc'[h] = SemProcesso /\ proc'[h].pc = "livre"
  BY InicioTipo DEF TAQueda
<1>2. TAEstado'
  BY <1>1 DEF TAQueda, TAInd, TAEstado, Par
<1>3. \A h \in Procs : ProcessoOK(proc[h])'
  BY <1>1, InicioTipo DEF ProcessoOK, Par
<1> QED
  BY <1>1, <1>2, <1>3 DEF TAQueda, TAInd, Alterando, ConteudoGravado

\* A process starts, or one that has ended is waited for: what was in the slot
\* has no session, and what it holds next has not changed the storage yet.
LEMMA TrocaPreserva ==
  ASSUME TAInd, NEW h \in Procs, NEW p \in TipoProcesso, ProcessoOK(p),
         proc[h].pc \in {"livre", "fim"}, p.pc \in {"livre", "inicio"},
         proc' = [proc EXCEPT ![h] = p], UNCHANGED <<objeto, sessao, gravado>>
  PROVE  TAInd'
<1>1. /\ proc' \in [Procs -> TipoProcesso]
      /\ proc'[h] = p
      /\ \A g \in Procs : g # h => proc'[g] = proc[g]
  BY DEF TAInd, TAEstado
<1>2. TAEstado'
  BY <1>1 DEF TAInd, TAEstado, Par
<1>3. \A g \in Procs : ProcessoOK(proc[g])'
  BY <1>1 DEF TAInd, ProcessoOK, Par
<1>4. \A g \in Procs : proc'[g].pc \in {"cria", "grava"} => proc'[g] = proc[g]
  BY <1>1
<1>5. sessao' # Ninguem => proc'[sessao'].pc \in {"cria", "grava", "chama"}
  BY <1>1 DEF TAInd, TAEstado
<1> QED
  BY <1>2, <1>3, <1>4, <1>5 DEF TAInd, Alterando, JaGravou, ConteudoGravado

LEMMA InitInd == TAInit => TAInd
<1> SUFFICES ASSUME TAInit PROVE TAInd
  OBVIOUS
<1>1. /\ proc \in [Procs -> TipoProcesso]
      /\ \A h \in Procs : proc[h] = SemProcesso /\ proc[h].pc = "livre"
  BY InicioTipo DEF TAInit
<1>2. TAEstado
  BY <1>1, OrdemFatos, ConteudoTipo DEF TAInit, TAEstado, Par, Ausente
<1>3. \A h \in Procs : ProcessoOK(proc[h])
  BY <1>1, InicioTipo
<1> QED
  BY <1>1, <1>2, <1>3 DEF TAInit, TAInd, Alterando, ConteudoGravado

LEMMA NextInd == TAInd /\ [TANext]_taVars => TAInd'
<1> SUFFICES ASSUME TAInd, [TANext]_taVars PROVE TAInd'
  OBVIOUS
<1>1. ASSUME NEW h \in Procs, Chama(h)
      PROVE  TAInd'
  <2>1. PICK p \in {Processo(CMD_WRITE_RAW, a) : a \in Argumentos} \union
                   {Processo(CMD_REQUEST_PROOF, r) : r \in Rodadas} \union
                   {Processo(c, Ninguem) : c \in {CMD_READ_RAW, CMD_DELETE, 4}} :
             proc' = [proc EXCEPT ![h] = p]
    BY <1>1 DEF Chama
  <2>2. p \in TipoProcesso /\ ProcessoOK(p) /\ p.pc = "inicio"
    BY <2>1, InicioTipo
  <2> QED
    BY <1>1, <2>1, <2>2, TrocaPreserva DEF Chama
<1>2. ASSUME NEW h \in Procs, Colhe(h)
      PROVE  TAInd'
  BY <1>2, InicioTipo, TrocaPreserva DEF Colhe
<1>3. CASE UNCHANGED taVars
  BY <1>3 DEF taVars, TAInd, TAEstado, ProcessoOK, Par, Alterando, JaGravou, ConteudoGravado
<1> QED
  BY <1>1, <1>2, <1>3, PassoPreserva, QuedaPreserva DEF TANext
-----------------------------------------------------------------------------
\* The invariants the run checks are parts of TAInd or follow from it.
LEMMA IndImplica ==
  TAInd => TATypeOK /\ ConteudoGravado /\ EscritaExclusiva /\ SessaoTemDono /\ ProvaNaoMistura
<1> SUFFICES ASSUME TAInd
             PROVE  TATypeOK /\ ConteudoGravado /\ EscritaExclusiva /\ SessaoTemDono /\ ProvaNaoMistura
  OBVIOUS
<1>1. ASSUME NEW h \in Procs
      PROVE  /\ proc[h].pc \in {"livre", "inicio", "cria", "grava", "chama", "fim"}
             /\ proc[h].comando \in 0..4
             /\ proc[h].n \in 1..3 /\ proc[h].rc \in {0, 1}
  BY DEF TAInd, TAEstado, TipoProcesso, Pontos, Comandos, Passos, Codigos
<1>2. ASSUME NEW h \in Procs
      PROVE  /\ proc[h].arg \in CASE proc[h].comando = CMD_WRITE_RAW -> Argumentos
                                  [] proc[h].comando = CMD_REQUEST_PROOF -> Rodadas
                                  [] OTHER -> {Ninguem}
             /\ proc[h].comando = CMD_REQUEST_PROOF => proc[h].saida \in Saidas
  BY DEF TAInd, ProcessoOK, CMD_WRITE_RAW, CMD_REQUEST_PROOF
<1>3. TATypeOK
  BY <1>1, <1>2 DEF TAInd, TAEstado, TATypeOK
<1>4. EscritaExclusiva
  BY DEF TAInd, EscritaExclusiva, JaGravou
<1>5. ProvaNaoMistura
  BY DEF TAInd, ProcessoOK, Par, ProvaNaoMistura
<1>6. SessaoTemDono
  BY OpteeAssumption DEF TAInd, TAEstado, SessaoTemDono
<1> QED
  BY <1>3, <1>4, <1>5, <1>6 DEF TAInd

\* TASpec without its fairness, and the inductive invariant.
LEMMA TAInvariante == TASpec => []TAInd
BY InitInd, NextInd, PTL DEF TASpec

(* Type correctness of the trusted application's storage, of its session    *)
(* and of the optee_dra processes, for any number of them.                  *)
THEOREM TipoCorretoTA == TASpec => []TATypeOK
BY TAInvariante, IndImplica, PTL

(* What main reported as written stays in the three objects until the next  *)
(* WRITE, whatever other processes and losses of power come between.        *)
THEOREM GravadoFica == TASpec => []ConteudoGravado
BY TAInvariante, IndImplica, PTL

(* Between the first create_raw_object of a WRITE and its end no other      *)
(* process has the session or touches what it saved.                        *)
THEOREM EscritaSozinha == TASpec => []EscritaExclusiva
BY TAInvariante, IndImplica, PTL

(* Every process is refused or has the session to itself until it ends, and *)
(* leaves it free, by whichever of main's exits it ends.                    *)
THEOREM SessaoSoDeVivos == TASpec => []SessaoTemDono
BY TAInvariante, IndImplica, PTL

(* reply_proof computes with the pair one WRITE was given, or with zeros,   *)
(* wherever a WRITE was interrupted.                                        *)
THEOREM ProvaDeUmPar == TASpec => []ProvaNaoMistura
BY TAInvariante, IndImplica, PTL
=============================================================================
