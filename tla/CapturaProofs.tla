---------------------------- MODULE CapturaProofs ----------------------------
(***************************************************************************)
(* Proofs about Captura: the ring implements the bounded queue, at most    *)
(* one packet per processor escapes the change of filter, and pcap_loop    *)
(* counts exactly; for any number of frames, processors and packets.       *)
(***************************************************************************)
EXTENDS Captura, FiniteSetTheorems, SequenceTheorems, TLAPS

Quadros == 0..(cc - 1)
Blocos == 0..cc
Pontos ==
  {"ativado", "anexa", "semfiltro", "conta", "le", "espera", "quadro", "trata", "solta", "fim", "erro"}
Estados == {"ativa", "inativa", "removida"}
Filtros == {"nenhum", "total", "novo"}

TipoH ==
  [pc : Pontos, offset : Quadros, filter_in_userland : BOOLEAN,
   blocks_to_filter_in_userland : Blocos, break_loop : BOOLEAN, netdown : BOOLEAN,
   n : Blocos, pos : Quadros, pkts : Nat, cnt : Int, ret : BOOLEAN, intrusos : Nat]

TipoRede == [estado : Estados, erro : BOOLEAN, falha : BOOLEAN,
             chegou : Nat, perdidos : Nat, quedas : Nat]

Tipo ==
  /\ anel \in [Quadros -> Pacote \union {Livre}]
  /\ cabeca \in Quadros
  /\ filtro \in Filtros
  /\ nucleo \in [Nucleos -> Pacote \union {Nada}]
  /\ copia \in [Nucleos -> Quadros \union {Nada}]
  /\ rede \in TipoRede
  /\ h \in TipoH
  /\ tratados \in Seq(Pacote)

\* The frame the library works on is its own until it gives it back, and a call
\* of the handler is pending in the queue's terms exactly until then.
QuadroSeguro ==
  /\ h.pc \in {"trata", "solta"} => anel[h.offset] # Livre
  /\ h.ret => h.pc = "solta"
  /\ h.pc = "solta" => h.ret = anel[h.offset].casa

\* A processor copies into a frame it has taken and nobody else works on.
CopiaOK ==
  /\ \A c \in Nucleos : copia[c] # Nada => nucleo[c] = Nada /\ anel[copia[c]] # Livre
  /\ h.pc \in {"trata", "solta"} => ~Copiando(h.offset)

\* The frame i places after frame a.
Adiante(a, i) == IF a + i >= cc THEN a + i - cc ELSE a + i

\* The frames not given back are the k from a on, and the kernel fills the next.
Ocupa(q, a, c, k) ==
  /\ c = Adiante(a, k)
  /\ \A i \in Quadros : q[Adiante(a, i)] # Livre <=> i < k

AnelOK == \E k \in 0..cc : Ocupa(anel, h.offset, cabeca, k)

\* The handler is not called again once it has asked to stop.
QuebraOK ==
  Quebra # 0 =>
    \/ Len(tratados) < Quebra
    \/ Len(tratados) = Quebra /\ (h.pc = "fim" \/ (h.pc = "solta" /\ h.break_loop))

(***************************************************************************)
(* The inductive invariant of the ring.                                    *)
(***************************************************************************)
Ind == Tipo /\ QuadroSeguro /\ CopiaOK /\ AnelOK /\ QuebraOK
-----------------------------------------------------------------------------
\* Frames of a from the library's position, counted.
Distancia(o) == IF o >= h.offset THEN o - h.offset ELSE o - h.offset + cc

\* Frames whose packets will not be filtered again: during the walk, the ones it
\* has passed and the one it began behind.
Descoberto(o) ==
  IF h.pc = "conta" THEN Distancia(o) >= cc - 1 - h.n
  ELSE Distancia(o) >= h.blocks_to_filter_in_userland

\* Processors that hold a packet the new filter would have rejected, or are
\* copying one where it may not be filtered again; and frames from which such a
\* packet will reach the handler.
Velhos ==
  {c \in Nucleos : \/ nucleo[c] # Nada /\ ~nucleo[c].casa
                   \/ /\ copia[c] # Nada /\ ~anel[copia[c]].casa
                      /\ h.pc = "conta" \/ Descoberto(copia[c])}
Escapados == {o \in Quadros : /\ Descoberto(o) /\ Publicado(o) /\ ~anel[o].casa
                              /\ ~(h.pc = "solta" /\ o = h.offset)}

\* Intruders so far and to come: at most one for each processor.
Limite ==
  h.intrusos + Cardinality(Velhos) + Cardinality(Escapados) <= Cardinality(Nucleos)

\* The walk began on a full ring, so that every frame it passes is being copied,
\* and the frame it began behind, at which it never looks, may hold an old
\* packet.  The last frame but one that it passed pays for that one.
Ativos == {c \in Nucleos : copia[c] # Nada \/ (nucleo[c] # Nada /\ ~nucleo[c].casa)}
Andados == {o \in Quadros : /\ Distancia(o) >= cc - 1 - h.n /\ Distancia(o) # cc - 1
                            /\ ~Copiando(o)}

Lotado ==
  /\ h.intrusos = 0 /\ \A o \in Quadros : anel[o] # Livre
  /\ Cardinality(Ativos) + Cardinality(Andados) <= Cardinality(Nucleos)

\* Before the new filter, or without one; the kernel refused it and the library
\* filters all; the kernel took it.
Antes ==
  /\ h.pc \in {"ativado", "anexa", "semfiltro"}
  /\ h.intrusos = 0 /\ h.blocks_to_filter_in_userland = 0
  /\ h.pc = "anexa" => h.filter_in_userland

SoBiblioteca ==
  /\ h.pc \notin {"ativado", "anexa", "semfiltro", "conta"} /\ filtro = "nenhum"
  /\ h.intrusos = 0 /\ h.blocks_to_filter_in_userland = 0
  /\ h.filter_in_userland

Trocado ==
  /\ h.pc \notin {"ativado", "anexa", "semfiltro"} /\ filtro = "novo"
  /\ Limite \/ (h.pc = "conta" /\ Lotado)
  /\ h.pc = "conta" => h.pos = Adiante(h.offset, IF h.n = cc THEN cc - 1 ELSE cc - 1 - h.n)
  /\ h.pc # "conta" => (h.filter_in_userland <=> h.blocks_to_filter_in_userland > 0)

IntrusosOK == Antes \/ SoBiblioteca \/ Trocado

(***************************************************************************)
(* The inductive invariant of the change of filter.                        *)
(***************************************************************************)
IndIntrusos == Ind /\ IntrusosOK
-----------------------------------------------------------------------------
\* Calls of the handler so far against the count still to go: pcap_loop has
\* taken those of a read off its count when the next read begins.
ContaOK ==
  cnt > 0 =>
    /\ h.pc \in {"ativado", "anexa", "conta", "espera"} => h.pkts = 0 /\ h.cnt > 0
    /\ h.pc = "le" => h.cnt > 0
    /\ h.pc \in {"quadro", "solta", "semfiltro", "erro"} => h.pkts <= h.cnt
    /\ h.pc = "trata" => h.pkts < h.cnt
    /\ h.pc = "fim" => h.cnt >= 0
    /\ h.pc \in {"le", "fim"} => Len(tratados) + h.intrusos + h.cnt = cnt
    /\ h.pc \notin {"le", "fim"} => Len(tratados) + h.intrusos + h.cnt - h.pkts = cnt

\* Without pcap_breakloop the loop ends without an error for one reason only.
FimOK ==
  /\ ~h.break_loop
  /\ h.pc = "fim" => cnt > 0 /\ h.cnt = 0

(***************************************************************************)
(* The inductive invariant of the count, for a handler that never breaks.  *)
(***************************************************************************)
IndConta == Ind /\ ContaOK /\ FimOK
-----------------------------------------------------------------------------
(***************************************************************************)
(* What each action does to the fields of h.                               *)
(***************************************************************************)
LigarIgual == h'.filter_in_userland = h.filter_in_userland
BlocosIgual == h'.blocks_to_filter_in_userland = h.blocks_to_filter_in_userland
FiltrarIgual == LigarIgual /\ BlocosIgual
ContarIgual == h'.n = h.n /\ h'.pos = h.pos
PararIgual == h'.break_loop = h.break_loop
RetIgual == h'.ret = h.ret
LerIgual == h'.pkts = h.pkts /\ h'.cnt = h.cnt
IntrusosIgual == h'.intrusos = h.intrusos
OffsetIgual == h'.offset = h.offset

(* The names of the control points and states the actions use.             *)
LEMMA Nomes ==
  /\ "ativado" \in Pontos /\ "anexa" \in Pontos /\ "conta" \in Pontos
  /\ "le" \in Pontos /\ "espera" \in Pontos /\ "quadro" \in Pontos
  /\ "trata" \in Pontos /\ "solta" \in Pontos /\ "fim" \in Pontos
  /\ "semfiltro" \in Pontos /\ "erro" \in Pontos
  /\ "ativa" \in Estados /\ "inativa" \in Estados /\ "removida" \in Estados
  /\ "nenhum" \in Filtros /\ "total" \in Filtros /\ "novo" \in Filtros
BY DEF Pontos, Estados, Filtros

(* Positions stay inside the ring.                                         *)
LEMMA Posicoes ==
  /\ 0 \in Quadros /\ 0 \in Blocos /\ cc \in Blocos
  /\ \A o \in Quadros : Anterior(o) \in Quadros /\ Seguinte(o) \in Quadros
  /\ \A o, i \in Quadros : Adiante(o, i) \in Quadros
  /\ \A o \in Quadros : Adiante(o, cc) = o /\ Adiante(o, 0) = o
BY CapturaAssumption DEF Quadros, Blocos, Anterior, Seguinte, Adiante

LEMMA FiltroTotalEfeito ==
  ASSUME h \in TipoH, FiltroTotal
  PROVE  /\ h' \in TipoH
         /\ (h'.pc = "anexa" /\ h'.filter_in_userland) \/ h'.pc = "semfiltro"
         /\ BlocosIgual /\ ContarIgual /\ PararIgual /\ RetIgual /\ LerIgual
         /\ IntrusosIgual /\ OffsetIgual
<1>1. CASE h' = [h EXCEPT !.pc = "anexa", !.filter_in_userland = TRUE]
  BY <1>1, Nomes DEF TipoH, BlocosIgual, ContarIgual, PararIgual, RetIgual, LerIgual,
             IntrusosIgual, OffsetIgual
<1>2. CASE h' = [h EXCEPT !.pc = "semfiltro"]
  BY <1>2, Nomes DEF TipoH, BlocosIgual, ContarIgual, PararIgual, RetIgual, LerIgual,
             IntrusosIgual, OffsetIgual
<1> QED
  BY <1>1, <1>2 DEF FiltroTotal, SemFiltro

(* What it does to the rest.                                               *)
LEMMA FiltroTotalResto ==
  ASSUME filtro \in Filtros, rede \in TipoRede, FiltroTotal
  PROVE  /\ h.pc = "ativado" /\ filtro' \in Filtros /\ rede' \in TipoRede
         /\ rede'.perdidos = rede.perdidos
         /\ UNCHANGED <<anel, cabeca, nucleo, copia, tratados>>
<1>1. rede' = rede \/ rede' = [rede EXCEPT !.erro = FALSE]
  BY DEF FiltroTotal
<1>2. rede' \in TipoRede /\ rede'.perdidos = rede.perdidos
  BY <1>1 DEF TipoRede
<1>3. filtro' = filtro \/ filtro' \in {"total", "nenhum"}
  BY DEF FiltroTotal
<1> QED
  BY <1>2, <1>3, Nomes DEF FiltroTotal

LEMMA AnexaEfeito ==
  ASSUME h \in TipoH, Anexa
  PROVE  /\ h' \in TipoH
         /\ \/ /\ filtro' = "novo" /\ h'.pc = "conta" /\ ~h'.filter_in_userland
               /\ h'.n = 0 /\ h'.pos = Anterior(h.offset)
            \/ /\ filtro' = "nenhum" /\ h'.pc = "le" /\ LigarIgual
            \/ /\ filtro' = filtro /\ h'.pc = "semfiltro"
         /\ BlocosIgual /\ PararIgual /\ RetIgual /\ LerIgual
         /\ IntrusosIgual /\ OffsetIgual
<1>1. h.offset \in Quadros /\ Anterior(h.offset) \in Quadros
  BY Posicoes DEF TipoH
<1>2. CASE filtro' = "novo" /\ h' = [h EXCEPT !.pc = "conta", !.filter_in_userland = FALSE,
                                             !.n = 0, !.pos = Anterior(h.offset)]
  BY <1>1, <1>2, Nomes, Posicoes DEF TipoH, BlocosIgual, PararIgual, RetIgual, LerIgual,
             IntrusosIgual, OffsetIgual
<1>3. CASE filtro' = "nenhum" /\ h' = [h EXCEPT !.pc = "le"]
  BY <1>3, Nomes DEF TipoH, BlocosIgual, LigarIgual, PararIgual, RetIgual, LerIgual,
             IntrusosIgual, OffsetIgual
<1>4. CASE filtro' = filtro /\ h' = [h EXCEPT !.pc = "semfiltro"]
  BY <1>4, Nomes DEF TipoH, BlocosIgual, PararIgual, RetIgual, LerIgual,
             IntrusosIgual, OffsetIgual
<1> QED
  BY <1>2, <1>3, <1>4 DEF Anexa, SemFiltro

(* The walk stops with the count of the frames it has not vouched for, or  *)
(* takes one more frame.                                                   *)
LEMMA ContaEfeito ==
  ASSUME h \in TipoH, Conta
  PROVE  /\ h' \in TipoH
         /\ \/ /\ h'.pc = "le" /\ h'.filter_in_userland
               /\ h.n = cc \/ Publicado(Anterior(h.pos))
               /\ h'.blocks_to_filter_in_userland = cc - (IF h.n # 0 THEN h.n - 1 ELSE h.n)
            \/ /\ h'.pc = "conta" /\ FiltrarIgual
               /\ h.n # cc /\ ~Publicado(Anterior(h.pos))
               /\ h'.n = h.n + 1 /\ h'.pos = Anterior(h.pos)
         /\ PararIgual /\ RetIgual /\ LerIgual /\ IntrusosIgual /\ OffsetIgual
<1>1. h.n \in Blocos /\ h.pos \in Quadros /\ h.pc = "conta"
  BY DEF TipoH, Conta
<1>2. /\ Anterior(h.pos) \in Quadros
      /\ cc - (IF h.n # 0 THEN h.n - 1 ELSE h.n) \in Blocos
      /\ h.n # cc => h.n + 1 \in Blocos
  BY <1>1, Posicoes, CapturaAssumption DEF Blocos
<1>3. CASE h.n = cc \/ Publicado(Anterior(h.pos))
  <2>1. h' = FimConta(h.n)
    BY <1>3 DEF Conta
  <2> QED
    BY <2>1, <1>2, <1>3, Nomes DEF FimConta, TipoH, PararIgual, RetIgual, LerIgual, IntrusosIgual, OffsetIgual
<1>4. CASE ~(h.n = cc \/ Publicado(Anterior(h.pos)))
  <2>1. h' = [h EXCEPT !.n = @ + 1, !.pos = Anterior(h.pos)]
    BY <1>4 DEF Conta
  <2> QED
    BY <2>1, <1>1, <1>2, <1>4, Nomes DEF TipoH, FiltrarIgual, LigarIgual, BlocosIgual, PararIgual, RetIgual, LerIgual, IntrusosIgual, OffsetIgual
<1> QED
  BY <1>3, <1>4

LEMMA LeEfeito ==
  ASSUME h \in TipoH, Le
  PROVE  /\ h' \in TipoH
         /\ h'.pc \in {"quadro", "espera"} /\ h'.pkts = 0 /\ h'.cnt = h.cnt
         /\ FiltrarIgual /\ PararIgual /\ RetIgual /\ IntrusosIgual /\ OffsetIgual
BY Nomes DEF Le, TipoH, FiltrarIgual, LigarIgual, BlocosIgual, PararIgual, RetIgual,
             IntrusosIgual, OffsetIgual

(* The three ways out of a wait.                                           *)
LEMMA EsperaEfeito ==
  ASSUME h \in TipoH, EsperaErro \/ EsperaPacote \/ EsperaTempo
  PROVE  /\ h' \in TipoH /\ h.pc = "espera"
         /\ h'.pc \in {"espera", "quadro", "erro"}
         /\ FiltrarIgual /\ ContarIgual /\ PararIgual /\ RetIgual /\ LerIgual
         /\ IntrusosIgual /\ OffsetIgual
<1>1. CASE EsperaErro \/ EsperaTempo
  <2>1. h.pc = "espera" /\ h' = VerificaInterface(h)
    BY <1>1 DEF EsperaErro, EsperaTempo
  <2>2. \/ h' = [h EXCEPT !.pc = "erro"]
        \/ h' = [h EXCEPT !.netdown = FALSE]
        \/ h' = [h EXCEPT !.netdown = TRUE]
    BY <2>1 DEF VerificaInterface
  <2> QED
    BY <2>1, <2>2, Nomes DEF TipoH, FiltrarIgual, LigarIgual, BlocosIgual, ContarIgual, PararIgual, RetIgual,
             LerIgual, IntrusosIgual, OffsetIgual
<1>2. CASE EsperaPacote
  BY <1>2, Nomes DEF EsperaPacote, TipoH, FiltrarIgual, LigarIgual, BlocosIgual, ContarIgual, PararIgual, RetIgual,
             LerIgual, IntrusosIgual, OffsetIgual
<1> QED
  BY <1>1, <1>2

(* A failure ends the loop with an error and changes nothing else of h.    *)
LEMMA FalhaEfeito ==
  ASSUME h \in TipoH, rede \in TipoRede, Falha
  PROVE  /\ h' \in TipoH /\ rede' \in TipoRede /\ rede'.perdidos = rede.perdidos
         /\ h.pc \in {"espera", "trata"} /\ h'.pc = "erro"
         /\ FiltrarIgual /\ ContarIgual /\ PararIgual /\ RetIgual /\ LerIgual
         /\ IntrusosIgual /\ OffsetIgual
         /\ UNCHANGED <<anel, cabeca, filtro, nucleo, copia, tratados>>
<1>1. /\ h.pc \in {"espera", "trata"}
      /\ h' = [h EXCEPT !.pc = "erro"] /\ rede' = [rede EXCEPT !.falha = TRUE]
      /\ UNCHANGED <<anel, cabeca, filtro, nucleo, copia, tratados>>
  BY DEF Falha, EsperaFalha, TrataCorrompido
<1>2. rede' \in TipoRede /\ rede'.perdidos = rede.perdidos
  BY <1>1 DEF TipoRede
<1> QED
  BY <1>1, <1>2, Nomes DEF TipoH, FiltrarIgual, LigarIgual, BlocosIgual, ContarIgual, PararIgual,
             RetIgual, LerIgual, IntrusosIgual, OffsetIgual

(* The read goes on with a frame, or returns to pcap_loop.                 *)
LEMMA QuadroEfeito ==
  ASSUME h \in TipoH, Quadro
  PROVE  /\ h' \in TipoH
         /\ \/ /\ h'.pc = "trata" /\ LerIgual /\ (cnt = 0 \/ h.pkts < h.cnt)
               /\ Publicado(h.offset)
            \/ h'.pc = "le" /\ cnt = 0 /\ LerIgual
            \/ /\ cnt # 0 /\ h'.cnt = h.cnt - h.pkts
               /\ h'.pc = IF h.cnt - h.pkts <= 0 THEN "fim" ELSE "le"
         /\ FiltrarIgual /\ PararIgual /\ RetIgual /\ IntrusosIgual /\ OffsetIgual
<1>1. h.pkts \in Nat /\ h.cnt \in Int /\ h.cnt - h.pkts \in Int
  BY DEF TipoH
<1>2. CASE (cnt = 0 \/ h.pkts < h.cnt) /\ packet_mmap_acquire(h.offset)
  <2>1. h' = [h EXCEPT !.pc = "trata"]
    BY <1>2 DEF Quadro
  <2> QED
    BY <2>1, <1>2, Nomes DEF packet_mmap_acquire, TipoH, FiltrarIgual, LigarIgual, BlocosIgual,
             PararIgual, RetIgual, LerIgual, IntrusosIgual, OffsetIgual
<1>3. CASE ~((cnt = 0 \/ h.pkts < h.cnt) /\ packet_mmap_acquire(h.offset)) /\ cnt = 0
  <2>1. h' = [h EXCEPT !.pc = "le"]
    BY <1>3 DEF Quadro, pcap_loop
  <2> QED
    BY <2>1, <1>3, Nomes DEF TipoH, FiltrarIgual, LigarIgual, BlocosIgual,
             PararIgual, RetIgual, LerIgual, IntrusosIgual, OffsetIgual
<1>4. CASE ~((cnt = 0 \/ h.pkts < h.cnt) /\ packet_mmap_acquire(h.offset)) /\ cnt # 0
  <2>1. h' = [h EXCEPT !.pc = IF h.cnt - h.pkts <= 0 THEN "fim" ELSE "le", !.cnt = @ - h.pkts]
    BY <1>4 DEF Quadro, pcap_loop
  <2> QED
    BY <2>1, <1>1, <1>4, Nomes DEF TipoH, FiltrarIgual, LigarIgual, BlocosIgual,
             PararIgual, RetIgual, IntrusosIgual, OffsetIgual
<1> QED
  BY <1>2, <1>3, <1>4

(* A frame that is not the kernel's holds a packet.                        *)
LEMMA QuadroComPacote ==
  ASSUME Tipo, NEW o \in Quadros, anel[o] # Livre
  PROVE  anel[o] \in Pacote /\ anel[o].casa \in BOOLEAN
BY DEF Tipo, Pacote

LEMMA TrataCampos ==
  ASSUME h \in TipoH, NEW r \in BOOLEAN, NEW k \in Nat, NEW b \in BOOLEAN, NEW j \in Nat,
         h' = [h EXCEPT !.pc = "solta", !.ret = r, !.pkts = k, !.break_loop = b, !.intrusos = j]
  PROVE  /\ h' \in TipoH
         /\ h'.pc = "solta" /\ h'.ret = r /\ h'.pkts = k /\ h'.break_loop = b /\ h'.intrusos = j
         /\ h'.cnt = h.cnt /\ FiltrarIgual /\ ContarIgual /\ OffsetIgual
BY Nomes DEF TipoH, FiltrarIgual, LigarIgual, BlocosIgual, ContarIgual, OffsetIgual

(* The handler is called, ignores the packet, or is not called at all.     *)
LEMMA TrataEfeito ==
  ASSUME Tipo, QuadroSeguro, Trata
  PROVE  /\ h' \in TipoH /\ tratados' \in Seq(Pacote)
         /\ h'.pc = "solta" /\ h'.ret = anel[h.offset].casa
         /\ h'.cnt = h.cnt /\ FiltrarIgual /\ ContarIgual /\ OffsetIgual
         /\ \/ /\ anel[h.offset].casa
               /\ tratados' = Append(tratados, anel[h.offset])
               /\ h'.pkts = h.pkts + 1 /\ IntrusosIgual
               /\ h'.break_loop = (h.break_loop \/ Len(tratados) + 1 = Quebra)
            \/ /\ ~anel[h.offset].casa /\ ~h.filter_in_userland
               /\ tratados' = tratados
               /\ h'.pkts = h.pkts + 1 /\ h'.intrusos = h.intrusos + 1
               /\ PararIgual
            \/ /\ ~anel[h.offset].casa /\ h.filter_in_userland
               /\ tratados' = tratados
               /\ h'.pkts = h.pkts /\ IntrusosIgual
               /\ PararIgual
<1> DEFINE p == anel[h.offset]
           entrega == ~h.filter_in_userland \/ p.casa
           r == entrega /\ p.casa
           k == IF entrega THEN h.pkts + 1 ELSE h.pkts
           b == h.break_loop \/ (p.casa /\ Len(tratados) + 1 = Quebra)
           j == IF entrega /\ ~p.casa THEN h.intrusos + 1 ELSE h.intrusos
<1>1. /\ h \in TipoH /\ h.offset \in Quadros /\ h.filter_in_userland \in BOOLEAN
      /\ h.pkts \in Nat /\ h.break_loop \in BOOLEAN /\ h.intrusos \in Nat
      /\ tratados \in Seq(Pacote)
  BY DEF Tipo, TipoH
<1>2. p \in Pacote /\ p.casa \in BOOLEAN
  BY <1>1, QuadroComPacote DEF QuadroSeguro, Trata
<1>3. r \in BOOLEAN /\ k \in Nat /\ b \in BOOLEAN /\ j \in Nat
  BY <1>1
<1>4. /\ h' = [h EXCEPT !.pc = "solta", !.ret = r, !.pkts = k, !.break_loop = b, !.intrusos = j]
      /\ tratados' = IF p.casa THEN Append(tratados, p) ELSE tratados
  BY DEF Trata
<1>5. /\ h' \in TipoH
      /\ h'.pc = "solta" /\ h'.ret = r /\ h'.pkts = k /\ h'.break_loop = b /\ h'.intrusos = j
      /\ h'.cnt = h.cnt /\ FiltrarIgual /\ ContarIgual /\ OffsetIgual
  <2> HIDE DEF r, k, b, j
  <2> QED
    BY <1>1, <1>3, <1>4, TrataCampos
<1>6. tratados' \in Seq(Pacote)
  BY <1>1, <1>2, <1>4
<1>7. r = p.casa
  BY <1>2
<1>8. CASE p.casa
  <2>1. b = (h.break_loop \/ Len(tratados) + 1 = Quebra) /\ k = h.pkts + 1 /\ j = h.intrusos
    BY <1>8
  <2> HIDE DEF r, k, b, j
  <2> QED
    BY <1>4, <1>5, <1>6, <1>7, <1>8, <2>1 DEF IntrusosIgual
<1>9. CASE ~p.casa
  <2>1. b = h.break_loop
    BY <1>1, <1>9
  <2>2. CASE h.filter_in_userland
    <3>1. k = h.pkts /\ j = h.intrusos
      BY <1>9, <2>2
    <3> QED
      BY <1>4, <1>5, <1>6, <1>7, <1>9, <2>1, <2>2, <3>1 DEF IntrusosIgual, PararIgual
  <2>3. CASE ~h.filter_in_userland
    <3>1. k = h.pkts + 1 /\ j = h.intrusos + 1
      BY <1>9, <2>3
    <3> QED
      BY <1>4, <1>5, <1>6, <1>7, <1>9, <2>1, <2>3, <3>1 DEF PararIgual
  <2> QED
    BY <2>2, <2>3
<1> QED
  BY <1>8, <1>9

(* The frame goes back, the position moves on, and a break ends the loop.  *)
LEMMA SoltaEfeito ==
  ASSUME h \in TipoH, Solta
  PROVE  /\ h' \in TipoH
         /\ h'.offset = Seguinte(h.offset) /\ ~h'.ret /\ ~h'.break_loop
         /\ h'.pc = IF h.break_loop THEN "fim" ELSE "quadro"
         /\ h.blocks_to_filter_in_userland > 0 =>
              h'.blocks_to_filter_in_userland = h.blocks_to_filter_in_userland - 1
         /\ h.blocks_to_filter_in_userland = 0 => BlocosIgual
         /\ h.blocks_to_filter_in_userland = 1 => ~h'.filter_in_userland
         /\ h.blocks_to_filter_in_userland # 1 => LigarIgual
         /\ ContarIgual /\ LerIgual /\ IntrusosIgual
<1> DEFINE b == h.blocks_to_filter_in_userland
           d == IF b > 0 THEN b - 1 ELSE b
           f == IF b = 1 THEN FALSE ELSE h.filter_in_userland
           o == Seguinte(h.offset)
           g == [h EXCEPT !.pc = "quadro", !.ret = FALSE, !.blocks_to_filter_in_userland = d,
                          !.filter_in_userland = f, !.offset = o]
<1>1. b \in Blocos /\ h.offset \in Quadros /\ h.filter_in_userland \in BOOLEAN /\ h.break_loop \in BOOLEAN
  BY DEF TipoH
<1>2. d \in Blocos /\ f \in BOOLEAN /\ o \in Quadros
  <2>1. d \in Blocos /\ o \in Quadros
    BY <1>1, Posicoes DEF Blocos
  <2>2. f \in BOOLEAN
    BY <1>1, Zenon
  <2> QED
    BY <2>1, <2>2
<1>7. /\ b > 0 => d = b - 1
      /\ b = 0 => d = b
      /\ b = 1 => ~f
      /\ b # 1 => f = h.filter_in_userland
  <2>1. (b > 0 => d = b - 1) /\ (b = 0 => d = b)
    BY <1>1 DEF Blocos
  <2>2. (b = 1 => ~f) /\ (b # 1 => f = h.filter_in_userland)
    BY Zenon
  <2> QED
    BY <2>1, <2>2
<1>3. h' = Continua(g)
  BY DEF Solta
<1>4. /\ g \in TipoH
      /\ g.pc = "quadro" /\ ~g.ret /\ g.offset = o /\ g.blocks_to_filter_in_userland = d
      /\ g.filter_in_userland = f
      /\ g.n = h.n /\ g.pos = h.pos /\ g.pkts = h.pkts /\ g.cnt = h.cnt /\ g.intrusos = h.intrusos
      /\ g.break_loop = h.break_loop /\ g.netdown = h.netdown
  <2> HIDE DEF d, f, o
  <2> QED
    BY <1>2, Nomes DEF TipoH
<1>5. CASE h.break_loop
  <2> HIDE DEF g
  <2>1. h' = [g EXCEPT !.break_loop = FALSE, !.pc = "fim"]
    BY <1>3, <1>4, <1>5 DEF Continua
  <2>2. /\ h' \in TipoH
        /\ h'.pc = "fim" /\ ~h'.break_loop /\ ~h'.ret /\ h'.offset = o
        /\ h'.blocks_to_filter_in_userland = d /\ h'.filter_in_userland = f
        /\ ContarIgual /\ LerIgual /\ IntrusosIgual
    <3> HIDE DEF d, f, o
    <3> QED
      BY <1>4, <2>1, Nomes DEF TipoH, ContarIgual, LerIgual, IntrusosIgual
  <2> HIDE DEF d, f
  <2> QED
    BY <1>1, <1>5, <1>7, <2>2 DEF BlocosIgual, LigarIgual
<1>6. CASE ~h.break_loop
  <2> HIDE DEF g
  <2>1. h' = g
    BY <1>3, <1>4, <1>6 DEF Continua
  <2>2. /\ h' \in TipoH
        /\ h'.pc = "quadro" /\ ~h'.break_loop /\ ~h'.ret /\ h'.offset = o
        /\ h'.blocks_to_filter_in_userland = d /\ h'.filter_in_userland = f
        /\ ContarIgual /\ LerIgual /\ IntrusosIgual
    <3> HIDE DEF d, f, o
    <3> QED
      BY <1>4, <1>6, <2>1 DEF ContarIgual, LerIgual, IntrusosIgual
  <2> HIDE DEF d, f
  <2> QED
    BY <1>1, <1>6, <1>7, <2>2 DEF BlocosIgual, LigarIgual
<1> QED
  BY <1>1, <1>5, <1>6
-----------------------------------------------------------------------------
(***************************************************************************)
(* The ring of frames as an interval that wraps around.                    *)
(***************************************************************************)

(* Counting from any frame reaches every frame once.                       *)
LEMMA AdianteUnico ==
  /\ \A a, i, j \in Quadros : Adiante(a, i) = Adiante(a, j) => i = j
  /\ \A a, o \in Quadros : \E i \in Quadros : Adiante(a, i) = o
<1>1. ASSUME NEW a \in Quadros, NEW i \in Quadros, NEW j \in Quadros, Adiante(a, i) = Adiante(a, j)
      PROVE  i = j
  BY <1>1, CapturaAssumption DEF Adiante, Quadros
<1>2. ASSUME NEW a \in Quadros, NEW o \in Quadros
      PROVE  \E i \in Quadros : Adiante(a, i) = o
  <2>1. CASE o >= a
    <3>1. o - a \in Quadros /\ Adiante(a, o - a) = o
      BY <2>1, CapturaAssumption DEF Adiante, Quadros
    <3> QED
      BY <3>1
  <2>2. CASE ~(o >= a)
    <3>1. o - a + cc \in Quadros /\ Adiante(a, o - a + cc) = o
      BY <2>2, CapturaAssumption DEF Adiante, Quadros
    <3> QED
      BY <3>1
  <2> QED
    BY <2>1, <2>2
<1> QED
  BY <1>1, <1>2

(* One place further on.                                                   *)
LEMMA AdianteSeguinte ==
  /\ \A a \in Quadros : \A k \in 0..(cc - 1) : (Adiante(a, k) + 1) % cc = Adiante(a, k + 1)
  /\ \A a, i \in Quadros : Adiante(Seguinte(a), i) = IF i = cc - 1 THEN a ELSE Adiante(a, i + 1)
  /\ \A a \in Quadros : \A k \in 1..cc : Adiante(Seguinte(a), k - 1) = Adiante(a, k)
BY CapturaAssumption DEF Adiante, Seguinte, Quadros

(* The kernel finds the ring full exactly when all frames are occupied.    *)
LEMMA CabecaLivre ==
  ASSUME NEW q, NEW a \in Quadros, NEW c \in Quadros, NEW k \in 0..cc, Ocupa(q, a, c, k)
  PROVE  q[c] = Livre <=> k < cc
<1>1. CASE k < cc
  BY <1>1, CapturaAssumption DEF Ocupa, Quadros
<1>2. CASE k = cc
  <2>1. c = Adiante(a, 0) /\ 0 \in Quadros /\ 0 < k
    BY <1>2, Posicoes, CapturaAssumption DEF Ocupa
  <2> QED
    BY <1>2, <2>1 DEF Ocupa
<1> QED
  BY <1>1, <1>2, CapturaAssumption

LEMMA OcupaMais ==
  ASSUME NEW q \in [Quadros -> Pacote \union {Livre}], NEW a \in Quadros, NEW c \in Quadros,
         NEW k \in 0..cc, Ocupa(q, a, c, k), q[c] = Livre, NEW p, p # Livre
  PROVE  k + 1 \in 0..cc /\ Ocupa([q EXCEPT ![c] = p], a, (c + 1) % cc, k + 1)
<1>1. k < cc /\ k \in Quadros /\ k + 1 \in 0..cc
  BY CabecaLivre, CapturaAssumption DEF Quadros
<1>2. (c + 1) % cc = Adiante(a, k + 1)
  BY <1>1, AdianteSeguinte DEF Ocupa, Quadros
<1>3. ASSUME NEW i \in Quadros
      PROVE  [q EXCEPT ![c] = p][Adiante(a, i)] # Livre <=> i < k + 1
  <2>1. Adiante(a, i) \in Quadros /\ c = Adiante(a, k)
    BY Posicoes DEF Ocupa
  <2>2. CASE i = k
    BY <2>1, <2>2 DEF Quadros
  <2>3. CASE i # k
    <3>1. Adiante(a, i) # c
      BY <2>1, <2>3, <1>1, AdianteUnico
    <3>2. [q EXCEPT ![c] = p][Adiante(a, i)] = q[Adiante(a, i)]
      BY <2>1, <3>1
    <3>3. i < k + 1 <=> i < k
      BY <2>3 DEF Quadros
    <3> QED
      BY <3>2, <3>3 DEF Ocupa
  <2> QED
    BY <2>2, <2>3
<1> QED
  BY <1>1, <1>2, <1>3 DEF Ocupa

LEMMA OcupaMenos ==
  ASSUME NEW q \in [Quadros -> Pacote \union {Livre}], NEW a \in Quadros, NEW c \in Quadros,
         NEW k \in 0..cc, Ocupa(q, a, c, k), q[a] # Livre
  PROVE  k - 1 \in 0..cc /\ Ocupa([q EXCEPT ![a] = Livre], Seguinte(a), c, k - 1)
<1>1. k > 0
  <2>1. Adiante(a, 0) = a /\ 0 \in Quadros
    BY Posicoes
  <2> QED
    BY <2>1 DEF Ocupa
<1>2. c = Adiante(Seguinte(a), k - 1) /\ k - 1 \in 0..cc
  BY <1>1, AdianteSeguinte, CapturaAssumption DEF Ocupa
<1>3. ASSUME NEW i \in Quadros
      PROVE  [q EXCEPT ![a] = Livre][Adiante(Seguinte(a), i)] # Livre <=> i < k - 1
  <2>1. CASE i = cc - 1
    <3>1. Adiante(Seguinte(a), i) = a
      BY <2>1, AdianteSeguinte
    <3> QED
      BY <2>1, <3>1, CapturaAssumption
  <2>2. CASE i # cc - 1
    <3>1. Adiante(Seguinte(a), i) = Adiante(a, i + 1) /\ i + 1 \in Quadros /\ i + 1 # 0
      BY <2>2, AdianteSeguinte, CapturaAssumption DEF Quadros
    <3>2. Adiante(a, i + 1) # a /\ Adiante(a, i + 1) \in Quadros
      BY <3>1, Posicoes, AdianteUnico
    <3>3. [q EXCEPT ![a] = Livre][Adiante(a, i + 1)] = q[Adiante(a, i + 1)]
      BY <3>2
    <3>4. q[Adiante(a, i + 1)] # Livre <=> i + 1 < k
      BY <3>1 DEF Ocupa
    <3> QED
      BY <3>1, <3>3, <3>4 DEF Quadros
  <2> QED
    BY <2>1, <2>2
<1> QED
  BY <1>2, <1>3 DEF Ocupa

(* As many frames are occupied as the interval is long.                    *)
LEMMA OcupaQuantos ==
  ASSUME NEW q \in [Quadros -> Pacote \union {Livre}], NEW a \in Quadros, NEW c,
         NEW k \in 0..cc, Ocupa(q, a, c, k)
  PROVE  Cardinality({o \in DOMAIN q : q[o] # Livre}) = k
<1> DEFINE S == {o \in DOMAIN q : q[o] # Livre}
           f == [i \in 1..k |-> Adiante(a, i - 1)]
<1>1. \A i \in 1..k : i - 1 \in Quadros /\ i - 1 < k
  BY CapturaAssumption DEF Quadros
<1>2. f \in [1..k -> S]
  <2>1. \A i \in 1..k : Adiante(a, i - 1) \in S
    BY <1>1, Posicoes DEF Ocupa
  <2> QED
    BY <2>1
<1>3. \A i, j \in 1..k : f[i] = f[j] => i = j
  <2> SUFFICES ASSUME NEW i \in 1..k, NEW j \in 1..k, f[i] = f[j]
               PROVE  i = j
    OBVIOUS
  <2>1. i - 1 = j - 1
    BY <1>1, AdianteUnico
  <2> QED
    BY <2>1
<1>4. \A o \in S : \E i \in 1..k : f[i] = o
  <2> SUFFICES ASSUME NEW o \in S
               PROVE  \E i \in 1..k : f[i] = o
    OBVIOUS
  <2>1. PICK i \in Quadros : Adiante(a, i) = o
    BY AdianteUnico
  <2>2. i < k
    BY <2>1 DEF Ocupa
  <2>3. i + 1 \in 1..k /\ f[i + 1] = o
    BY <2>1, <2>2 DEF Quadros
  <2> QED
    BY <2>3
<1>5. f \in Bijection(1..k, S)
  BY <1>2, <1>3, <1>4 DEF Bijection, Injection, IsInjective, Surjection
<1>6. k \in Nat
  BY CapturaAssumption
<1> HIDE DEF S, f
<1>7. ExistsBijection(1..k, S)
  BY <1>5, Zenon DEF ExistsBijection
<1>8. Cardinality(S) = k
  BY <1>6, <1>7, FS_CountingElements
<1> QED
  BY <1>8 DEF S

\* The queue the frames stand for, from frame a on.
Vista(q, a, k) == [i \in 1..k |-> q[Adiante(a, i - 1)]]

\* NaFila, of any frames and position.
FilaDe(q, a) ==
  [i \in 1..Cardinality({o \in DOMAIN q : q[o] # Livre}) |-> q[(a + i - 1) % cc]]

LEMMA FilaVista ==
  ASSUME NEW q \in [Quadros -> Pacote \union {Livre}], NEW a \in Quadros, NEW c,
         NEW k \in 0..cc, Ocupa(q, a, c, k)
  PROVE  FilaDe(q, a) = Vista(q, a, k)
<1>1. Cardinality({o \in DOMAIN q : q[o] # Livre}) = k
  BY OcupaQuantos
<1>2. \A i \in 1..k : (a + i - 1) % cc = Adiante(a, i - 1)
  <2> SUFFICES ASSUME NEW i \in 1..k
               PROVE  (a + i - 1) % cc = Adiante(a, i - 1)
    OBVIOUS
  <2> DEFINE x == a + i - 1
  <2>1. x \in Nat /\ x < 2 * cc /\ x = a + (i - 1)
    BY CapturaAssumption DEF Quadros
  <2> HIDE DEF x
  <2>2. x % cc = IF x >= cc THEN x - cc ELSE x
    BY <2>1, CapturaAssumption
  <2>3. Adiante(a, i - 1) = IF x >= cc THEN x - cc ELSE x
    BY <2>1, CapturaAssumption DEF Adiante, Quadros
  <2>4. x % cc = Adiante(a, i - 1)
    BY <2>2, <2>3
  <2> QED
    BY <2>4 DEF x
<1> QED
  BY <1>1, <1>2 DEF FilaDe, Vista

(* Every packet of the queue is one, and it is as long as the interval.    *)
LEMMA VistaTipo ==
  ASSUME NEW q \in [Quadros -> Pacote \union {Livre}], NEW a \in Quadros, NEW c,
         NEW k \in 0..cc, Ocupa(q, a, c, k)
  PROVE  Vista(q, a, k) \in Seq(Pacote) /\ Len(Vista(q, a, k)) = k
<1>1. k \in Nat
  BY CapturaAssumption
<1>2. \A i \in 1..k : q[Adiante(a, i - 1)] \in Pacote
  <2> TAKE i \in 1..k
  <2>1. i - 1 \in Quadros /\ i - 1 < k
    BY CapturaAssumption DEF Quadros
  <2>2. Adiante(a, i - 1) \in Quadros /\ q[Adiante(a, i - 1)] # Livre
    BY <2>1, Posicoes DEF Ocupa
  <2> QED
    BY <2>2
<1>3. Vista(q, a, k) \in [1..k -> Pacote]
  BY <1>2 DEF Vista
<1> QED
  BY <1>1, <1>3

(* Filling the next frame appends, giving the first one back takes it off. *)
LEMMA VistaMais ==
  ASSUME NEW q \in [Quadros -> Pacote \union {Livre}], NEW a \in Quadros, NEW c \in Quadros,
         NEW k \in 0..cc, Ocupa(q, a, c, k), q[c] = Livre, NEW p \in Pacote, p # Livre
  PROVE  Vista([q EXCEPT ![c] = p], a, k + 1) = Append(Vista(q, a, k), p)
<1> DEFINE w == [q EXCEPT ![c] = p]
           u == Vista(q, a, k)
<1>1. k < cc /\ k \in Quadros /\ k \in Nat /\ c = Adiante(a, k)
  <2>1. k < cc
    BY CabecaLivre
  <2> QED
    BY <2>1, CapturaAssumption DEF Quadros, Ocupa
<1>2. u \in Seq(Pacote) /\ Len(u) = k
  BY VistaTipo
<1>3. \A i \in 1..k : w[Adiante(a, i - 1)] = u[i]
  <2> TAKE i \in 1..k
  <2>1. i - 1 \in Quadros /\ i - 1 # k
    BY <1>1, CapturaAssumption DEF Quadros
  <2>2. Adiante(a, i - 1) # c /\ Adiante(a, i - 1) \in Quadros
    BY <1>1, <2>1, AdianteUnico, Posicoes
  <2>3. w[Adiante(a, i - 1)] = q[Adiante(a, i - 1)]
    BY <2>2
  <2> QED
    BY <2>3 DEF Vista
<1>4. w[Adiante(a, k + 1 - 1)] = p
  BY <1>1
<1>5. Vista(w, a, k + 1) \in Seq(Pacote) /\ Len(Vista(w, a, k + 1)) = k + 1
  <2>1. w \in [Quadros -> Pacote \union {Livre}] /\ k + 1 \in 0..cc
    BY <1>1, CapturaAssumption
  <2>2. Ocupa(w, a, (c + 1) % cc, k + 1)
    BY OcupaMais
  <2> HIDE DEF w
  <2> QED
    BY <2>1, <2>2, VistaTipo
<1>6. /\ Append(u, p) \in Seq(Pacote) /\ Len(Append(u, p)) = k + 1
      /\ \A i \in 1..k : Append(u, p)[i] = u[i]
      /\ Append(u, p)[k + 1] = p
  <2> HIDE DEF u
  <2> QED
    BY <1>2
<1>7. ASSUME NEW i \in 1..(k + 1)
      PROVE  Vista(w, a, k + 1)[i] = Append(u, p)[i]
  <2>1. Vista(w, a, k + 1)[i] = w[Adiante(a, i - 1)]
    BY DEF Vista
  <2> HIDE DEF w, u
  <2>2. CASE i \in 1..k
    BY <2>1, <2>2, <1>3, <1>6
  <2>3. CASE i = k + 1
    BY <2>1, <2>3, <1>4, <1>6
  <2>4. i \in 1..k \/ i = k + 1
    BY <1>1
  <2> QED
    BY <2>2, <2>3, <2>4
<1> QED
  <2> HIDE DEF w, u
  <2>1. Vista(w, a, k + 1) = Append(u, p)
    BY <1>5, <1>6, <1>7, SeqEqual
  <2> QED
    BY <2>1 DEF w, u

LEMMA VistaMenos ==
  ASSUME NEW q \in [Quadros -> Pacote \union {Livre}], NEW a \in Quadros, NEW c \in Quadros,
         NEW k \in 0..cc, Ocupa(q, a, c, k), q[a] # Livre
  PROVE  /\ Vista(q, a, k) # <<>> /\ Head(Vista(q, a, k)) = q[a]
         /\ Vista([q EXCEPT ![a] = Livre], Seguinte(a), k - 1) = Tail(Vista(q, a, k))
<1> DEFINE w == [q EXCEPT ![a] = Livre]
           u == Vista(q, a, k)
<1>1. k > 0 /\ k \in Nat /\ Adiante(a, 0) = a
  <2>1. Adiante(a, 0) = a /\ 0 \in Quadros
    BY Posicoes
  <2> QED
    BY <2>1, CapturaAssumption DEF Ocupa
<1>2. u \in Seq(Pacote) /\ Len(u) = k
  BY VistaTipo
<1>3. u[1] = q[a]
  BY <1>1 DEF Vista
<1>4. \A i \in 1..(k - 1) : w[Adiante(Seguinte(a), i - 1)] = u[i + 1]
  <2> SUFFICES ASSUME NEW i \in 1..(k - 1)
               PROVE  w[Adiante(Seguinte(a), i - 1)] = u[i + 1]
    OBVIOUS
  <2>1. i \in Quadros /\ i # 0 /\ i - 1 \in Quadros /\ i - 1 # cc - 1 /\ 0 \in Quadros
    BY CapturaAssumption DEF Quadros
  <2>2. Adiante(Seguinte(a), i - 1) = Adiante(a, i)
    BY <2>1, AdianteSeguinte
  <2>3. Adiante(a, i) # a /\ Adiante(a, i) \in Quadros
    BY <1>1, <2>1, AdianteUnico, Posicoes
  <2>4. w[Adiante(a, i)] = q[Adiante(a, i)]
    BY <2>3
  <2>5. u[i + 1] = q[Adiante(a, i)]
    BY <1>1 DEF Vista
  <2> QED
    BY <2>2, <2>4, <2>5
<1>5. Vista(w, Seguinte(a), k - 1) \in Seq(Pacote) /\ Len(Vista(w, Seguinte(a), k - 1)) = k - 1
  <2>1. w \in [Quadros -> Pacote \union {Livre}] /\ k - 1 \in 0..cc /\ Seguinte(a) \in Quadros
    BY OcupaMenos, Posicoes
  <2>2. Ocupa(w, Seguinte(a), c, k - 1)
    BY OcupaMenos
  <2> HIDE DEF w
  <2> QED
    BY <2>1, <2>2, VistaTipo
<1>6. u # <<>> /\ Head(u) = u[1]
  <2> HIDE DEF u
  <2> QED
    BY <1>1, <1>2
<1>7. /\ Tail(u) \in Seq(Pacote) /\ Len(Tail(u)) = k - 1
      /\ \A i \in 1..(k - 1) : Tail(u)[i] = u[i + 1]
  <2> HIDE DEF u
  <2> QED
    BY <1>2, <1>6, HeadTailProperties
<1>8. ASSUME NEW i \in 1..(k - 1)
      PROVE  Vista(w, Seguinte(a), k - 1)[i] = Tail(u)[i]
  <2>1. Vista(w, Seguinte(a), k - 1)[i] = w[Adiante(Seguinte(a), i - 1)]
    BY DEF Vista
  <2> HIDE DEF w, u
  <2> QED
    BY <2>1, <1>4, <1>7
<1> QED
  <2> HIDE DEF w, u
  <2>1. Vista(w, Seguinte(a), k - 1) = Tail(u)
    BY <1>5, <1>7, <1>8, SeqEqual
  <2> QED
    BY <2>1, <1>3, <1>6 DEF w, u
-----------------------------------------------------------------------------
(***************************************************************************)
(* The invariant of the ring is inductive.                                 *)
(***************************************************************************)
LEMMA InitInd == Init => Ind
<1> SUFFICES ASSUME Init PROVE Ind
  OBVIOUS
<1>1. h \in TipoH /\ h.pc = "ativado" /\ ~h.ret /\ h.offset = 0 /\ h.break_loop = FALSE
  BY Nomes, Posicoes, CapturaAssumption DEF Init, TipoH
<1>2. rede \in TipoRede
  BY Nomes DEF Init, TipoRede
<1>3. Tipo
  <2>1. /\ anel \in [Quadros -> Pacote \union {Livre}] /\ nucleo \in [Nucleos -> Pacote \union {Nada}]
        /\ copia \in [Nucleos -> Quadros \union {Nada}]
    BY DEF Init, Quadros
  <2> QED
    BY <1>1, <1>2, <2>1, Nomes, Posicoes DEF Init, Tipo
<1>4. AnelOK
  <2>1. \A i \in Quadros : Adiante(0, i) \in Quadros
    BY Posicoes
  <2>2. \A i \in Quadros : anel[Adiante(0, i)] = Livre /\ ~(i < 0)
    BY <2>1 DEF Init, Quadros
  <2>3. Ocupa(anel, h.offset, cabeca, 0) /\ 0 \in 0..cc
    BY <1>1, <2>2, Posicoes, CapturaAssumption DEF Ocupa, Init
  <2> QED
    BY <2>3 DEF AnelOK
<1>5. QuebraOK
  <2>1. Len(tratados) = 0 /\ Quebra \in Nat
    BY CapturaAssumption DEF Init
  <2> QED
    BY <2>1 DEF QuebraOK
<1>6. CopiaOK
  BY <1>1 DEF Init, CopiaOK
<1> QED
  BY <1>1, <1>3, <1>4, <1>5, <1>6 DEF Ind, QuadroSeguro

(* The interface and a packet on its way to the ring.                      *)
LEMMA RedeTipo ==
  ASSUME Tipo, (\E c \in Nucleos : Chega(c)) \/ Derruba \/ Levanta
  PROVE  Tipo' /\ UNCHANGED <<anel, cabeca, filtro, copia, h, tratados>>
<1>1. ASSUME NEW c \in Nucleos, Chega(c) PROVE Tipo' /\ UNCHANGED <<anel, cabeca, filtro, copia, h, tratados>>
  <2>1. rede' \in TipoRede /\ rede.chegou + 1 \in 1..MaxChegadas
    BY <1>1, CapturaAssumption DEF Chega, Tipo, TipoRede
  <2>2. PICK casa \in BOOLEAN :
          LET p == [n |-> rede.chegou + 1, casa |-> casa]
          IN nucleo' = IF Passa(p) THEN [nucleo EXCEPT ![c] = p] ELSE nucleo
    BY <1>1 DEF Chega
  <2> DEFINE p == [n |-> rede.chegou + 1, casa |-> casa]
  <2>3. p \in Pacote
    BY <2>1 DEF Pacote
  <2>4. nucleo' = IF Passa(p) THEN [nucleo EXCEPT ![c] = p] ELSE nucleo
    BY <2>2
  <2> HIDE DEF p
  <2>5. nucleo' \in [Nucleos -> Pacote \union {Nada}]
    BY <2>3, <2>4 DEF Tipo
  <2> QED
    BY <1>1, <2>1, <2>5 DEF Chega, Tipo
<1>2. CASE Derruba
  <2>1. rede' \in TipoRede
    <3>1. PICK e \in {"inativa", "removida"} :
            rede' = [rede EXCEPT !.estado = e, !.erro = TRUE, !.quedas = @ + 1]
      BY <1>2 DEF Derruba
    <3>2. e \in Estados /\ rede \in TipoRede /\ rede.quedas + 1 \in Nat
      BY <3>1, Nomes DEF Tipo, TipoRede
    <3> QED
      BY <3>1, <3>2 DEF TipoRede
  <2> QED
    BY <1>2, <2>1 DEF Derruba, Tipo
<1>3. CASE Levanta
  <2>1. rede' \in TipoRede
    BY <1>3, Nomes DEF Levanta, Tipo, TipoRede
  <2> QED
    BY <1>3, <2>1 DEF Levanta, Tipo
<1> QED
  BY <1>1, <1>2, <1>3

LEMMA RedeInd ==
  ASSUME Ind, (\E c \in Nucleos : Chega(c)) \/ Derruba \/ Levanta
  PROVE  Ind'
<1>1. Tipo' /\ UNCHANGED <<anel, cabeca, filtro, copia, h, tratados>>
  BY RedeTipo DEF Ind
<1>2. \A c \in Nucleos : copia[c] # Nada => nucleo'[c] = nucleo[c]
  <2>1. CASE Derruba \/ Levanta
    BY <2>1 DEF Derruba, Levanta
  <2>2. ASSUME NEW d \in Nucleos, Chega(d), NEW c \in Nucleos, copia[c] # Nada
        PROVE  nucleo'[c] = nucleo[c]
    <3>1. c # d
      BY <2>2 DEF Chega
    <3>2. nucleo' = nucleo \/ \E p : nucleo' = [nucleo EXCEPT ![d] = p]
      BY <2>2, Zenon DEF Chega
    <3> QED
      BY <3>1, <3>2 DEF Ind, Tipo
  <2> QED
    BY <2>1, <2>2
<1>3. CopiaOK'
  BY <1>1, <1>2 DEF Ind, CopiaOK, Copiando
<1> QED
  BY <1>1, <1>3 DEF Ind, QuadroSeguro, AnelOK, Ocupa, QuebraOK

(* The copy ends: only the frame's status changes.                         *)
LEMMA PublicaInd ==
  ASSUME Ind, NEW c \in Nucleos, Publica(c)
  PROVE  Ind' /\ UNCHANGED <<anel, cabeca, filtro, nucleo, rede, h, tratados>>
<1>1. /\ UNCHANGED <<anel, cabeca, filtro, nucleo, rede, h, tratados>>
      /\ copia' = [copia EXCEPT ![c] = Nada] /\ copia \in [Nucleos -> Quadros \union {Nada}]
      /\ h \in TipoH /\ h.offset \in Quadros
  BY DEF Publica, Ind, Tipo, TipoH
<1>2. Tipo'
  BY <1>1 DEF Ind, Tipo
<1>3. Nada # h.offset
  BY <1>1, CapturaAssumption DEF Quadros
<1>4. CopiaOK'
  BY <1>1, <1>3 DEF Ind, CopiaOK, Copiando
<1> QED
  BY <1>1, <1>2, <1>4 DEF Ind, QuadroSeguro, AnelOK, Ocupa, QuebraOK

LEMMA ReservaTipo ==
  ASSUME Tipo, NEW c \in Nucleos, Reserva(c)
  PROVE  /\ Tipo' /\ h' = h /\ tratados' = tratados /\ nucleo[c] \in Pacote
<1>1. nucleo[c] \in Pacote
  BY DEF Reserva, Tipo
<1>2. nucleo' \in [Nucleos -> Pacote \union {Nada}]
  BY DEF Reserva, Tipo
<1>3. rede' \in TipoRede
  <2>1. rede' = rede \/ rede' = [rede EXCEPT !.perdidos = @ + 1]
    BY DEF Reserva
  <2> QED
    BY <2>1 DEF Tipo, TipoRede
<1>4. cabeca' \in Quadros
  <2>1. (cabeca + 1) % cc \in Quadros
    BY CapturaAssumption DEF Tipo, Quadros
  <2> QED
    BY <2>1 DEF Reserva, Tipo
<1>5. anel' \in [Quadros -> Pacote \union {Livre}]
  <2>1. anel' = anel \/ anel' = [anel EXCEPT ![cabeca] = nucleo[c]]
    BY DEF Reserva
  <2> QED
    BY <1>1, <2>1 DEF Tipo
<1>6. copia' \in [Nucleos -> Quadros \union {Nada}]
  <2>1. copia' = copia \/ copia' = [copia EXCEPT ![c] = cabeca]
    BY DEF Reserva
  <2> QED
    BY <2>1 DEF Tipo
<1> QED
  BY <1>1, <1>2, <1>3, <1>4, <1>5, <1>6 DEF Reserva, Tipo

LEMMA ReservaInd ==
  ASSUME Ind, NEW c \in Nucleos, Reserva(c)
  PROVE  Ind'
<1>1. Tipo' /\ h' = h /\ tratados' = tratados /\ nucleo[c] \in Pacote /\ nucleo[c] # Livre
  BY ReservaTipo DEF Ind, Reserva, Livre
<1>2. /\ anel \in [Quadros -> Pacote \union {Livre}] /\ h.offset \in Quadros /\ cabeca \in Quadros
      /\ nucleo \in [Nucleos -> Pacote \union {Nada}] /\ nucleo' = [nucleo EXCEPT ![c] = Nada]
      /\ copia \in [Nucleos -> Quadros \union {Nada}]
  BY DEF Ind, Tipo, TipoH, Reserva
<1>3. PICK k \in 0..cc : Ocupa(anel, h.offset, cabeca, k)
  BY DEF Ind, AnelOK
<1>4. CASE anel[cabeca] = Livre
  <2>1. anel' = [anel EXCEPT ![cabeca] = nucleo[c]] /\ cabeca' = (cabeca + 1) % cc
    BY <1>4 DEF Reserva
  <2>2. k + 1 \in 0..cc /\ Ocupa(anel', h'.offset, cabeca', k + 1)
    <3>1. k + 1 \in 0..cc /\ Ocupa([anel EXCEPT ![cabeca] = nucleo[c]], h.offset, (cabeca + 1) % cc, k + 1)
      BY <1>1, <1>2, <1>3, <1>4, OcupaMais
    <3> QED
      BY <1>1, <2>1, <3>1
  <2>3. AnelOK'
    BY <2>2 DEF AnelOK, Ocupa
  <2>4. anel[h.offset] # Livre => anel'[h.offset] = anel[h.offset]
    BY <1>2, <1>4, <2>1
  <2>5. QuadroSeguro'
    BY <1>1, <2>4 DEF Ind, QuadroSeguro
  <2>6. copia' = [copia EXCEPT ![c] = cabeca]
    BY <1>4 DEF Reserva
  <2>7. ASSUME NEW d \in Nucleos, copia'[d] # Nada
        PROVE  nucleo'[d] = Nada /\ anel'[copia'[d]] # Livre
    <3>1. CASE d = c
      BY <1>1, <1>2, <2>1, <2>6, <3>1
    <3>2. CASE d # c
      <4>1. copia'[d] = copia[d] /\ nucleo'[d] = nucleo[d] /\ copia[d] \in Quadros
        BY <1>2, <2>6, <2>7, <3>2
      <4>2. nucleo[d] = Nada /\ anel[copia[d]] # Livre
        BY <2>7, <4>1 DEF Ind, CopiaOK
      <4> QED
        BY <1>1, <1>2, <2>1, <4>1, <4>2
    <3> QED
      BY <3>1, <3>2
  <2>8. h.pc \in {"trata", "solta"} => cabeca # h.offset /\ ~Copiando(h.offset)
    BY <1>4 DEF Ind, QuadroSeguro, CopiaOK
  <2>9. CopiaOK'
    BY <1>1, <1>2, <2>6, <2>7, <2>8 DEF CopiaOK, Copiando
  <2> QED
    BY <1>1, <2>3, <2>5, <2>9 DEF Ind, QuebraOK
<1>5. CASE anel[cabeca] # Livre
  <2>1. anel' = anel /\ cabeca' = cabeca /\ copia' = copia
    BY <1>5 DEF Reserva
  <2>2. CopiaOK'
    BY <1>1, <1>2, <2>1 DEF Ind, CopiaOK, Copiando
  <2> QED
    BY <1>1, <2>1, <2>2 DEF Ind, QuadroSeguro, AnelOK, Ocupa, QuebraOK
<1> QED
  BY <1>4, <1>5

(* The steps of the library that touch neither frame nor packet.           *)
LEMMA SemTocar ==
  ASSUME Ind, h' \in TipoH, filtro' \in Filtros, rede' \in TipoRede,
         UNCHANGED <<anel, cabeca, nucleo, copia, tratados>>,
         h.pc \notin {"solta", "fim"}, h'.pc # "solta",
         h'.pc = "trata" => Publicado(h.offset), OffsetIgual, RetIgual
  PROVE  Ind'
<1>1. Tipo'
  BY DEF Ind, Tipo
<1>2. QuadroSeguro' /\ CopiaOK'
  <2>1. h'.pc = "trata" => anel[h.offset] # Livre /\ ~Copiando(h.offset)
    BY DEF Publicado
  <2>2. QuadroSeguro'
    BY <2>1 DEF Ind, QuadroSeguro, OffsetIgual, RetIgual
  <2>3. CopiaOK'
    BY <2>1 DEF Ind, CopiaOK, Copiando, OffsetIgual
  <2> QED
    BY <2>2, <2>3
<1>3. AnelOK'
  BY DEF Ind, AnelOK, Ocupa, OffsetIgual
<1>4. QuebraOK'
  BY DEF Ind, QuebraOK
<1> QED
  BY <1>1, <1>2, <1>3, <1>4 DEF Ind

LEMMA TrataInd ==
  ASSUME Ind, Trata
  PROVE  Ind'
<1>1. Tipo /\ QuadroSeguro /\ h.pc = "trata" /\ anel[h.offset] # Livre
  BY DEF Ind, QuadroSeguro, Trata
<1>2. /\ h' \in TipoH /\ tratados' \in Seq(Pacote)
      /\ h'.pc = "solta" /\ h'.ret = anel[h.offset].casa /\ h'.offset = h.offset
  BY <1>1, TrataEfeito DEF OffsetIgual
<1>3. UNCHANGED <<anel, cabeca, filtro, nucleo, copia, rede>>
  BY DEF Trata
<1>4. Tipo'
  BY <1>1, <1>2, <1>3 DEF Tipo
<1>5. QuadroSeguro' /\ CopiaOK' /\ AnelOK'
  BY <1>1, <1>2, <1>3 DEF Ind, QuadroSeguro, CopiaOK, Copiando, AnelOK, Ocupa
<1>6. QuebraOK'
  <2> SUFFICES ASSUME Quebra # 0
               PROVE  \/ Len(tratados') < Quebra
                      \/ Len(tratados') = Quebra /\ h'.pc = "solta" /\ h'.break_loop
    BY DEF QuebraOK
  <2>1. Len(tratados) < Quebra /\ Len(tratados) \in Nat /\ Quebra \in Nat
    BY <1>1, CapturaAssumption DEF Ind, QuebraOK, Tipo
  <2>2. CASE tratados' = tratados
    BY <2>1, <2>2
  <2>3. CASE tratados' = Append(tratados, anel[h.offset]) /\
             h'.break_loop = (h.break_loop \/ Len(tratados) + 1 = Quebra)
    <3>1. Len(tratados') = Len(tratados) + 1
      BY <1>1, <2>3 DEF Tipo
    <3>2. Len(tratados) + 1 = Quebra => h'.break_loop
      BY <2>3
    <3> QED
      BY <1>2, <2>1, <3>1, <3>2
  <2> QED
    BY <1>1, <2>2, <2>3, TrataEfeito
<1> QED
  BY <1>4, <1>5, <1>6 DEF Ind

LEMMA SoltaInd ==
  ASSUME Ind, Solta
  PROVE  Ind'
<1>1. /\ anel \in [Quadros -> Pacote \union {Livre}] /\ h.offset \in Quadros /\ cabeca \in Quadros
      /\ h \in TipoH /\ h.pc = "solta" /\ anel[h.offset] # Livre
  BY DEF Ind, Tipo, TipoH, QuadroSeguro, Solta
<1>2. /\ anel' = [anel EXCEPT ![h.offset] = Livre]
      /\ UNCHANGED <<cabeca, filtro, nucleo, copia, rede, tratados>>
  BY DEF Solta
<1>3. /\ h' \in TipoH /\ h'.offset = Seguinte(h.offset) /\ ~h'.ret
      /\ h'.pc = IF h.break_loop THEN "fim" ELSE "quadro"
  BY <1>1, SoltaEfeito
<1>4. Tipo'
  BY <1>1, <1>2, <1>3 DEF Ind, Tipo
<1>5. QuadroSeguro'
  BY <1>3 DEF QuadroSeguro
<1>6. AnelOK'
  <2>1. PICK k \in 0..cc : Ocupa(anel, h.offset, cabeca, k)
    BY DEF Ind, AnelOK
  <2>2. k - 1 \in 0..cc /\ Ocupa(anel', h'.offset, cabeca', k - 1)
    BY <1>1, <1>2, <1>3, <2>1, OcupaMenos
  <2> QED
    BY <2>2 DEF AnelOK, Ocupa
<1>7. QuebraOK'
  BY <1>1, <1>2, <1>3 DEF Ind, QuebraOK
<1>8. CopiaOK'
  <2>1. \A c \in Nucleos : copia[c] # h.offset
    BY <1>1 DEF Ind, CopiaOK, Copiando
  <2>2. \A c \in Nucleos : copia[c] # Nada => nucleo[c] = Nada /\ anel[copia[c]] # Livre
                                              /\ copia[c] \in Quadros
    BY DEF Ind, CopiaOK, Tipo
  <2> QED
    BY <1>1, <1>2, <1>3, <2>1, <2>2 DEF CopiaOK
<1> QED
  BY <1>4, <1>5, <1>6, <1>7, <1>8 DEF Ind

LEMMA NextInd == Ind /\ [Next]_vars => Ind'
<1> SUFFICES ASSUME Ind, [Next]_vars PROVE Ind'
  OBVIOUS
<1>1. h \in TipoH /\ rede \in TipoRede /\ filtro \in Filtros
  BY DEF Ind, Tipo
<1>2. CASE (\E c \in Nucleos : Chega(c)) \/ Derruba \/ Levanta
  BY <1>2, RedeInd
<1>3. ASSUME NEW c \in Nucleos, Reserva(c) \/ Publica(c) PROVE Ind'
  BY <1>3, ReservaInd, PublicaInd
<1>4. CASE FiltroTotal
  BY <1>1, <1>4, FiltroTotalResto, FiltroTotalEfeito, SemTocar
<1>5. CASE Anexa
  <2>1. filtro' \in Filtros /\ rede' = rede /\ UNCHANGED <<anel, cabeca, nucleo, copia, tratados>> /\ h.pc = "anexa"
    BY <1>1, <1>5, Nomes DEF Anexa
  <2> QED
    BY <1>1, <1>5, <2>1, AnexaEfeito, SemTocar
<1>6. CASE Conta
  <2>1. UNCHANGED <<filtro, rede, anel, cabeca, nucleo, copia, tratados>> /\ h.pc = "conta"
    BY <1>6 DEF Conta
  <2> QED
    BY <1>1, <1>6, <2>1, ContaEfeito, SemTocar
<1>7. CASE Le
  <2>1. UNCHANGED <<filtro, rede, anel, cabeca, nucleo, copia, tratados>> /\ h.pc = "le"
    BY <1>7 DEF Le
  <2> QED
    BY <1>1, <1>7, <2>1, LeEfeito, SemTocar
<1>8. CASE EsperaErro \/ EsperaPacote \/ EsperaTempo
  <2>1. UNCHANGED <<filtro, anel, cabeca, nucleo, copia, tratados>>
    BY <1>8 DEF EsperaErro, EsperaPacote, EsperaTempo
  <2>2. rede' \in TipoRede
    <3>1. rede' = rede \/ rede' = [rede EXCEPT !.erro = FALSE]
      BY <1>8 DEF EsperaErro, EsperaPacote, EsperaTempo
    <3> QED
      BY <1>1, <3>1 DEF TipoRede
  <2> QED
    BY <1>1, <1>8, <2>1, <2>2, EsperaEfeito, SemTocar
<1>9. CASE Quadro
  <2>1. UNCHANGED <<filtro, rede, anel, cabeca, nucleo, copia, tratados>> /\ h.pc = "quadro"
    BY <1>9 DEF Quadro
  <2> QED
    BY <1>1, <1>9, <2>1, QuadroEfeito, SemTocar
<1>10. CASE Trata
  BY <1>10, TrataInd
<1>11. CASE Solta
  BY <1>11, SoltaInd
<1>12. CASE Falha
  BY <1>1, <1>12, FalhaEfeito, SemTocar
<1>13. CASE UNCHANGED vars
  BY <1>13 DEF vars, Ind, Tipo, QuadroSeguro, CopiaOK, Copiando, AnelOK, Ocupa, QuebraOK
<1> QED
  BY <1>2, <1>3, <1>4, <1>5, <1>6, <1>7, <1>8, <1>9, <1>10, <1>11, <1>12, <1>13 DEF Next, Biblioteca

LEMMA IndImplica == Ind => TypeOK
BY DEF Ind, Tipo, TipoH, TypeOK, Quadros, Blocos, Filtros

LEMMA Invariante == Spec => []Ind
BY InitInd, NextInd, PTL DEF Spec

(* The positions in the ring and the count of frames to filter stay in     *)
(* range, and every frame and every call of the handler has a packet: in   *)
(* any run of the capture, however large the ring.                         *)
THEOREM TipoCorretoCaptura == Spec => []TypeOK
BY Invariante, IndImplica, PTL

\* The frame before the kernel's is the last one occupied, if there is one.
LEMMA UltimoOcupado ==
  ASSUME NEW q, NEW a \in Quadros, NEW c \in Quadros, NEW k \in 0..cc, Ocupa(q, a, c, k)
  PROVE  /\ k = 0 => \A o \in Quadros : q[o] = Livre
         /\ k # 0 => q[(c - 1) % cc] # Livre /\ q[a] # Livre
<1>1. cc \in Nat /\ cc > 0 /\ a \in Int /\ k \in Int
  BY CapturaAssumption DEF Quadros
<1>2. ASSUME k = 0 PROVE \A o \in Quadros : q[o] = Livre
  <2> TAKE o \in Quadros
  <2>1. PICK i \in Quadros : Adiante(a, i) = o
    BY AdianteUnico
  <2> QED
    BY <1>2, <2>1 DEF Ocupa, Quadros
<1>3. ASSUME k # 0 PROVE q[(c - 1) % cc] # Livre /\ q[a] # Livre
  <2>1. k - 1 \in Quadros /\ 0 \in Quadros /\ k - 1 < k /\ 0 < k
    BY <1>1, <1>3 DEF Quadros
  <2>2. (c - 1) % cc = Adiante(a, k - 1)
    BY <1>1, <1>3 DEF Ocupa, Adiante, Quadros
  <2>3. Adiante(a, 0) = a
    BY <1>1 DEF Adiante, Quadros
  <2> QED
    BY <2>1, <2>2, <2>3 DEF Ocupa
<1> QED
  BY <1>2, <1>3

(* A sleeping library with a packet to read, or a wake-up for a frame that *)
(* is not there, is always the matter of a copy that has not ended: no     *)
(* lost wake-up, for any ring, any processors and any order in which they  *)
(* publish their frames.                                                   *)
THEOREM PollAcorda == Spec => []DespertaExato
<1>1. Ind => DespertaExato
  <2> SUFFICES ASSUME Ind PROVE DespertaExato
    OBVIOUS
  <2>1. h.offset \in Quadros /\ cabeca \in Quadros
    BY DEF Ind, Tipo, TipoH
  <2>2. PICK k \in 0..cc : Ocupa(anel, h.offset, cabeca, k)
    BY DEF Ind, AnelOK
  <2>3. k = 0 => \A o \in Quadros : anel[o] = Livre
    BY <2>1, <2>2, UltimoOcupado
  <2>4. k # 0 => anel[(cabeca - 1) % cc] # Livre /\ anel[h.offset] # Livre
    BY <2>1, <2>2, UltimoOcupado
  <2>5. (cabeca - 1) % cc \in Quadros
    BY <2>1, CapturaAssumption DEF Quadros
  <2>6. \A o \in Quadros : Publicado(o) => k # 0
    BY <2>3 DEF Publicado
  <2>7. ~Publicado((cabeca - 1) % cc) /\ k # 0 => Copiando((cabeca - 1) % cc)
    BY <2>4 DEF Publicado
  <2>8. Publicado((cabeca - 1) % cc) => Publicado(h.offset) \/ Copiando(h.offset)
    BY <2>4, <2>5, <2>6 DEF Publicado
  <2> QED
    BY <2>6, <2>7, <2>8, Zenon DEF DespertaExato, POLLIN, packet_mmap_acquire, Quadros
<1> QED
  BY <1>1, Invariante, PTL
-----------------------------------------------------------------------------
(***************************************************************************)
(* The ring implements the queue.                                          *)
(***************************************************************************)
LEMMA InitFila == Init => Fila!Init
<1> SUFFICES ASSUME Init PROVE Fila!Init
  OBVIOUS
<1>1. Ind
  BY InitInd
<1>2. anel \in [Quadros -> Pacote \union {Livre}] /\ h.offset \in Quadros
  BY <1>1 DEF Ind, Tipo, TipoH
<1>3. Ocupa(anel, h.offset, cabeca, 0) /\ 0 \in 0..cc
  <2>1. h.offset = 0 /\ \A i \in Quadros : Adiante(0, i) \in Quadros /\ ~(i < 0)
    BY Posicoes DEF Init, Quadros
  <2>2. \A i \in Quadros : anel[Adiante(0, i)] = Livre
    BY <2>1 DEF Init, Quadros
  <2>3. cabeca = 0 /\ cc \in Nat /\ cc > 0
    BY CapturaAssumption DEF Init
  <2>4. Adiante(0, 0) = 0 /\ 0 \in 0..cc
    BY <2>3 DEF Adiante
  <2> QED
    BY <2>1, <2>2, <2>3, <2>4 DEF Ocupa
<1>4. NaFila = FilaDe(anel, h.offset)
  BY DEF NaFila, FilaDe
<1>5. NaFila = Vista(anel, h.offset, 0)
  BY <1>2, <1>3, <1>4, FilaVista
<1>6. NaFila \in Seq(Pacote) /\ Len(NaFila) = 0
  BY <1>2, <1>3, <1>5, VistaTipo
<1>7. NaFila = <<>>
  BY <1>6, EmptySeq
<1> QED
  BY <1>7 DEF Init, Fila!Init

(* Steps that leave the frames, the handler and the losses alone are       *)
(* invisible in the queue.                                                 *)
LEMMA Invisivel ==
  ASSUME anel' = anel, OffsetIgual, RetIgual, tratados' = tratados, rede'.perdidos = rede.perdidos
  PROVE  UNCHANGED Fila!vars
<1>1. NaFila = FilaDe(anel, h.offset) /\ NaFila' = FilaDe(anel', h'.offset)
  BY DEF NaFila, FilaDe
<1>2. NaFila' = NaFila
  BY <1>1 DEF OffsetIgual
<1> QED
  BY <1>2 DEF Fila!vars, RetIgual

LEMMA ReservaFila ==
  ASSUME Ind, NEW c \in Nucleos, Reserva(c)
  PROVE  Fila!Next
<1>1. h' = h /\ tratados' = tratados /\ nucleo[c] \in Pacote /\ nucleo[c] # Livre
  BY ReservaTipo DEF Ind, Reserva, Livre
<1>2. anel \in [Quadros -> Pacote \union {Livre}] /\ h.offset \in Quadros /\ cabeca \in Quadros
  BY DEF Ind, Tipo, TipoH
<1>3. PICK k \in 0..cc : Ocupa(anel, h.offset, cabeca, k)
  BY DEF Ind, AnelOK
<1>4. NaFila = FilaDe(anel, h.offset) /\ NaFila' = FilaDe(anel', h'.offset)
  BY DEF NaFila, FilaDe
<1>5. NaFila = Vista(anel, h.offset, k) /\ Len(NaFila) = k
  BY <1>2, <1>3, <1>4, FilaVista, VistaTipo
<1>6. CASE anel[cabeca] = Livre
  <2> DEFINE w == [anel EXCEPT ![cabeca] = nucleo[c]]
  <2>1. anel' = w /\ rede' = rede
    BY <1>6 DEF Reserva
  <2>2. k < cc
    BY <1>2, <1>3, <1>6, CabecaLivre
  <2>3. k + 1 \in 0..cc /\ Ocupa(w, h.offset, (cabeca + 1) % cc, k + 1)
    BY <1>1, <1>2, <1>3, <1>6, OcupaMais
  <2>4. Vista(w, h.offset, k + 1) = Append(Vista(anel, h.offset, k), nucleo[c])
    BY <1>1, <1>2, <1>3, <1>6, VistaMais
  <2>5. w \in [Quadros -> Pacote \union {Livre}]
    BY <1>1, <1>2
  <2> HIDE DEF w
  <2>6. FilaDe(w, h.offset) = Vista(w, h.offset, k + 1)
    BY <1>2, <2>3, <2>5, FilaVista
  <2>7. NaFila' = Append(NaFila, nucleo[c])
    BY <1>1, <1>4, <1>5, <2>1, <2>4, <2>6
  <2>8. Fila!Guarda(nucleo[c])
    BY <1>1, <1>5, <2>1, <2>2, <2>7 DEF Fila!Guarda
  <2> QED
    BY <1>1, <2>8 DEF Fila!Next
<1>7. CASE anel[cabeca] # Livre
  <2>1. anel' = anel /\ rede' = [rede EXCEPT !.perdidos = @ + 1]
    BY <1>7 DEF Reserva
  <2>2. rede'.perdidos = rede.perdidos + 1
    BY <2>1 DEF Ind, Tipo, TipoRede
  <2>3. k = cc
    BY <1>2, <1>3, <1>7, CabecaLivre, CapturaAssumption
  <2>4. NaFila' = NaFila
    BY <1>1, <1>4, <2>1
  <2>5. Fila!Perde
    BY <1>1, <1>5, <2>2, <2>3, <2>4 DEF Fila!Perde
  <2> QED
    BY <2>5 DEF Fila!Next
<1> QED
  BY <1>6, <1>7

(* The library's frame is the head of the queue.                           *)
LEMMA CabecaDaFila ==
  ASSUME Ind, anel[h.offset] # Livre
  PROVE  NaFila # <<>> /\ Head(NaFila) = anel[h.offset]
<1>1. anel \in [Quadros -> Pacote \union {Livre}] /\ h.offset \in Quadros /\ cabeca \in Quadros
  BY DEF Ind, Tipo, TipoH
<1>2. PICK k \in 0..cc : Ocupa(anel, h.offset, cabeca, k)
  BY DEF Ind, AnelOK
<1>3. NaFila = FilaDe(anel, h.offset)
  BY DEF NaFila, FilaDe
<1>4. NaFila = Vista(anel, h.offset, k)
  BY <1>1, <1>2, <1>3, FilaVista
<1> QED
  BY <1>1, <1>2, <1>4, VistaMenos

LEMMA TrataFila ==
  ASSUME Ind, Trata
  PROVE  Fila!Next \/ UNCHANGED Fila!vars
<1>1. Tipo /\ QuadroSeguro /\ h.pc = "trata" /\ anel[h.offset] # Livre /\ ~h.ret
  BY DEF Ind, QuadroSeguro, Trata
<1>2. h.ret \in BOOLEAN /\ h.offset \in Quadros
  BY <1>1 DEF Tipo, TipoH
<1>3. anel[h.offset].casa \in BOOLEAN
  BY <1>1, <1>2, QuadroComPacote
<1>4. h'.ret = anel[h.offset].casa /\ OffsetIgual
  BY <1>1, TrataEfeito
<1>5. anel' = anel /\ rede' = rede
  BY DEF Trata
<1>6. CASE anel[h.offset].casa
  <2>1. tratados' = Append(tratados, anel[h.offset])
    BY <1>6 DEF Trata
  <2>2. NaFila # <<>> /\ Head(NaFila) = anel[h.offset]
    BY <1>1, CabecaDaFila
  <2>3. NaFila' = NaFila
    <3>1. NaFila = FilaDe(anel, h.offset) /\ NaFila' = FilaDe(anel', h'.offset)
      BY DEF NaFila, FilaDe
    <3> QED
      BY <3>1, <1>4, <1>5 DEF OffsetIgual
  <2>4. Quebra = 0 \/ Len(tratados) < Quebra
    BY <1>1 DEF Ind, QuebraOK
  <2>5. h'.ret = TRUE
    BY <1>3, <1>4, <1>6
  <2>6. Fila!Entrega
    BY <1>1, <1>5, <1>6, <2>1, <2>2, <2>3, <2>4, <2>5 DEF Fila!Entrega
  <2> QED
    BY <2>6 DEF Fila!Next
<1>7. CASE ~anel[h.offset].casa
  <2>1. tratados' = tratados
    BY <1>7 DEF Trata
  <2>2. h'.ret = h.ret
    BY <1>1, <1>2, <1>3, <1>4, <1>7
  <2> QED
    BY <1>4, <1>5, <2>1, <2>2, Invisivel DEF RetIgual
<1> QED
  BY <1>6, <1>7

LEMMA SoltaFila ==
  ASSUME Ind, Solta
  PROVE  Fila!Next
<1>1. /\ anel \in [Quadros -> Pacote \union {Livre}] /\ h.offset \in Quadros /\ cabeca \in Quadros
      /\ h \in TipoH /\ h.pc = "solta" /\ anel[h.offset] # Livre /\ h.ret = anel[h.offset].casa
  BY DEF Ind, Tipo, TipoH, QuadroSeguro, Solta
<1> DEFINE w == [anel EXCEPT ![h.offset] = Livre]
<1>2. anel' = w /\ rede' = rede /\ tratados' = tratados
  BY DEF Solta
<1>3. h' \in TipoH /\ h'.offset = Seguinte(h.offset) /\ ~h'.ret
  BY <1>1, SoltaEfeito
<1>4. PICK k \in 0..cc : Ocupa(anel, h.offset, cabeca, k)
  BY DEF Ind, AnelOK
<1>5. k - 1 \in 0..cc /\ Ocupa(w, Seguinte(h.offset), cabeca, k - 1)
  BY <1>1, <1>4, OcupaMenos
<1>6. Vista(w, Seguinte(h.offset), k - 1) = Tail(Vista(anel, h.offset, k))
  BY <1>1, <1>4, VistaMenos
<1>7. w \in [Quadros -> Pacote \union {Livre}] /\ Seguinte(h.offset) \in Quadros
  BY <1>1, Posicoes
<1> HIDE DEF w
<1>8. NaFila = FilaDe(anel, h.offset) /\ NaFila' = FilaDe(anel', h'.offset)
  BY DEF NaFila, FilaDe
<1>9. FilaDe(anel, h.offset) = Vista(anel, h.offset, k)
  BY <1>1, <1>4, FilaVista
<1>10. FilaDe(w, Seguinte(h.offset)) = Vista(w, Seguinte(h.offset), k - 1)
  BY <1>5, <1>7, FilaVista
<1>11. NaFila' = Tail(NaFila)
  BY <1>2, <1>3, <1>6, <1>8, <1>9, <1>10
<1>12. NaFila # <<>> /\ Head(NaFila) = anel[h.offset]
  BY <1>1, CabecaDaFila
<1>13. h'.ret = FALSE
  <2>1. h'.ret \in BOOLEAN
    BY <1>3 DEF TipoH
  <2> QED
    BY <1>3, <2>1
<1>14. Fila!Retira
  BY <1>1, <1>2, <1>11, <1>12, <1>13 DEF Fila!Retira
<1> QED
  BY <1>14 DEF Fila!Next

LEMMA NextFila == Ind /\ [Next]_vars => [Fila!Next]_Fila!vars
<1> SUFFICES ASSUME Ind, [Next]_vars PROVE Fila!Next \/ UNCHANGED Fila!vars
  OBVIOUS
<1>1. h \in TipoH /\ rede \in TipoRede
  BY DEF Ind, Tipo
<1>2. CASE (\E c \in Nucleos : Chega(c)) \/ Derruba \/ Levanta
  <2>1. anel' = anel /\ h' = h /\ tratados' = tratados
    BY <1>2 DEF Chega, Derruba, Levanta
  <2>2. rede'.perdidos = rede.perdidos
    BY <1>1, <1>2 DEF Chega, Derruba, Levanta, TipoRede
  <2> QED
    BY <2>1, <2>2, Invisivel DEF OffsetIgual, RetIgual
<1>3. ASSUME NEW c \in Nucleos, Reserva(c) \/ Publica(c) PROVE Fila!Next \/ UNCHANGED Fila!vars
  <2>1. CASE Reserva(c)
    BY <2>1, ReservaFila
  <2>2. CASE Publica(c)
    <3>1. anel' = anel /\ h' = h /\ tratados' = tratados /\ rede' = rede
      BY <2>2 DEF Publica
    <3> QED
      BY <3>1, Invisivel DEF OffsetIgual, RetIgual
  <2> QED
    BY <1>3, <2>1, <2>2
<1>4. CASE Anexa \/ Conta \/ Le \/ Quadro
  <2>1. anel' = anel /\ rede' = rede /\ tratados' = tratados
    BY <1>4 DEF Anexa, Conta, Le, Quadro
  <2>2. OffsetIgual /\ RetIgual
    BY <1>1, <1>4, AnexaEfeito, ContaEfeito, LeEfeito, QuadroEfeito
  <2> QED
    BY <2>1, <2>2, Invisivel
<1>9. CASE FiltroTotal \/ Falha
  <2>1. filtro \in Filtros
    BY DEF Ind, Tipo
  <2>2. anel' = anel /\ tratados' = tratados /\ rede'.perdidos = rede.perdidos /\ OffsetIgual /\ RetIgual
    BY <1>1, <1>9, <2>1, FiltroTotalEfeito, FiltroTotalResto, FalhaEfeito
  <2> QED
    BY <2>2, Invisivel
<1>5. CASE EsperaErro \/ EsperaPacote \/ EsperaTempo
  <2>1. anel' = anel /\ tratados' = tratados
    BY <1>5 DEF EsperaErro, EsperaPacote, EsperaTempo
  <2>2. rede'.perdidos = rede.perdidos
    BY <1>1, <1>5 DEF EsperaErro, EsperaPacote, EsperaTempo, TipoRede
  <2>3. OffsetIgual /\ RetIgual
    BY <1>1, <1>5, EsperaEfeito
  <2> QED
    BY <2>1, <2>2, <2>3, Invisivel
<1>6. CASE Trata
  BY <1>6, TrataFila
<1>7. CASE Solta
  BY <1>7, SoltaFila
<1>8. CASE UNCHANGED vars
  BY <1>8, Invisivel DEF vars, OffsetIgual, RetIgual
<1> QED
  BY <1>2, <1>3, <1>4, <1>5, <1>6, <1>7, <1>8, <1>9 DEF Next, Biblioteca

(* The ring of status words, walked by the kernel and by the library at    *)
(* their own pace, implements the bounded queue for any number of frames,  *)
(* processors and packets: order is kept, nothing is handed over twice or  *)
(* after pcap_breakloop, and only a full ring loses packets.               *)
THEOREM AnelImplementaFila == Spec => ImplementaFila
<1>1. Init => Fila!Init
  BY InitFila
<1>2. Ind /\ [Next]_vars => [Fila!Next]_Fila!vars
  BY NextFila
<1> QED
  BY <1>1, <1>2, Invariante, PTL DEF Spec, ImplementaFila, Fila!Spec
-----------------------------------------------------------------------------
(***************************************************************************)
(* The count of pcap_loop.                                                 *)
(***************************************************************************)
LEMMA InitConta == Init => ContaOK /\ FimOK
<1> SUFFICES ASSUME Init PROVE ContaOK /\ FimOK
  OBVIOUS
<1>1. /\ h.pc = "ativado" /\ h.pkts = 0 /\ h.cnt = cnt /\ h.intrusos = 0 /\ h.break_loop = FALSE
      /\ Len(tratados) = 0 /\ cnt \in Nat
  BY CapturaAssumption DEF Init
<1> QED
  BY <1>1 DEF ContaOK, FimOK


LEMMA TrataConta ==
  ASSUME Quebra = 0, IndConta, Trata
  PROVE  ContaOK' /\ FimOK'
<1>1. Tipo /\ QuadroSeguro /\ h.pc = "trata" /\ ~h.break_loop
  BY DEF IndConta, Ind, FimOK, Trata
<1>2. /\ h.pkts \in Nat /\ h.cnt \in Int /\ h.intrusos \in Nat /\ Len(tratados) \in Nat
      /\ tratados \in Seq(Pacote)
  BY <1>1 DEF Tipo, TipoH
<1>3. h'.pc = "solta" /\ h'.cnt = h.cnt
  BY <1>1, TrataEfeito
<1>4. \E d, e \in {0, 1} :
        /\ Len(tratados') = Len(tratados) + d
        /\ h'.intrusos = h.intrusos + e
        /\ h'.pkts = h.pkts + d + e
        /\ d + e <= 1
  <2>1. CASE tratados' = Append(tratados, anel[h.offset]) /\ h'.pkts = h.pkts + 1 /\ IntrusosIgual
    <3>1. Len(tratados') = Len(tratados) + 1
      BY <1>2, <2>1
    <3>2. h'.intrusos = h.intrusos + 0 /\ h'.pkts = h.pkts + 1 + 0 /\ 1 + 0 <= 1
      BY <1>2, <2>1 DEF IntrusosIgual
    <3> QED
      BY <3>1, <3>2
  <2>2. CASE tratados' = tratados /\ h'.pkts = h.pkts + 1 /\ h'.intrusos = h.intrusos + 1
    <3>1. Len(tratados') = Len(tratados) + 0 /\ h'.pkts = h.pkts + 0 + 1 /\ 0 + 1 <= 1
      BY <1>2, <2>2
    <3> QED
      BY <2>2, <3>1
  <2>3. CASE tratados' = tratados /\ h'.pkts = h.pkts /\ IntrusosIgual
    <3>1. Len(tratados') = Len(tratados) + 0 /\ h'.pkts = h.pkts + 0 + 0 /\ h'.intrusos = h.intrusos + 0 /\ 0 + 0 <= 1
      BY <1>2, <2>3 DEF IntrusosIgual
    <3> QED
      BY <3>1
  <2> QED
    BY <1>1, <2>1, <2>2, <2>3, TrataEfeito
<1>5. ~h'.break_loop
  <2>1. Len(tratados) + 1 # Quebra
    BY <1>2
  <2> QED
    BY <1>1, <2>1, TrataEfeito DEF PararIgual
<1>6. ContaOK'
  <2> SUFFICES ASSUME cnt > 0
               PROVE  /\ h'.pkts <= h'.cnt
                      /\ Len(tratados') + h'.intrusos + h'.cnt - h'.pkts = cnt
    BY <1>3 DEF ContaOK
  <2>1. h.pkts < h.cnt /\ Len(tratados) + h.intrusos + h.cnt - h.pkts = cnt
    BY <1>1 DEF IndConta, ContaOK
  <2>2. PICK d, e \in {0, 1} :
        /\ Len(tratados') = Len(tratados) + d
        /\ h'.intrusos = h.intrusos + e
        /\ h'.pkts = h.pkts + d + e
        /\ d + e <= 1
    BY <1>4
  <2>3. h.pkts + d + e <= h.cnt
    BY <1>2, <2>1, <2>2
  <2>4. (Len(tratados) + d) + (h.intrusos + e) + h.cnt - (h.pkts + d + e) = cnt
    <3>1. \A l, i, k \in Nat : \A c \in Int :
            (l + d) + (i + e) + c - (k + d + e) = l + i + c - k
      BY <2>2
    <3> QED
      BY <1>2, <2>1, <3>1
  <2> QED
    BY <1>3, <2>2, <2>3, <2>4
<1> QED
  BY <1>3, <1>5, <1>6 DEF FimOK

LEMMA SoltaConta ==
  ASSUME IndConta, Solta
  PROVE  ContaOK' /\ FimOK'
<1>1. h \in TipoH /\ h.pc = "solta" /\ ~h.break_loop /\ tratados' = tratados
  BY DEF IndConta, Ind, Tipo, FimOK, Solta
<1>2. h'.pc = "quadro" /\ ~h'.break_loop /\ LerIgual /\ IntrusosIgual
  BY <1>1, SoltaEfeito
<1> QED
  BY <1>1, <1>2 DEF IndConta, ContaOK, FimOK, LerIgual, IntrusosIgual

LEMMA QuadroConta ==
  ASSUME IndConta, Quadro
  PROVE  ContaOK' /\ FimOK'
<1>1. /\ h \in TipoH /\ h.pc = "quadro" /\ ~h.break_loop /\ tratados' = tratados
      /\ tratados \in Seq(Pacote)
  BY DEF IndConta, Ind, Tipo, FimOK, Quadro
<1>2. /\ h.pkts \in Nat /\ h.cnt \in Int /\ h.intrusos \in Nat /\ Len(tratados) \in Nat /\ cnt \in Nat
  BY <1>1, CapturaAssumption DEF TipoH
<1>3. PararIgual /\ IntrusosIgual
  BY <1>1, QuadroEfeito
<1>4. CASE h'.pc = "trata" /\ LerIgual /\ (cnt = 0 \/ h.pkts < h.cnt)
  BY <1>1, <1>2, <1>3, <1>4 DEF IndConta, ContaOK, FimOK, LerIgual, IntrusosIgual, PararIgual
<1>5. CASE h'.pc = "le" /\ cnt = 0
  BY <1>1, <1>3, <1>5 DEF ContaOK, FimOK, PararIgual
<1>6. CASE cnt # 0 /\ h'.cnt = h.cnt - h.pkts /\ h'.pc = IF h.cnt - h.pkts <= 0 THEN "fim" ELSE "le"
  <2>1. h.pkts <= h.cnt /\ Len(tratados) + h.intrusos + h.cnt - h.pkts = cnt /\ cnt > 0
    BY <1>1, <1>2, <1>6 DEF IndConta, ContaOK
  <2>2. h'.pc \in {"le", "fim"} /\ Len(tratados') + h'.intrusos + h'.cnt = cnt
    BY <1>1, <1>2, <1>3, <1>6, <2>1 DEF IntrusosIgual
  <2>3. (h'.pc = "le" => h'.cnt > 0) /\ (h'.pc = "fim" => h'.cnt = 0)
    BY <1>2, <1>6, <2>1
  <2> QED
    BY <1>1, <1>3, <2>1, <2>2, <2>3 DEF ContaOK, FimOK, PararIgual
<1> QED
  BY <1>1, <1>4, <1>5, <1>6, QuadroEfeito

LEMMA NextConta == Quebra = 0 /\ IndConta /\ [Next]_vars => ContaOK' /\ FimOK'
<1> SUFFICES ASSUME Quebra = 0, IndConta, [Next]_vars PROVE ContaOK' /\ FimOK'
  OBVIOUS
<1>1. h \in TipoH /\ rede \in TipoRede
  BY DEF IndConta, Ind, Tipo
<1>2. CASE (\E c \in Nucleos : Chega(c) \/ Reserva(c) \/ Publica(c)) \/ Derruba \/ Levanta
  <2>1. h' = h /\ tratados' = tratados
    BY <1>2 DEF Chega, Reserva, Publica, Derruba, Levanta
  <2> QED
    BY <2>1 DEF IndConta, ContaOK, FimOK
<1>3. CASE Falha
  <2>1. /\ tratados' = tratados /\ h.pc \in {"espera", "trata"} /\ h'.pc = "erro"
        /\ PararIgual /\ LerIgual /\ IntrusosIgual
    BY <1>1, <1>3, FalhaEfeito
  <2> QED
    BY <1>1, <2>1 DEF IndConta, ContaOK, FimOK, PararIgual, LerIgual, IntrusosIgual, TipoH
<1>4. CASE FiltroTotal \/ Anexa \/ Conta
  <2>1. tratados' = tratados /\ h.pc \in {"ativado", "anexa", "conta"}
    BY <1>4 DEF FiltroTotal, Anexa, Conta
  <2>2. h'.pc \in {"anexa", "semfiltro", "conta", "le"} /\ PararIgual /\ LerIgual /\ IntrusosIgual
    BY <1>1, <1>4, FiltroTotalEfeito, AnexaEfeito, ContaEfeito
  <2> QED
    BY <1>1, <2>1, <2>2 DEF IndConta, ContaOK, FimOK, PararIgual, LerIgual, IntrusosIgual, TipoH
<1>5. CASE Le
  <2>1. tratados' = tratados /\ h.pc = "le"
    BY <1>5 DEF Le
  <2>2. h'.pc \in {"quadro", "espera"} /\ h'.pkts = 0 /\ h'.cnt = h.cnt /\ PararIgual /\ IntrusosIgual
    BY <1>1, <1>5, LeEfeito
  <2> QED
    BY <1>1, <2>1, <2>2 DEF IndConta, ContaOK, FimOK, PararIgual, IntrusosIgual, TipoH
<1>6. CASE EsperaErro \/ EsperaPacote \/ EsperaTempo
  <2>1. tratados' = tratados
    BY <1>6 DEF EsperaErro, EsperaPacote, EsperaTempo
  <2>2. /\ h.pc = "espera" /\ h'.pc \in {"espera", "quadro", "erro"}
        /\ PararIgual /\ LerIgual /\ IntrusosIgual
    BY <1>1, <1>6, EsperaEfeito
  <2> QED
    BY <1>1, <2>1, <2>2 DEF IndConta, ContaOK, FimOK, PararIgual, LerIgual, IntrusosIgual, TipoH
<1>7. CASE Quadro
  BY <1>7, QuadroConta
<1>8. CASE Trata
  BY <1>8, TrataConta
<1>9. CASE Solta
  BY <1>9, SoltaConta
<1>10. CASE UNCHANGED vars
  BY <1>10 DEF vars, IndConta, ContaOK, FimOK
<1> QED
  BY <1>2, <1>3, <1>4, <1>5, <1>6, <1>7, <1>8, <1>9, <1>10 DEF Next, Biblioteca

LEMMA ContaImplica == IndConta => ContagemExata
<1> SUFFICES ASSUME IndConta PROVE ContagemExata
  OBVIOUS
<1>1. /\ h.pkts \in Nat /\ h.cnt \in Int /\ h.intrusos \in Nat /\ Len(tratados) \in Nat /\ cnt \in Nat
      /\ h.pc \in Pontos
  BY CapturaAssumption DEF IndConta, Ind, Tipo, TipoH
<1>2. cnt > 0 => Len(tratados) + h.intrusos <= cnt
  BY <1>1 DEF IndConta, ContaOK, Pontos
<1>3. h.pc = "fim" => Len(tratados) + h.intrusos = cnt
  BY <1>1 DEF IndConta, ContaOK, FimOK
<1> QED
  BY <1>2, <1>3 DEF ContagemExata

(* With a handler that never breaks the loop, as in le_provas_rede, the    *)
(* handler is never called more often than the count says, and a loop that *)
(* ends without an error has called it exactly that often, however the     *)
(* packets were spread over reads and whatever count was asked for.        *)
THEOREM ContagemDoLaco == Quebra = 0 => (Spec => []ContagemExata)
<1> SUFFICES ASSUME Quebra = 0 PROVE Spec => []ContagemExata
  OBVIOUS
<1>1. Init => IndConta
  BY InitInd, InitConta DEF IndConta
<1>2. IndConta /\ [Next]_vars => IndConta'
  BY NextInd, NextConta DEF IndConta
<1> QED
  BY <1>1, <1>2, ContaImplica, PTL DEF Spec
-----------------------------------------------------------------------------
(***************************************************************************)
(* The intruders.                                                          *)
(***************************************************************************)
LEMMA Finitos ==
  /\ \A S : S \subseteq Nucleos =>
       IsFiniteSet(S) /\ Cardinality(S) \in Nat /\ Cardinality(S) <= Cardinality(Nucleos)
  /\ \A S : S \subseteq Quadros => IsFiniteSet(S) /\ Cardinality(S) \in Nat
  /\ Cardinality(Nucleos) \in Nat
<1>1. IsFiniteSet(Nucleos)
  BY CapturaAssumption
<1>2. IsFiniteSet(Quadros)
  <2>1. 0 \in Int /\ cc - 1 \in Int
    BY CapturaAssumption
  <2> QED
    BY <2>1, FS_Interval, Zenon DEF Quadros
<1>3. ASSUME NEW S, S \subseteq Nucleos
      PROVE  IsFiniteSet(S) /\ Cardinality(S) \in Nat /\ Cardinality(S) <= Cardinality(Nucleos)
  BY <1>1, <1>3, FS_Subset, FS_CardinalityType
<1>4. ASSUME NEW S, S \subseteq Quadros
      PROVE  IsFiniteSet(S) /\ Cardinality(S) \in Nat
  BY <1>2, <1>4, FS_Subset, FS_CardinalityType
<1>5. Cardinality(Nucleos) \in Nat
  BY <1>1, FS_CardinalityType
<1> QED
  BY <1>3, <1>4, <1>5

LEMMA DentroFinito ==
  ASSUME NEW T, IsFiniteSet(T), NEW S, S \subseteq T
  PROVE  Cardinality(S) <= Cardinality(T)
BY FS_Subset

LEMMA Conjuntos ==
  /\ Velhos \subseteq Nucleos /\ Escapados \subseteq Quadros
  /\ Velhos' \subseteq Nucleos /\ Escapados' \subseteq Quadros
  /\ Ativos \subseteq Nucleos /\ Andados \subseteq Quadros
  /\ Ativos' \subseteq Nucleos /\ Andados' \subseteq Quadros
BY DEF Velhos, Escapados, Ativos, Andados

(* One processor less pays for one frame more.                             *)
LEMMA TrocaNucleo ==
  ASSUME NEW A, A \subseteq Nucleos, NEW c \in A, NEW B, B \subseteq A \ {c},
         NEW E, E \subseteq Quadros, NEW o \in Quadros, NEW F, F \subseteq E \union {o}
  PROVE  Cardinality(B) + Cardinality(F) <= Cardinality(A) + Cardinality(E)
<1>1. /\ IsFiniteSet(A) /\ Cardinality(A) \in Nat /\ IsFiniteSet(E) /\ Cardinality(E) \in Nat
      /\ B \subseteq Nucleos /\ Cardinality(B) \in Nat
      /\ A \ {c} \subseteq Nucleos /\ IsFiniteSet(A \ {c})
      /\ F \subseteq Quadros /\ Cardinality(F) \in Nat
  BY Finitos
<1>2. Cardinality(A \ {c}) = Cardinality(A) - 1
  BY <1>1, FS_RemoveElement
<1>3. Cardinality(B) <= Cardinality(A \ {c})
  BY <1>1, DentroFinito
<1>4. /\ IsFiniteSet(E \union {o})
      /\ \/ Cardinality(E \union {o}) = Cardinality(E)
         \/ Cardinality(E \union {o}) = Cardinality(E) + 1
  BY <1>1, FS_AddElement, Zenon
<1>5. Cardinality(F) <= Cardinality(E \union {o})
  BY <1>4, DentroFinito
<1> QED
  BY <1>1, <1>2, <1>3, <1>4, <1>5

(* One frame less pays for another.                                        *)
LEMMA TrocaQuadro ==
  ASSUME NEW E, E \subseteq Quadros, NEW w \in E, NEW u \in Quadros,
         NEW F, F \subseteq (E \ {w}) \union {u}
  PROVE  Cardinality(F) <= Cardinality(E)
<1>1. /\ IsFiniteSet(E) /\ Cardinality(E) \in Nat
      /\ E \ {w} \subseteq Quadros /\ IsFiniteSet(E \ {w}) /\ Cardinality(E \ {w}) \in Nat
      /\ F \subseteq Quadros /\ Cardinality(F) \in Nat
  BY Finitos
<1>2. Cardinality(E \ {w}) = Cardinality(E) - 1
  BY <1>1, FS_RemoveElement
<1>3. /\ IsFiniteSet((E \ {w}) \union {u})
      /\ \/ Cardinality((E \ {w}) \union {u}) = Cardinality(E \ {w})
         \/ Cardinality((E \ {w}) \union {u}) = Cardinality(E \ {w}) + 1
  BY <1>1, FS_AddElement, Zenon
<1>4. Cardinality(F) <= Cardinality((E \ {w}) \union {u})
  BY <1>3, DentroFinito
<1> QED
  BY <1>1, <1>2, <1>3, <1>4

(* No new packet of the old filter, no new frame that escapes.             *)
LEMMA LimiteDesce ==
  ASSUME Limite, h \in TipoH, IntrusosIgual, Velhos' \subseteq Velhos, Escapados' \subseteq Escapados
  PROVE  Limite'
<1>1. h.intrusos \in Nat
  BY DEF TipoH
<1>2. /\ Cardinality(Velhos) \in Nat /\ Cardinality(Escapados) \in Nat /\ Cardinality(Nucleos) \in Nat
      /\ Cardinality(Velhos') \in Nat /\ Cardinality(Escapados') \in Nat
      /\ IsFiniteSet(Velhos) /\ IsFiniteSet(Escapados)
  BY Finitos, Conjuntos
<1>3. Cardinality(Velhos') <= Cardinality(Velhos) /\ Cardinality(Escapados') <= Cardinality(Escapados)
  BY <1>2, DentroFinito
<1>4. h'.intrusos + Cardinality(Velhos') + Cardinality(Escapados') <= Cardinality(Nucleos)
  BY <1>1, <1>2, <1>3 DEF Limite, IntrusosIgual
<1> QED
  BY <1>4 DEF Limite

LEMMA LotadoDesce ==
  ASSUME Lotado, IntrusosIgual, \A o \in Quadros : anel'[o] # Livre,
         Ativos' \subseteq Ativos, Andados' \subseteq Andados
  PROVE  Lotado'
<1>1. /\ Cardinality(Ativos) \in Nat /\ Cardinality(Andados) \in Nat /\ Cardinality(Nucleos) \in Nat
      /\ Cardinality(Ativos') \in Nat /\ Cardinality(Andados') \in Nat
      /\ IsFiniteSet(Ativos) /\ IsFiniteSet(Andados)
  BY Finitos, Conjuntos
<1>2. Cardinality(Ativos') <= Cardinality(Ativos) /\ Cardinality(Andados') <= Cardinality(Andados)
  BY <1>1, DentroFinito
<1>3. Cardinality(Ativos') + Cardinality(Andados') <= Cardinality(Nucleos)
  BY <1>1, <1>2 DEF Lotado
<1> QED
  BY <1>3 DEF Lotado, IntrusosIgual

(* The kernel's part, once the new filter is in: a packet it lets through  *)
(* matches, one it queues stays with its processor until it is published,  *)
(* and is then one of its frame.                                           *)
LEMMA RedeLimite ==
  ASSUME Ind, filtro = "novo", (\E c \in Nucleos : Chega(c)) \/ Derruba \/ Levanta
  PROVE  (Limite => Limite') /\ (Lotado => Lotado')
<1>1. UNCHANGED <<anel, cabeca, filtro, copia, h, tratados>>
  BY RedeTipo DEF Ind
<1>2. Escapados' = Escapados /\ Andados' = Andados
  BY <1>1 DEF Escapados, Andados, Descoberto, Distancia, Publicado, Copiando
<1>3. Velhos' \subseteq Velhos /\ Ativos' \subseteq Ativos
  <2>1. ASSUME NEW c \in Nucleos, Chega(c) PROVE Velhos' \subseteq Velhos /\ Ativos' \subseteq Ativos
    <3>1. PICK casa \in BOOLEAN :
            LET p == [n |-> rede.chegou + 1, casa |-> casa]
            IN nucleo' = IF Passa(p) THEN [nucleo EXCEPT ![c] = p] ELSE nucleo
      BY <2>1 DEF Chega
    <3> DEFINE p == [n |-> rede.chegou + 1, casa |-> casa]
    <3>2. nucleo' = nucleo \/ (p.casa /\ nucleo' = [nucleo EXCEPT ![c] = p])
      BY <3>1 DEF Passa
    <3> HIDE DEF p
    <3>3. nucleo \in [Nucleos -> Pacote \union {Nada}]
      BY DEF Ind, Tipo
    <3>4. \A d \in Nucleos : nucleo'[d] = nucleo[d] \/ nucleo'[d].casa
      BY <3>2, <3>3
    <3> QED
      BY <1>1, <3>4 DEF Velhos, Ativos, Descoberto, Distancia
  <2>2. CASE Derruba \/ Levanta
    BY <1>1, <2>2 DEF Derruba, Levanta, Velhos, Ativos, Descoberto, Distancia
  <2> QED
    BY <2>1, <2>2
<1>4. h \in TipoH /\ IntrusosIgual
  BY <1>1 DEF Ind, Tipo, IntrusosIgual
<1>5. Limite => Limite'
  BY <1>2, <1>3, <1>4, LimiteDesce
<1>6. Lotado => Lotado'
  <2>1. Lotado => \A o \in Quadros : anel'[o] # Livre
    BY <1>1 DEF Lotado
  <2> QED
    BY <1>2, <1>3, <1>4, <2>1, LotadoDesce
<1> QED
  BY <1>5, <1>6

LEMMA ReservaLimite ==
  ASSUME Ind, NEW c \in Nucleos, Reserva(c)
  PROVE  (Limite => Limite') /\ (Lotado => Lotado')
<1>1. /\ h' = h /\ h \in TipoH /\ nucleo[c] # Nada /\ IntrusosIgual
      /\ nucleo \in [Nucleos -> Pacote \union {Nada}]
      /\ nucleo' = [nucleo EXCEPT ![c] = Nada]
      /\ copia \in [Nucleos -> Quadros \union {Nada}]
      /\ anel \in [Quadros -> Pacote \union {Livre}] /\ cabeca \in Quadros
  BY DEF Ind, Tipo, TipoH, Reserva, IntrusosIgual
<1>2. copia[c] = Nada
  BY <1>1 DEF Ind, CopiaOK
<1>3. \A o \in Quadros : Descoberto(o)' <=> Descoberto(o)
  BY <1>1 DEF Descoberto, Distancia
<1>4. CASE anel[cabeca] # Livre
  <2>1. anel' = anel /\ copia' = copia
    BY <1>4 DEF Reserva
  <2>2. Escapados' = Escapados /\ Andados' = Andados
    BY <1>1, <2>1 DEF Escapados, Andados, Descoberto, Distancia, Publicado, Copiando
  <2>3. Velhos' \subseteq Velhos /\ Ativos' \subseteq Ativos
    BY <1>1, <2>1 DEF Velhos, Ativos, Descoberto, Distancia
  <2>4. Lotado => \A o \in Quadros : anel'[o] # Livre
    BY <2>1 DEF Lotado
  <2> QED
    BY <1>1, <2>2, <2>3, <2>4, LimiteDesce, LotadoDesce
<1>5. CASE anel[cabeca] = Livre
  <2>1. anel' = [anel EXCEPT ![cabeca] = nucleo[c]] /\ copia' = [copia EXCEPT ![c] = cabeca]
    BY <1>5 DEF Reserva
  <2>2. ASSUME NEW d \in Velhos' PROVE d \in Velhos
    <3>1. d \in Nucleos
      BY DEF Velhos
    <3>2. CASE d = c
      <4>1. nucleo'[c] = Nada /\ copia'[c] = cabeca /\ anel'[cabeca] = nucleo[c]
        BY <1>1, <2>1
      <4>2. ~nucleo[c].casa
        BY <2>2, <3>2, <4>1 DEF Velhos
      <4> QED
        BY <1>1, <3>2, <4>2 DEF Velhos
    <3>3. CASE d # c
      <4>1. nucleo'[d] = nucleo[d] /\ copia'[d] = copia[d]
        BY <1>1, <2>1, <3>1, <3>3
      <4>2. copia[d] # Nada => copia[d] \in Quadros /\ anel'[copia[d]] = anel[copia[d]]
        <5>1. copia[d] # Nada => copia[d] \in Quadros /\ copia[d] # cabeca
          BY <1>1, <1>5, <3>1 DEF Ind, CopiaOK
        <5> QED
          BY <1>1, <2>1, <5>1
      <4>3. \/ nucleo[d] # Nada /\ ~nucleo[d].casa
            \/ copia[d] # Nada /\ ~anel[copia[d]].casa /\ (h.pc = "conta" \/ Descoberto(copia[d]))
        BY <1>1, <2>2, <4>1, <4>2 DEF Velhos, Descoberto, Distancia
      <4> QED
        BY <3>1, <4>3 DEF Velhos
    <3> QED
      BY <3>2, <3>3
  <2>3. ASSUME NEW o \in Escapados' PROVE o \in Escapados
    <3>1. o \in Quadros /\ Descoberto(o)' /\ anel'[o] # Livre /\ ~anel'[o].casa
          /\ (\A d \in Nucleos : copia'[d] # o) /\ ~(h.pc = "solta" /\ o = h.offset)
      BY <1>1, <2>3 DEF Escapados, Publicado, Copiando
    <3>2. o # cabeca /\ o # Nada
      BY <1>1, <2>1, <3>1, CapturaAssumption DEF Quadros
    <3>3. anel'[o] = anel[o]
      BY <1>1, <2>1, <3>1, <3>2
    <3>4. \A d \in Nucleos : copia[d] # o
      BY <1>1, <1>2, <2>1, <3>1, <3>2
    <3> QED
      BY <1>3, <3>1, <3>3, <3>4 DEF Escapados, Publicado, Copiando
  <2>4. Limite => Limite'
    BY <1>1, <2>2, <2>3, LimiteDesce
  <2>5. ~Lotado
    BY <1>1, <1>5 DEF Lotado
  <2> QED
    BY <2>4, <2>5
<1> QED
  BY <1>4, <1>5

LEMMA PublicaLimite ==
  ASSUME Ind, NEW c \in Nucleos, Publica(c)
  PROVE  (Limite => Limite') /\ (Lotado => Lotado')
<1> DEFINE o == copia[c]
<1>1. /\ UNCHANGED <<anel, nucleo, h>> /\ h \in TipoH /\ h.intrusos \in Nat /\ IntrusosIgual
      /\ copia \in [Nucleos -> Quadros \union {Nada}] /\ o # Nada /\ o \in Quadros
      /\ copia' = [copia EXCEPT ![c] = Nada] /\ nucleo[c] = Nada
  BY DEF Ind, Tipo, TipoH, Publica, CopiaOK, IntrusosIgual
<1> HIDE DEF o
<1>2. \A q : Descoberto(q)' <=> Descoberto(q)
  BY <1>1 DEF Descoberto, Distancia
<1>3. \A d \in Nucleos : copia'[d] = IF d = c THEN Nada ELSE copia[d]
  BY <1>1
<1>4. \A q : q # o /\ Copiando(q) => Copiando(q)'
  BY <1>3 DEF Copiando, o
<1>5. Velhos' \subseteq Velhos \ {c} /\ Ativos' \subseteq Ativos \ {c}
  BY <1>1, <1>2, <1>3 DEF Velhos, Ativos
<1>6. Escapados' \subseteq Escapados \union {o} /\ Andados' \subseteq Andados \union {o}
  BY <1>1, <1>2, <1>4 DEF Escapados, Andados, Publicado, Distancia
<1>7. Limite => Limite'
  <2>1. CASE c \in Velhos
    <3>1. Cardinality(Velhos') + Cardinality(Escapados') <= Cardinality(Velhos) + Cardinality(Escapados)
      BY <1>1, <1>5, <1>6, <2>1, Conjuntos, TrocaNucleo
    <3>2. /\ Cardinality(Velhos) \in Nat /\ Cardinality(Escapados) \in Nat /\ Cardinality(Nucleos) \in Nat
          /\ Cardinality(Velhos') \in Nat /\ Cardinality(Escapados') \in Nat
      BY Finitos, Conjuntos
    <3> QED
      BY <1>1, <3>1, <3>2 DEF Limite
  <2>2. CASE c \notin Velhos
    <3>1. anel[o].casa \/ ~Descoberto(o)
      BY <1>1, <2>2 DEF Velhos, o
    <3>2. o \notin Escapados'
      BY <1>1, <1>2, <3>1 DEF Escapados
    <3> QED
      BY <1>1, <1>5, <1>6, <3>2, LimiteDesce
  <2> QED
    BY <2>1, <2>2
<1>8. Lotado => Lotado'
  <2>1. c \in Ativos
    BY <1>1 DEF Ativos, o
  <2>2. Cardinality(Ativos') + Cardinality(Andados') <= Cardinality(Ativos) + Cardinality(Andados)
    BY <1>1, <1>5, <1>6, <2>1, Conjuntos, TrocaNucleo
  <2>3. /\ Cardinality(Ativos) \in Nat /\ Cardinality(Andados) \in Nat /\ Cardinality(Nucleos) \in Nat
        /\ Cardinality(Ativos') \in Nat /\ Cardinality(Andados') \in Nat
    BY Finitos, Conjuntos
  <2> QED
    BY <1>1, <2>2, <2>3 DEF Lotado
<1> QED
  BY <1>7, <1>8

(* The walk passes a frame that is not published, so what it has passed    *)
(* can hold only what was published since.                                 *)
LEMMA AtrasDaPosicao ==
  ASSUME NEW a \in Quadros, NEW n \in 0..(cc - 1)
  PROVE  Anterior(Adiante(a, cc - 1 - n)) = Adiante(a, IF n = cc - 1 THEN cc - 1 ELSE cc - 2 - n)
BY CapturaAssumption DEF Quadros, Anterior, Adiante

LEMMA DistanciaAdiante ==
  ASSUME h.offset \in Quadros, NEW o \in Quadros
  PROVE  Distancia(o) \in Quadros /\ Adiante(h.offset, Distancia(o)) = o
BY CapturaAssumption DEF Distancia, Adiante, Quadros

(* The walk ends: two of the frames it passed, if it passed two, are       *)
(* filtered again, and one of them pays for the frame it never looked at.  *)
LEMMA FimDoPasso ==
  ASSUME Ind, h.pc = "conta", Limite \/ Lotado,
         UNCHANGED <<anel, nucleo, copia>>, IntrusosIgual, OffsetIgual,
         h'.pc = "le",
         h'.blocks_to_filter_in_userland = cc - (IF h.n # 0 THEN h.n - 1 ELSE h.n)
  PROVE  Limite'
<1>1. /\ h \in TipoH /\ h.offset \in Quadros /\ h.n \in 0..cc /\ cc \in Nat \ {0}
      /\ h.intrusos \in Nat /\ copia \in [Nucleos -> Quadros \union {Nada}]
  BY CapturaAssumption DEF Ind, Tipo, TipoH, Blocos
<1>2. \A o \in Quadros : /\ Distancia(o) \in 0..(cc - 1) /\ Distancia(o)' = Distancia(o)
                          /\ Adiante(h.offset, Distancia(o)) = o
  BY <1>1, DistanciaAdiante DEF Distancia, OffsetIgual, Quadros
<1>3. \A o \in Quadros : Descoberto(o)' => h.n > 1 /\ Distancia(o) >= cc - h.n + 1
  BY <1>1, <1>2 DEF Descoberto
<1>4. \A c \in Nucleos : copia[c] # Nada => copia[c] \in Quadros /\ nucleo[c] = Nada
  BY <1>1 DEF Ind, CopiaOK
<1>5. CASE Limite
  <2>1. \A o \in Quadros : Descoberto(o)' => Descoberto(o)
    BY <1>1, <1>2, <1>3 DEF Descoberto
  <2>2. Escapados' \subseteq Escapados
    BY <2>1 DEF Escapados, Publicado, Copiando
  <2>3. Velhos' \subseteq Velhos
    BY DEF Velhos
  <2> QED
    BY <1>1, <1>5, <2>2, <2>3, LimiteDesce
<1>6. CASE Lotado
  <2>1. Velhos' \subseteq Ativos
    BY DEF Velhos, Ativos
  <2>2. /\ Cardinality(Ativos) \in Nat /\ Cardinality(Andados) \in Nat /\ Cardinality(Nucleos) \in Nat
        /\ Cardinality(Velhos') \in Nat /\ Cardinality(Escapados') \in Nat /\ h'.intrusos = 0
        /\ IsFiniteSet(Ativos)
        /\ Cardinality(Ativos) + Cardinality(Andados) <= Cardinality(Nucleos)
    BY <1>6, Finitos, Conjuntos DEF Lotado, IntrusosIgual
  <2>3. Cardinality(Velhos') <= Cardinality(Ativos)
    BY <2>1, <2>2, DentroFinito
  <2>4. Cardinality(Velhos') + Cardinality(Escapados') <= Cardinality(Ativos) + Cardinality(Andados)
    <3>1. CASE h.n <= 1
      <4>1. Escapados' = {}
        BY <1>1, <1>3, <3>1 DEF Escapados
      <4> QED
        BY <2>2, <2>3, <4>1, FS_EmptySet
    <3>2. CASE h.n > 1
      <4>1. PICK u \in Quadros, w \in Quadros : u = Adiante(h.offset, cc - 1) /\ Distancia(w) = cc - h.n
        <5> DEFINE v == Adiante(h.offset, cc - h.n)
        <5>1. cc - 1 \in Quadros /\ cc - h.n \in Quadros
          BY <1>1, <3>2 DEF Quadros
        <5>2. Adiante(h.offset, cc - 1) \in Quadros /\ v \in Quadros
          BY <1>1, <5>1, Posicoes
        <5>3. Adiante(h.offset, Distancia(v)) = v /\ Distancia(v) \in Quadros
          BY <1>1, <5>2, DistanciaAdiante
        <5>4. Distancia(v) = cc - h.n
          BY <1>1, <5>1, <5>2, <5>3, AdianteUnico
        <5> HIDE DEF v
        <5> QED
          BY <5>2, <5>4
      <4>2. ASSUME NEW o \in Escapados' PROVE o = u \/ (o \in Andados /\ o # w)
        <5>1. o \in Quadros /\ Distancia(o) >= cc - h.n + 1 /\ ~Copiando(o)
          BY <1>3, <4>2 DEF Escapados, Publicado, Copiando
        <5>2. CASE Distancia(o) = cc - 1
          BY <1>2, <4>1, <5>1, <5>2
        <5>3. CASE Distancia(o) # cc - 1
          BY <1>1, <1>2, <4>1, <5>1, <5>3 DEF Andados
        <5> QED
          BY <5>2, <5>3
      <4>3. CASE Copiando(w)
        <5>1. PICK c \in Nucleos : copia[c] = w
          BY <4>3 DEF Copiando
        <5>2. w # Nada
          BY <4>1, CapturaAssumption DEF Quadros
        <5>3. nucleo[c] = Nada /\ c \in Ativos
          BY <1>4, <5>1, <5>2 DEF Ativos
        <5>4. ~Descoberto(w)'
          BY <1>1, <1>3, <4>1
        <5>5. c \notin Velhos'
          BY <5>1, <5>3, <5>4 DEF Velhos
        <5> QED
          BY <2>1, <4>1, <4>2, <5>3, <5>5, Conjuntos, TrocaNucleo
      <4>4. CASE ~Copiando(w)
        <5>1. w \in Andados
          BY <1>1, <3>2, <4>1, <4>4 DEF Andados
        <5>2. Cardinality(Escapados') <= Cardinality(Andados)
          BY <4>1, <4>2, <5>1, Conjuntos, TrocaQuadro
        <5> QED
          BY <2>2, <2>3, <5>2
      <4> QED
        BY <4>3, <4>4
    <3> QED
      BY <1>1, <3>1, <3>2
  <2>5. h'.intrusos + Cardinality(Velhos') + Cardinality(Escapados') <= Cardinality(Nucleos)
    BY <2>2, <2>4
  <2> QED
    BY <2>5 DEF Limite
<1> QED
  BY <1>5, <1>6

LEMMA ContaTrocado ==
  ASSUME Ind, Trocado, Conta
  PROVE  Trocado'
<1>1. /\ h.pc = "conta" /\ h \in TipoH /\ h.offset \in Quadros /\ h.n \in 0..cc /\ h.pos \in Quadros
      /\ UNCHANGED <<anel, cabeca, filtro, nucleo, copia, rede, tratados>> /\ cc \in Nat \ {0}
  BY CapturaAssumption DEF Ind, Tipo, TipoH, Blocos, Conta
<1>2. IntrusosIgual /\ OffsetIgual
  BY <1>1, ContaEfeito
<1>3. \A o \in Quadros : /\ Distancia(o) \in 0..(cc - 1) /\ Distancia(o)' = Distancia(o)
                          /\ Adiante(h.offset, Distancia(o)) = o
  BY <1>1, <1>2, DistanciaAdiante DEF Distancia, OffsetIgual, Quadros
<1>4. Limite \/ Lotado
  BY DEF Trocado
<1>5. CASE /\ h'.pc = "le" /\ h'.filter_in_userland
           /\ h'.blocks_to_filter_in_userland = cc - (IF h.n # 0 THEN h.n - 1 ELSE h.n)
  <2>1. Limite'
    BY <1>1, <1>2, <1>4, <1>5, FimDoPasso
  <2>2. h'.blocks_to_filter_in_userland > 0
    BY <1>1, <1>5
  <2> QED
    BY <1>1, <1>5, <2>1, <2>2 DEF Trocado
<1>6. CASE /\ h'.pc = "conta" /\ h.n # cc /\ ~Publicado(Anterior(h.pos))
           /\ h'.n = h.n + 1 /\ h'.pos = Anterior(h.pos)
  <2>1. /\ h.n \in 0..(cc - 1) /\ h.pos = Adiante(h.offset, cc - 1 - h.n)
    BY <1>1, <1>6 DEF Trocado
  <2>2. Anterior(h.pos) = Adiante(h.offset, IF h.n = cc - 1 THEN cc - 1 ELSE cc - 2 - h.n)
    BY <1>1, <2>1, AtrasDaPosicao
  <2>3. h'.pos = Adiante(h'.offset, IF h'.n = cc THEN cc - 1 ELSE cc - 1 - h'.n)
    <3>1. (IF h'.n = cc THEN cc - 1 ELSE cc - 1 - h'.n) = IF h.n = cc - 1 THEN cc - 1 ELSE cc - 2 - h.n
      BY <1>1, <1>6, <2>1
    <3> QED
      BY <1>2, <1>6, <2>2, <3>1 DEF OffsetIgual
  <2>4. ASSUME NEW o \in Quadros, Distancia(o) >= cc - 1 - h'.n
        PROVE  Distancia(o) >= cc - 1 - h.n \/ ~Publicado(o)
    <3>1. CASE Distancia(o) = cc - 2 - h.n
      <4>1. o = Anterior(h.pos)
        BY <1>1, <1>3, <2>1, <2>2, <3>1
      <4> QED
        BY <1>6, <4>1
    <3> QED
      BY <1>1, <1>3, <1>6, <2>1, <2>4, <3>1
  <2>5. CASE Limite
    <3>1. Velhos' = Velhos
      BY <1>1, <1>6 DEF Velhos
    <3>2. ASSUME NEW o \in Escapados' PROVE o \in Escapados
      <4>1. o \in Quadros /\ Distancia(o) >= cc - 1 - h'.n /\ Publicado(o) /\ ~anel[o].casa
        BY <1>1, <1>3, <1>6, <3>2 DEF Escapados, Descoberto, Publicado, Copiando
      <4> QED
        BY <1>1, <2>4, <4>1 DEF Escapados, Descoberto
    <3>3. Limite'
      BY <1>1, <1>2, <2>5, <3>1, <3>2, LimiteDesce
    <3> QED
      BY <1>1, <1>6, <2>3, <3>3 DEF Trocado
  <2>6. CASE Lotado
    <3>1. Ativos' = Ativos
      BY <1>1 DEF Ativos
    <3>2. ASSUME NEW o \in Andados' PROVE o \in Andados
      <4>1. o \in Quadros /\ Distancia(o) >= cc - 1 - h'.n /\ Distancia(o) # cc - 1 /\ ~Copiando(o)
        BY <1>1, <1>3, <3>2 DEF Andados, Copiando
      <4>2. Publicado(o)
        BY <2>6, <4>1 DEF Lotado, Publicado
      <4> QED
        BY <2>4, <4>1, <4>2 DEF Andados
    <3>3. \A o \in Quadros : anel'[o] # Livre
      BY <1>1, <2>6 DEF Lotado
    <3>4. Lotado'
      BY <1>2, <2>6, <3>1, <3>2, <3>3, LotadoDesce
    <3> QED
      BY <1>1, <1>6, <2>3, <3>4 DEF Trocado
  <2> QED
    BY <1>4, <2>5, <2>6
<1> QED
  BY <1>1, <1>5, <1>6, ContaEfeito

(* A packet the handler should not see is counted once, as its frame       *)
(* leaves the ones that escape.                                            *)
LEMMA TrataTrocado ==
  ASSUME Ind, Trocado, Trata
  PROVE  Trocado'
<1>1. /\ Tipo /\ QuadroSeguro /\ h.pc = "trata" /\ anel[h.offset] # Livre /\ h \in TipoH
      /\ h.offset \in Quadros /\ h.blocks_to_filter_in_userland \in Nat /\ h.intrusos \in Nat
      /\ UNCHANGED <<anel, cabeca, filtro, nucleo, copia, rede>>
  BY CapturaAssumption DEF Ind, QuadroSeguro, Trata, Tipo, TipoH, Blocos
<1>2. /\ h'.pc = "solta" /\ FiltrarIgual /\ OffsetIgual
  BY <1>1, TrataEfeito
<1>7. \A o : Descoberto(o)' <=> Descoberto(o)
  BY <1>1, <1>2 DEF Descoberto, Distancia, FiltrarIgual, BlocosIgual, OffsetIgual
<1>3. Velhos' = Velhos
  BY <1>1, <1>2, <1>7 DEF Velhos
<1>4. Escapados' = Escapados \ {h.offset}
  BY <1>1, <1>2, <1>7 DEF Escapados, Publicado, Copiando, OffsetIgual
<1>8. Limite
  BY <1>1 DEF Trocado
<1>5. CASE IntrusosIgual
  <2>1. Limite'
    BY <1>1, <1>3, <1>4, <1>5, <1>8, LimiteDesce
  <2> QED
    BY <1>1, <1>2, <2>1 DEF Trocado, FiltrarIgual, BlocosIgual, LigarIgual
<1>6. CASE ~anel[h.offset].casa /\ ~h.filter_in_userland /\ h'.intrusos = h.intrusos + 1
  <2>1. h.blocks_to_filter_in_userland = 0
    BY <1>1, <1>6 DEF Trocado
  <2>2. Distancia(h.offset) >= 0
    BY <1>1 DEF Distancia, Quadros
  <2>3. h.offset \in Escapados
    BY <1>1, <1>6, <2>1, <2>2 DEF Ind, CopiaOK, Escapados, Descoberto, Publicado
  <2>4. /\ Cardinality(Velhos) \in Nat /\ Cardinality(Escapados) \in Nat /\ Cardinality(Nucleos) \in Nat
        /\ IsFiniteSet(Escapados)
    BY Finitos, Conjuntos
  <2>5. Cardinality(Escapados') = Cardinality(Escapados) - 1
    BY <1>4, <2>3, <2>4, FS_RemoveElement
  <2>6. h'.intrusos + Cardinality(Velhos') + Cardinality(Escapados') <= Cardinality(Nucleos)
    BY <1>1, <1>3, <1>6, <1>8, <2>4, <2>5 DEF Limite
  <2>7. Limite'
    BY <2>6 DEF Limite
  <2> QED
    BY <1>1, <1>2, <2>7 DEF Trocado, FiltrarIgual, BlocosIgual, LigarIgual
<1> QED
  BY <1>1, <1>5, <1>6, TrataEfeito

(* Giving a frame back moves the position and the frames left to filter by *)
(* one each, so the frames that escape are the same.                       *)
LEMMA SoltaTrocado ==
  ASSUME Ind, Trocado, Solta
  PROVE  Trocado'
<1>1. /\ h \in TipoH /\ h.pc = "solta" /\ h.offset \in Quadros /\ cc \in Nat \ {0}
      /\ h.blocks_to_filter_in_userland \in Nat
      /\ anel \in [Quadros -> Pacote \union {Livre}]
      /\ anel' = [anel EXCEPT ![h.offset] = Livre] /\ UNCHANGED <<filtro, nucleo, copia>>
      /\ copia \in [Nucleos -> Quadros \union {Nada}] /\ Limite
  BY CapturaAssumption DEF Ind, Tipo, TipoH, Solta, Blocos, Trocado
<1>2. h'.offset = Seguinte(h.offset) /\ h'.pc \in {"fim", "quadro"} /\ IntrusosIgual
  BY <1>1, SoltaEfeito
<1>4. /\ h.blocks_to_filter_in_userland > 0 =>
           h'.blocks_to_filter_in_userland = h.blocks_to_filter_in_userland - 1
      /\ h.blocks_to_filter_in_userland = 0 => h'.blocks_to_filter_in_userland = 0
  BY <1>1, SoltaEfeito DEF BlocosIgual
<1>5. ASSUME NEW o \in Quadros, o # h.offset, Descoberto(o)'
      PROVE  Descoberto(o)
  <2>1. Distancia(o)' = Distancia(o) - 1
    <3>1. Distancia(o)' = IF o >= Seguinte(h.offset) THEN o - Seguinte(h.offset) ELSE o - Seguinte(h.offset) + cc
      BY <1>2 DEF Distancia
    <3>2. h.offset \in Quadros /\ cc \in Nat \ {0} /\ o # h.offset
      BY <1>1, <1>5
    <3> QED
      BY <3>1, <3>2 DEF Distancia, Seguinte, Quadros
  <2>2. Distancia(o)' >= h'.blocks_to_filter_in_userland
    BY <1>2, <1>5 DEF Descoberto
  <2>3. Distancia(o) \in Nat
    BY <1>1 DEF Distancia, Quadros
  <2>4. Distancia(o) >= h.blocks_to_filter_in_userland
    BY <1>1, <1>4, <2>1, <2>2, <2>3
  <2> QED
    BY <1>1, <2>4 DEF Descoberto
<1>6. Escapados' \subseteq Escapados
  <2> SUFFICES ASSUME NEW o \in Escapados' PROVE o \in Escapados
    OBVIOUS
  <2>1. o \in Quadros /\ Descoberto(o)' /\ anel'[o] # Livre /\ ~anel'[o].casa /\ ~Copiando(o)
    BY <1>1 DEF Escapados, Publicado, Copiando
  <2>2. o # h.offset /\ anel'[o] = anel[o]
    BY <1>1, <2>1
  <2> QED
    BY <1>5, <2>1, <2>2 DEF Escapados, Publicado
<1>3. Velhos' \subseteq Velhos
  <2> SUFFICES ASSUME NEW c \in Velhos' PROVE c \in Velhos
    OBVIOUS
  <2>1. c \in Nucleos
    BY DEF Velhos
  <2>2. CASE nucleo[c] # Nada /\ ~nucleo[c].casa
    BY <2>1, <2>2 DEF Velhos
  <2>3. CASE copia[c] # Nada /\ ~anel'[copia[c]].casa /\ Descoberto(copia[c])'
    <3>1. copia[c] \in Quadros /\ copia[c] # h.offset
      BY <1>1, <2>1, <2>3 DEF Ind, CopiaOK, Copiando
    <3>2. anel'[copia[c]] = anel[copia[c]] /\ Descoberto(copia[c])
      BY <1>1, <1>5, <2>3, <3>1
    <3> QED
      BY <2>1, <2>3, <3>2 DEF Velhos
  <2>4. \/ nucleo[c] # Nada /\ ~nucleo[c].casa
        \/ copia[c] # Nada /\ ~anel'[copia[c]].casa /\ Descoberto(copia[c])'
    BY <1>1, <1>2 DEF Velhos
  <2> QED
    BY <2>2, <2>3, <2>4
<1>7. Limite'
  BY <1>1, <1>2, <1>3, <1>6, LimiteDesce
<1>8. h'.filter_in_userland <=> h'.blocks_to_filter_in_userland > 0
  <2>1. CASE h.blocks_to_filter_in_userland = 1
    BY <1>1, <1>4, <2>1, SoltaEfeito
  <2>2. CASE h.blocks_to_filter_in_userland # 1
    <3>1. h.filter_in_userland <=> h.blocks_to_filter_in_userland > 0
      BY <1>1 DEF Trocado
    <3>2. h'.filter_in_userland = h.filter_in_userland
      BY <1>1, <2>2, SoltaEfeito DEF LigarIgual
    <3>3. h'.blocks_to_filter_in_userland > 0 <=> h.blocks_to_filter_in_userland > 0
      BY <1>1, <1>4, <2>2
    <3> QED
      BY <3>1, <3>2, <3>3
  <2> QED
    BY <2>1, <2>2
<1> QED
  BY <1>1, <1>2, <1>7, <1>8 DEF Trocado

(* The filter is attached: whatever the processors hold may escape.        *)
LEMMA AnexaIntrusos ==
  ASSUME Ind, IntrusosOK, Anexa
  PROVE  IntrusosOK'
<1>1. /\ h.pc = "anexa" /\ h \in TipoH /\ h.offset \in Quadros /\ anel' = anel
  BY DEF Ind, Tipo, TipoH, Anexa
<1>2. h.intrusos = 0 /\ h.blocks_to_filter_in_userland = 0 /\ h.filter_in_userland
  BY <1>1 DEF IntrusosOK, Antes, SoBiblioteca, Trocado
<1>3. IntrusosIgual /\ BlocosIgual /\ OffsetIgual
  BY <1>1, AnexaEfeito
<1>4. CASE filtro' = "novo" /\ h'.pc = "conta" /\ h'.n = 0 /\ h'.pos = Anterior(h.offset)
  <2>1. /\ Cardinality(Velhos') \in Nat /\ Cardinality(Velhos') <= Cardinality(Nucleos)
        /\ Cardinality(Ativos') \in Nat /\ Cardinality(Ativos') <= Cardinality(Nucleos)
        /\ Cardinality(Nucleos) \in Nat /\ cc \in Nat \ {0} /\ h'.intrusos = 0
    BY <1>2, <1>3, Finitos, Conjuntos, CapturaAssumption DEF IntrusosIgual
  <2> DEFINE u == Adiante(h.offset, cc - 1)
  <2>2. \A o \in Quadros : Distancia(o)' \in 0..(cc - 1) /\ (Distancia(o)' >= cc - 1 => o = u)
    <3>1. \A o \in Quadros : Distancia(o)' = Distancia(o)
      BY <1>3 DEF Distancia, OffsetIgual
    <3>2. ASSUME NEW o \in Quadros, Distancia(o) >= cc - 1 PROVE o = u
      <4>1. Distancia(o) = cc - 1 /\ Adiante(h.offset, Distancia(o)) = o
        BY <1>1, <2>1, <3>2, DistanciaAdiante DEF Quadros
      <4> QED
        BY <4>1
    <3> QED
      BY <1>1, <3>1, <3>2, DistanciaAdiante DEF Quadros
  <2>3. ASSUME anel[u] = Livre PROVE Limite'
    <3>1. Escapados' = {}
      <4> HIDE DEF u
      <4>1. ASSUME NEW o \in Escapados' PROVE FALSE
        <5>1. o \in Quadros /\ Distancia(o)' >= cc - 1 - h'.n /\ anel[o] # Livre
          BY <1>1, <1>4, <4>1 DEF Escapados, Descoberto, Publicado
        <5>2. Distancia(o)' >= cc - 1
          BY <1>4, <2>1, <5>1
        <5> QED
          BY <2>2, <2>3, <5>1, <5>2
      <4> QED
        BY <4>1
    <3>2. Cardinality(Escapados') = 0
      BY <3>1, FS_EmptySet
    <3>3. h'.intrusos + Cardinality(Velhos') + Cardinality(Escapados') <= Cardinality(Nucleos)
      BY <2>1, <3>2
    <3> QED
      BY <3>3 DEF Limite
  <2>4. ASSUME anel[u] # Livre PROVE Lotado'
    <3>1. PICK k \in 0..cc : Ocupa(anel, h.offset, cabeca, k)
      BY DEF Ind, AnelOK
    <3>2. cc - 1 \in Quadros /\ cc - 1 < k
      BY <2>1, <2>4, <3>1 DEF Ocupa, Quadros
    <3>3. ASSUME NEW o \in Quadros PROVE anel'[o] # Livre
      <4>1. PICK i \in Quadros : Adiante(h.offset, i) = o
        BY <1>1, AdianteUnico
      <4>2. i < k
        BY <2>1, <3>2 DEF Quadros
      <4> QED
        BY <1>1, <3>1, <4>1, <4>2 DEF Ocupa
    <3>4. Andados' = {}
      BY <1>4, <2>1, <2>2 DEF Andados
    <3>5. Cardinality(Andados') = 0
      BY <3>4, FS_EmptySet
    <3> QED
      BY <2>1, <3>3, <3>5 DEF Lotado
  <2>5. h'.pos = Adiante(h'.offset, IF h'.n = cc THEN cc - 1 ELSE cc - 1 - h'.n)
    <3>1. (IF h'.n = cc THEN cc - 1 ELSE cc - 1 - h'.n) = cc - 1
      BY <1>4, CapturaAssumption
    <3>2. Anterior(h.offset) = Adiante(h.offset, cc - 1)
      BY <1>1, CapturaAssumption DEF Anterior, Adiante, Quadros
    <3> QED
      BY <1>3, <1>4, <3>1, <3>2 DEF OffsetIgual
  <2>6. Trocado'
    BY <1>4, <2>3, <2>4, <2>5 DEF Trocado
  <2> QED
    BY <2>6 DEF IntrusosOK
<1>5. CASE filtro' = "nenhum" /\ h'.pc = "le" /\ LigarIgual
  <2>1. SoBiblioteca'
    BY <1>2, <1>3, <1>5 DEF SoBiblioteca, LigarIgual, BlocosIgual, IntrusosIgual
  <2> QED
    BY <2>1 DEF IntrusosOK
<1>6. CASE h'.pc = "semfiltro"
  <2>1. Antes'
    BY <1>2, <1>3, <1>6 DEF Antes, BlocosIgual, IntrusosIgual
  <2> QED
    BY <2>1 DEF IntrusosOK
<1> QED
  BY <1>1, <1>4, <1>5, <1>6, AnexaEfeito

(* Steps of the library that leave the filters, frames and processors      *)
(* alone.                                                                  *)
LEMMA LeituraIntrusos ==
  ASSUME Ind, IntrusosOK, UNCHANGED <<anel, filtro, nucleo, copia>>,
         h.pc \in {"le", "espera", "quadro", "trata"},
         h'.pc \in {"le", "espera", "quadro", "trata", "fim", "erro"},
         FiltrarIgual, IntrusosIgual, OffsetIgual
  PROVE  IntrusosOK'
<1>1. h \in TipoH
  BY DEF Ind, Tipo
<1>2. CASE SoBiblioteca
  BY <1>2 DEF SoBiblioteca, IntrusosOK, FiltrarIgual, LigarIgual, BlocosIgual, IntrusosIgual
<1>3. CASE Trocado
  <2>5. \A o : Descoberto(o)' <=> Descoberto(o)
    BY DEF Descoberto, Distancia, FiltrarIgual, BlocosIgual, OffsetIgual
  <2>1. Velhos' = Velhos
    BY <2>5 DEF Velhos
  <2>2. Escapados' = Escapados
    BY <2>5 DEF Escapados, Publicado, Copiando, OffsetIgual
  <2>3. Limite'
    BY <1>1, <1>3, <2>1, <2>2, LimiteDesce DEF Trocado
  <2>4. Trocado'
    BY <1>3, <2>3 DEF Trocado, FiltrarIgual, LigarIgual, BlocosIgual
  <2> QED
    BY <2>4 DEF IntrusosOK
<1> QED
  BY <1>2, <1>3 DEF IntrusosOK, Antes

LEMMA NucleoIntrusos ==
  ASSUME Ind, IntrusosOK,
         (\E c \in Nucleos : Chega(c) \/ Reserva(c) \/ Publica(c)) \/ Derruba \/ Levanta
  PROVE  IntrusosOK'
<1>1. h' = h /\ filtro' = filtro
  BY DEF Chega, Reserva, Publica, Derruba, Levanta
<1>2. CASE Antes
  BY <1>1, <1>2 DEF Antes, IntrusosOK
<1>3. CASE SoBiblioteca
  BY <1>1, <1>3 DEF SoBiblioteca, IntrusosOK
<1>4. CASE Trocado
  <2>1. (Limite => Limite') /\ (Lotado => Lotado')
    <3>1. filtro = "novo"
      BY <1>4 DEF Trocado
    <3> QED
      BY <3>1, RedeLimite, ReservaLimite, PublicaLimite
  <2>2. Trocado'
    BY <1>1, <1>4, <2>1 DEF Trocado
  <2> QED
    BY <2>2 DEF IntrusosOK
<1> QED
  BY <1>2, <1>3, <1>4 DEF IntrusosOK

LEMMA NextIntrusos == IndIntrusos /\ [Next]_vars => IntrusosOK'
<1> SUFFICES ASSUME Ind, IntrusosOK, [Next]_vars PROVE IntrusosOK'
  BY DEF IndIntrusos
<1>1. h \in TipoH
  BY DEF Ind, Tipo
<1>2. CASE (\E c \in Nucleos : Chega(c) \/ Reserva(c) \/ Publica(c)) \/ Derruba \/ Levanta
  BY <1>2, NucleoIntrusos
<1>3. CASE FiltroTotal
  <2>1. h.pc = "ativado"
    BY <1>3 DEF FiltroTotal
  <2>2. h.intrusos = 0 /\ h.blocks_to_filter_in_userland = 0
    BY <2>1 DEF IntrusosOK, Antes, SoBiblioteca, Trocado
  <2>3. ((h'.pc = "anexa" /\ h'.filter_in_userland) \/ h'.pc = "semfiltro") /\ BlocosIgual /\ IntrusosIgual
    BY <1>1, <1>3, FiltroTotalEfeito
  <2> QED
    BY <2>2, <2>3 DEF IntrusosOK, Antes, BlocosIgual, IntrusosIgual
<1>4. CASE Anexa
  BY <1>4, AnexaIntrusos
<1>5. CASE Conta
  <2>1. Trocado
    BY <1>5 DEF Conta, IntrusosOK, Antes, SoBiblioteca
  <2> QED
    BY <1>5, <2>1, ContaTrocado DEF IntrusosOK
<1>6. CASE Le
  <2>1. UNCHANGED <<anel, filtro, nucleo, copia>> /\ h.pc = "le"
    BY <1>6 DEF Le
  <2> QED
    BY <1>1, <1>6, <2>1, LeEfeito, LeituraIntrusos
<1>7. CASE EsperaErro \/ EsperaPacote \/ EsperaTempo
  <2>1. UNCHANGED <<anel, filtro, nucleo, copia>>
    BY <1>7 DEF EsperaErro, EsperaPacote, EsperaTempo
  <2> QED
    BY <1>1, <1>7, <2>1, EsperaEfeito, LeituraIntrusos
<1>8. CASE Quadro
  <2>1. UNCHANGED <<anel, filtro, nucleo, copia>> /\ h.pc = "quadro"
    BY <1>8 DEF Quadro
  <2>2. h'.pc \in {"trata", "le", "fim"} /\ FiltrarIgual /\ IntrusosIgual /\ OffsetIgual
    BY <1>1, <1>8, QuadroEfeito
  <2> QED
    BY <2>1, <2>2, LeituraIntrusos
<1>9. CASE Trata
  <2>1. Tipo /\ QuadroSeguro /\ h.pc = "trata" /\ filtro' = filtro
    BY <1>9 DEF Ind, Trata
  <2>2. CASE SoBiblioteca
    <3>1. h'.pc = "solta" /\ FiltrarIgual /\ IntrusosIgual
      BY <1>9, <2>1, <2>2, TrataEfeito DEF SoBiblioteca
    <3> QED
      BY <2>1, <2>2, <3>1 DEF SoBiblioteca, IntrusosOK, FiltrarIgual, LigarIgual, BlocosIgual, IntrusosIgual
  <2>3. CASE Trocado
    BY <1>9, <2>3, TrataTrocado DEF IntrusosOK
  <2> QED
    BY <2>1, <2>2, <2>3 DEF IntrusosOK, Antes
<1>10. CASE Solta
  <2>1. h.pc = "solta" /\ filtro' = filtro
    BY <1>10 DEF Solta
  <2>2. CASE SoBiblioteca
    <3>1. h'.pc \in {"fim", "quadro"} /\ LigarIgual /\ BlocosIgual /\ IntrusosIgual
      BY <1>1, <1>10, <2>2, SoltaEfeito DEF SoBiblioteca
    <3> QED
      BY <2>1, <2>2, <3>1 DEF SoBiblioteca, IntrusosOK, LigarIgual, BlocosIgual, IntrusosIgual
  <2>3. CASE Trocado
    BY <1>10, <2>3, SoltaTrocado DEF IntrusosOK
  <2> QED
    BY <2>1, <2>2, <2>3 DEF IntrusosOK, Antes
<1>11. CASE UNCHANGED vars
  BY <1>11 DEF vars, IntrusosOK, Antes, SoBiblioteca, Trocado, Limite, Velhos, Escapados, Descoberto, Distancia,
               Lotado, Ativos, Andados, Publicado, Copiando
<1>12. CASE Falha
  <2>1. rede \in TipoRede
    BY DEF Ind, Tipo
  <2> QED
    BY <1>1, <1>12, <2>1, FalhaEfeito, LeituraIntrusos
<1> QED
  BY <1>2, <1>3, <1>4, <1>5, <1>6, <1>7, <1>8, <1>9, <1>10, <1>11, <1>12 DEF Next, Biblioteca

LEMMA IntrusosImplica == IndIntrusos => PoucosIntrusos
<1> SUFFICES ASSUME IndIntrusos PROVE PoucosIntrusos
  OBVIOUS
<1>1. /\ Cardinality(Velhos) \in Nat /\ Cardinality(Escapados) \in Nat /\ Cardinality(Nucleos) \in Nat
      /\ h.intrusos \in Nat
  BY Finitos, Conjuntos DEF IndIntrusos, Ind, Tipo, TipoH
<1> QED
  BY <1>1 DEF IndIntrusos, IntrusosOK, Antes, SoBiblioteca, Trocado, Limite, Lotado, PoucosIntrusos

(* The count set_kernel_filter takes of the frames to filter again is      *)
(* taken while the kernel goes on filling them, and still no more than one *)
(* packet per processor gets past both filters, whatever the size of the   *)
(* ring and the traffic.                                                   *)
THEOREM PoucosEscapam == Spec => []PoucosIntrusos
<1>1. Init => IndIntrusos
  <2> SUFFICES ASSUME Init PROVE Antes
    BY InitInd DEF IndIntrusos, IntrusosOK
  <2> QED
    BY DEF Init, Antes
<1>2. IndIntrusos /\ [Next]_vars => IndIntrusos'
  BY NextInd, NextIntrusos DEF IndIntrusos
<1> QED
  BY <1>1, <1>2, IntrusosImplica, PTL DEF Spec
=============================================================================
