------------------------------- MODULE Captura -------------------------------
(***************************************************************************)
(* The capture every receiving program of the repository runs on: libpcap  *)
(* 1.10.4 on Linux in immediate mode, that is a TPACKET_V2 ring shared     *)
(* with the kernel, from pcap_activate to the end of pcap_loop.            *)
(*                                                                         *)
(* A frame of the ring is Livre (TP_STATUS_KERNEL) or holds a packet, of   *)
(* which only its number and whether it passes "ether proto 0x1234" count. *)
(* The kernel runs the socket filter first, takes a frame later and sets   *)
(* the frame's status only when the packet has been copied into it.  So a  *)
(* packet may pass one filter and be queued under the next, and frames may *)
(* be published in another order than they were taken.                     *)
(***************************************************************************)
EXTENDS Integers, Sequences, FiniteSets

CONSTANTS
  cc,            \* frames of the ring
  cnt,           \* second argument of pcap_loop; 0: unlimited
  Quebra,        \* calls of the handler after which it calls pcap_breakloop; 0: never
  Nucleos,       \* processors that receive packets
  MaxChegadas,   \* bound on the packets that arrive
  MaxQuedas,     \* bound on the times the interface goes down
  Nada           \* no packet

ASSUME CapturaAssumption ==
  /\ cc \in Nat \ {0} /\ {cnt, Quebra, MaxChegadas, MaxQuedas} \subseteq Nat
  /\ IsFiniteSet(Nucleos) /\ Nada \notin 0..(cc - 1)

VARIABLES
  anel,          \* the frames, with their packets from when they are taken
  cabeca,        \* frame the kernel takes next
  filtro,        \* filter on the socket: "nenhum", "total" or "novo"
  nucleo,        \* packet a processor has let through the filter and not queued yet
  copia,         \* frame a processor has taken and is copying its packet into
  rede,          \* the interface, and counts of packets and of its failures
  h,             \* the pcap_t, with the control point of its only thread
  tratados       \* packets the handler was called with

vars == <<anel, cabeca, filtro, nucleo, copia, rede, h, tratados>>

Pacote == [n : 1..MaxChegadas, casa : BOOLEAN]
Livre == Nada
-----------------------------------------------------------------------------
(***************************************************************************)
(* The kernel, as the library sees it.                                     *)
(***************************************************************************)
Passa(p) == filtro = "nenhum" \/ (filtro = "novo" /\ p.casa)

Chega(c) ==
  /\ nucleo[c] = Nada /\ copia[c] = Nada
  /\ rede.estado = "ativa" /\ rede.chegou < MaxChegadas
  /\ rede' = [rede EXCEPT !.chegou = @ + 1]
  /\ \E casa \in BOOLEAN :
       LET p == [n |-> rede.chegou + 1, casa |-> casa]
       IN nucleo' = IF Passa(p) THEN [nucleo EXCEPT ![c] = p] ELSE nucleo
  /\ UNCHANGED <<anel, cabeca, filtro, copia, h, tratados>>

\* Under the lock of the socket the next frame is taken, if the library gave it
\* back and no processor is copying into it; otherwise the packet is counted as
\* dropped.
Reserva(c) ==
  /\ nucleo[c] # Nada
  /\ nucleo' = [nucleo EXCEPT ![c] = Nada]
  /\ IF anel[cabeca] = Livre
       THEN /\ anel' = [anel EXCEPT ![cabeca] = nucleo[c]]
            /\ copia' = [copia EXCEPT ![c] = cabeca]
            /\ cabeca' = (cabeca + 1) % cc
            /\ UNCHANGED rede
       ELSE /\ rede' = [rede EXCEPT !.perdidos = @ + 1]
            /\ UNCHANGED <<anel, cabeca, copia>>
  /\ UNCHANGED <<filtro, h, tratados>>

\* The packet is in the frame: the status is set and a sleeping poll() looks again.
Publica(c) ==
  /\ copia[c] # Nada
  /\ copia' = [copia EXCEPT ![c] = Nada]
  /\ UNCHANGED <<anel, cabeca, filtro, nucleo, rede, h, tratados>>

Copiando(o) == \E c \in Nucleos : copia[c] = o

\* The status of the frame is not TP_STATUS_KERNEL.
Publicado(o) == anel[o] # Livre /\ ~Copiando(o)

\* The interface goes down or disappears: ENETDOWN waits on the socket.
Derruba ==
  /\ rede.estado = "ativa" /\ rede.quedas < MaxQuedas
  /\ \E e \in {"inativa", "removida"} :
       rede' = [rede EXCEPT !.estado = e, !.erro = TRUE, !.quedas = @ + 1]
  /\ UNCHANGED <<anel, cabeca, filtro, nucleo, copia, h, tratados>>

Levanta ==
  /\ rede.estado = "inativa"
  /\ rede' = [rede EXCEPT !.estado = "ativa"]
  /\ UNCHANGED <<anel, cabeca, filtro, nucleo, copia, h, tratados>>

\* poll() looks at the status of the frame taken last.
POLLIN == Publicado((cabeca - 1) % cc)
-----------------------------------------------------------------------------
(***************************************************************************)
(* pcap_setfilter_linux.                                                   *)
(***************************************************************************)
Anterior(o) == IF o - 1 < 0 THEN cc - 1 ELSE o - 1

\* pcap_setfilter fails, and with it the program, before it reads a packet.
SemFiltro == h' = [h EXCEPT !.pc = "semfiltro"]

\* set_kernel_filter keeps everything out before it attaches the new filter, if
\* the kernel lets it, and drains the queue of the socket, which is not the ring.
\* An error of fcntl, or any that recv meets, as an ENETDOWN that waits on the
\* socket, is fatal.
FiltroTotal ==
  /\ h.pc = "ativado"
  /\ \/ /\ filtro' = filtro \/ (filtro' = "total" /\ ~rede.erro)
        /\ h' = [h EXCEPT !.pc = "anexa", !.filter_in_userland = TRUE]
        /\ UNCHANGED rede
     \/ /\ filtro' \in {"total", "nenhum"}
        /\ rede' = [rede EXCEPT !.erro = FALSE]
        /\ SemFiltro
  /\ UNCHANGED <<anel, cabeca, nucleo, copia, tratados>>

\* The kernel takes the filter, or reset_kernel_filter leaves it all to the
\* library; when that fails too the error is fatal.
Anexa ==
  /\ h.pc = "anexa"
  /\ \/ /\ filtro' = "novo"
        /\ h' = [h EXCEPT !.pc = "conta", !.filter_in_userland = FALSE,
                          !.n = 0, !.pos = Anterior(h.offset)]
     \/ /\ filtro' = "nenhum"
        /\ h' = [h EXCEPT !.pc = "le"]
     \/ /\ UNCHANGED filtro
        /\ SemFiltro
  /\ UNCHANGED <<anel, cabeca, nucleo, copia, rede, tratados>>

\* Mutant: what is in the ring already is not filtered again.
FimConta_SemPassado(n) == [h EXCEPT !.pc = "le"]

\* n free frames were found; the packets of the others passed the old filter.
FimConta(n) ==
  [h EXCEPT !.pc = "le", !.filter_in_userland = TRUE,
            !.blocks_to_filter_in_userland = cc - (IF n # 0 THEN n - 1 ELSE n)]

\* One step of the walk backward over the ring, which the kernel goes on filling.
Conta ==
  /\ h.pc = "conta"
  /\ LET o == Anterior(h.pos)
     IN h' = IF h.n = cc \/ Publicado(o) THEN FimConta(h.n)
             ELSE [h EXCEPT !.n = @ + 1, !.pos = o]
  /\ UNCHANGED <<anel, cabeca, filtro, nucleo, copia, rede, tratados>>
-----------------------------------------------------------------------------
(***************************************************************************)
(* pcap_loop, pcap_read_linux_mmap_v2, pcap_wait_for_frames_mmap.          *)
(***************************************************************************)
packet_mmap_acquire(o) == Publicado(o)

\* read_op: wait only if the current frame is the kernel's.
Le ==
  /\ h.pc = "le"
  /\ h' = [h EXCEPT !.pc = IF packet_mmap_acquire(h.offset) THEN "quadro" ELSE "espera",
                    !.pkts = 0]
  /\ UNCHANGED <<anel, cabeca, filtro, nucleo, copia, rede, tratados>>

\* After ENETDOWN: does the device exist, and is it up?
VerificaInterface(g) ==
  CASE rede.estado = "removida" -> [g EXCEPT !.pc = "erro"]
    [] rede.estado = "ativa"    -> [g EXCEPT !.netdown = FALSE]
    [] OTHER                    -> [g EXCEPT !.netdown = TRUE]

\* Mutant: an interface that went down ends the capture.
EsperaErro_Fatal ==
  /\ h.pc = "espera" /\ rede.erro
  /\ rede' = [rede EXCEPT !.erro = FALSE]
  /\ h' = [h EXCEPT !.pc = "erro"]
  /\ UNCHANGED <<anel, cabeca, filtro, nucleo, copia, tratados>>

\* POLLERR, alone or with POLLIN: reading the error clears it.
EsperaErro ==
  /\ h.pc = "espera" /\ rede.erro
  /\ rede' = [rede EXCEPT !.erro = FALSE]
  /\ h' = VerificaInterface(h)
  /\ UNCHANGED <<anel, cabeca, filtro, nucleo, copia, tratados>>

\* poll(), getsockopt() or ioctl() fails for another reason, or the socket hangs up.
EsperaFalha ==
  /\ h.pc = "espera"
  /\ h' = [h EXCEPT !.pc = "erro"]
  /\ rede' = [rede EXCEPT !.falha = TRUE]
  /\ UNCHANGED <<anel, cabeca, filtro, nucleo, copia, tratados>>

EsperaPacote ==
  /\ h.pc = "espera" /\ ~rede.erro /\ POLLIN
  /\ h' = [h EXCEPT !.pc = "quadro"]
  /\ UNCHANGED <<anel, cabeca, filtro, nucleo, copia, rede, tratados>>

\* While netdown is set poll() times out after a millisecond; else it blocks.
EsperaTempo ==
  /\ h.pc = "espera" /\ ~rede.erro /\ ~POLLIN /\ h.netdown
  /\ h' = VerificaInterface(h)
  /\ UNCHANGED <<anel, cabeca, filtro, nucleo, copia, rede, tratados>>

\* Mutant: every read may hand over the full count again.
pcap_loop_SemDesconto(g) ==
  [g EXCEPT !.pc = IF cnt > 0 /\ g.cnt - g.pkts <= 0 THEN "fim" ELSE "le"]

\* The read returned g.pkts packets.
pcap_loop(g) ==
  IF cnt = 0 THEN [g EXCEPT !.pc = "le"]
  ELSE [g EXCEPT !.pc = IF g.cnt - g.pkts <= 0 THEN "fim" ELSE "le", !.cnt = @ - g.pkts]

\* Top of the while of the read.
Quadro ==
  /\ h.pc = "quadro"
  /\ h' = IF (cnt = 0 \/ h.pkts < h.cnt) /\ packet_mmap_acquire(h.offset)
            THEN [h EXCEPT !.pc = "trata"]
            ELSE pcap_loop(h)
  /\ UNCHANGED <<anel, cabeca, filtro, nucleo, copia, rede, tratados>>

\* pcap_handle_packet_mmap up to the return of the handler.  Every handler of the
\* repository ignores a packet of another Ethertype; intrusos counts them.
Trata ==
  /\ h.pc = "trata"
  /\ LET p == anel[h.offset]
         entrega == ~h.filter_in_userland \/ p.casa
     IN /\ h' = [h EXCEPT !.pc = "solta", !.ret = entrega /\ p.casa,
                          !.pkts = IF entrega THEN @ + 1 ELSE @,
                          !.break_loop = @ \/ (p.casa /\ Len(tratados) + 1 = Quebra),
                          !.intrusos = IF entrega /\ ~p.casa THEN @ + 1 ELSE @]
        /\ tratados' = IF p.casa THEN Append(tratados, p) ELSE tratados
  /\ UNCHANGED <<anel, cabeca, filtro, nucleo, copia, rede>>

\* The kernel's offsets in the frame make no sense: the read returns -1, the frame
\* is not given back.
TrataCorrompido ==
  /\ h.pc = "trata"
  /\ h' = [h EXCEPT !.pc = "erro"]
  /\ rede' = [rede EXCEPT !.falha = TRUE]
  /\ UNCHANGED <<anel, cabeca, filtro, nucleo, copia, tratados>>

\* Mutant: pcap_breakloop is noticed at the next read only.
Continua_SoNaLeitura(g) == g

\* The break is noticed as soon as the frame has been given back.
Continua(g) == IF g.break_loop THEN [g EXCEPT !.break_loop = FALSE, !.pc = "fim"] ELSE g

\* Mutant: the position runs past the last frame.
Seguinte_SemVolta(o) == o + 1

Seguinte(o) == IF o + 1 >= cc THEN 0 ELSE o + 1

\* Mutant: the frame of a packet the library filtered out is not given back.
Solta_SoEntregue ==
  /\ h.pc = "solta"
  /\ anel' = IF h.ret THEN [anel EXCEPT ![h.offset] = Livre] ELSE anel
  /\ LET b == h.blocks_to_filter_in_userland
     IN h' = Continua([h EXCEPT !.pc = "quadro", !.ret = FALSE,
                        !.blocks_to_filter_in_userland = IF b > 0 THEN b - 1 ELSE b,
                        !.filter_in_userland = IF b = 1 THEN FALSE ELSE @,
                        !.offset = Seguinte(@)])
  /\ UNCHANGED <<cabeca, filtro, nucleo, copia, rede, tratados>>

\* packet_mmap_release, the count of frames to filter, the next frame.
Solta ==
  /\ h.pc = "solta"
  /\ anel' = [anel EXCEPT ![h.offset] = Livre]
  /\ LET b == h.blocks_to_filter_in_userland
     IN h' = Continua([h EXCEPT !.pc = "quadro", !.ret = FALSE,
                        !.blocks_to_filter_in_userland = IF b > 0 THEN b - 1 ELSE b,
                        !.filter_in_userland = IF b = 1 THEN FALSE ELSE @,
                        !.offset = Seguinte(@)])
  /\ UNCHANGED <<cabeca, filtro, nucleo, copia, rede, tratados>>
-----------------------------------------------------------------------------
\* After pcap_activate: an empty ring that takes every packet of the interface.
Init ==
  /\ anel = [o \in 0..(cc - 1) |-> Livre] /\ cabeca = 0
  /\ filtro = "nenhum"
  /\ nucleo = [c \in Nucleos |-> Nada] /\ copia = [c \in Nucleos |-> Nada]
  /\ rede = [estado |-> "ativa", erro |-> FALSE, falha |-> FALSE,
             chegou |-> 0, perdidos |-> 0, quedas |-> 0]
  /\ h = [pc |-> "ativado", offset |-> 0, filter_in_userland |-> FALSE,
          blocks_to_filter_in_userland |-> 0, break_loop |-> FALSE, netdown |-> FALSE,
          n |-> 0, pos |-> 0, pkts |-> 0, cnt |-> cnt, ret |-> FALSE, intrusos |-> 0]
  /\ tratados = <<>>

Biblioteca ==
  \/ FiltroTotal \/ Anexa \/ Conta
  \/ Le \/ EsperaErro \/ EsperaPacote \/ EsperaTempo \/ Quadro \/ Trata \/ Solta

Falha == EsperaFalha \/ TrataCorrompido

Next ==
  \/ \E c \in Nucleos : Chega(c) \/ Reserva(c) \/ Publica(c)
  \/ Derruba \/ Levanta
  \/ Biblioteca \/ Falha

\* The thread runs, and the kernel finishes what it has begun to receive.
Fairness ==
  /\ WF_vars(Biblioteca)
  /\ \A c \in Nucleos : WF_vars(Reserva(c)) /\ WF_vars(Publica(c))

Spec == Init /\ [][Next]_vars /\ Fairness
-----------------------------------------------------------------------------
TypeOK ==
  /\ anel \in [0..(cc - 1) -> Pacote \union {Livre}]
  /\ cabeca \in 0..(cc - 1)
  /\ filtro \in {"nenhum", "total", "novo"}
  /\ nucleo \in [Nucleos -> Pacote \union {Nada}]
  /\ copia \in [Nucleos -> 0..(cc - 1) \union {Nada}]
  /\ h.offset \in 0..(cc - 1) /\ h.pos \in 0..(cc - 1)
  /\ h.blocks_to_filter_in_userland \in 0..cc
  /\ tratados \in Seq(Pacote)

\* The frames taken and not given back, from the library's position on.
NaFila ==
  LET ocupados == Cardinality({o \in DOMAIN anel : anel[o] # Livre})
  IN [i \in 1..ocupados |-> anel[(h.offset + i - 1) % cc]]

Fila == INSTANCE FilaCaptura WITH
  Capacidade <- cc, fila <- NaFila, entregue <- h.ret, perdidos <- rede.perdidos

(* The ring of status words, walked by the kernel and by the library at      *)
(* their own pace, is a bounded queue: order is kept, nothing is handed over *)
(* twice or after the break, and only a full ring loses packets.             *)
ImplementaFila == Fila!Spec

(* The kernel decides whether poll() blocks by the frame it took last, the   *)
(* library whether to call poll() by the frame it reads next; nothing but    *)
(* the status words ties the two, and frames are published in any order.     *)
(* The library sleeps on a ring with a packet to read only while the frame   *)
(* taken last is being copied, so that a wake-up is still to come; and it is *)
(* woken for a frame it does not look at only while its own is being copied. *)
DespertaExato ==
  /\ h.pc = "espera" /\ ~POLLIN /\ (\E o \in 0..(cc - 1) : Publicado(o))
       => Copiando((cabeca - 1) % cc)
  /\ h.pc \in {"espera", "quadro"} /\ POLLIN
       => packet_mmap_acquire(h.offset) \/ Copiando(h.offset)

(* Packets the filter rejects do reach the handler: the count of frames to   *)
(* filter again misses what a processor had let through under the old filter *)
(* and queued later.  It misses no more than one packet per processor.       *)
PoucosIntrusos == h.intrusos <= Cardinality(Nucleos)

(* pcap_loop with a count, as le_provas_rede calls it, ends after exactly    *)
(* that many calls of the handler however they are spread over reads, but    *)
(* the intruders are among them.                                             *)
ContagemExata ==
  /\ cnt > 0 => Len(tratados) + h.intrusos <= cnt
  /\ h.pc = "fim" => Len(tratados) + h.intrusos = cnt

(* A packet once in the ring is handled unless pcap_setfilter failed, the    *)
(* loop was told to stop, or it ended with an error because the interface is *)
(* gone or a system call failed: neither a wake-up that comes before the     *)
(* frame is published, nor frames published out of order, nor an interface   *)
(* that goes down and comes back leaves it there.                            *)
TodoQuadroSolto ==
  \A o \in 0..(cc - 1) :
    anel[o] # Livre ~>
      \/ anel[o] = Livre
      \/ h.pc = "semfiltro"
      \/ h.pc = "fim" /\ (Len(tratados) = Quebra \/ (cnt > 0 /\ h.cnt <= 0))
      \/ h.pc = "erro" /\ (rede.estado = "removida" \/ rede.falha)
=============================================================================
